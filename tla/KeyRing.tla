------------------------------- MODULE KeyRing --------------------------------
(***************************************************************************)
(* What key rotation promises the servers: a signing key and the keys      *)
(* retained to verify tokens signed before.  The signing key is retained   *)
(* before a newer one takes its place, and no retained key is dropped.  A  *)
(* server takes the signing key and the retained keys at two moments and   *)
(* keeps both until it is restarted; servers are restarted one by one.     *)
(***************************************************************************)
EXTENDS Integers

CONSTANTS
  Server,    \* server processes
  Keys,      \* keys, each with an id that grows with the time it was generated
  FirstKey   \* the key the deployment starts with

VARIABLES
  signing,   \* the key a server that starts now signs with
  retained,  \* the keys it will publish beside it
  server,    \* server[s]: the key s signs with and the keys of its /jwks
  signed     \* history: keys that have signed tokens

vars == <<signing, retained, server, signed>>

Down == [pc |-> "down", key |-> FirstKey, published |-> {}]

Init ==
  /\ signing = FirstKey
  /\ retained = {}
  /\ server = [s \in Server |-> Down]
  /\ signed = {}

Stage ==
  /\ retained' = retained \cup {signing}
  /\ UNCHANGED <<signing, server, signed>>

Swap(k) ==
  /\ signing \in retained
  /\ \A j \in retained : j.id < k.id
  /\ signing' = k
  /\ UNCHANGED <<retained, server, signed>>

LoadSigner(s) ==
  /\ server[s].pc = "down"
  /\ server' = [server EXCEPT ![s] =
       [pc |-> "loading", key |-> signing, published |-> {signing}]]
  /\ UNCHANGED <<signing, retained, signed>>

\* Mutant: a restarted server publishes no key but its own.
PublishOwnKey(s) ==
  /\ server[s].pc = "loading"
  /\ server' = [server EXCEPT ![s].pc = "up"]
  /\ UNCHANGED <<signing, retained, signed>>

PublishJwks(s) ==
  /\ server[s].pc = "loading"
  /\ server' = [server EXCEPT ![s] =
       [pc |-> "up", key |-> server[s].key,
        published |-> {server[s].key} \cup retained]]
  /\ UNCHANGED <<signing, retained, signed>>

SignToken(s) ==
  /\ server[s].pc = "up"
  /\ signed' = signed \cup {server[s].key}
  /\ UNCHANGED <<signing, retained, server>>

StopServer(s) ==
  /\ server[s].pc # "down"
  /\ server' = [server EXCEPT ![s] = Down]
  /\ UNCHANGED <<signing, retained, signed>>

Serve(s) == LoadSigner(s) \/ PublishJwks(s) \/ SignToken(s) \/ StopServer(s)

Next ==
  \/ Stage
  \/ \E k \in Keys : Swap(k)
  \/ \E s \in Server : Serve(s)

Spec == Init /\ [][Next]_vars
===============================================================================
