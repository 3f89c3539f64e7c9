---------------------------- MODULE ExchangeClient ----------------------------
(***************************************************************************)
(* `sts-cli exchange' and `sts-cli token verify' (crates/sts-cli) against  *)
(* the replicas of an STS whose key is rotated and which are restarted one *)
(* by one, over connections that break.  The exchange reads the key file   *)
(* that `dpop key generate' may be writing, sends one request, never       *)
(* retries, waits for the answer without a timeout, and fetches the keys   *)
(* to verify the minted token with only after the token was minted.  A     *)
(* user or a script runs it again.                                         *)
(*                                                                         *)
(* The STS is the key ring of KeyRing, its token endpoint the outcomes of  *)
(* TokenExchange in one step, its replay store what ReplayMemory and       *)
(* ReplayFile promise of a credential that has not expired.                *)
(***************************************************************************)
EXTENDS SecretFiles

CONSTANTS
  Server,       \* replicas of the STS
  FirstKey,     \* its key before the first rotation
  ForeignKey    \* the key of another STS, which may use the same kid

\* The keys of this STS, whose ids grow with the time they are generated.
RingKeys == {FirstKey} \cup UNION {Script[x].newKeys : x \in DOMAIN Script}

Tokens == [actor : Nat, key : RingKeys \cup {ForeignKey}, run : Nat, jkt : Nat \cup {None},
           late : BOOLEAN]

\* Another STS has another key, None stands beside tokens, key sets and proofs,
\* and an exchange that signs its proof reads a holder key file.
ASSUME ExchangeClientAssumption ==
  /\ \A k \in RingKeys : k.id \in Int
  /\ ForeignKey \notin RingKeys
  /\ None \notin Tokens
  /\ \A x \in DOMAIN Script :
       /\ Script[x].maxRuns \in Nat
       /\ Script[x].maxFaults \in Nat
       /\ Script[x].maxActors \in Nat \ {0}
       /\ Script[x].maxAssertions \in Nat \ {0}
       /\ \A p \in Command : Script[x].args[p].kind = "exchange" =>
            /\ Script[x].args[p].dpop \in {"none", "file", "key"}
            /\ Script[x].args[p].dpop = "key" => Script[x].args[p].holder \in Path

VARIABLES
  signing, retained, server, signed,   \* the key ring
  seen,       \* seen[s]: credentials that s has put into the replay store
  expired,    \* credentials past their exp, which leeway may still admit
  actor,      \* the actor token in the actor token file
  assertion,  \* the client assertion in the client assertion file
  cmd,        \* cmd[p]: how far the run of command p got
  net,        \* requests and responses on their way
  runs,       \* number of runs begun
  faults,     \* number of faults so far
  minted,     \* history: tokens minted
  printed     \* tokens printed, which `token verify' may be given

ring == <<signing, retained, server, signed>>
sts == <<ring, seen>>
issued == <<actor, assertion, expired>>

vars == <<script, files, ring, seen, issued, cmd, net, runs, faults, minted, printed>>

\* What the script is run with: the replicas that are started, the keys the STS
\* is rotated to, and the bounds on the exchanges and verifications run, on the
\* actor tokens and client assertions issued, and on what goes wrong: broken
\* connections, failing stores and signers, restarts, and credentials that
\* expire, of the kinds that may.
Replicas == Script[script].replicas
NewKeys == Script[script].newKeys
MaxRuns == Script[script].maxRuns
MaxActors == Script[script].maxActors
MaxAssertions == Script[script].maxAssertions
MaxFaults == Script[script].maxFaults
Expiring == Script[script].expiring

Ring == INSTANCE KeyRing WITH Keys <- UNION {Script[x].newKeys : x \in DOMAIN Script}

NoRun == [pc |-> "idle", run |-> 0, holder |-> None, token |-> None, jwks |-> None]

Init ==
  /\ script \in DOMAIN Script
  /\ FilesInit
  /\ Ring!Init
  /\ seen = [s \in Server |-> {}]
  /\ actor = 1
  /\ assertion = 1
  /\ expired = {}
  /\ cmd = [p \in Command |-> NoRun]
  /\ net = {}
  /\ runs = 0
  /\ faults = 0
  /\ minted = {}
  /\ printed = {}

-------------------------------------------------------------------------------
(***************************************************************************)
(* The client.  A run ends in one of these ways.                           *)
(***************************************************************************)

\* usage: nothing was sent; lost: no answer; denied: an OAuth error or no JSON;
\* nokeys: the JWKS could not be had; unverified, unbound: the checks on the
\* minted token failed; ok.
Endings == {"usage", "lost", "denied", "nokeys", "unverified", "unbound", "ok"}

End(p, how) == cmd' = [cmd EXCEPT ![p].pc = how]

MayRun(p) == cmd[p].pc \in {"idle"} \cup Endings /\ runs < MaxRuns

\* The holder key an exchange signs its proof with: the file is there and
\* parses.
Whole(path) == file[path] # None /\ file[path].whole

\* build_exchange_http_request: what it refuses is refused before anything is
\* sent.
Usable(p) ==
  /\ Args(p).endpoint # None
  /\ Args(p).dpop = "key" => Whole(Args(p).holder)

\* Mutant: the jti of a proof is a property of the holder key.
ProofReused(p) ==
  CASE Args(p).dpop = "none" -> None
    [] Args(p).dpop = "file" -> [jti |-> 0, jkt |-> 0]
    [] Args(p).dpop = "key"  -> [jti |-> -1, jkt |-> file[Args(p).holder].key]

\* A fresh proof has a jti of its own, a proof from a file is sent as it is and
\* is bound to a key that no command has.
Proof(p) ==
  CASE Args(p).dpop = "none" -> None
    [] Args(p).dpop = "file" -> [jti |-> 0, jkt |-> 0]
    [] Args(p).dpop = "key"  -> [jti |-> runs + 1, jkt |-> file[Args(p).holder].key]

RefuseUsage(p) ==
  /\ Args(p).kind = "exchange" /\ MayRun(p)
  /\ ~Usable(p)
  /\ runs' = runs + 1
  /\ cmd' = [cmd EXCEPT ![p] = [NoRun EXCEPT !.pc = "usage", !.run = runs + 1]]
  /\ UNCHANGED <<script, files, sts, issued, net, faults, minted, printed>>

SendExchange(p) ==
  /\ Args(p).kind = "exchange" /\ MayRun(p)
  /\ Usable(p)
  /\ runs' = runs + 1
  /\ cmd' = [cmd EXCEPT ![p] =
       [NoRun EXCEPT !.pc = "sent", !.run = runs + 1,
          !.holder = IF Args(p).dpop = "key" THEN file[Args(p).holder].key ELSE None]]
  /\ net' = net \cup {[type |-> "request", from |-> p, run |-> runs + 1,
                       to |-> Args(p).endpoint, actor |-> actor,
                       assertion |-> IF Args(p).assertion THEN assertion ELSE None,
                       proof |-> Proof(p)]}
  /\ UNCHANGED <<script, files, sts, issued, faults, minted, printed>>

\* Mutant: the status of the response is not looked at.
ReceiveAnyJson(p, m) ==
  /\ cmd[p].pc = "sent" /\ m.run = cmd[p].run
  /\ net' = net \ {m}
  /\ cmd' = [cmd EXCEPT ![p].pc = IF m.type = "page" THEN "denied" ELSE "keys",
                        ![p].token = IF m.type = "token" THEN m.token ELSE None]
  /\ UNCHANGED <<script, files, sts, issued, runs, faults, minted, printed>>

\* The status and the body of the response are read.
ReceiveResponse(p, m) ==
  /\ cmd[p].pc = "sent" /\ m.run = cmd[p].run
  /\ net' = net \ {m}
  /\ cmd' = [cmd EXCEPT ![p].pc = IF m.type = "token" THEN "keys" ELSE "denied",
                        ![p].token = IF m.type = "token" THEN m.token ELSE None]
  /\ UNCHANGED <<script, files, sts, issued, runs, faults, minted, printed>>

\* The connection breaks or the process is killed: a request or a response on
\* its way is lost, or is delivered all the same.
ExchangeCut(p) ==
  /\ cmd[p].pc \in {"sent", "keys"}
  /\ faults < MaxFaults
  /\ faults' = faults + 1
  /\ End(p, "lost")
  /\ net' \in {net, {m \in net : m.run # cmd[p].run}}
  /\ UNCHANGED <<script, files, sts, issued, runs, minted, printed>>

\* A request or a response is swallowed on its way, or a replica never gets to
\* answer: the client, which has no timeout, waits until it is killed.
Stall(m) ==
  /\ faults < MaxFaults
  /\ faults' = faults + 1
  /\ net' = net \ {m}
  /\ UNCHANGED <<script, files, sts, issued, cmd, runs, minted, printed>>

-------------------------------------------------------------------------------
\* token verify reads a token that an exchange printed.
BeginVerify(p) ==
  /\ Args(p).kind = "verify" /\ MayRun(p)
  /\ \E t \in printed :
       cmd' = [cmd EXCEPT ![p] = [NoRun EXCEPT !.pc = "keys", !.run = runs + 1, !.token = t]]
  /\ runs' = runs + 1
  /\ UNCHANGED <<script, files, sts, issued, net, faults, minted, printed>>

\* A document that parse_exchange_jwks_document refuses, none where one is
\* required, or a URL where nobody answers.
NoJwks(p) ==
  \/ Args(p).jwks = "bad"
  \/ Args(p).jwks = "none" /\ Args(p).kind = "verify"
  \/ Args(p).jwks = "url" /\ \A s \in Server : server[s].pc # "up"

\* load_exchange_jwks and load_jwks_for_verification: from a file saved before
\* the first rotation, from whichever replica answers, or not at all.
LoadJwks(p) ==
  /\ cmd[p].pc = "keys"
  /\ \/ /\ Args(p).jwks = "none" /\ Args(p).kind = "exchange"
        /\ End(p, "check")
     \/ /\ Args(p).jwks = "file"
        /\ cmd' = [cmd EXCEPT ![p].pc = "check", ![p].jwks = [of |-> FirstKey, keys |-> {FirstKey}]]
     \/ /\ Args(p).jwks = "url"
        /\ \E s \in Server :
             /\ server[s].pc = "up"
             /\ cmd' = [cmd EXCEPT ![p].pc = "check",
                          ![p].jwks = [of |-> server[s].key, keys |-> server[s].published]]
     \/ NoJwks(p) /\ End(p, "nokeys")
  /\ UNCHANGED <<script, files, sts, issued, net, runs, faults, minted, printed>>

\* Mutant: a key with the token's kid is enough.
VerifiesByKid(token, keys) == \E k \in keys : k.kid = token.key.kid

\* verify_claims_against_jwks: the key found by kid has to have signed.
Verifies(token, keys) ==
  \E k \in keys : k.kid = token.key.kid /\ k = token.key

\* Mutant: a token without cnf is taken for one bound to the holder key.
HolderMatchesIfPresent(p, token) ==
  cmd[p].holder # None => token.jkt \in {cmd[p].holder, None}

HolderMatches(p, token) ==
  cmd[p].holder # None => token.jkt = cmd[p].holder

\* --output claims prints the claims only, with --print-token too.
Prints(p) == Args(p).kind = "exchange" /\ Args(p).printToken /\ Args(p).output # "claims"

\* render_exchange_success and verify_token, once the keys are there.
CheckToken(p) ==
  LET token == cmd[p].token
      how   == CASE cmd[p].jwks # None /\ ~Verifies(token, cmd[p].jwks.keys) -> "unverified"
                 [] cmd[p].jwks = None \/ Verifies(token, cmd[p].jwks.keys) ->
                      IF HolderMatches(p, token) THEN "ok" ELSE "unbound"
  IN  /\ cmd[p].pc = "check"
      /\ End(p, how)
      /\ printed' = IF how = "ok" /\ Prints(p) THEN printed \cup {token} ELSE printed
      /\ UNCHANGED <<script, files, sts, issued, net, runs, faults, minted>>

-------------------------------------------------------------------------------
(***************************************************************************)
(* The STS.  Its replicas share a replay directory or keep a store each.   *)
(***************************************************************************)

Shared == Script[script].sharedReplay

\* The credentials with a record in the store that s uses, unless it was dropped.
Recorded(s) == IF Shared THEN UNION {seen[r] : r \in Server} ELSE seen[s]

\* What check_and_record accepts: a credential without a record, and one that
\* has expired, whose record a sweep or another caller may have dropped, or two
\* racing replicas replaced.  Before that one caller wins (FileOneWinner).
Free(s, id) == id \notin Recorded(s) \/ id \in expired

\* The answer to a run that is over goes nowhere.
Reply(q, m) ==
  net' = (net \ {q}) \cup (IF cmd[q.from].run = q.run /\ cmd[q.from].pc = "sent"
                           THEN {m} ELSE {})

Denial(q) == [type |-> "error", run |-> q.run]

Burn(s, ids) == seen' = [seen EXCEPT ![s] = @ \cup ids]

ActorId(q) == <<"actor", q.actor>>

ClientIds(q) == IF q.assertion = None THEN {} ELSE {<<"client", q.assertion>>}

ProofIds(q) == IF q.proof = None THEN {} ELSE {<<"proof", q.proof.jti>>}

Credentials(q) == {ActorId(q)} \cup ClientIds(q) \cup ProofIds(q)

\* What is recorded before id: the actor token, then the client assertion, then
\* the proof.
Before(q, id) ==
  CASE id[1] = "actor"  -> {}
    [] id[1] = "client" -> {ActorId(q)}
    [] id[1] = "proof"  -> {ActorId(q)} \cup ClientIds(q)

Incoming(s, q) == q.type = "request" /\ q.to = "sts" /\ server[s].pc = "up"

\* A replayed credential is refused once those before it are recorded: a
\* replayed actor token burns nothing, a replayed proof burns the other two.
HandleReplayed(s, q) ==
  /\ Incoming(s, q)
  /\ \E id \in Credentials(q) \cap Recorded(s) :
       /\ \A c \in Before(q, id) : Free(s, c)
       /\ Burn(s, Before(q, id))
  /\ Reply(q, Denial(q))
  /\ UNCHANGED <<script, files, ring, issued, cmd, runs, faults, minted, printed>>

\* A credential is past its leeway too: a gate refuses, nothing is recorded.
HandleLapsed(s, q) ==
  /\ Incoming(s, q)
  /\ Credentials(q) \cap expired # {}
  /\ Reply(q, Denial(q))
  /\ UNCHANGED <<script, files, sts, issued, cmd, runs, faults, minted, printed>>

\* exp is at most that of the actor token: a late token is expired when minted.
Token(q, key, jkt) ==
  [actor |-> q.actor, key |-> key, run |-> q.run, jkt |-> jkt,
   late |-> ActorId(q) \in expired]

Jkt(q) == IF q.proof = None THEN None ELSE q.proof.jkt

Fresh(s, q) == \A id \in Credentials(q) : Free(s, id)

Mint(s, q) ==
  /\ Ring!SignToken(s)
  /\ minted' = minted \cup {Token(q, server[s].key, Jkt(q))}
  /\ Reply(q, [type |-> "token", run |-> q.run, token |-> Token(q, server[s].key, Jkt(q))])

\* Mutant: the credentials are recorded by a failing request only.
HandleExchangeUnrecorded(s, q) ==
  /\ Incoming(s, q) /\ Fresh(s, q)
  /\ Mint(s, q)
  /\ UNCHANGED <<script, files, seen, issued, cmd, runs, faults, printed>>

HandleExchange(s, q) ==
  /\ Incoming(s, q) /\ Fresh(s, q)
  /\ Burn(s, Credentials(q))
  /\ Mint(s, q)
  /\ UNCHANGED <<script, files, issued, cmd, runs, faults, printed>>

\* The store is full or fails, or the signer fails, once ids are recorded.
HandleFails(s, q) ==
  /\ Incoming(s, q)
  /\ faults < MaxFaults
  /\ faults' = faults + 1
  /\ \E ids \in SUBSET Credentials(q) :
       /\ \A id \in ids : Free(s, id) /\ Before(q, id) \subseteq ids
       /\ Burn(s, ids)
  /\ Reply(q, Denial(q))
  /\ UNCHANGED <<script, files, ring, issued, cmd, runs, minted, printed>>

\* A gate refuses the request, nothing is recorded; or a proxy answers, with a
\* page that is not JSON, or because no replica is up.
HandleRefused(q) ==
  /\ q.type = "request" /\ q.to = "sts"
  /\ \/ \A s \in Server : server[s].pc # "up"
     \/ faults < MaxFaults
  /\ faults' = IF faults < MaxFaults THEN faults + 1 ELSE faults
  /\ \E kind \in {"error", "page"} : Reply(q, [type |-> kind, run |-> q.run])
  /\ UNCHANGED <<script, files, sts, issued, cmd, runs, minted, printed>>

\* Another STS: its tokens are signed with its key and may be bound to no
\* holder.
HandleElsewhere(q) ==
  /\ q.type = "request" /\ q.to = "other"
  /\ \E jkt \in {None} \cup (IF q.proof = None THEN {} ELSE {q.proof.jkt}) :
       Reply(q, [type |-> "token", run |-> q.run,
                 token |-> Token(q, ForeignKey, jkt)])
  /\ UNCHANGED <<script, files, sts, issued, cmd, runs, faults, minted, printed>>

\* Key rotation, and the restart of a replica, which forgets a store of its own.
RotateKey ==
  /\ NewKeys # {}
  /\ Ring!Stage \/ \E k \in NewKeys : Ring!Swap(k)
  /\ UNCHANGED <<script, files, seen, issued, cmd, net, runs, faults, minted, printed>>

StartReplica(s) ==
  /\ s \in Replicas
  /\ Ring!LoadSigner(s) \/ Ring!PublishJwks(s)
  /\ UNCHANGED <<script, files, seen, issued, cmd, net, runs, faults, minted, printed>>

StopReplica(s) ==
  /\ faults < MaxFaults
  /\ faults' = faults + 1
  /\ Ring!StopServer(s)
  /\ seen' = IF Shared THEN seen ELSE [seen EXCEPT ![s] = {}]
  /\ UNCHANGED <<script, files, issued, cmd, net, runs, minted, printed>>

\* The agent puts a fresh actor token, or a fresh client assertion, into its file.
IssueActor ==
  /\ actor < MaxActors
  /\ actor' = actor + 1
  /\ UNCHANGED <<script, files, sts, assertion, expired, cmd, net, runs, faults, minted, printed>>

IssueAssertion ==
  /\ assertion < MaxAssertions
  /\ assertion' = assertion + 1
  /\ UNCHANGED <<script, files, sts, actor, expired, cmd, net, runs, faults, minted, printed>>

\* The credentials issued and signed so far; 0 is the proof that is in a file.
Perishable ==
  {<<"actor", n>> : n \in 1 .. actor} \cup {<<"client", n>> : n \in 1 .. assertion}
    \cup {<<"proof", n>> : n \in 0 .. runs}

Expire(id) ==
  /\ id \notin expired /\ id[1] \in Expiring
  /\ faults < MaxFaults
  /\ faults' = faults + 1
  /\ expired' = expired \cup {id}
  /\ UNCHANGED <<script, files, sts, actor, assertion, cmd, net, runs, minted, printed>>

-------------------------------------------------------------------------------
\* What an up replica does with a request when nothing goes wrong.
Serve(s, q) == HandleReplayed(s, q) \/ HandleLapsed(s, q) \/ HandleExchange(s, q)

\* A request is answered.
Answer(q) ==
  \/ \E s \in Server : Serve(s, q) \/ HandleFails(s, q)
  \/ HandleRefused(q)
  \/ HandleElsewhere(q)

Proceed(p) ==
  \/ \E m \in net : m.type # "request" /\ ReceiveResponse(p, m)
  \/ LoadJwks(p)
  \/ CheckToken(p)

GenerateKeys(p) ==
  /\ Generate(p)
  /\ UNCHANGED <<script, ring, seen, issued, cmd, net, runs, faults, minted, printed>>

Next ==
  \/ \E p \in Command :
       \/ GenerateKeys(p)
       \/ RefuseUsage(p) \/ SendExchange(p) \/ BeginVerify(p)
       \/ Proceed(p)
       \/ ExchangeCut(p)
  \/ \E q \in net : Answer(q) \/ Stall(q)
  \/ RotateKey
  \/ \E s \in Server : StartReplica(s) \/ StopReplica(s)
  \/ IssueActor \/ IssueAssertion
  \/ \E id \in Perishable : Expire(id)

\* A replica that is up and has a request answers it, for its handler waits for
\* nobody, and a client whose answer has arrived goes on.  A request that was
\* swallowed, that finds no replica or went elsewhere may stay unanswered, and
\* nobody has to start a command, a rotation or a replica.
Fairness ==
  /\ WF_vars(\E q \in net, s \in Server : Serve(s, q))
  /\ \A p \in Command : WF_vars(Proceed(p))

Spec == Init /\ [][Next]_vars /\ Fairness

-------------------------------------------------------------------------------
\* Types: the files, where each run stands, and messages of begun runs only.
TypeOK ==
  /\ FilesTypeOK
  /\ actor \in 1 .. MaxActors
  /\ assertion \in 1 .. MaxAssertions
  /\ expired \subseteq Perishable
  /\ runs \in 0 .. MaxRuns
  /\ faults \in 0 .. MaxFaults
  /\ \A p \in Command :
       /\ cmd[p].pc \in {"idle", "sent", "keys", "check"} \cup Endings
       /\ cmd[p].run \in 0 .. runs
       /\ cmd[p].pc \in {"keys", "check", "ok"} => cmd[p].token # None
  /\ \A m \in net : m.run \in 1 .. runs

\* A token reported as verified was minted by this STS: not by another one
\* whose key has the same kid, and whatever keys were rotated, staged or
\* retired between the signature and the fetch of the JWKS.
VerifiedIsMinted ==
  \A p \in Command :
    cmd[p].pc = "ok" /\ cmd[p].jwks # None => cmd[p].token \in minted

\* An exchange that ends well with a holder key has a token bound to the key
\* that is in the holder key file to this day, unless a command may replace it:
\* the file may have been half written when the exchange started, its writer
\* killed, another one after it.
HolderBound ==
  \A p \in Command :
    cmd[p].pc = "ok" /\ cmd[p].holder # None /\ Replacing(Args(p).holder) = {} =>
      file[Args(p).holder] = [key |-> cmd[p].token.jkt, whole |-> TRUE]

\* A token of this STS is refused for its signature only when the keys came
\* from a saved file, or from a replica not yet restarted since the token's key
\* took over: once the rollout is over a token is never refused.
RefusedOnlyMidRollout ==
  \A p \in Command :
    cmd[p].pc = "unverified" /\ cmd[p].token \in minted =>
      Args(p).jwks = "file" \/ cmd[p].jwks.of.id < cmd[p].token.key.id

\* With a shared replay directory one actor token yields at most one token that
\* is alive when it is minted, whichever replicas answer, however often a command
\* whose answer was lost is run again and whatever replica is restarted in
\* between.  Once the actor token has expired its record may be dropped, and
\* leeway yields further tokens: they are dead from the start, for they expire
\* with the actor token (ReuseYieldsDeadToken).
OneLiveTokenPerActorToken ==
  Shared => \A t, u \in minted : t.actor = u.actor /\ ~t.late /\ ~u.late => t = u

\* The request of the run of p, when nothing stands in its way any more: its
\* actor token and its client assertion are fresh, no other exchange competes
\* for them, a replica is up and the faults are over.
Unhindered(p) ==
  /\ Args(p).kind = "exchange" /\ Args(p).dpop \in {"none", "key"} /\ Args(p).jwks = "none"
  /\ \A o \in Command \ {p} : Args(o).kind # "exchange"
  /\ faults = MaxFaults
  /\ \E s \in Server : server[s].pc = "up"
  /\ cmd[p].pc = "sent"
  /\ \E q \in net :
       /\ q.type = "request" /\ q.run = cmd[p].run /\ q.to = "sts"
       /\ \A id \in {ActorId(q)} \cup ClientIds(q) : \A s \in Server : id \notin seen[s]
       /\ Credentials(q) \cap expired = {}
       /\ \A o \in net \ {q} : o.type = "request" =>
            Credentials(o) \cap ({ActorId(q)} \cup ClientIds(q)) = {}

\* A client recovers from a request that failed after it burned its credentials
\* (a lost answer, a full store, a failing signer): run again with a fresh actor
\* token and client assertion, and the fresh proof it signs by itself, it gets
\* its token.
FreshActorTokenServed ==
  \A p \in Command : Unhindered(p) ~> cmd[p].pc = "ok"
===============================================================================
