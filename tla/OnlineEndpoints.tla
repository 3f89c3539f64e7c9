--------------------------- MODULE OnlineEndpoints ----------------------------
(***************************************************************************)
(* POST /introspect and POST /revoke (crates/sts-http): authenticate the   *)
(* client, burn its assertion in the replay store, verify the presented    *)
(* access token, then read or write RevocationState under its mutex.       *)
(* Every stage reads the clock anew and uses the value later: introspect   *)
(* carries the value it checked exp with into the critical section, where  *)
(* it also sweeps the revocations with it.                                 *)
(***************************************************************************)
EXTENDS TokenPolicy, ReplayTable

CONSTANTS
  Thread,       \* threads that serve requests
  Requests,     \* requests that may be sent
  Config,       \* the runtime configuration
  MaxTime,      \* bound on the clock
  MaxRequests   \* bound on the number of requests

\* The exp claim of a presented access token is an integer.
ASSUME OnlineEndpointsAssumption ==
  /\ MaxTime \in Nat
  /\ \A r \in Requests : r.token \notin {None, Blank} => r.token.exp \in Int

VARIABLES
  clock,      \* wall clock, in seconds, assumed not to step back
  thread,     \* thread[t]: the request thread t serves, or its last answer
  seen,       \* entries of the replay store
  calls,      \* its calls_since_sweep
  revoked,    \* RevocationState.revoked: entries (token, exp)
  poisoned,   \* a thread panicked while it held the mutex on revoked
  received,   \* number of requests received
  acked       \* history: tokens whose revocation was acknowledged

vars == <<clock, thread, seen, calls, revoked, poisoned, received, acked>>

store == <<seen, calls>>

Answered(res) == [pc |-> "idle", res |-> res]

Init ==
  /\ clock = 0
  /\ thread = [t \in Thread |-> Answered("none")]
  /\ seen = {}
  /\ calls = 0
  /\ revoked = {}
  /\ poisoned = FALSE
  /\ received = 0
  /\ acked = {}

Tick ==
  /\ clock < MaxTime
  /\ clock' = clock + 1
  /\ UNCHANGED <<thread, store, revoked, poisoned, received, acked>>

-------------------------------------------------------------------------------
(***************************************************************************)
(* The stateless checks.                                                   *)
(***************************************************************************)

ParseOnlineTokenForm(r) ==
  FirstError(<<
    <<~r.urlencoded,     "invalid_request">>,
    <<r.authHeader,      "invalid_client">>,
    <<r.dup # "none",    "invalid_request">> >>)

RequiredOnlineToken(r) ==
  IF r.token \in {None, Blank} \/ r.tooLarge THEN "invalid_request" ELSE "ok"

AuthenticateOnlineClient(cfg, r, now) ==
  LET a == r.assertion
  IN  IF ~HasClientAuth(r) \/ ClientAuthMalformed(r) THEN "invalid_client"
      ELSE IF /\ VerifyAssertion(cfg, a, now)
              /\ a.sub \in cfg.clientIds
              /\ r.clientId \in {None, a.sub}
              /\ a.jti \notin {None, Blank}
           THEN "ok"
           ELSE "invalid_client"

\* k.verifies: signature under the published keys, typ at+jwt, our issuer and
\* non-blank sub, client_id and scope.
VerifiedStsAccessToken(cfg, k, now) ==
  /\ k.verifies
  /\ k.aud \in DOMAIN cfg.targets
  /\ k.exp > now
  /\ k.iat <= now + cfg.leeway

-------------------------------------------------------------------------------
(***************************************************************************)
(* The handlers.                                                           *)
(***************************************************************************)

Answer(t, res) == thread' = [thread EXCEPT ![t] = Answered(res)]

Goto(t, pc) == thread' = [thread EXCEPT ![t].pc = pc]

\* now = unix_now(), evaluated before the call that uses it.
ReadNow(t, pc) == thread' = [thread EXCEPT ![t].pc = pc, ![t].now = clock]

\* wasRevoked remembers, for the properties only, that the revocation of the
\* token had been acknowledged when the request arrived.
Receive(t, r) ==
  LET outcome == Then(ParseOnlineTokenForm(r), RequiredOnlineToken(r))
  IN  /\ thread[t].pc = "idle"
      /\ received < MaxRequests
      /\ received' = received + 1
      /\ \/ /\ outcome = "ok"
            /\ thread' = [thread EXCEPT ![t] =
                            [pc |-> "client", r |-> r, now |-> 0,
                             wasRevoked |-> r.token \in acked]]
         \/ outcome # "ok" /\ Answer(t, outcome)
      /\ UNCHANGED <<clock, store, revoked, poisoned, acked>>

AuthenticateClient(t) ==
  LET outcome == AuthenticateOnlineClient(Config, thread[t].r, clock)
  IN  /\ thread[t].pc = "client"
      /\ \/ outcome = "ok" /\ Goto(t, "recordNow")
         \/ outcome # "ok" /\ Answer(t, outcome)
      /\ UNCHANGED <<clock, store, revoked, poisoned, received, acked>>

RecordNow(t) ==
  /\ thread[t].pc = "recordNow"
  /\ ReadNow(t, "record")
  /\ UNCHANGED <<clock, store, revoked, poisoned, received, acked>>

\* record_client_assertion_replay, which shares its keys with /token.
RecordClientAssertion(t) ==
  LET key  == ClientKey(thread[t].r)
      left == Swept(seen, calls, thread[t].now)
  IN  /\ thread[t].pc = "record"
      /\ \/ /\ Contains(seen, key)
            /\ Answer(t, "invalid_client")
            /\ UNCHANGED store
         \/ /\ ~Contains(seen, key)
            /\ calls' = CountCall(calls)
            /\ \/ /\ IsFull(left)
                  /\ seen' = left
                  /\ Answer(t, "unavailable")
               \/ /\ ~IsFull(left)
                  /\ seen' = left \cup {[key |-> key, exp |-> thread[t].r.assertion.exp]}
                  /\ Goto(t, "verify")
      /\ UNCHANGED <<clock, revoked, poisoned, received, acked>>

\* verified_sts_access_token up to the revocation check.  An unknown or expired
\* token is answered at once: inactive, or 200 for a revocation.
VerifyToken(t) ==
  LET r == thread[t].r
  IN  /\ thread[t].pc = "verify"
      /\ \/ /\ VerifiedStsAccessToken(Config, r.token, clock)
            /\ ReadNow(t, IF r.op = "introspect" THEN "lookup" ELSE "revokeNow")
         \/ /\ ~VerifiedStsAccessToken(Config, r.token, clock)
            /\ Answer(t, IF r.op = "introspect" THEN "inactive" ELSE "revoked")
      /\ UNCHANGED <<clock, store, revoked, poisoned, received, acked>>

RevokeNow(t) ==
  /\ thread[t].pc = "revokeNow"
  /\ ReadNow(t, "revoke")
  /\ UNCHANGED <<clock, store, revoked, poisoned, received, acked>>

-------------------------------------------------------------------------------
(***************************************************************************)
(* RevocationState, under its mutex.                                       *)
(***************************************************************************)

\* Mutant: a revocation is forgotten in the token's last second.
SweepRevokedEager(s, now) == {e \in s : e.exp > now}

SweepRevoked(s, now) == {e \in s : e.exp >= now}

RevokedIn(s, k) == \E e \in s : e.token = k

\* Mutant: capacity is tested before looking whether the token is listed.
NoRoomForAny(s, k) == Cardinality(s) >= MaxSeen

\* Mutant: one entry too many fits.
NoRoomOffByOne(s, k) == ~RevokedIn(s, k) /\ Cardinality(s) > MaxSeen

NoRoom(s, k) == ~RevokedIn(s, k) /\ Cardinality(s) >= MaxSeen

Revoke(t) ==
  LET k == thread[t].r.token
      s == SweepRevoked(revoked, thread[t].now)
  IN  /\ thread[t].pc = "revoke"
      /\ ~poisoned
      /\ \/ /\ NoRoom(s, k)
            /\ revoked' = s
            /\ Answer(t, "unavailable")
            /\ UNCHANGED acked
         \/ /\ ~NoRoom(s, k)
            /\ revoked' = {e \in s : e.token # k} \cup {[token |-> k, exp |-> k.exp]}
            /\ Answer(t, "revoked")
            /\ acked' = acked \cup {k}
      /\ UNCHANGED <<clock, store, poisoned, received>>

Lookup(t) ==
  LET s == SweepRevoked(revoked, thread[t].now)
  IN  /\ thread[t].pc = "lookup"
      /\ ~poisoned
      /\ revoked' = s
      /\ Answer(t, IF RevokedIn(s, thread[t].r.token) THEN "inactive" ELSE "active")
      /\ UNCHANGED <<clock, store, poisoned, received, acked>>

\* Mutant: a poisoned mutex reads as nothing revoked.
LookupPoisonedOpen(t) ==
  /\ thread[t].pc = "lookup"
  /\ poisoned
  /\ Answer(t, "active")
  /\ UNCHANGED <<clock, store, revoked, poisoned, received, acked>>

LookupPoisoned(t) ==
  /\ thread[t].pc = "lookup"
  /\ poisoned
  /\ Answer(t, "inactive")
  /\ UNCHANGED <<clock, store, revoked, poisoned, received, acked>>

RevokePoisoned(t) ==
  /\ thread[t].pc = "revoke"
  /\ poisoned
  /\ Answer(t, "unavailable")
  /\ UNCHANGED <<clock, store, revoked, poisoned, received, acked>>

\* A thread panics inside the critical section; its connection just closes.
PanicHoldingLock(t) ==
  /\ thread[t].pc \in {"lookup", "revoke"}
  /\ ~poisoned
  /\ poisoned' = TRUE
  /\ Answer(t, "none")
  /\ UNCHANGED <<clock, store, revoked, received, acked>>

\* The process is restarted: every revocation and replay record is forgotten.
Restart ==
  /\ thread' = [t \in Thread |-> Answered("none")]
  /\ seen' = {}
  /\ calls' = 0
  /\ revoked' = {}
  /\ poisoned' = FALSE
  /\ acked' = {}
  /\ UNCHANGED <<clock, received>>

Serve(t) ==
  \/ AuthenticateClient(t)
  \/ RecordNow(t)
  \/ RecordClientAssertion(t)
  \/ VerifyToken(t)
  \/ RevokeNow(t)
  \/ Revoke(t)
  \/ Lookup(t)
  \/ LookupPoisoned(t)
  \/ RevokePoisoned(t)
  \/ PanicHoldingLock(t)

Next ==
  \/ Tick
  \/ \E t \in Thread, r \in Requests : Receive(t, r)
  \/ \E t \in Thread : Serve(t)
  \/ Restart

Spec == Init /\ [][Next]_vars

-------------------------------------------------------------------------------
\* The stores hold at most max_seen_jti entries, one per token and one per
\* assertion, and no clock value in use is ahead of the clock.
StoresBounded ==
  /\ Cardinality(revoked) <= MaxSeen
  /\ Cardinality(seen) <= MaxSeen
  /\ \A e, f \in revoked : e.token = f.token => e = f
  /\ \A t \in Thread : thread[t].pc # "idle" => thread[t].now <= clock

\* No sweep, whoever's clock it runs with, drops the acknowledged revocation of
\* a token that has not expired.
RevocationKept ==
  \A k \in acked : k.exp >= clock => RevokedIn(revoked, k)

AnswersActive(t) ==
  thread[t].pc = "lookup" /\ thread'[t].pc = "idle" /\ thread'[t].res = "active"

\* /introspect never answers active for a token whose revocation was
\* acknowledged before the request arrived, as long as the token is unexpired
\* when it answers; a poisoned store answers inactive.
RevokedIsInactive ==
  [][\A t \in Thread :
       AnswersActive(t) /\ thread[t].wasRevoked => clock > thread[t].r.token.exp]_vars

\* Revoking again a token that is revoked and unexpired is never refused for
\* lack of room, however full the store is.
RepeatedRevocationAccepted ==
  [][\A t \in Thread :
       /\ thread[t].pc = "revoke"
       /\ thread'[t].pc = "idle"
       /\ thread'[t].res = "unavailable"
       /\ ~poisoned
       => ~(thread[t].r.token \in acked /\ thread[t].r.token.exp >= clock)]_vars
===============================================================================
