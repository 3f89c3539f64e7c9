---------------------------- MODULE TokenExchange -----------------------------
(***************************************************************************)
(* The token endpoint (token_inner, exchange_delegation and                *)
(* exchange_impersonation of crates/sts-http) served by several threads    *)
(* over one in-memory replay store.  A request reads the clock up to five  *)
(* times: for the client assertion, the DPoP proof, the subject token, the *)
(* actor token, and once more for the value it gives to the replay store   *)
(* and to the minted token; time passes and other requests run in between. *)
(* Replay records are written one call at a time after the last gate, then *)
(* the token is signed.                                                    *)
(***************************************************************************)
EXTENDS TokenPolicy, ReplayTable

CONSTANTS
  Thread,       \* threads that serve requests
  Batch,        \* Batch[b]: requests that are sent together, the runtime
                \* configurations they meet, and a bound on their number
  MaxTime       \* bound on the clock

\* The claims that deserialize to numbers and to a list of names, where a token
\* is present at all, and the values of the exchange mode.
ASSUME TokenExchangeAssumption ==
  /\ MaxTime \in Nat
  /\ \A b \in DOMAIN Batch :
       /\ \A c \in Batch[b].configs :
            /\ c.mode \in {"delegation", "impersonation", "both"}
            /\ c.leeway \in Int
            /\ c.scopedTtl \in Int
       /\ \A r \in Batch[b].requests :
            /\ r.subject # None =>
                 /\ r.subject.exp \in Int
                 /\ r.subject.act = Malformed \/ r.subject.act \in Seq(STRING)
            /\ r.actor # None => r.actor.exp \in Int
            /\ r.assertion \notin {None, Blank} => r.assertion.exp \in Int
            /\ r.dpop # None => r.dpop.iat \in Int

VARIABLES
  batch,      \* the batch of requests that is sent
  config,     \* state.config and the signer's algorithm
  clock,      \* wall clock, in seconds, assumed not to step back
  thread,     \* thread[t]: the request thread t serves and how far it got
  seen,       \* entries of the replay store
  calls,      \* its calls_since_sweep
  received,   \* number of requests received
  passed,     \* history: requests that passed their last gate
  minted      \* history: tokens signed since the process started, in order

vars == <<batch, config, clock, thread, seen, calls, received, passed, minted>>

setup == <<batch, config>>

store == <<seen, calls>>

Idle == [pc |-> "idle", r |-> None, now |-> 0, i |-> 0]

Init ==
  /\ batch \in DOMAIN Batch
  /\ config \in Batch[batch].configs
  /\ clock = 0
  /\ thread = [t \in Thread |-> Idle]
  /\ seen = {}
  /\ calls = 0
  /\ received = 0
  /\ passed = {}
  /\ minted = <<>>

Tick ==
  /\ clock < MaxTime
  /\ clock' = clock + 1
  /\ UNCHANGED <<setup, thread, store, received, passed, minted>>

-------------------------------------------------------------------------------
(***************************************************************************)
(* The gates.  Each either moves the request on or ends it with an error.  *)
(* The counters of /which nothing else reads, are left out.       *)
(***************************************************************************)

Goto(t, pc) == thread' = [thread EXCEPT ![t].pc = pc]

\* The request is answered, with a token or an error.
Answered(t) == thread' = [thread EXCEPT ![t] = Idle]

Gate(t, outcome, next) ==
  \/ outcome = "ok" /\ Goto(t, next)
  \/ outcome # "ok" /\ Answered(t)

Receive(t, r) ==
  LET outcome == Then(ParseTokenForm(r), ValidateRequestParams(r))
  IN  /\ thread[t].pc = "idle"
      /\ received < Batch[batch].max
      /\ received' = received + 1
      /\ \/ /\ outcome = "ok"
            /\ thread' = [thread EXCEPT ![t] = [Idle EXCEPT !.pc = "client", !.r = r]]
         \/ outcome # "ok" /\ Answered(t)
      /\ UNCHANGED <<setup, clock, store, passed, minted>>

\* Mutant: the client assertion is recorded as soon as it is verified.
AuthenticateClientRecording(t) ==
  LET r == thread[t].r
  IN  /\ thread[t].pc = "client"
      /\ Gate(t, AuthenticateClientIfPresent(config, r, clock), "dpop")
      /\ seen' = IF /\ r.assertion # None
                    /\ AuthenticateClientIfPresent(config, r, clock) = "ok"
                 THEN seen \cup {[key |-> ClientKey(r), exp |-> r.assertion.exp]}
                 ELSE seen
      /\ UNCHANGED <<setup, clock, calls, received, passed, minted>>

AuthenticateClient(t) ==
  /\ thread[t].pc = "client"
  /\ Gate(t, AuthenticateClientIfPresent(config, thread[t].r, clock), "dpop")
  /\ UNCHANGED <<setup, clock, store, received, passed, minted>>

ValidateDpop(t) ==
  /\ thread[t].pc = "dpop"
  /\ Gate(t, ValidateDpopHeader(config, thread[t].r, clock), "subject")
  /\ UNCHANGED <<setup, clock, store, received, passed, minted>>

VerifySubject(t) ==
  /\ thread[t].pc = "subject"
  /\ Gate(t, SubjectGates(config, thread[t].r, clock), "mode")
  /\ UNCHANGED <<setup, clock, store, received, passed, minted>>

ExchangeDelegation(t) ==
  /\ thread[t].pc = "mode"
  /\ EffectiveExchangeMode(config, thread[t].r) = "delegation"
  /\ Gate(t, DelegationGates(config, thread[t].r, clock), "now")
  /\ UNCHANGED <<setup, clock, store, received, passed, minted>>

ExchangeImpersonation(t) ==
  /\ thread[t].pc = "mode"
  /\ EffectiveExchangeMode(config, thread[t].r) = "impersonation"
  /\ Gate(t, ImpersonationGates(config, thread[t].r), "now")
  /\ UNCHANGED <<setup, clock, store, received, passed, minted>>

\* let now = unix_now(), and what delegation still checks after it.
ReadNow(t) ==
  LET r == thread[t].r
      outcome == IF EffectiveExchangeMode(config, r) = "delegation"
                 THEN ActGates(r) ELSE "ok"
  IN  /\ thread[t].pc = "now"
      /\ \/ /\ outcome = "ok"
            /\ thread' = [thread EXCEPT ![t].pc = "record", ![t].now = clock, ![t].i = 1]
            /\ passed' = passed \cup {r}
         \/ outcome # "ok" /\ Answered(t) /\ UNCHANGED passed
      /\ UNCHANGED <<setup, clock, store, received, minted>>

-------------------------------------------------------------------------------
(***************************************************************************)
(* The replay records of a request, in the order they are written.         *)
(***************************************************************************)

When(P, x) == IF P THEN <<x>> ELSE <<>>

ReplayRecords(cfg, r) ==
  When(EffectiveExchangeMode(cfg, r) = "delegation",
       [key |-> ActorKey(r), exp |-> r.actor.exp])
  \o When(HasClientAuth(r),
          [key |-> ClientKey(r), exp |-> r.assertion.exp])
  \o When(r.dpop # None,
          [key |-> DpopKey(r), exp |-> ReplayExpiresAt(cfg, r.dpop)])

\* The next replay record of the request of thread t.
Pending(t) == ReplayRecords(config, thread[t].r)[thread[t].i]

RecordReplayed(t) ==
  /\ thread[t].pc = "record"
  /\ Contains(seen, Pending(t).key)
  /\ Answered(t)
  /\ UNCHANGED <<setup, clock, store, received, passed, minted>>

RecordFull(t) ==
  LET left == Swept(seen, calls, thread[t].now)
  IN  /\ thread[t].pc = "record"
      /\ ~Contains(seen, Pending(t).key)
      /\ IsFull(left)
      /\ seen' = left
      /\ calls' = CountCall(calls)
      /\ Answered(t)
      /\ UNCHANGED <<setup, clock, received, passed, minted>>

Record(t) ==
  LET left == Swept(seen, calls, thread[t].now)
      last == thread[t].i = Len(ReplayRecords(config, thread[t].r))
  IN  /\ thread[t].pc = "record"
      /\ ~Contains(seen, Pending(t).key)
      /\ ~IsFull(left)
      /\ seen' = left \cup {Pending(t)}
      /\ calls' = CountCall(calls)
      /\ thread' = [thread EXCEPT ![t].i = @ + 1,
                                  ![t].pc = IF last THEN "sign" ELSE "record"]
      /\ UNCHANGED <<setup, clock, received, passed, minted>>

-------------------------------------------------------------------------------
\* The signer, which may be an external service, returns an error.
SignFails(t) ==
  /\ thread[t].pc = "sign"
  /\ Answered(t)
  /\ UNCHANGED <<setup, clock, store, received, passed, minted>>

Sign(t) ==
  LET r == thread[t].r
  IN  /\ thread[t].pc = "sign"
      /\ minted' = Append(minted, [r |-> r, at |-> clock,
                     claims |-> BuildScopedPayload(config, r, thread[t].now)])
      /\ Answered(t)
      /\ UNCHANGED <<setup, clock, store, received, passed>>

\* The process is restarted: store and requests in flight are lost.
Restart ==
  /\ thread' = [t \in Thread |-> Idle]
  /\ seen' = {}
  /\ calls' = 0
  /\ passed' = {}
  /\ minted' = <<>>
  /\ UNCHANGED <<setup, clock, received>>

Serve(t) ==
  \/ AuthenticateClient(t)
  \/ ValidateDpop(t)
  \/ VerifySubject(t)
  \/ ExchangeDelegation(t)
  \/ ExchangeImpersonation(t)
  \/ ReadNow(t)
  \/ RecordReplayed(t)
  \/ RecordFull(t)
  \/ Record(t)
  \/ SignFails(t)
  \/ Sign(t)

Next ==
  \/ Tick
  \/ \E t \in Thread, r \in Batch[batch].requests : Receive(t, r)
  \/ \E t \in Thread : Serve(t)
  \/ Restart

Spec == Init /\ [][Next]_vars

-------------------------------------------------------------------------------
\* Types: the program counters, the replay store within its capacity, and a
\* request in flight whose `now' is not ahead of the clock.
TypeOK ==
  /\ batch \in DOMAIN Batch
  /\ config \in Batch[batch].configs
  /\ clock \in 0 .. MaxTime
  /\ \A t \in Thread :
       /\ thread[t].pc \in {"idle", "client", "dpop", "subject", "mode", "now",
                            "record", "sign"}
       /\ thread[t].r \in Batch[batch].requests \cup {None}
       /\ thread[t].now \in 0 .. clock
       /\ thread[t].pc = "record" =>
            thread[t].i \in DOMAIN ReplayRecords(config, thread[t].r)
  /\ \A e \in seen : e.exp \in Int
  /\ Cardinality(seen) <= MaxSeen
  /\ calls \in 0 .. SweepEvery - 1

\* A credential (actor token, client assertion or DPoP proof) is burned only
\* by a request that passed every gate: one refused for its target, scope,
\* subject, may_act, impersonation policy or signing policy can be repeated
\* with the same credentials.
BurnedOnlyAfterGates ==
  \A e \in seen : \E r \in passed :
    \E i \in DOMAIN ReplayRecords(config, r) : ReplayRecords(config, r)[i].key = e.key

\* Of two tokens signed from requests that share a replay key, the second was
\* signed after the record of one of them had expired (one credential has one
\* expiry; an issuer that reuses a jti may present two): the five clock reads and
\* the sweeps of other requests never open a credential for reuse before then.
SingleUseWhileRecorded ==
  \A i, j \in DOMAIN minted : i < j =>
    \A a \in DOMAIN ReplayRecords(config, minted[i].r),
       b \in DOMAIN ReplayRecords(config, minted[j].r) :
      LET first  == ReplayRecords(config, minted[i].r)[a]
          second == ReplayRecords(config, minted[j].r)[b]
      IN  first.key = second.key =>
            minted[j].at > first.exp \/ minted[j].at > second.exp

\* The assertion that authorised a token: the actor token, or for
\* impersonation the client assertion.
Caller(r) ==
  IF EffectiveExchangeMode(config, r) = "delegation" THEN r.actor ELSE r.assertion

\* What holds of the reuse that ActorTokenSingleUse below shows: a second
\* delegation with the same actor token, or a second impersonation with the same
\* client assertion, which the clock-skew leeway makes possible, yields a token
\* that has expired before it is signed: min(now + ttl, subject exp, assertion
\* exp).  One JWT can serve once in each role, under two keys.
ReuseYieldsDeadToken ==
  \A i, j \in DOMAIN minted :
    /\ i < j
    /\ Caller(minted[i].r) = Caller(minted[j].r)
    /\ EffectiveExchangeMode(config, minted[i].r) = EffectiveExchangeMode(config, minted[j].r)
    => minted[j].claims.exp < minted[j].at

\* A token never says more than its inputs allow, however the clock moved
\* between the gates and the signature: no longer life than the subject token
\* and the caller's assertion, no scope outside the target's policy or, where
\* the bound is required, the subject's own, no caller whose key id belongs to
\* a longer registered identity, no actor that may_act excludes by sub or iss,
\* an act chain that keeps every prior actor, and no impersonation outside the
\* client's policy entry, with an actor token or, in both mode, with an empty
\* actor_token parameter.
MintedWithinGrant ==
  \A i \in DOMAIN minted :
    LET r == minted[i].r
        k == minted[i].claims
    IN  /\ k.exp <= r.subject.exp
        /\ k.exp <= Caller(r).exp
        /\ k.iat <= minted[i].at
        /\ k.scope # {} /\ k.scope \subseteq config.targets[k.aud].allowed
        /\ config.scopeBoundRequired /\ r.subject.scopes # {} =>
             k.scope \subseteq r.subject.scopes
        /\ k.clientId \in Caller(r).kid
        /\ \A other \in (config.actorIds \cup config.clientIds) \cap Caller(r).kid :
             <<k.clientId, other>> \notin config.extends
        /\ k.act # <<>> =>
             /\ r.subject.mayAct # None =>
                  /\ k.act[1] = r.subject.mayAct.sub
                  /\ r.subject.mayAct.iss \in {None, r.actor.iss}
             /\ k.act[1] = k.clientId /\ k.clientId \in config.actorIds
             /\ Tail(k.act) = r.subject.act
             /\ Len(k.act) <= MaxActDepth + 1
        /\ k.act = <<>> =>
             /\ k.clientId \in DOMAIN config.impersonation
             /\ Allows(config.impersonation[k.clientId].subjects, k.sub)
             /\ Allows(config.impersonation[k.clientId].targets, k.aud)
             /\ r.actor = None
             /\ config.mode = "both" => ~r.emptyActor
        /\ config.targets[k.aud].pqcRequired => config.alg \in PqcAlgs

-------------------------------------------------------------------------------
\* Claim of the contract ledger (R-102, UC-13, N-21): an actor token is
\* single-use.  It is accepted until its expiry plus the leeway, its record is
\* kept until its expiry: a later request's call may sweep it in between.
ActorTokenSingleUse ==
  \A i, j \in DOMAIN minted :
    i < j /\ minted[i].claims.act # <<>> /\ minted[j].claims.act # <<>> =>
      minted[i].r.actor # minted[j].r.actor

\* Claim of the contract ledger (R-104): a DPoP proof is single-use.  The proof
\* is validated at one clock reading and recorded at a later one, when its
\* record may already have been swept.
DpopProofSingleUse ==
  \A i, j \in DOMAIN minted :
    i < j /\ minted[i].r.dpop # None => minted[i].r.dpop # minted[j].r.dpop

\* Claim of the contract ledger (R-097): a request with an empty actor_token
\* parameter never mints an impersonation token.  The flag that remembers the
\* parameter is looked at in both mode only.
EmptyActorNeverImpersonates ==
  \A i \in DOMAIN minted :
    minted[i].r.emptyActor => minted[i].claims.act # <<>>
===============================================================================
