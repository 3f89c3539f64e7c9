------------------------ MODULE OnlineEndpointsProofs -------------------------
(***************************************************************************)
(* Proofs about /introspect and /revoke, for every number of threads and   *)
(* of requests, every capacity and every expiry of the tokens.             *)
(***************************************************************************)
EXTENDS OnlineEndpoints, ReplayTableProofs

PCs == {"client", "recordNow", "record", "verify", "lookup", "revokeNow", "revoke"}

\* A request in flight.
Working == [pc : PCs, r : Requests, now : Nat, wasRevoked : BOOLEAN]

\* A request in flight has a token, its clock value is not ahead of the clock,
\* and what it remembers as revoked when it arrived is acknowledged still.
InFlight(x) ==
  /\ x \in Working
  /\ x.r.token \notin {None, Blank}
  /\ x.now <= clock
  /\ x.wasRevoked => x.r.token \in acked

ThreadsOK ==
  /\ thread = [t \in Thread |-> thread[t]]
  /\ \A t \in Thread : thread[t].pc # "idle" => InFlight(thread[t])

\* Entries carry the expiry of their token.
StoresOK ==
  /\ clock \in Nat
  /\ IsFiniteSet(seen)
  /\ IsFiniteSet(revoked)
  /\ \A e \in revoked : e.exp = e.token.exp
  /\ \A k \in acked : k.exp \in Int

\* The inductive invariant.  That an acknowledged revocation is kept needs that
\* no thread sweeps with a clock ahead of time.
OnlineInv == ThreadsOK /\ StoresOK /\ StoresBounded /\ RevocationKept

-------------------------------------------------------------------------------
\* A thread moves on with its request, answers it or takes up a new one, while
\* revocations are at most added.
LEMMA ThreadStep ==
  ASSUME ThreadsOK, NEW t \in Thread, NEW x,
         thread' = [thread EXCEPT ![t] = x],
         clock' = clock, acked \subseteq acked',
         x.pc # "idle" => InFlight(x)
  PROVE  /\ ThreadsOK'
         /\ \A u \in Thread : thread'[u].pc # "idle" => thread'[u].now <= clock'
<1>1. \A u \in Thread : thread'[u] = IF u = t THEN x ELSE thread[u]
  BY DEF ThreadsOK
<1>2. \A u \in Thread : thread'[u].pc # "idle" => InFlight(thread'[u])
  BY <1>1 DEF ThreadsOK
<1>3. \A y : InFlight(y) => InFlight(y)'
  BY DEF InFlight
<1>4. thread' = [u \in Thread |-> thread'[u]]
  BY DEF ThreadsOK
<1> QED
  BY <1>2, <1>3, <1>4 DEF ThreadsOK, InFlight

\* An answer ends the request.
LEMMA AnswerStep ==
  ASSUME NEW t \in Thread, NEW res, Answer(t, res)
  PROVE  \E x : thread' = [thread EXCEPT ![t] = x] /\ x.pc = "idle"
<1>1. thread' = [thread EXCEPT ![t] = Answered(res)]
  BY DEF Answer
<1>2. Answered(res).pc = "idle"
  BY DEF Answered
<1> QED
  BY <1>1, <1>2

\* A request in flight that goes on to another stage, with the clock value it
\* has or the present one, is one in flight.
LEMMA MovesOn ==
  ASSUME ThreadsOK, StoresOK, NEW t \in Thread, NEW pc \in PCs, thread[t].pc # "idle",
         Goto(t, pc) \/ ReadNow(t, pc)
  PROVE  \E x : thread' = [thread EXCEPT ![t] = x] /\ InFlight(x)
<1> DEFINE y == [thread[t] EXCEPT !.pc = pc]
           z == [thread[t] EXCEPT !.pc = pc, !.now = clock]
<1>1. InFlight(thread[t])
  BY DEF ThreadsOK
<1>2. thread[t] \in Working
  BY <1>1 DEF InFlight
<1>3. /\ y \in Working /\ z \in Working
      /\ y.r = thread[t].r /\ z.r = thread[t].r
      /\ y.wasRevoked = thread[t].wasRevoked /\ z.wasRevoked = thread[t].wasRevoked
      /\ y.now = thread[t].now /\ z.now = clock
  BY <1>2 DEF Working, StoresOK
<1>4. InFlight(y) /\ InFlight(z)
  BY <1>1, <1>3 DEF InFlight, StoresOK
<1>5. Goto(t, pc) => thread' = [thread EXCEPT ![t] = y]
  BY DEF Goto
<1>6. ReadNow(t, pc) => thread' = [thread EXCEPT ![t] = z]
  BY DEF ReadNow
<1> QED
  BY <1>4, <1>5, <1>6

\* A step that only moves a thread leaves the stores alone.
LEMMA ThreadOnly ==
  ASSUME OnlineInv, NEW t \in Thread, NEW x,
         thread' = [thread EXCEPT ![t] = x], x.pc # "idle" => InFlight(x),
         UNCHANGED <<clock, store, revoked, acked>>
  PROVE  OnlineInv'
<1>1. /\ ThreadsOK'
      /\ \A u \in Thread : thread'[u].pc # "idle" => thread'[u].now <= clock'
  BY ThreadStep DEF OnlineInv
<1>2. StoresOK' /\ RevocationKept'
  BY DEF OnlineInv, StoresOK, RevocationKept, RevokedIn, store
<1>3. StoresBounded'
  BY <1>1 DEF OnlineInv, StoresBounded, store
<1> QED
  BY <1>1, <1>2, <1>3 DEF OnlineInv

-------------------------------------------------------------------------------
\* What a sweep of the revocations leaves: a part of them that has every
\* acknowledged revocation of a token unexpired at the sweeper's clock.
LEMMA SweepRevokedKeeps ==
  ASSUME OnlineInv, NEW now \in Nat, now <= clock
  PROVE  /\ SweepRevoked(revoked, now) \subseteq revoked
         /\ IsFiniteSet(SweepRevoked(revoked, now))
         /\ Cardinality(SweepRevoked(revoked, now)) \in Nat
         /\ Cardinality(SweepRevoked(revoked, now)) <= MaxSeen
         /\ \A k \in acked : k.exp >= clock => RevokedIn(SweepRevoked(revoked, now), k)
<1> DEFINE s == SweepRevoked(revoked, now)
<1>1. s \subseteq revoked
  BY DEF SweepRevoked
<1>2. IsFiniteSet(s) /\ Cardinality(s) <= Cardinality(revoked)
  BY <1>1, FS_Subset DEF OnlineInv, StoresOK
<1>3. Cardinality(s) \in Nat /\ Cardinality(revoked) \in Nat
  BY <1>2, FS_CardinalityType DEF OnlineInv, StoresOK
<1>4. Cardinality(s) <= MaxSeen
  BY <1>2, <1>3, ReplayTableAssumption DEF OnlineInv, StoresBounded
<1>5. ASSUME NEW k \in acked, k.exp >= clock
      PROVE  RevokedIn(s, k)
  <2>1. PICK e \in revoked : e.token = k
    BY <1>5 DEF OnlineInv, RevocationKept, RevokedIn
  <2>2. e.exp = k.exp /\ k.exp \in Int /\ clock \in Int
    BY <2>1 DEF OnlineInv, StoresOK
  <2>3. e.exp >= now
    BY <1>5, <2>2
  <2> QED
    BY <2>1, <2>3 DEF SweepRevoked, RevokedIn
<1> QED
  BY <1>1, <1>2, <1>3, <1>4, <1>5

\* A new process has empty stores and no requests.
LEMMA OnlineInitInv == Init => OnlineInv
<1> SUFFICES ASSUME Init PROVE OnlineInv
  OBVIOUS
<1>1. ThreadsOK
  BY DEF Init, ThreadsOK, Answered
<1>2. StoresOK
  BY FS_EmptySet DEF Init, StoresOK
<1>3. StoresBounded
  BY FS_EmptySet, ReplayTableAssumption DEF Init, StoresBounded, Answered
<1>4. RevocationKept
  BY DEF Init, RevocationKept
<1> QED
  BY <1>1, <1>2, <1>3, <1>4 DEF OnlineInv

\* The stages that touch no store.
LEMMA GateInv ==
  ASSUME OnlineInv, NEW t \in Thread,
         \/ AuthenticateClient(t) \/ RecordNow(t) \/ VerifyToken(t) \/ RevokeNow(t)
         \/ LookupPoisoned(t) \/ RevokePoisoned(t) \/ PanicHoldingLock(t)
  PROVE  OnlineInv'
<1>1. UNCHANGED <<clock, store, revoked, acked>>
  BY DEF AuthenticateClient, RecordNow, VerifyToken, RevokeNow, LookupPoisoned,
         RevokePoisoned, PanicHoldingLock
<1>2. \/ \E res : Answer(t, res)
      \/ thread[t].pc # "idle" /\ \E pc \in PCs : Goto(t, pc) \/ ReadNow(t, pc)
  BY DEF AuthenticateClient, RecordNow, VerifyToken, RevokeNow, LookupPoisoned,
         RevokePoisoned, PanicHoldingLock, PCs
<1>3. \E x : thread' = [thread EXCEPT ![t] = x] /\ (x.pc # "idle" => InFlight(x))
  BY <1>2, AnswerStep, MovesOn DEF OnlineInv
<1> QED
  BY <1>1, <1>3, ThreadOnly

\* A request taken up presents a token, and remembers whether that is revoked.
LEMMA ReceiveInv ==
  ASSUME OnlineInv, NEW t \in Thread, NEW r \in Requests, Receive(t, r)
  PROVE  OnlineInv'
<1> DEFINE x == [pc |-> "client", r |-> r, now |-> 0, wasRevoked |-> r.token \in acked]
<1>1. UNCHANGED <<clock, store, revoked, acked>>
  BY DEF Receive
<1>2. CASE \E res : Answer(t, res)
  BY <1>1, <1>2, AnswerStep, ThreadOnly
<1>3. CASE ~\E res : Answer(t, res)
  <2>1. /\ Then(ParseOnlineTokenForm(r), RequiredOnlineToken(r)) = "ok"
        /\ thread' = [thread EXCEPT ![t] = x]
    BY <1>3 DEF Receive
  <2>2. RequiredOnlineToken(r) = "ok"
    BY <2>1 DEF Then
  <2>3. r.token \notin {None, Blank}
    BY <2>2 DEF RequiredOnlineToken
  <2>4. x.wasRevoked \in BOOLEAN
    OBVIOUS
  <2>5. x \in Working
    BY <2>4 DEF Working, PCs
  <2>6. x.r = r /\ x.now <= clock
    BY DEF OnlineInv, StoresOK
  <2>7. x.wasRevoked => r.token \in acked
    BY Zenon
  <2>8. InFlight(x)
    BY <2>3, <2>5, <2>6, <2>7 DEF InFlight
  <2> QED
    BY <1>1, <2>1, <2>8, ThreadOnly
<1> QED
  BY <1>2, <1>3

\* The client assertion is recorded in the replay store, within its capacity.
LEMMA RecordAssertionInv ==
  ASSUME OnlineInv, NEW t \in Thread, RecordClientAssertion(t)
  PROVE  OnlineInv'
<1> DEFINE key  == ClientKey(thread[t].r)
           left == Swept(seen, calls, thread[t].now)
           new  == [key |-> key, exp |-> thread[t].r.assertion.exp]
<1>1. \E x : thread' = [thread EXCEPT ![t] = x] /\ (x.pc # "idle" => InFlight(x))
  <2>1. \/ \E res : Answer(t, res)
        \/ thread[t].pc # "idle" /\ Goto(t, "verify")
    BY DEF RecordClientAssertion
  <2> QED
    BY <2>1, AnswerStep, MovesOn DEF OnlineInv, PCs
<1>2. UNCHANGED <<clock, revoked, acked>>
  BY DEF RecordClientAssertion
<1>3. /\ ThreadsOK'
      /\ \A u \in Thread : thread'[u].pc # "idle" => thread'[u].now <= clock'
  BY <1>1, <1>2, ThreadStep DEF OnlineInv
<1>4. IsFiniteSet(seen) /\ Cardinality(seen) <= MaxSeen
  BY DEF OnlineInv, StoresOK, StoresBounded
<1>5. \/ seen' = seen
      \/ seen' = left
      \/ seen' = left \cup {new} /\ ~IsFull(left)
  BY DEF RecordClientAssertion, store
<1>6. IsFiniteSet(seen') /\ Cardinality(seen') <= MaxSeen
  <2>1. /\ IsFiniteSet(left)
        /\ Cardinality(left) <= MaxSeen
        /\ IsFiniteSet(left \cup {new})
        /\ ~IsFull(left) => Cardinality(left \cup {new}) <= MaxSeen
    BY <1>4, RoomForOne, SweptBounded
  <2> HIDE DEF left, new
  <2> QED
    BY <1>4, <1>5, <2>1
<1>7. StoresOK' /\ RevocationKept'
  BY <1>2, <1>6 DEF OnlineInv, StoresOK, RevocationKept, RevokedIn
<1>8. StoresBounded'
  BY <1>2, <1>3, <1>6 DEF OnlineInv, StoresBounded
<1> QED
  BY <1>3, <1>7, <1>8 DEF OnlineInv

\* A revocation is entered, or refused with the expired ones swept.
LEMMA RevokeInv ==
  ASSUME OnlineInv, NEW t \in Thread, Revoke(t)
  PROVE  OnlineInv'
<1> DEFINE k   == thread[t].r.token
           s   == SweepRevoked(revoked, thread[t].now)
           new == [token |-> k, exp |-> k.exp]
<1>1. InFlight(thread[t])
  BY DEF Revoke, OnlineInv, ThreadsOK
<1>2. thread[t].now \in Nat /\ thread[t].now <= clock /\ thread[t].r \in Requests
  BY <1>1 DEF InFlight, Working
<1>3. k.exp \in Int
  BY <1>1, <1>2, OnlineEndpointsAssumption DEF InFlight
<1>4. /\ s \subseteq revoked
      /\ IsFiniteSet(s)
      /\ Cardinality(s) \in Nat
      /\ Cardinality(s) <= MaxSeen
      /\ \A j \in acked : j.exp >= clock => RevokedIn(s, j)
  BY <1>2, SweepRevokedKeeps
<1>5. /\ ThreadsOK'
      /\ \A u \in Thread : thread'[u].pc # "idle" => thread'[u].now <= clock'
  <2>1. /\ \E x : thread' = [thread EXCEPT ![t] = x] /\ x.pc = "idle"
        /\ clock' = clock /\ acked \subseteq acked'
    BY AnswerStep DEF Revoke
  <2> QED
    BY <2>1, ThreadStep DEF OnlineInv
<1>6. seen' = seen /\ clock' = clock
  BY DEF Revoke, store
<1> HIDE DEF s
<1>7. CASE revoked' = s /\ acked' = acked
  <2>1. StoresOK' /\ RevocationKept'
    BY <1>4, <1>6, <1>7 DEF OnlineInv, StoresOK, RevocationKept
  <2>2. StoresBounded'
    BY <1>4, <1>5, <1>6, <1>7 DEF OnlineInv, StoresBounded
  <2> QED
    BY <1>5, <2>1, <2>2 DEF OnlineInv
<1>8. CASE /\ ~NoRoom(s, k)
           /\ revoked' = {e \in s : e.token # k} \cup {new}
           /\ acked' = acked \cup {k}
  <2> DEFINE others == {e \in s : e.token # k}
  <2>1. IsFiniteSet(others) /\ Cardinality(others) <= Cardinality(s)
    BY <1>4, FS_Subset
  <2>2. Cardinality(others) \in Nat
    BY <2>1, FS_CardinalityType
  <2>3. Cardinality(others) < MaxSeen
    <3>1. CASE RevokedIn(s, k)
      <4>1. others # s
        BY <3>1 DEF RevokedIn
      <4>2. Cardinality(others) # Cardinality(s)
        BY <1>4, <4>1, FS_Subset
      <4> QED
        BY <1>4, <2>1, <2>2, <4>2, ReplayTableAssumption
    <3>2. CASE ~RevokedIn(s, k)
      <4>1. Cardinality(s) < MaxSeen
        BY <1>4, <1>8, <3>2, ReplayTableAssumption DEF NoRoom
      <4> QED
        BY <1>4, <2>1, <2>2, <4>1, ReplayTableAssumption
    <3> QED
      BY <3>1, <3>2
  <2>4. IsFiniteSet(revoked') /\ Cardinality(revoked') <= MaxSeen
    <3>1. /\ IsFiniteSet(others \cup {new})
          /\ Cardinality(others \cup {new}) <= Cardinality(others) + 1
      <4> HIDE DEF others, new
      <4>1. /\ IsFiniteSet(others \cup {new})
            /\ Cardinality(others \cup {new}) =
                 IF new \in others THEN Cardinality(others) ELSE Cardinality(others) + 1
        BY <2>1, FS_AddElement
      <4> QED
        BY <2>2, <4>1
    <3>2. Cardinality(others \cup {new}) \in Nat
      BY <3>1, FS_CardinalityType
    <3> QED
      BY <1>8, <2>2, <2>3, <3>1, <3>2, ReplayTableAssumption
  <2>5. \A e \in revoked' : e.exp = e.token.exp
    BY <1>4, <1>8 DEF OnlineInv, StoresOK
  <2>6. StoresOK'
    BY <1>3, <1>6, <1>8, <2>4, <2>5 DEF OnlineInv, StoresOK
  <2>7. StoresBounded'
    <3>1. \A e, f \in revoked' : e.token = f.token => e = f
      BY <1>4, <1>8 DEF OnlineInv, StoresBounded
    <3> QED
      BY <1>5, <1>6, <2>4, <3>1 DEF OnlineInv, StoresBounded
  <2>8. RevocationKept'
    <3> SUFFICES ASSUME NEW j \in acked \cup {k}, j.exp >= clock
                 PROVE  \E e \in revoked' : e.token = j
      BY <1>6, <1>8 DEF RevocationKept, RevokedIn
    <3>1. CASE j = k
      <4>1. new \in revoked' /\ new.token = k
        BY <1>8
      <4> QED
        BY <3>1, <4>1
    <3>2. CASE j # k
      BY <1>4, <1>8, <3>2 DEF RevokedIn
    <3> QED
      BY <3>1, <3>2
  <2> QED
    BY <1>5, <2>6, <2>7, <2>8 DEF OnlineInv
<1> QED
  BY <1>7, <1>8 DEF Revoke, s

\* An introspection sweeps with its own clock value.
LEMMA LookupInv ==
  ASSUME OnlineInv, NEW t \in Thread, Lookup(t)
  PROVE  OnlineInv'
<1> DEFINE s == SweepRevoked(revoked, thread[t].now)
<1>1. InFlight(thread[t])
  BY DEF Lookup, OnlineInv, ThreadsOK
<1>2. thread[t].now \in Nat /\ thread[t].now <= clock
  BY <1>1 DEF InFlight, Working
<1>3. /\ s \subseteq revoked
      /\ IsFiniteSet(s)
      /\ Cardinality(s) <= MaxSeen
      /\ \A j \in acked : j.exp >= clock => RevokedIn(s, j)
  BY <1>2, SweepRevokedKeeps
<1>4. /\ ThreadsOK'
      /\ \A u \in Thread : thread'[u].pc # "idle" => thread'[u].now <= clock'
  <2>1. /\ \E x : thread' = [thread EXCEPT ![t] = x] /\ x.pc = "idle"
        /\ clock' = clock /\ acked' = acked
    BY AnswerStep DEF Lookup
  <2> QED
    BY <2>1, ThreadStep DEF OnlineInv
<1>5. revoked' = s /\ UNCHANGED <<clock, seen, acked>>
  BY DEF Lookup, store
<1> HIDE DEF s
<1>6. StoresOK' /\ RevocationKept'
  BY <1>3, <1>5 DEF OnlineInv, StoresOK, RevocationKept
<1>7. StoresBounded'
  BY <1>3, <1>4, <1>5 DEF OnlineInv, StoresBounded
<1> QED
  BY <1>4, <1>6, <1>7 DEF OnlineInv

\* Every step of a request, of the clock and of the process keeps OnlineInv.
LEMMA OnlineNextInv == OnlineInv /\ [Next]_vars => OnlineInv'
<1> SUFFICES ASSUME OnlineInv, [Next]_vars PROVE OnlineInv'
  OBVIOUS
<1>1. CASE Tick
  <2>1. clock \in Nat /\ clock' = clock + 1 /\ UNCHANGED <<thread, seen, revoked, acked>>
    BY <1>1 DEF Tick, store, OnlineInv, StoresOK
  <2>2. \A x : InFlight(x) => InFlight(x)'
    BY <2>1 DEF InFlight, Working
  <2>3. ThreadsOK'
    BY <2>1, <2>2 DEF OnlineInv, ThreadsOK
  <2>4. StoresOK'
    BY <2>1 DEF OnlineInv, StoresOK
  <2>5. \A t \in Thread : thread'[t].pc # "idle" => thread'[t].now <= clock'
    BY <2>3 DEF ThreadsOK, InFlight
  <2>6. StoresBounded'
    BY <2>1, <2>5 DEF OnlineInv, StoresBounded
  <2>7. RevocationKept'
    BY <2>1 DEF OnlineInv, StoresOK, RevocationKept
  <2> QED
    BY <2>3, <2>4, <2>6, <2>7 DEF OnlineInv
<1>2. ASSUME NEW t \in Thread, NEW r \in Requests, Receive(t, r)
      PROVE  OnlineInv'
  BY <1>2, ReceiveInv
<1>3. ASSUME NEW t \in Thread, Serve(t)
      PROVE  OnlineInv'
  BY <1>3, GateInv, RecordAssertionInv, RevokeInv, LookupInv DEF Serve
<1>4. CASE Restart
  <2>1. ThreadsOK'
    BY <1>4 DEF Restart, ThreadsOK, Answered
  <2>2. StoresOK' /\ RevocationKept'
    BY <1>4, FS_EmptySet DEF Restart, OnlineInv, StoresOK, RevocationKept
  <2>3. StoresBounded'
    BY <1>4, FS_EmptySet, ReplayTableAssumption DEF Restart, StoresBounded, Answered
  <2> QED
    BY <2>1, <2>2, <2>3 DEF OnlineInv
<1>5. CASE UNCHANGED vars
  BY <1>5 DEF vars, store, OnlineInv, ThreadsOK, InFlight, StoresOK, StoresBounded,
              RevocationKept, RevokedIn
<1> QED
  BY <1>1, <1>2, <1>3, <1>4, <1>5 DEF Next

-------------------------------------------------------------------------------
\* The invariant holds in every interleaving of introspections, revocations,
\* panics and restarts.
THEOREM OnlineInvHolds == Spec => []OnlineInv
BY OnlineInitInv, OnlineNextInv, PTL DEF Spec

\* RevocationState and the replay store stay within max_seen_jti.
THEOREM OnlineStoresBounded == Spec => []StoresBounded
BY OnlineInvHolds, PTL DEF OnlineInv

\* No sweep of RevocationState drops the acknowledged revocation of a token
\* that has not expired.
THEOREM OnlineRevocationKept == Spec => []RevocationKept
BY OnlineInvHolds, PTL DEF OnlineInv

-------------------------------------------------------------------------------
\* A step answers one request: the others keep their threads.
LEMMA OneAnswers ==
  ASSUME OnlineInv, Next, NEW t \in Thread, thread[t].pc \in {"lookup", "revoke"},
         thread'[t].pc = "idle", thread'[t].res # "none"
  PROVE  Revoke(t) \/ Lookup(t) \/ LookupPoisoned(t) \/ RevokePoisoned(t)
<1>1. /\ thread = [u \in Thread |-> thread[u]]
      /\ thread'[t] # thread[t]
  BY DEF OnlineInv, ThreadsOK
<1>2. ~Tick /\ ~Restart
  BY <1>1 DEF Tick, Restart, Answered
<1>3. ASSUME NEW u \in Thread, NEW r \in Requests, Receive(u, r)
      PROVE  FALSE
  BY <1>1, <1>3 DEF Receive, Answer
<1>4. ASSUME NEW u \in Thread, Serve(u)
      PROVE  u = t
  <2>1. \/ \E res : Answer(u, res)
        \/ \E pc : Goto(u, pc) \/ ReadNow(u, pc)
    BY <1>4 DEF Serve, AuthenticateClient, RecordNow, RecordClientAssertion,
                VerifyToken, RevokeNow, Revoke, Lookup, LookupPoisoned,
                RevokePoisoned, PanicHoldingLock
  <2> QED
    BY <1>1, <2>1 DEF Answer, Goto, ReadNow
<1>5. Serve(t)
  BY <1>2, <1>3, <1>4 DEF Next
<1>6. ~PanicHoldingLock(t)
  BY <1>1 DEF PanicHoldingLock, Answer, Answered
<1> QED
  BY <1>5, <1>6 DEF Serve, AuthenticateClient, RecordNow, RecordClientAssertion,
                    VerifyToken, RevokeNow

\* /introspect never answers active for a token whose revocation had been
\* acknowledged when the request arrived, while the token is unexpired.
THEOREM OnlineRevokedIsInactive == Spec => RevokedIsInactive
<1>1. OnlineInv /\ [Next]_vars =>
        [\A t \in Thread : AnswersActive(t) /\ thread[t].wasRevoked
                            => clock > thread[t].r.token.exp]_vars
  <2> SUFFICES ASSUME OnlineInv, Next, NEW t \in Thread,
                      AnswersActive(t), thread[t].wasRevoked
               PROVE  clock > thread[t].r.token.exp
    OBVIOUS
  <2> DEFINE k == thread[t].r.token
             s == SweepRevoked(revoked, thread[t].now)
  <2>1. /\ thread[t].pc = "lookup"
        /\ thread'[t].pc = "idle"
        /\ thread'[t].res = "active"
    BY DEF AnswersActive
  <2>2. /\ Lookup(t)
        /\ ~RevokedIn(s, k)
    <3>1. Revoke(t) \/ Lookup(t) \/ LookupPoisoned(t) \/ RevokePoisoned(t)
      BY <2>1, OneAnswers
    <3>2. thread = [u \in Thread |-> thread[u]]
      BY DEF OnlineInv, ThreadsOK
    <3>3. Lookup(t)
      BY <2>1, <3>1, <3>2 DEF Revoke, LookupPoisoned, RevokePoisoned, Answer, Answered
    <3>4. thread'[t] = Answered(IF RevokedIn(s, k) THEN "inactive" ELSE "active")
      BY <3>2, <3>3 DEF Lookup, Answer
    <3> QED
      BY <2>1, <3>3, <3>4 DEF Answered
  <2>3. InFlight(thread[t])
    BY <2>1 DEF OnlineInv, ThreadsOK
  <2>4. thread[t].now \in Nat /\ thread[t].now <= clock /\ k \in acked
    BY <2>3 DEF InFlight, Working
  <2>5. ~(k.exp >= clock)
    BY <2>2, <2>4, SweepRevokedKeeps
  <2>6. k.exp \in Int /\ clock \in Int
    BY <2>4 DEF OnlineInv, StoresOK
  <2> QED
    BY <2>5, <2>6
<1> QED
  BY <1>1, OnlineInvHolds, PTL DEF Spec, RevokedIsInactive

\* /revoke never refuses for lack of room a token that is revoked already and
\* unexpired.
THEOREM OnlineRepeatedRevocationAccepted == Spec => RepeatedRevocationAccepted
<1> DEFINE Refused(t) == /\ thread[t].pc = "revoke"
                         /\ thread'[t].pc = "idle"
                         /\ thread'[t].res = "unavailable"
                         /\ ~poisoned
<1>1. OnlineInv /\ [Next]_vars =>
        [\A t \in Thread : Refused(t) =>
           ~(thread[t].r.token \in acked /\ thread[t].r.token.exp >= clock)]_vars
  <2> SUFFICES ASSUME OnlineInv, Next, NEW t \in Thread, Refused(t),
                      thread[t].r.token \in acked, thread[t].r.token.exp >= clock
               PROVE  FALSE
    OBVIOUS
  <2> DEFINE k == thread[t].r.token
             s == SweepRevoked(revoked, thread[t].now)
  <2>1. Revoke(t)
    <3>1. Revoke(t) \/ Lookup(t) \/ LookupPoisoned(t) \/ RevokePoisoned(t)
      BY OneAnswers
    <3> QED
      BY <3>1 DEF Lookup, LookupPoisoned, RevokePoisoned
  <2>2. NoRoom(s, k)
    <3>1. thread = [u \in Thread |-> thread[u]]
      BY DEF OnlineInv, ThreadsOK
    <3>2. ~Answer(t, "revoked")
      BY <3>1 DEF Answer, Answered
    <3> QED
      BY <2>1, <3>2 DEF Revoke
  <2>3. InFlight(thread[t])
    BY DEF OnlineInv, ThreadsOK
  <2>4. thread[t].now \in Nat /\ thread[t].now <= clock
    BY <2>3 DEF InFlight, Working
  <2>5. RevokedIn(s, k)
    BY <2>4, SweepRevokedKeeps
  <2> QED
    BY <2>2, <2>5 DEF NoRoom
<1> QED
  BY <1>1, OnlineInvHolds, PTL DEF Spec, RepeatedRevocationAccepted
===============================================================================
