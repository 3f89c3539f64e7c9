-------------------------- MODULE ReplayMemoryProofs --------------------------
(***************************************************************************)
(* Proofs about InMemoryReplayStore, for every number of keys, threads and *)
(* expiry times and every max_seen and sweep_every.                        *)
(***************************************************************************)
EXTENDS ReplayMemory, ReplayTableProofs

\* The inductive invariant.  Single use needs that an unexpired grant is still
\* in the map, which needs that no thread sweeps with a clock ahead of time.
Inv == TypeOK /\ CapacityBound /\ RetainedUntilExpiry

-------------------------------------------------------------------------------
\* What the two sweeps leave: a finite part of the map with every entry that
\* is unexpired at the caller's clock.
LEMMA SweptFacts ==
  ASSUME NEW now \in Int, CapacityBound, TypeOK
  PROVE  /\ Swept(seen, calls, now) \subseteq seen
         /\ IsFiniteSet(Swept(seen, calls, now))
         /\ Cardinality(Swept(seen, calls, now)) <= Cardinality(seen)
         /\ Cardinality(Swept(seen, calls, now)) \in Nat
         /\ \A e \in seen : e.exp >= now => e \in Swept(seen, calls, now)
BY SweptKeeps, SweptBounded DEF CapacityBound

\* The types of the arguments of a call in flight.
LEMMA CalledTypes ==
  ASSUME TypeOK, NEW c \in Caller, call[c].pc = "called"
  PROVE  /\ call[c].key \in Key
         /\ call[c].exp \in Exps
         /\ call[c].now \in Nat
<1>1. call[c] \in Promise!Calls
  BY DEF TypeOK
<1>2. call[c] # Promise!NoCall
  BY DEF Promise!NoCall
<1> QED
  BY <1>1, <1>2 DEF Promise!Calls

\* The clock and the expiry of every grant can be compared.
LEMMA TimesAreIntegers ==
  ASSUME TypeOK
  PROVE  clock \in Int /\ \A g \in granted : g.exp \in Int
<1>1. \A g \in Entry : g.exp \in Exps
  BY DEF Entry, Promise!Grants
<1>2. \A g \in granted : g.exp \in Exps
  BY <1>1 DEF TypeOK
<1>3. \A t \in Exps : t \in Int
  BY ReplayMemoryAssumption
<1>4. clock \in Int
  BY DEF TypeOK
<1> QED
  BY <1>2, <1>3, <1>4

\* The types a step must respect when it only answers, abandons or opens calls.
LEMMA CallTypes ==
  ASSUME TypeOK, NEW c \in Caller
  PROVE  /\ \A r \in Promise!Errors \cup {"Ok"} :
              Answer(c, r) => call' \in [Caller -> Promise!Calls]
         /\ [call EXCEPT ![c] = Promise!NoCall] \in [Caller -> Promise!Calls]
<1>1. \A r \in Promise!Errors \cup {"Ok"} :
        [pc |-> "done", res |-> r] \in Promise!Calls
  BY DEF Promise!Calls
<1>2. Promise!NoCall \in Promise!Calls
  BY DEF Promise!Calls
<1> QED
  BY <1>1, <1>2 DEF TypeOK, Answer, Promise!Answer

\* Answering a call leaves the other calls alone and leaves none open at c.
LEMMA AnswerClock ==
  ASSUME TypeOK, RetainedUntilExpiry, NEW c \in Caller, clock' = clock,
         \/ \E r : Answer(c, r)
         \/ call' = [call EXCEPT ![c] = Promise!NoCall]
  PROVE  \A d \in Caller : call'[d].pc = "called" => call'[d].now <= clock'
<1> SUFFICES ASSUME NEW d \in Caller, call'[d].pc = "called"
             PROVE  call'[d].now <= clock'
  OBVIOUS
<1>1. d # c
  BY DEF TypeOK, Answer, Promise!Answer, Promise!NoCall
<1>2. call'[d] = call[d]
  BY <1>1 DEF TypeOK, Answer, Promise!Answer
<1> QED
  BY <1>2 DEF RetainedUntilExpiry

\* A new store is empty: the invariant holds of it.
LEMMA InitInv == Init => Inv
<1> SUFFICES ASSUME Init PROVE Inv
  OBVIOUS
<1>1. TypeOK
  <2>1. call \in [Caller -> Promise!Calls]
    BY DEF Init, Promise!Init, Promise!Calls
  <2>2. poisoned \in BOOLEAN
    BY DEF Init
  <2>3. clock \in Nat /\ seen \subseteq Entry /\ granted \subseteq Entry
    BY DEF Init, Promise!Init
  <2>4. calls \in 0 .. SweepEvery - 1
    BY ReplayTableAssumption DEF Init
  <2> QED
    BY <2>1, <2>2, <2>3, <2>4 DEF TypeOK
<1>2. CapacityBound
  BY FS_EmptySet, ReplayTableAssumption DEF Init, CapacityBound
<1>3. RetainedUntilExpiry
  BY DEF Init, Promise!Init, RetainedUntilExpiry, Promise!NoCall
<1> QED
  BY <1>1, <1>2, <1>3 DEF Inv

\* The counter is back in range after every counted call.
LEMMA CountCallType ==
  ASSUME TypeOK, calls' = CountCall(calls)
  PROVE  calls' \in 0 .. SweepEvery - 1
BY CountCallInRange DEF TypeOK

\* A call turned away by a full map swept it and inserted nothing.
LEMMA RejectFullInv ==
  ASSUME Inv, NEW c \in Caller, RejectFull(c)
  PROVE  Inv'
<1> USE DEF Inv
<1>1. call[c].now \in Nat /\ call[c].now <= clock
  BY CalledTypes DEF RejectFull, PastLookup, RetainedUntilExpiry
<1>2. /\ seen' \subseteq seen
      /\ IsFiniteSet(seen')
      /\ Cardinality(seen') <= Cardinality(seen)
      /\ Cardinality(seen') \in Nat
      /\ \A e \in seen : e.exp >= call[c].now => e \in seen'
  BY <1>1, SweptFacts DEF RejectFull
<1>3. TypeOK'
  <2>1. call' \in [Caller -> Promise!Calls]
    BY CallTypes DEF RejectFull, Promise!Errors
  <2>2. calls' \in 0 .. SweepEvery - 1
    BY CountCallType DEF RejectFull
  <2> QED
    BY <1>2, <2>1, <2>2 DEF TypeOK, RejectFull
<1>4. CapacityBound'
  <2>1. Cardinality(seen') <= MaxSeen
    BY <1>2, FS_CardinalityType, ReplayTableAssumption DEF CapacityBound
  <2> QED
    BY <1>2, <2>1 DEF CapacityBound
<1>5. RetainedUntilExpiry'
  <2>1. {g \in granted : g.exp >= clock} \subseteq seen'
    <3> SUFFICES ASSUME NEW g \in granted, g.exp >= clock PROVE g \in seen'
      OBVIOUS
    <3>1. g \in seen
      BY DEF RetainedUntilExpiry
    <3>2. g.exp \in Int /\ clock \in Int
      BY TimesAreIntegers
    <3> QED
      BY <1>1, <1>2, <3>1, <3>2
  <2>2. \A d \in Caller : call'[d].pc = "called" => call'[d].now <= clock'
    BY AnswerClock DEF RejectFull
  <2> QED
    BY <1>2, <2>1, <2>2 DEF RetainedUntilExpiry, RejectFull
<1> QED
  BY <1>3, <1>4, <1>5

\* A recorded key was absent and fitted: the map grows by one entry.
LEMMA RecordInv ==
  ASSUME Inv, NEW c \in Caller, Record(c)
  PROVE  Inv'
<1> USE DEF Inv
<1> DEFINE new == [key |-> call[c].key, exp |-> call[c].exp]
           S   == Swept(seen, calls, call[c].now)
<1>1. /\ call[c].now \in Nat /\ call[c].now <= clock
      /\ new \in Entry
  BY CalledTypes
  DEF Record, PastLookup, RetainedUntilExpiry, Entry, Promise!Grants
<1>2. /\ S \subseteq seen
      /\ IsFiniteSet(S)
      /\ Cardinality(S) \in Nat
      /\ \A e \in seen : e.exp >= call[c].now => e \in S
  BY <1>1, SweptFacts
<1>3. /\ seen' = S \cup {new}
      /\ granted' = granted \cup {new}
      /\ Cardinality(S) < MaxSeen
  BY <1>2, ReplayTableAssumption DEF Record, IsFull
<1>4. TypeOK'
  <2>1. call' \in [Caller -> Promise!Calls]
    BY CallTypes DEF Record
  <2>2. calls' \in 0 .. SweepEvery - 1
    BY CountCallType DEF Record
  <2> QED
    BY <1>1, <1>2, <1>3, <2>1, <2>2 DEF TypeOK, Record
<1>5. CapacityBound'
  <2>1. \A e \in seen : e.key # call[c].key
    BY DEF Record, PastLookup, Contains
  <2>2. new \notin S
    BY <1>2, <2>1
  <2>3. IsFiniteSet(seen') /\ Cardinality(seen') = Cardinality(S) + 1
    <3>1. IsFiniteSet(S \cup {new}) /\ Cardinality(S \cup {new}) = Cardinality(S) + 1
      BY <1>2, <2>2, FS_AddElement
    <3> QED
      BY <1>3, <3>1
  <2>4. Cardinality(seen') <= MaxSeen
    BY <1>2, <1>3, <2>3, ReplayTableAssumption
  <2>5. \A e, f \in seen' : e.key = f.key => e = f
    BY <1>2, <1>3, <2>1 DEF CapacityBound
  <2> QED
    BY <2>3, <2>4, <2>5 DEF CapacityBound
<1>6. RetainedUntilExpiry'
  <2>1. {g \in granted' : g.exp >= clock} \subseteq seen'
    <3> SUFFICES ASSUME NEW g \in granted, g.exp >= clock PROVE g \in S
      BY <1>3
    <3>1. g \in seen
      BY DEF RetainedUntilExpiry
    <3>2. g.exp \in Int /\ clock \in Int
      BY TimesAreIntegers
    <3> QED
      BY <1>1, <1>2, <3>1, <3>2
  <2>2. \A d \in Caller : call'[d].pc = "called" => call'[d].now <= clock'
    BY AnswerClock DEF Record
  <2>3. seen' \subseteq granted'
    BY <1>2, <1>3 DEF RetainedUntilExpiry
  <2> QED
    BY <2>1, <2>2, <2>3 DEF RetainedUntilExpiry, Record
<1> QED
  BY <1>4, <1>5, <1>6

\* Every step of the store, of the clock and of the process keeps Inv.
LEMMA NextInv == Inv /\ [Next]_vars => Inv'
<1> SUFFICES ASSUME Inv, [Next]_vars PROVE Inv'
  OBVIOUS
<1> USE DEF Inv
<1>1. CASE Tick
  <2>1. TypeOK'
    BY <1>1 DEF Tick, Promise!Tick, TypeOK
  <2>2. CapacityBound'
    BY <1>1 DEF Tick, CapacityBound
  <2>3. RetainedUntilExpiry'
    <3>1. {g \in granted : g.exp >= clock'} \subseteq {g \in granted : g.exp >= clock}
      BY <1>1, TimesAreIntegers DEF Tick, Promise!Tick
    <3>2. \A c \in Caller : call[c].pc = "called" => call[c].now <= clock'
      BY <1>1, CalledTypes, TimesAreIntegers
      DEF Tick, Promise!Tick, RetainedUntilExpiry
    <3> QED
      BY <1>1, <3>1, <3>2 DEF Tick, Promise!Tick, RetainedUntilExpiry
  <2> QED
    BY <2>1, <2>2, <2>3
<1>2. ASSUME NEW c \in Caller, NEW k \in Key, NEW e \in Exps, Request(c, k, e)
      PROVE  Inv'
  <2>1. TypeOK'
    <3>1. call' \in [Caller -> Promise!Calls]
      BY <1>2 DEF Request, Promise!Request, TypeOK, Promise!Calls
    <3> QED
      BY <1>2, <3>1 DEF Request, Promise!Request, TypeOK
  <2>2. CapacityBound'
    BY <1>2 DEF Request, CapacityBound
  <2>3. RetainedUntilExpiry'
    <3>1. \A d \in Caller : call'[d].pc = "called" => call'[d].now <= clock
      BY <1>2, TimesAreIntegers
      DEF Request, Promise!Request, RetainedUntilExpiry, TypeOK
    <3> QED
      BY <1>2, <3>1 DEF Request, Promise!Request, RetainedUntilExpiry
  <2> QED
    BY <2>1, <2>2, <2>3
<1>3. ASSUME NEW c \in Caller, NEW r \in Promise!Errors, Answer(c, r),
             UNCHANGED <<clock, seen, calls, poisoned, granted>>
      PROVE  Inv'
  <2>1. TypeOK'
    BY <1>3, CallTypes DEF TypeOK
  <2>2. CapacityBound'
    BY <1>3 DEF CapacityBound
  <2>3. RetainedUntilExpiry'
    <3>1. \A d \in Caller : call'[d].pc = "called" => call'[d].now <= clock'
      BY <1>3, AnswerClock
    <3> QED
      BY <1>3, <3>1 DEF RetainedUntilExpiry
  <2> QED
    BY <2>1, <2>2, <2>3
<1>4. ASSUME NEW c \in Caller, CheckAndRecord(c)
      PROVE  Inv'
  BY <1>3, <1>4, RejectFullInv, RecordInv
  DEF CheckAndRecord, RejectBlank, RejectUnavailable, RejectReplay, Promise!Errors
<1>5. ASSUME NEW c \in Caller, PanicHoldingLock(c)
      PROVE  Inv'
  <2>1. TypeOK'
    <3>1. call' \in [Caller -> Promise!Calls]
      BY <1>5, CallTypes DEF PanicHoldingLock
    <3>2. poisoned' \in BOOLEAN
      BY <1>5 DEF PanicHoldingLock
    <3> QED
      BY <1>5, <3>1, <3>2 DEF PanicHoldingLock, TypeOK
  <2>2. CapacityBound'
    BY <1>5 DEF PanicHoldingLock, CapacityBound
  <2>3. RetainedUntilExpiry'
    <3>1. \A d \in Caller : call'[d].pc = "called" => call'[d].now <= clock'
      BY <1>5, AnswerClock DEF PanicHoldingLock
    <3> QED
      BY <1>5, <3>1 DEF PanicHoldingLock, RetainedUntilExpiry
  <2> QED
    BY <2>1, <2>2, <2>3
<1>6. CASE Restart
  <2>1. TypeOK'
    <3>1. call' \in [Caller -> Promise!Calls]
      BY <1>6 DEF Restart, Promise!Restart, Promise!Calls
    <3>2. poisoned' \in BOOLEAN
      BY <1>6 DEF Restart
    <3>3. calls' \in 0 .. SweepEvery - 1
      BY <1>6, ReplayTableAssumption DEF Restart
    <3> QED
      BY <1>6, <3>1, <3>2, <3>3 DEF Restart, Promise!Restart, TypeOK
  <2>2. CapacityBound'
    BY <1>6, FS_EmptySet, ReplayTableAssumption DEF Restart, CapacityBound
  <2>3. RetainedUntilExpiry'
    BY <1>6 DEF Restart, Promise!Restart, RetainedUntilExpiry, Promise!NoCall
  <2> QED
    BY <2>1, <2>2, <2>3
<1>7. CASE UNCHANGED vars
  BY <1>7 DEF vars, TypeOK, CapacityBound, RetainedUntilExpiry
<1> QED
  BY <1>1, <1>2, <1>4, <1>5, <1>6, <1>7 DEF Next

-------------------------------------------------------------------------------
\* check_and_record keeps its types, its capacity and every unexpired record in
\* every interleaving of the request threads.
THEOREM InvHolds == Spec => []Inv
BY InitInv, NextInv, PTL DEF Spec

\* The types hold, the sweep counter stays below sweep_every.
THEOREM TypeCorrect == Spec => []TypeOK
BY InvHolds, PTL DEF Inv

\* The map of InMemoryReplayStore never holds more than max_seen entries.
THEOREM CapacityHolds == Spec => []CapacityBound
BY InvHolds, PTL DEF Inv

\* No unexpired record is ever swept, with however stale a clock.
THEOREM RetentionHolds == Spec => []RetainedUntilExpiry
BY InvHolds, PTL DEF Inv

-------------------------------------------------------------------------------
\* A key is recorded only when no grant of it is unexpired.
LEMMA RecordIsGrant ==
  ASSUME Inv, NEW c \in Caller, Record(c)
  PROVE  Promise!Grant(c)
<1>1. ~Promise!Binding(call[c].key)
  <2> SUFFICES ASSUME NEW g \in granted, g.key = call[c].key, g.exp >= clock
               PROVE  FALSE
    BY DEF Promise!Binding
  <2>1. g \in seen
    BY DEF Inv, RetainedUntilExpiry
  <2> QED
    BY <2>1 DEF Record, PastLookup, Contains
<1> QED
  BY <1>1 DEF Record, PastLookup, Promise!Grant, Answer

\* A replay is reported only for a key that was granted.
LEMMA RejectReplayIsDeny ==
  ASSUME Inv, NEW c \in Caller, RejectReplay(c)
  PROVE  Promise!Deny(c, "ReplayDetected")
<1>1. \E g \in granted : g.key = call[c].key
  BY DEF Inv, RetainedUntilExpiry, RejectReplay, Contains
<1> QED
  BY <1>1 DEF RejectReplay, Promise!Deny, Answer

\* InMemoryReplayStore implements ReplaySpec: every check_and_record, panic and
\* restart of the detailed store is a step the promise allows.
THEOREM Refinement == Spec => ImplementsPromise
<1>1. Init => Promise!Init
  BY DEF Init
<1>2. Inv /\ [Next]_vars => [Promise!Next]_(Promise!vars)
  <2> SUFFICES ASSUME Inv, [Next]_vars PROVE [Promise!Next]_(Promise!vars)
    OBVIOUS
  <2>1. CASE Tick
    BY <2>1 DEF Tick, Promise!Next
  <2>2. ASSUME NEW c \in Caller, NEW k \in Key, NEW e \in Exps, Request(c, k, e)
        PROVE  Promise!Next
    BY <2>2 DEF Request, Promise!Next
  <2>3. ASSUME NEW c \in Caller, CheckAndRecord(c)
        PROVE  Promise!Next
    <3>1. CASE RejectBlank(c)
      <4>1. Promise!Deny(c, "InvalidRequest")
        BY <3>1 DEF RejectBlank, Promise!Deny, Answer
      <4> QED
        BY <4>1 DEF Promise!Next, Promise!Errors
    <3>2. CASE RejectUnavailable(c)
      <4>1. Promise!Deny(c, "StoreFull")
        BY <3>2 DEF RejectUnavailable, Promise!Deny, Answer
      <4> QED
        BY <4>1 DEF Promise!Next, Promise!Errors
    <3>3. CASE RejectReplay(c)
      BY <3>3, RejectReplayIsDeny DEF Promise!Next, Promise!Errors
    <3>4. CASE RejectFull(c)
      <4>1. Promise!Deny(c, "StoreFull")
        BY <3>4 DEF RejectFull, PastLookup, Promise!Deny, Answer
      <4> QED
        BY <4>1 DEF Promise!Next, Promise!Errors
    <3>5. CASE Record(c)
      BY <3>5, RecordIsGrant DEF Promise!Next
    <3> QED
      BY <2>3, <3>1, <3>2, <3>3, <3>4, <3>5 DEF CheckAndRecord
  <2>4. ASSUME NEW c \in Caller, PanicHoldingLock(c)
        PROVE  Promise!Next
    <3>1. Promise!Abandon(c)
      BY <2>4 DEF PanicHoldingLock, Promise!Abandon
    <3> QED
      BY <3>1 DEF Promise!Next
  <2>5. CASE Restart
    BY <2>5 DEF Restart, Promise!Next
  <2>6. CASE UNCHANGED vars
    BY <2>6 DEF vars, Promise!vars
  <2> QED
    BY <2>1, <2>2, <2>3, <2>4, <2>5, <2>6 DEF Next
<1> QED
  BY <1>1, <1>2, InvHolds, PTL DEF Spec, ImplementsPromise, Promise!Spec

-------------------------------------------------------------------------------
\* A full map after the sweeps is full of entries unexpired at the caller's
\* clock: the forced sweep ran.
LEMMA FullAfterSweep ==
  ASSUME Inv, NEW now \in Int, IsFull(Swept(seen, calls, now))
  PROVE  Cardinality({e \in seen : e.exp >= now}) >= MaxSeen
<1> DEFINE U == {e \in seen : e.exp >= now}
<1>1. Swept(seen, calls, now) \subseteq U
  BY DEF Swept, SweepExpired, IsFull
<1>2. IsFiniteSet(U)
  BY FS_Subset DEF Inv, CapacityBound
<1>3. Cardinality(Swept(seen, calls, now)) <= Cardinality(U)
  BY <1>1, <1>2, FS_Subset
<1>4. /\ Cardinality(Swept(seen, calls, now)) \in Nat
      /\ Cardinality(U) \in Nat
      /\ Cardinality(Swept(seen, calls, now)) >= MaxSeen
  BY <1>2, SweptFacts, FS_CardinalityType DEF Inv, IsFull
<1>5. Cardinality(U) >= MaxSeen
  BY <1>3, <1>4, ReplayTableAssumption
<1> QED
  BY <1>5

\* "replay store full" is never caused by expired records: check_and_record
\* sweeps a full map before it refuses.
THEOREM FullHolds == Spec => FullOnlyOfUnexpired
<1> DEFINE Refused(c) ==
             /\ call[c].pc = "called"
             /\ call'[c].pc = "done"
             /\ call'[c].res = "StoreFull"
             /\ ~poisoned
           Justified(c) ==
             Cardinality({e \in seen : e.exp >= call[c].now}) >= MaxSeen
<1>1. Inv /\ [Next]_vars => [\A c \in Caller : Refused(c) => Justified(c)]_vars
  <2> SUFFICES ASSUME Inv, Next, NEW c \in Caller, Refused(c)
               PROVE  Justified(c)
    OBVIOUS
  <2>1. /\ call \in [Caller -> Promise!Calls]
        /\ call'[c] # call[c]
    BY DEF Inv, TypeOK
  <2>2. CASE Tick \/ Restart
    BY <2>1, <2>2
    DEF Tick, Promise!Tick, Restart, Promise!Restart, Promise!NoCall
  <2>3. ASSUME NEW d \in Caller, NEW k \in Key, NEW e \in Exps, Request(d, k, e)
        PROVE  FALSE
    BY <2>1, <2>3 DEF Request, Promise!Request
  <2>4. ASSUME NEW d \in Caller, PanicHoldingLock(d)
        PROVE  FALSE
    BY <2>1, <2>4 DEF PanicHoldingLock, Promise!NoCall
  <2>5. ASSUME NEW d \in Caller, CheckAndRecord(d)
        PROVE  Justified(c)
    <3>1. \E r : Answer(d, r)
      BY <2>5 DEF CheckAndRecord, RejectBlank, RejectUnavailable,
                  RejectReplay, RejectFull, Record
    <3>2. d = c
      BY <2>1, <3>1 DEF Answer, Promise!Answer
    <3>3. Answer(c, "StoreFull")
      BY <2>1, <3>1, <3>2 DEF Answer, Promise!Answer
    <3>4. RejectFull(c)
      BY <2>1, <2>5, <3>2, <3>3
      DEF CheckAndRecord, RejectBlank, RejectUnavailable, RejectReplay, Record,
          Answer, Promise!Answer
    <3>5. call[c].now \in Int
      BY CalledTypes DEF Inv
    <3> QED
      BY <3>4, <3>5, FullAfterSweep DEF RejectFull
  <2> QED
    BY <2>2, <2>3, <2>4, <2>5 DEF Next
<1> QED
  BY <1>1, InvHolds, PTL DEF Spec, FullOnlyOfUnexpired
===============================================================================
