-------------------------- MODULE ReplayTableProofs ---------------------------
(***************************************************************************)
(* What the sweeps and the counter of InMemoryReplayStore do to any map,   *)
(* for the proofs about the store and about the endpoints that use it.     *)
(***************************************************************************)
EXTENDS ReplayTable, FiniteSetTheorems, TLAPS

\* What the two sweeps of check_and_record leave of a map: a part of it that has
\* every entry unexpired at the caller's clock.
LEMMA SweptKeeps ==
  ASSUME NEW s, NEW n, NEW now
  PROVE  /\ Swept(s, n, now) \subseteq s
         /\ \A e \in s : e.exp >= now => e \in Swept(s, n, now)
BY DEF Swept, SweepExpired

\* The part that is left is no larger.
LEMMA SweptBounded ==
  ASSUME NEW s, NEW n, NEW now, IsFiniteSet(s)
  PROVE  /\ IsFiniteSet(Swept(s, n, now))
         /\ Cardinality(Swept(s, n, now)) <= Cardinality(s)
         /\ Cardinality(Swept(s, n, now)) \in Nat
<1>1. Swept(s, n, now) \subseteq s
  BY SweptKeeps
<1>2. /\ IsFiniteSet(Swept(s, n, now))
      /\ Cardinality(Swept(s, n, now)) <= Cardinality(s)
  BY <1>1, FS_Subset
<1> QED
  BY <1>2, FS_CardinalityType

\* A map that is not full after the sweeps has room for one entry more, and a
\* full one is within the capacity if it was before.
LEMMA RoomForOne ==
  ASSUME NEW s, NEW n, NEW now, NEW x, IsFiniteSet(s), Cardinality(s) <= MaxSeen
  PROVE  /\ Cardinality(Swept(s, n, now)) <= MaxSeen
         /\ IsFiniteSet(Swept(s, n, now) \cup {x})
         /\ ~IsFull(Swept(s, n, now)) =>
              Cardinality(Swept(s, n, now) \cup {x}) <= MaxSeen
<1> DEFINE left == Swept(s, n, now)
<1>1. /\ IsFiniteSet(left)
      /\ Cardinality(left) <= Cardinality(s)
      /\ Cardinality(left) \in Nat
  BY SweptBounded
<1>2. Cardinality(s) \in Nat
  BY FS_CardinalityType
<1>3. /\ IsFiniteSet(left \cup {x})
      /\ Cardinality(left \cup {x}) <= Cardinality(left) + 1
  BY <1>1, FS_AddElement
<1>4. Cardinality(left \cup {x}) \in Nat
  BY <1>3, FS_CardinalityType
<1>5. ~IsFull(left) => Cardinality(left) < MaxSeen
  BY <1>1, ReplayTableAssumption DEF IsFull
<1> HIDE DEF left
<1>6. Cardinality(left) <= MaxSeen
  BY <1>1, <1>2, ReplayTableAssumption
<1>7. ~IsFull(left) => Cardinality(left \cup {x}) <= MaxSeen
  BY <1>1, <1>3, <1>4, <1>5, ReplayTableAssumption
<1> QED
  BY <1>3, <1>6, <1>7 DEF left

\* The counter of calls since the last sweep is back in range after a call.
LEMMA CountCallInRange ==
  ASSUME NEW n \in 0 .. SweepEvery - 1
  PROVE  CountCall(n) \in 0 .. SweepEvery - 1
BY ReplayTableAssumption DEF CountCall, SweepDue
===============================================================================
