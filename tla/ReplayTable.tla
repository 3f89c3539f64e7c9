----------------------------- MODULE ReplayTable ------------------------------
(***************************************************************************)
(* The map and the sweep counter of InMemoryReplayStore as values: what    *)
(* check_and_record computes while it holds the mutexes.  s is the set of  *)
(* (jti, exp) entries of the map, n the counter calls_since_sweep, now the *)
(* clock value its caller passed.                                          *)
(***************************************************************************)
EXTENDS Integers, FiniteSets

CONSTANTS
  MaxSeen,     \* STS_MAX_SEEN_JTI
  SweepEvery   \* sweep_every, after the .max(1) of the constructor

ASSUME ReplayTableAssumption ==
  /\ MaxSeen \in Nat \ {0}
  /\ SweepEvery \in Nat \ {0}

\* Mutant: an entry is dropped in its last valid second.
SweepExpiredEager(s, now) == {e \in s : e.exp > now}

SweepExpired(s, now) == {e \in s : e.exp >= now}

Contains(s, k) == \E e \in s : e.key = k

SweepDue(n) == n + 1 >= SweepEvery

\* Mutant: the counter is not reset by the sweep it triggers.
CountCallNoReset(n) == n + 1

CountCall(n) == IF SweepDue(n) THEN 0 ELSE n + 1

\* Mutant: one entry too many fits.
IsFullOffByOne(s) == Cardinality(s) > MaxSeen

IsFull(s) == Cardinality(s) >= MaxSeen

\* Mutant: only the periodic sweep runs, a full map is not swept first.
SweptPeriodicOnly(s, n, now) == IF SweepDue(n) THEN SweepExpired(s, now) ELSE s

\* The entries left when the capacity test is made: the periodic sweep, then
\* one more when the map is still full.
Swept(s, n, now) ==
  LET p == IF SweepDue(n) THEN SweepExpired(s, now) ELSE s
  IN  IF IsFull(p) THEN SweepExpired(p, now) ELSE p
===============================================================================
