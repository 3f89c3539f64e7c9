----------------------------- MODULE ReplayMemory -----------------------------
(***************************************************************************)
(* InMemoryReplayStore (crates/sts-replay).  A request thread reads the    *)
(* clock in the HTTP handler and passes that value to check_and_record,    *)
(* which runs under the mutex on seen; between the two any number of other *)
(* calls may run and time may pass, so `now' is stale when it is used and  *)
(* the calls do not reach the store in clock order.                        *)
(***************************************************************************)
EXTENDS ReplayTable

CONSTANTS
  Key,         \* replay keys presented by the handlers
  BlankKey,    \* the keys that are empty after trimming
  Caller,      \* request threads
  Exps,        \* expiry times presented
  MaxTime      \* bound on the clock

ASSUME ReplayMemoryAssumption ==
  /\ BlankKey \subseteq Key
  /\ Exps \subseteq Int
  /\ MaxTime \in Nat

VARIABLES
  clock,     \* wall clock, in seconds, assumed not to step back
  call,      \* call[c]: the call thread c has in flight, or its answer
  seen,      \* the entries (jti, exp) of the map
  calls,     \* calls_since_sweep
  poisoned,  \* a thread panicked while it held the mutexes
  granted    \* history: every (key, exp) recorded since the process started

vars == <<clock, call, seen, calls, poisoned, granted>>

Promise == INSTANCE ReplaySpec

Entry == Promise!Grants
Answer(c, r) == Promise!Answer(c, r)

Init ==
  /\ Promise!Init
  /\ seen = {}
  /\ calls = 0
  /\ poisoned = FALSE

Tick ==
  /\ Promise!Tick
  /\ UNCHANGED <<seen, calls, poisoned>>

Request(c, k, e) ==
  /\ Promise!Request(c, k, e)
  /\ UNCHANGED <<seen, calls, poisoned>>

-------------------------------------------------------------------------------
(***************************************************************************)
(* check_and_record, one action per way it ends.                           *)
(***************************************************************************)

\* The call got past the empty-jti test, both locks and the lookup.
PastLookup(c) ==
  /\ call[c].pc = "called"
  /\ call[c].key \notin BlankKey
  /\ ~poisoned
  /\ ~Contains(seen, call[c].key)

RejectBlank(c) ==
  /\ call[c].pc = "called"
  /\ call[c].key \in BlankKey
  /\ Answer(c, "InvalidRequest")
  /\ UNCHANGED <<clock, seen, calls, poisoned, granted>>

RejectUnavailable(c) ==
  /\ call[c].pc = "called"
  /\ call[c].key \notin BlankKey
  /\ poisoned
  /\ Answer(c, "StoreFull")
  /\ UNCHANGED <<clock, seen, calls, poisoned, granted>>

\* The lookup comes before any sweep: an expired entry still rejects.
RejectReplay(c) ==
  /\ call[c].pc = "called"
  /\ call[c].key \notin BlankKey
  /\ ~poisoned
  /\ Contains(seen, call[c].key)
  /\ Answer(c, "ReplayDetected")
  /\ UNCHANGED <<clock, seen, calls, poisoned, granted>>

RejectFull(c) ==
  /\ PastLookup(c)
  /\ IsFull(Swept(seen, calls, call[c].now))
  /\ seen' = Swept(seen, calls, call[c].now)
  /\ calls' = CountCall(calls)
  /\ Answer(c, "StoreFull")
  /\ UNCHANGED <<clock, poisoned, granted>>

Record(c) ==
  LET new == [key |-> call[c].key, exp |-> call[c].exp]
  IN  /\ PastLookup(c)
      /\ ~IsFull(Swept(seen, calls, call[c].now))
      /\ seen' = Swept(seen, calls, call[c].now) \cup {new}
      /\ calls' = CountCall(calls)
      /\ Answer(c, "Ok")
      /\ granted' = granted \cup {new}
      /\ UNCHANGED <<clock, poisoned>>

\* A thread panics inside the critical section: its request dies and both
\* mutexes stay poisoned.  What it left in seen is never looked at again.
PanicHoldingLock(c) ==
  /\ call[c].pc = "called"
  /\ call[c].key \notin BlankKey
  /\ ~poisoned
  /\ poisoned' = TRUE
  /\ call' = [call EXCEPT ![c] = Promise!NoCall]
  /\ UNCHANGED <<clock, seen, calls, granted>>

\* The process is restarted with an empty store.
Restart ==
  /\ Promise!Restart
  /\ seen' = {}
  /\ calls' = 0
  /\ poisoned' = FALSE

CheckAndRecord(c) ==
  \/ RejectBlank(c)
  \/ RejectUnavailable(c)
  \/ RejectReplay(c)
  \/ RejectFull(c)
  \/ Record(c)

Next ==
  \/ Tick
  \/ \E c \in Caller, k \in Key, e \in Exps : Request(c, k, e)
  \/ \E c \in Caller : CheckAndRecord(c)
  \/ \E c \in Caller : PanicHoldingLock(c)
  \/ Restart

Spec == Init /\ [][Next]_vars

CacheSize == IF poisoned THEN 0 ELSE Cardinality(seen)

-------------------------------------------------------------------------------
\* Types.  The counter stays below sweep_every: it is reset by the sweep.
TypeOK ==
  /\ clock \in Nat
  /\ call \in [Caller -> Promise!Calls]
  /\ seen \subseteq Entry
  /\ calls \in 0 .. SweepEvery - 1
  /\ poisoned \in BOOLEAN
  /\ granted \subseteq Entry

\* The map never outgrows max_seen and holds one expiry per key, whatever
\* the order in which stale calls reach check_and_record.
CapacityBound ==
  /\ IsFiniteSet(seen)
  /\ Cardinality(seen) <= MaxSeen
  /\ \A e, f \in seen : e.key = f.key => e = f

\* No sweep, periodic or forced, and no caller with a stale clock removes the
\* record of a key that is still unexpired by the real clock, and a thread's
\* clock value is never ahead of the real one (why sweeping with it is safe).
RetainedUntilExpiry ==
  /\ {g \in granted : g.exp >= clock} \subseteq seen
  /\ seen \subseteq granted
  /\ \A c \in Caller : call[c].pc = "called" => call[c].now <= clock

\* The store implements the promise of ReplaySpec: single use of a key while
\* its record is unexpired, and no replay verdict on a key never granted.
ImplementsPromise == Promise!Spec

\* "replay store full" is answered only when max_seen records are unexpired by
\* the caller's own clock, or a panic poisoned the store: expired records
\* never make the service refuse a request.
FullOnlyOfUnexpired ==
  [][\A c \in Caller :
       /\ call[c].pc = "called"
       /\ call'[c].pc = "done"
       /\ call'[c].res = "StoreFull"
       /\ ~poisoned
       => Cardinality({e \in seen : e.exp >= call[c].now}) >= MaxSeen]_vars
===============================================================================
