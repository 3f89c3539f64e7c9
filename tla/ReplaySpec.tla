------------------------------ MODULE ReplaySpec ------------------------------
(***************************************************************************)
(* What a replay store promises its callers (trait ReplayStore of          *)
(* crates/sts-replay): a caller reads the clock, presents a key with an    *)
(* expiry and gets one answer.  A key is granted only when no grant of the *)
(* same key is still binding, that is, unexpired at the moment of the      *)
(* answer; "replay detected" is answered only for a key granted before.    *)
(* The promise covers one run of the process: a restart forgets.           *)
(***************************************************************************)
EXTENDS Integers

CONSTANTS
  Key,        \* replay keys, the blank ones included
  BlankKey,   \* the keys that are empty after trimming
  Caller,     \* the threads that call the store
  Exps,       \* expiry times a caller may present
  MaxTime     \* bound on the clock

VARIABLES
  clock,      \* wall clock, in seconds
  call,       \* call[c]: the call thread c has in flight, or its answer
  granted     \* grants made since the process started

vars == <<clock, call, granted>>

Errors == {"InvalidRequest", "ReplayDetected", "StoreFull"}

Grants == [key : Key, exp : Exps]

NoCall == [pc |-> "idle"]

Calls ==
  {NoCall}
    \cup [pc : {"called"}, key : Key, exp : Exps, now : Nat]
    \cup [pc : {"done"}, res : Errors \cup {"Ok"}]

Answer(c, r) == call' = [call EXCEPT ![c] = [pc |-> "done", res |-> r]]

\* A grant of k that has not expired yet.
Binding(k) == \E g \in granted : g.key = k /\ g.exp >= clock

Init ==
  /\ clock = 0
  /\ call = [c \in Caller |-> NoCall]
  /\ granted = {}

Tick ==
  /\ clock < MaxTime
  /\ clock' = clock + 1
  /\ UNCHANGED <<call, granted>>

\* The caller reads the clock and calls check_and_record(k, e, now).
Request(c, k, e) ==
  /\ call[c].pc # "called"
  /\ call' = [call EXCEPT ![c] =
                [pc |-> "called", key |-> k, exp |-> e, now |-> clock]]
  /\ UNCHANGED <<clock, granted>>

Grant(c) ==
  /\ call[c].pc = "called"
  /\ call[c].key \notin BlankKey
  /\ ~Binding(call[c].key)
  /\ granted' = granted \cup {[key |-> call[c].key, exp |-> call[c].exp]}
  /\ Answer(c, "Ok")
  /\ UNCHANGED clock

Deny(c, err) ==
  /\ call[c].pc = "called"
  /\ err = "InvalidRequest" => call[c].key \in BlankKey
  /\ err = "ReplayDetected" => \E g \in granted : g.key = call[c].key
  /\ Answer(c, err)
  /\ UNCHANGED <<clock, granted>>

\* The thread serving the call dies without an answer.
Abandon(c) ==
  /\ call[c].pc = "called"
  /\ call' = [call EXCEPT ![c] = NoCall]
  /\ UNCHANGED <<clock, granted>>

Restart ==
  /\ call' = [c \in Caller |-> NoCall]
  /\ granted' = {}
  /\ UNCHANGED clock

Next ==
  \/ Tick
  \/ \E c \in Caller, k \in Key, e \in Exps : Request(c, k, e)
  \/ \E c \in Caller : Grant(c)
  \/ \E c \in Caller, err \in Errors : Deny(c, err)
  \/ \E c \in Caller : Abandon(c)
  \/ Restart

Spec == Init /\ [][Next]_vars
===============================================================================
