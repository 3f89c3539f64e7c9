------------------------------ MODULE ReplayFile ------------------------------
(***************************************************************************)
(* FileReplayStore (crates/sts-replay): several replicas share a POSIX     *)
(* directory with one file per recorded key.  Each file operation is one   *)
(* step, so the steps of the workers of all replicas interleave; the only  *)
(* lock is a replica's own mutex on calls_since_sweep, held during the     *)
(* periodic sweep.  File names are SHA-256 digests of the keys, so a file  *)
(* is identified here by its key.                                          *)
(***************************************************************************)
EXTENDS Integers, FiniteSets

CONSTANTS
  Key,         \* replay keys, the blank ones included
  BlankKey,    \* the keys that are empty after trimming
  Replica,     \* processes sharing the directory
  Worker,      \* request threads of all replicas
  ReplicaOf,   \* the replica a worker belongs to
  Exps,        \* expiry times presented
  MaxSeen,     \* STS_MAX_SEEN_JTI
  SweepEvery,  \* sweep_every, after the .max(1) of the constructor
  MaxTime,     \* bound on the clock
  NoWorker     \* no worker holds the mutex

ASSUME ReplayFileAssumption ==
  /\ BlankKey \subseteq Key
  /\ ReplicaOf \in [Worker -> Replica]
  /\ IsFiniteSet(Worker)
  /\ Exps \subseteq Int
  /\ MaxSeen \in Nat \ {0}
  /\ SweepEvery \in Nat \ {0}
  /\ MaxTime \in Nat
  /\ NoWorker \notin Worker

VARIABLES
  clock,   \* wall clock shared by the replicas
  dir,     \* the files of the directory
  calls,   \* calls[r]: calls_since_sweep of replica r, capped at SweepEvery
  lock,    \* lock[r]: the worker in the periodic sweep of replica r
  job,     \* job[w]: where worker w is in check_and_record
  granted  \* history: every (key, exp) whose record was written

vars == <<clock, dir, calls, lock, job, granted>>

\* A file, the worker whose create_new made it, and whether the expiry has been
\* written to it yet; until then read_exp finds nothing to parse.
File == [key : Key, by : Worker, exp : Exps, written : BOOLEAN]

Errors == {"InvalidRequest", "ReplayDetected", "StoreFull"}

Idle == [pc |-> "idle"]

PCs == {"maybe_sweep", "count", "recount", "read", "remove", "create", "write"}

Jobs ==
  {Idle}
    \cup [pc : {"done"}, res : Errors \cup {"Ok"}]
    \cup [pc : PCs, key : Key, exp : Exps, now : Nat]
    \cup [pc : {"sweep"}, key : Key, exp : Exps, now : Nat,
          todo : SUBSET Key, then : {"count", "recount"}]
    \cup [pc : {"sweep_remove"}, key : Key, exp : Exps, now : Nat,
          todo : SUBSET Key, then : {"count", "recount"}, victim : Key]

-------------------------------------------------------------------------------
Present == {f.key : f \in dir}

\* Mutant: a record is taken for expired in its last valid second.
HoldsExpiredEager(k, now) ==
  \E f \in dir : f.key = k /\ f.written /\ f.exp <= now

\* read_exp(path) is Some(exp) with exp < now.
HoldsExpired(k, now) ==
  \E f \in dir : f.key = k /\ f.written /\ f.exp < now

RemoveFile(k) == dir' = {f \in dir : f.key # k}

\* The call of worker w moves on within check_and_record.
Goto(w, label) ==
  job' = [job EXCEPT ![w] =
            [pc |-> label, key |-> job[w].key, exp |-> job[w].exp,
             now |-> job[w].now]]

Answer(w, r) == job' = [job EXCEPT ![w] = [pc |-> "done", res |-> r]]

\* The sweep of worker w has the entries in todo left and continues at label.
Sweeping(w, todo, label) ==
  job' = [job EXCEPT ![w] =
            [pc |-> "sweep", key |-> job[w].key, exp |-> job[w].exp,
             now |-> job[w].now, todo |-> todo, then |-> label]]

\* fs::read_dir, then the loop.  A file created after the directory was opened
\* may or may not be returned.
StartSweep(w, label) ==
  \E extra \in SUBSET (Key \ (BlankKey \cup Present)) :
    Sweeping(w, Present \cup extra, label)

Init ==
  /\ clock = 0
  /\ dir = {}
  /\ calls = [r \in Replica |-> 0]
  /\ lock = [r \in Replica |-> NoWorker]
  /\ job = [w \in Worker |-> Idle]
  /\ granted = {}

Tick ==
  /\ clock < MaxTime
  /\ clock' = clock + 1
  /\ UNCHANGED <<dir, calls, lock, job, granted>>

\* A handler reads the clock and calls check_and_record(k, e, now).
Call(w, k, e) ==
  /\ job[w].pc \in {"idle", "done"}
  /\ IF k \in BlankKey
       THEN Answer(w, "InvalidRequest")
       ELSE job' = [job EXCEPT ![w] =
                      [pc |-> "maybe_sweep", key |-> k, exp |-> e,
                       now |-> clock]]
  /\ UNCHANGED <<clock, dir, calls, lock, granted>>

-------------------------------------------------------------------------------
(***************************************************************************)
(* maybe_sweep and sweep_expired.                                          *)
(***************************************************************************)

MaybeSweep(w) ==
  LET r == ReplicaOf[w]
      due == calls[r] + 1 >= SweepEvery
  IN  /\ job[w].pc = "maybe_sweep"
      /\ lock[r] = NoWorker
      /\ IF due
           THEN /\ calls' = [calls EXCEPT ![r] = SweepEvery]
                /\ lock' = [lock EXCEPT ![r] = w]
                /\ StartSweep(w, "count")
           ELSE /\ calls' = [calls EXCEPT ![r] = @ + 1]
                /\ Goto(w, "count")
                /\ UNCHANGED lock
      /\ UNCHANGED <<clock, dir, granted>>

\* The next entry of the directory is read; unexpired, unparsable, unreadable
\* and vanished files are passed over.
SweepVisit(w, k) ==
  /\ job[w].pc = "sweep"
  /\ k \in job[w].todo
  /\ \/ /\ HoldsExpired(k, job[w].now)
        /\ job' = [job EXCEPT ![w] =
                     [pc |-> "sweep_remove", key |-> job[w].key,
                      exp |-> job[w].exp, now |-> job[w].now,
                      todo |-> job[w].todo \ {k}, then |-> job[w].then,
                      victim |-> k]]
     \/ Sweeping(w, job[w].todo \ {k}, job[w].then)
  /\ UNCHANGED <<clock, dir, calls, lock, granted>>

\* The file at the path is removed, whichever file that is by now; NotFound is
\* not an error.
SweepRemove(w) ==
  /\ job[w].pc = "sweep_remove"
  /\ RemoveFile(job[w].victim)
  /\ Sweeping(w, job[w].todo, job[w].then)
  /\ UNCHANGED <<clock, calls, lock, granted>>

\* The mutex guard is dropped when maybe_sweep returns.
Unlock(w) ==
  lock' = [r \in Replica |-> IF lock[r] = w THEN NoWorker ELSE lock[r]]

\* Mutant: the guard outlives maybe_sweep.
SweepEndKeepsLock(w) ==
  /\ job[w].pc = "sweep"
  /\ job[w].todo = {}
  /\ calls' = IF job[w].then = "count"
                THEN [calls EXCEPT ![ReplicaOf[w]] = 0]
                ELSE calls
  /\ Goto(w, job[w].then)
  /\ UNCHANGED <<clock, dir, lock, granted>>

SweepEnd(w) ==
  /\ job[w].pc = "sweep"
  /\ job[w].todo = {}
  /\ calls' = IF job[w].then = "count"
                THEN [calls EXCEPT ![ReplicaOf[w]] = 0]
                ELSE calls
  /\ Unlock(w)
  /\ Goto(w, job[w].then)
  /\ UNCHANGED <<clock, dir, granted>>

-------------------------------------------------------------------------------
(***************************************************************************)
(* The rest of check_and_record.                                           *)
(***************************************************************************)

\* active_entry_count walks the directory; its count is taken at one moment.
DirFull == Cardinality(dir) >= MaxSeen

Count(w) ==
  /\ job[w].pc = "count"
  /\ IF DirFull THEN StartSweep(w, "recount") ELSE Goto(w, "recount")
  /\ UNCHANGED <<clock, dir, calls, lock, granted>>

\* Mutant: the forced sweep is trusted to have made room.
RecountSkipped(w) ==
  /\ job[w].pc = "recount"
  /\ Goto(w, "read")
  /\ UNCHANGED <<clock, dir, calls, lock, granted>>

Recount(w) ==
  /\ job[w].pc = "recount"
  /\ IF DirFull THEN Answer(w, "StoreFull") ELSE Goto(w, "read")
  /\ UNCHANGED <<clock, dir, calls, lock, granted>>

\* A file that cannot be read counts as not expired.
ReadPath(w) ==
  /\ job[w].pc = "read"
  /\ \/ HoldsExpired(job[w].key, job[w].now) /\ Goto(w, "remove")
     \/ Goto(w, "create")
  /\ UNCHANGED <<clock, dir, calls, lock, granted>>

RemovePath(w) ==
  /\ job[w].pc = "remove"
  /\ RemoveFile(job[w].key)
  /\ Goto(w, "create")
  /\ UNCHANGED <<clock, calls, lock, granted>>

\* Mutant: the file is opened with create(true) instead of create_new(true).
CreateOrTruncate(w) ==
  /\ job[w].pc = "create"
  /\ dir' = {f \in dir : f.key # job[w].key}
              \cup {[key |-> job[w].key, by |-> w,
                     exp |-> job[w].exp, written |-> FALSE]}
  /\ Goto(w, "write")
  /\ UNCHANGED <<clock, calls, lock, granted>>

CreateNew(w) ==
  /\ job[w].pc = "create"
  /\ IF job[w].key \in Present
       THEN Answer(w, "ReplayDetected") /\ UNCHANGED dir
       ELSE /\ dir' = dir \cup {[key |-> job[w].key, by |-> w,
                                 exp |-> job[w].exp, written |-> FALSE]}
            /\ Goto(w, "write")
  /\ UNCHANGED <<clock, calls, lock, granted>>

\* The write goes to the open file, also when the path has been unlinked.
WriteExp(w) ==
  /\ job[w].pc = "write"
  /\ dir' = {IF f.key = job[w].key /\ f.by = w
               THEN [f EXCEPT !.written = TRUE] ELSE f : f \in dir}
  /\ granted' = granted \cup {[key |-> job[w].key, exp |-> job[w].exp]}
  /\ Answer(w, "Ok")
  /\ UNCHANGED <<clock, calls, lock>>

\* Any file operation but read_exp may fail: replay_store_unavailable.  The
\* guard is dropped and the counter keeps its value; a failed write leaves the
\* empty file behind.  A poisoned mutex ends a call the same way.
IoFailure(w) ==
  /\ job[w].pc \notin {"idle", "done", "read"}
  /\ Answer(w, "StoreFull")
  /\ Unlock(w)
  /\ UNCHANGED <<clock, dir, calls, granted>>

\* A replica dies and is restarted: its calls and counter are gone, the
\* directory is not.
Crash(r) ==
  /\ job' = [w \in Worker |-> IF ReplicaOf[w] = r THEN Idle ELSE job[w]]
  /\ calls' = [calls EXCEPT ![r] = 0]
  /\ lock' = [lock EXCEPT ![r] = NoWorker]
  /\ UNCHANGED <<clock, dir, granted>>

Step(w) ==
  \/ MaybeSweep(w)
  \/ \E k \in Key : SweepVisit(w, k)
  \/ SweepRemove(w)
  \/ SweepEnd(w)
  \/ Count(w)
  \/ Recount(w)
  \/ ReadPath(w)
  \/ RemovePath(w)
  \/ CreateNew(w)
  \/ WriteExp(w)

Next ==
  \/ Tick
  \/ \E w \in Worker, k \in Key, e \in Exps : Call(w, k, e)
  \/ \E w \in Worker : Step(w)
  \/ \E w \in Worker : IoFailure(w)
  \/ \E r \in Replica : Crash(r)

Spec == Init /\ [][Next]_vars

-------------------------------------------------------------------------------
\* Types.  A replica's mutex is held only by a worker of that replica that is in
\* its periodic sweep.
TypeOK ==
  /\ clock \in Nat
  /\ dir \subseteq File
  /\ calls \in [Replica -> 0 .. SweepEvery]
  /\ lock \in [Replica -> Worker \cup {NoWorker}]
  /\ \A r \in Replica :
       lock[r] # NoWorker =>
         /\ ReplicaOf[lock[r]] = r
         /\ job[lock[r]].pc \in {"sweep", "sweep_remove"}
  /\ job \in [Worker -> Jobs]
  /\ granted \subseteq [key : Key, exp : Exps]

\* A grant of k has passed its expiry.
ExpiredGrant(k) == \E g \in granted : g.key = k /\ g.exp < clock

\* Worker w is answered Ok for key k.
Wins(w, k) ==
  /\ job[w].pc = "write"
  /\ job[w].key = k
  /\ job'[w].pc = "done"
  /\ job'[w].res = "Ok"

\* create_new decides every race on a key as long as no record of that key has
\* expired: a second winner needs an expired record to have been there.
OneWinnerUntilExpiry ==
  [][\A w \in Worker, k \in Key :
       Wins(w, k) /\ (\E g \in granted : g.key = k) => ExpiredGrant(k)]_vars

\* The same without the exception, as the comment on FileReplayStore has it: of
\* the processes racing on a key one wins, and nobody else until its record
\* has expired.
ExactlyOneWinner ==
  [][\A w \in Worker, k \in Key :
       Wins(w, k) => ~\E g \in granted : g.key = k /\ g.exp >= clock]_vars

\* Until a first record of a key expires its file stays on disk, over crashes,
\* failed writes and sweeps of every replica, with the expiry that was granted,
\* and no worker is about to remove it.
GrantOnDisk ==
  /\ \A g \in granted :
       ExpiredGrant(g.key)
         \/ \E f \in dir : f.key = g.key /\ f.exp = g.exp /\ f.written
  /\ \A w \in Worker :
       /\ job[w].pc = "remove" => ExpiredGrant(job[w].key)
       /\ job[w].pc = "sweep_remove" => ExpiredGrant(job[w].victim)

\* The count and the create are separate steps: concurrent workers may overshoot
\* max_seen, but the files there are, with those of the workers that have been
\* counted in and not created theirs yet, exceed it by fewer than there are
\* workers.
BoundedOvershoot ==
  LET admitted == {w \in Worker : job[w].pc \in {"read", "remove", "create"}}
  IN  Cardinality(dir) + Cardinality(admitted) < MaxSeen + Cardinality(Worker)
===============================================================================
