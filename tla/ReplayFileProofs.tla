--------------------------- MODULE ReplayFileProofs ---------------------------
(***************************************************************************)
(* Proofs about FileReplayStore, for every number of replicas, workers and *)
(* keys, every capacity, every sweep period and every expiry.              *)
(***************************************************************************)
EXTENDS ReplayFile, FiniteSetTheorems, TLAPS

\* A file of the key of job j that worker w created with j's expiry.
OwnFile(w, j) == \E f \in dir : f.key = j.key /\ f.by = w /\ f.exp = j.exp

\* What worker w relies on at the point of check_and_record where job j stands.
\* Whoever is about to remove a path has seen an expired grant of its key.
\* Whoever is about to write still owns the file it created, or a grant of the
\* key has expired; and if the key was granted before, one has.
JobOK(w, j) ==
  /\ j.pc \notin {"idle", "done"} => j.now <= clock
  /\ j.pc = "remove" => ExpiredGrant(j.key)
  /\ j.pc = "sweep_remove" => ExpiredGrant(j.victim)
  /\ j.pc = "write" =>
       /\ ExpiredGrant(j.key) \/ OwnFile(w, j)
       /\ \A f \in dir : f.key = j.key /\ f.by = w => f.exp = j.exp
       /\ (\E g \in granted : g.key = j.key) => ExpiredGrant(j.key)

\* One file per key, and what is written in a file was granted.
DirOK ==
  /\ IsFiniteSet(dir)
  /\ \A f, g \in dir : f.key = g.key => f = g
  /\ \A f \in dir : f.written => [key |-> f.key, exp |-> f.exp] \in granted

\* Until a grant of a key expires the file of every grant is on disk.
GrantsOK ==
  \A g \in granted :
    ExpiredGrant(g.key) \/ \E f \in dir : f.key = g.key /\ f.exp = g.exp /\ f.written

\* The inductive invariant.
FileInv ==
  /\ TypeOK
  /\ \A w \in Worker : JobOK(w, job[w])
  /\ DirOK
  /\ GrantsOK

-------------------------------------------------------------------------------
\* The fields of a call in flight.
LEMMA JobFields ==
  ASSUME NEW j \in Jobs, j.pc \notin {"idle", "done"}
  PROVE  /\ j.key \in Key /\ j.exp \in Exps /\ j.now \in Nat
         /\ j.pc \in {"sweep", "sweep_remove"} =>
              j.todo \subseteq Key /\ j.then \in {"count", "recount"}
         /\ j.pc = "sweep_remove" => j.victim \in Key
BY DEF Jobs, Idle, PCs

\* The jobs a call moves on to.
LEMMA JobTypes ==
  ASSUME NEW k \in Key, NEW e \in Exps, NEW now \in Nat
  PROVE  /\ \A pc \in PCs : [pc |-> pc, key |-> k, exp |-> e, now |-> now] \in Jobs
         /\ \A todo \in SUBSET Key, then \in {"count", "recount"} :
              [pc |-> "sweep", key |-> k, exp |-> e, now |-> now,
               todo |-> todo, then |-> then] \in Jobs
         /\ \A todo \in SUBSET Key, then \in {"count", "recount"}, victim \in Key :
              [pc |-> "sweep_remove", key |-> k, exp |-> e, now |-> now,
               todo |-> todo, then |-> then, victim |-> victim] \in Jobs
BY DEF Jobs

LEMMA EndedTypes ==
  Idle \in Jobs /\ \A r \in Errors \cup {"Ok"} : [pc |-> "done", res |-> r] \in Jobs
BY DEF Jobs

\* The files there are have keys.
LEMMA PresentKeys == ASSUME TypeOK PROVE Present \subseteq Key
BY DEF TypeOK, Present, File

\* The clock and the expiry of a grant or a file can be compared.
LEMMA TimesAreIntegers ==
  ASSUME TypeOK
  PROVE  /\ clock \in Int
         /\ \A g \in granted : g.exp \in Int
         /\ \A f \in dir : f.exp \in Int
<1>1. \A x \in Exps : x \in Int
  BY ReplayFileAssumption
<1> QED
  BY <1>1 DEF TypeOK, File

\* An expired grant stays one.
LEMMA ExpiredGrantStable ==
  ASSUME TypeOK, granted \subseteq granted', clock' \in Int, clock <= clock', NEW k,
         ExpiredGrant(k)
  PROVE  ExpiredGrant(k)'
BY TimesAreIntegers DEF ExpiredGrant

\* A record that a worker reads as expired is an expired grant: what is written
\* was granted, and the worker's clock value is not ahead of the clock.
LEMMA ReadExpired ==
  ASSUME FileInv, NEW k, NEW now \in Nat, now <= clock, HoldsExpired(k, now)
  PROVE  ExpiredGrant(k)
<1>1. PICK f \in dir : f.key = k /\ f.written /\ f.exp < now
  BY DEF HoldsExpired
<1>2. [key |-> f.key, exp |-> f.exp] \in granted
  BY <1>1 DEF FileInv, DirOK
<1>3. f.exp \in Int /\ clock \in Int
  BY TimesAreIntegers DEF FileInv
<1>4. f.exp < clock
  BY <1>1, <1>3
<1> DEFINE g == [key |-> f.key, exp |-> f.exp]
<1>5. g.key = k /\ g.exp < clock
  BY <1>1, <1>4
<1> QED
  BY <1>2, <1>5 DEF ExpiredGrant

-------------------------------------------------------------------------------
\* Who holds a replica's mutex is in its sweep; so a worker elsewhere holds none.
LEMMA HoldsNoLock ==
  ASSUME TypeOK, NEW w \in Worker, job[w].pc \notin {"sweep", "sweep_remove"}
  PROVE  \A r \in Replica : lock[r] # w
BY ReplayFileAssumption DEF TypeOK

\* What a step that moves worker w to job x does to the mutexes: none is touched,
\* as w holds none or stays in the sweep; w takes its replica's; or w drops it.
Mutexes(w, x) ==
  \/ lock' = lock /\ x.pc \in {"sweep", "sweep_remove"}
  \/ lock' = lock /\ \A r \in Replica : lock[r] # w
  \/ lock' = [lock EXCEPT ![ReplicaOf[w]] = w] /\ x.pc = "sweep"
  \/ Unlock(w)

\* The types after such a step.
LEMMA JobTypeStep ==
  ASSUME TypeOK, NEW w \in Worker, NEW x \in Jobs, job' = [job EXCEPT ![w] = x],
         Mutexes(w, x)
  PROVE  /\ job' \in [Worker -> Jobs]
         /\ lock' \in [Replica -> Worker \cup {NoWorker}]
         /\ \A r \in Replica :
              lock'[r] # NoWorker =>
                /\ ReplicaOf[lock'[r]] = r
                /\ job'[lock'[r]].pc \in {"sweep", "sweep_remove"}
<1>1. job' \in [Worker -> Jobs]
  BY DEF TypeOK
<1>2. \A v \in Worker : job'[v] = IF v = w THEN x ELSE job[v]
  BY DEF TypeOK
<1>3. ReplicaOf[w] \in Replica
  BY ReplayFileAssumption
<1>4. lock' \in [Replica -> Worker \cup {NoWorker}]
  BY <1>3 DEF TypeOK, Unlock, Mutexes
<1>5. \A r \in Replica : lock'[r] # NoWorker =>
        \/ lock'[r] = lock[r] /\ lock[r] \in Worker
             /\ (lock[r] # w \/ x.pc \in {"sweep", "sweep_remove"})
        \/ lock'[r] = w /\ ReplicaOf[w] = r /\ x.pc = "sweep"
  BY <1>3 DEF TypeOK, Unlock, Mutexes
<1> QED
  BY <1>1, <1>2, <1>4, <1>5 DEF TypeOK

\* A call moves within check_and_record and touches no file.
LEMMA MoveInv ==
  ASSUME FileInv, NEW w \in Worker, NEW x \in Jobs, job' = [job EXCEPT ![w] = x],
         JobOK(w, x), calls' \in [Replica -> 0 .. SweepEvery], Mutexes(w, x),
         UNCHANGED <<clock, dir, granted>>
  PROVE  FileInv'
<1>1. TypeOK'
  BY JobTypeStep DEF FileInv, TypeOK
<1>2. DirOK' /\ GrantsOK'
  BY DEF FileInv, DirOK, GrantsOK, ExpiredGrant
<1>3. \A v \in Worker : job'[v] = IF v = w THEN x ELSE job[v]
  BY DEF FileInv, TypeOK
<1>4. \A v \in Worker : JobOK(v, job'[v])
  BY <1>3 DEF FileInv
<1>5. \A v, j : JobOK(v, j) => JobOK(v, j)'
  BY DEF JobOK, ExpiredGrant, OwnFile
<1> QED
  BY <1>1, <1>2, <1>4, <1>5 DEF FileInv

\* A path is removed for which a grant has expired: every other file is kept, and
\* nobody relied on that one.
LEMMA RemoveInv ==
  ASSUME FileInv, NEW w \in Worker, NEW x \in Jobs, job' = [job EXCEPT ![w] = x],
         x.pc \in {"sweep", "create"}, x.now <= clock, Mutexes(w, x),
         NEW k, ExpiredGrant(k), RemoveFile(k), UNCHANGED <<clock, calls, granted>>
  PROVE  FileInv'
<1>1. dir' \subseteq dir /\ \A f \in dir : f.key # k => f \in dir'
  BY DEF RemoveFile
<1>2. TypeOK'
  BY <1>1, JobTypeStep DEF FileInv, TypeOK
<1>3. IsFiniteSet(dir')
  BY <1>1, FS_Subset DEF FileInv, DirOK
<1>4. DirOK'
  BY <1>1, <1>3 DEF FileInv, DirOK
<1>5. \A l : ExpiredGrant(l)' <=> ExpiredGrant(l)
  BY DEF ExpiredGrant
<1>6. GrantsOK'
  BY <1>1, <1>5 DEF FileInv, GrantsOK
<1>7. \A v \in Worker : job'[v] = IF v = w THEN x ELSE job[v]
  BY DEF FileInv, TypeOK
<1>8. JobOK(w, x)'
  BY DEF JobOK
<1>9. ASSUME NEW v \in Worker, NEW j, JobOK(v, j) PROVE JobOK(v, j)'
  <2>1. j.pc \notin {"idle", "done"} => j.now <= clock'
    BY <1>9 DEF JobOK
  <2>2. j.pc = "remove" => ExpiredGrant(j.key)'
    BY <1>9, <1>5 DEF JobOK
  <2>3. j.pc = "sweep_remove" => ExpiredGrant(j.victim)'
    BY <1>9, <1>5 DEF JobOK
  <2>4. j.pc = "write" => ExpiredGrant(j.key)' \/ OwnFile(v, j)'
    BY <1>9, <1>5, <1>1 DEF JobOK, OwnFile
  <2>5. j.pc = "write" => \A f \in dir' : f.key = j.key /\ f.by = v => f.exp = j.exp
    BY <1>9, <1>1 DEF JobOK
  <2>6. j.pc = "write" =>
          ((\E g \in granted' : g.key = j.key) => ExpiredGrant(j.key)')
    BY <1>9, <1>5 DEF JobOK
  <2> QED
    BY <2>1, <2>2, <2>3, <2>4, <2>5, <2>6 DEF JobOK
<1>10. \A v \in Worker : JobOK(v, job[v])
  BY DEF FileInv
<1> QED
  BY <1>2, <1>4, <1>6, <1>7, <1>8, <1>9, <1>10 DEF FileInv

\* create_new makes the file of a key that has none.  If the key was granted
\* before, its file is gone, so a grant has expired.
LEMMA CreateInv ==
  ASSUME FileInv, NEW w \in Worker, CreateNew(w)
  PROVE  FileInv'
<1> PICK j : j = job[w]
  OBVIOUS
<1>1. TypeOK /\ j \in Jobs /\ j.pc = "create"
  BY DEF FileInv, TypeOK, CreateNew
<1>2. j.key \in Key /\ j.exp \in Exps /\ j.now \in Nat /\ j.now <= clock
  BY <1>1, JobFields DEF FileInv, JobOK
<1>3. \A r \in Replica : lock[r] # w
  BY <1>1, HoldsNoLock
<1>4. CASE j.key \in Present
  <2> DEFINE y == [pc |-> "done", res |-> "ReplayDetected"]
  <2>1. y \in Jobs
    BY EndedTypes DEF Errors
  <2>2. JobOK(w, y)
    BY DEF JobOK
  <2>3. job' = [job EXCEPT ![w] = y] /\ UNCHANGED <<clock, dir, granted, calls, lock>>
    BY <1>4 DEF CreateNew, Answer
  <2>4. calls' \in [Replica -> 0 .. SweepEvery] /\ Mutexes(w, y)
    BY <1>1, <1>3, <2>3 DEF TypeOK, Mutexes
  <2> QED
    BY <2>1, <2>2, <2>3, <2>4, MoveInv
<1>5. CASE j.key \notin Present
  <2> PICK x : x = [pc |-> "write", key |-> j.key, exp |-> j.exp, now |-> j.now]
    OBVIOUS
  <2>0. PICK nf : nf = [key |-> j.key, by |-> w, exp |-> j.exp, written |-> FALSE]
    OBVIOUS
  <2>1. /\ job' = [job EXCEPT ![w] = x] /\ dir' = dir \cup {nf}
        /\ UNCHANGED <<clock, granted, calls, lock>>
    BY <1>5, <2>0 DEF CreateNew, Goto
  <2>2. x \in Jobs /\ x.pc = "write" /\ x.key = j.key /\ x.exp = j.exp /\ x.now = j.now
    BY <1>2, JobTypes DEF PCs
  <2>3. \A v \in Worker : job'[v] = IF v = w THEN x ELSE job[v]
    BY <1>1, <2>1 DEF TypeOK
  <2>4. nf \in File /\ nf.key = j.key /\ nf.by = w /\ nf.exp = j.exp /\ nf.written = FALSE
    BY <1>2, <2>0 DEF File
  <2>5. \A f \in dir : f.key # j.key
    BY <1>5 DEF Present
  <2>6. Mutexes(w, x)
    BY <1>3, <2>1 DEF Mutexes
  <2>7. TypeOK'
    BY <1>1, <2>1, <2>2, <2>4, <2>6, JobTypeStep DEF TypeOK
  <2>8. IsFiniteSet(dir')
    BY <2>1, FS_AddElement DEF FileInv, DirOK
  <2>9. \A f, g \in dir' : f.key = g.key => f = g
    BY <2>1, <2>4, <2>5 DEF FileInv, DirOK
  <2>10. \A f \in dir' : f.written => [key |-> f.key, exp |-> f.exp] \in granted'
    BY <2>1, <2>4 DEF FileInv, DirOK
  <2>11. DirOK'
    BY <2>8, <2>9, <2>10 DEF DirOK
  <2>12. \A l : ExpiredGrant(l)' <=> ExpiredGrant(l)
    BY <2>1 DEF ExpiredGrant
  <2>13. GrantsOK'
    BY <2>1, <2>12 DEF FileInv, GrantsOK
  <2>14. (\E g \in granted : g.key = j.key) => ExpiredGrant(j.key)
    BY <2>5 DEF FileInv, GrantsOK
  <2>15. JobOK(w, x)'
    <3>1. OwnFile(w, x)'
      BY <2>1, <2>2, <2>4 DEF OwnFile
    <3>2. \A f \in dir' : f.key = x.key /\ f.by = w => f.exp = x.exp
      BY <2>1, <2>2, <2>4, <2>5
    <3>3. (\E g \in granted' : g.key = x.key) => ExpiredGrant(x.key)'
      BY <2>1, <2>2, <2>12, <2>14
    <3> QED
      BY <3>1, <3>2, <3>3, <2>1, <2>2, <1>2 DEF JobOK
  <2>16. ASSUME NEW v \in Worker, v # w, NEW i, JobOK(v, i) PROVE JobOK(v, i)'
    <3>1. OwnFile(v, i) => OwnFile(v, i)'
      BY <2>1 DEF OwnFile
    <3>2. \A f \in dir' : f.by = v => f \in dir
      BY <2>1, <2>4, <2>16
    <3> QED
      BY <2>16, <3>1, <3>2, <2>12, <2>1 DEF JobOK
  <2>17. \A v \in Worker : JobOK(v, job[v])
    BY DEF FileInv
  <2> QED
    BY <2>3, <2>7, <2>11, <2>13, <2>15, <2>16, <2>17 DEF FileInv
<1> QED
  BY <1>4, <1>5

\* The expiry is written to the file the worker created, if that is still there.
\* Two writers of a key cannot both have theirs: then a grant has expired.
LEMMA WriteInv ==
  ASSUME FileInv, NEW w \in Worker, WriteExp(w)
  PROVE  FileInv'
<1> PICK j : j = job[w]
  OBVIOUS
<1> PICK ng : ng = [key |-> j.key, exp |-> j.exp]
  OBVIOUS
<1> DEFINE x == [pc |-> "done", res |-> "Ok"]
           upd(f) == IF f.key = j.key /\ f.by = w THEN [f EXCEPT !.written = TRUE] ELSE f
<1>1. TypeOK /\ j \in Jobs /\ j.pc = "write"
  BY DEF FileInv, TypeOK, WriteExp
<1>2. j.key \in Key /\ j.exp \in Exps
  BY <1>1, JobFields
<1>3. \A r \in Replica : lock[r] # w
  BY <1>1, HoldsNoLock
<1>4. /\ job' = [job EXCEPT ![w] = x] /\ granted' = granted \cup {ng}
      /\ UNCHANGED <<clock, calls, lock>>
  BY DEF WriteExp, Answer
<1>5. dir' = {upd(f) : f \in dir}
  BY DEF WriteExp
<1>6. \A f \in dir : /\ upd(f) \in File
                     /\ upd(f).key = f.key /\ upd(f).by = f.by /\ upd(f).exp = f.exp
  BY <1>1 DEF TypeOK, File
<1>7. \A f \in dir : (f.written \/ (f.key = j.key /\ f.by = w)) => upd(f).written
  BY <1>1 DEF TypeOK, File
<1>8. \A f \in dir : upd(f) = f \/ (f.key = j.key /\ f.by = w)
  <2>1. ASSUME NEW f \in dir, ~(f.key = j.key /\ f.by = w) PROVE upd(f) = f
    BY <2>1
  <2> HIDE DEF upd
  <2> QED
    BY <2>1
<1>9. x \in Jobs /\ x.pc = "done"
  BY EndedTypes
<1>10. Mutexes(w, x)
  BY <1>3, <1>4 DEF Mutexes
<1>11. \A v \in Worker : job'[v] = IF v = w THEN x ELSE job[v]
  BY <1>1, <1>4 DEF TypeOK
<1>12. ng.key = j.key /\ ng.exp = j.exp /\ ng \in [key : Key, exp : Exps]
  BY <1>2
<1>13. IsFiniteSet(dir')
  <2> DEFINE F == [f \in dir |-> upd(f)]
  <2>1. F \in Surjection(dir, dir')
    BY <1>5 DEF Surjection
  <2> QED
    BY <2>1, FS_Surjection DEF FileInv, DirOK
<1> HIDE DEF upd, x
<1>14. TypeOK'
  <2>1. dir' \subseteq File
    BY <1>5, <1>6
  <2>2. granted' \subseteq [key : Key, exp : Exps]
    BY <1>1, <1>4, <1>12 DEF TypeOK
  <2> QED
    BY <1>1, <1>4, <1>9, <1>10, <2>1, <2>2, JobTypeStep DEF TypeOK
<1>15. clock' \in Int /\ clock <= clock' /\ granted \subseteq granted'
  BY <1>1, <1>4 DEF TypeOK
<1>16. \A l : ExpiredGrant(l) => ExpiredGrant(l)'
  BY <1>1, <1>15, ExpiredGrantStable
<1>17. /\ ExpiredGrant(j.key) \/ OwnFile(w, j)
       /\ \A f \in dir : f.key = j.key /\ f.by = w => f.exp = j.exp
  BY <1>1 DEF FileInv, JobOK
<1>18. DirOK'
  <2>1. \A f, g \in dir' : f.key = g.key => f = g
    BY <1>5, <1>6 DEF FileInv, DirOK
  <2>2. ASSUME NEW f \in dir, upd(f).written
        PROVE  [key |-> upd(f).key, exp |-> upd(f).exp] \in granted'
    <3>1. CASE f.key = j.key /\ f.by = w
      BY <3>1, <1>4, <1>6, <1>17
    <3>2. CASE upd(f) = f
      BY <3>2, <2>2, <1>4 DEF FileInv, DirOK
    <3> QED
      BY <3>1, <3>2, <1>8
  <2>3. \A f \in dir' : f.written => [key |-> f.key, exp |-> f.exp] \in granted'
    BY <1>5, <2>2
  <2> QED
    BY <1>13, <2>1, <2>3 DEF DirOK
<1>19. GrantsOK'
  <2>1. ASSUME NEW g \in granted
        PROVE  ExpiredGrant(g.key)' \/ \E f \in dir' : f.key = g.key /\ f.exp = g.exp /\ f.written
    <3>1. CASE ExpiredGrant(g.key)
      BY <3>1, <1>16
    <3>2. ASSUME NEW f \in dir, f.key = g.key, f.exp = g.exp, f.written
          PROVE  \E h \in dir' : h.key = g.key /\ h.exp = g.exp /\ h.written
      <4>1. upd(f) \in dir' /\ upd(f).key = g.key /\ upd(f).exp = g.exp
        BY <3>2, <1>5, <1>6
      <4>2. upd(f).written
        <5>1. f.written = TRUE
          BY <3>2, <1>1 DEF TypeOK, File
        <5> QED
          BY <5>1, <1>7
      <4> QED
        BY <4>1, <4>2, Zenon
    <3> QED
      BY <3>1, <3>2 DEF FileInv, GrantsOK
  <2>2. ExpiredGrant(ng.key)' \/ \E f \in dir' : f.key = ng.key /\ f.exp = ng.exp /\ f.written
    <3>1. CASE ExpiredGrant(j.key)
      BY <3>1, <1>16, <1>12
    <3>2. ASSUME NEW f \in dir, f.key = j.key, f.by = w, f.exp = j.exp
          PROVE  \E h \in dir' : h.key = ng.key /\ h.exp = ng.exp /\ h.written
      BY <3>2, <1>5, <1>6, <1>7, <1>12
    <3> QED
      BY <3>1, <3>2, <1>17 DEF OwnFile
  <2> QED
    BY <2>1, <2>2, <1>4 DEF GrantsOK
<1>20. JobOK(w, x)'
  BY <1>9 DEF JobOK
<1>21. ASSUME NEW v \in Worker, v # w, NEW i, JobOK(v, i) PROVE JobOK(v, i)'
  <2>1. OwnFile(v, i) => OwnFile(v, i)'
    BY <1>5, <1>6 DEF OwnFile
  <2>2. ASSUME \A f \in dir : f.key = i.key /\ f.by = v => f.exp = i.exp
        PROVE  \A f \in dir' : f.key = i.key /\ f.by = v => f.exp = i.exp
    BY <2>2, <1>5, <1>6
  <2>3. ASSUME i.pc = "write", NEW g \in granted', g.key = i.key
        PROVE  ExpiredGrant(i.key)'
    <3>1. CASE g \in granted
      BY <3>1, <2>3, <1>21, <1>16 DEF JobOK
    <3>2. CASE i.key = j.key
      <4>1. OwnFile(v, i) => ~OwnFile(w, j)
        BY <3>2, <1>21 DEF OwnFile, FileInv, DirOK
      <4> QED
        BY <4>1, <3>2, <2>3, <1>16, <1>17, <1>21 DEF JobOK
    <3> QED
      BY <3>1, <3>2, <2>3, <1>4, <1>12
  <2> QED
    BY <1>21, <1>16, <1>4, <2>1, <2>2, <2>3 DEF JobOK
<1>22. \A v \in Worker : JobOK(v, job[v])
  BY DEF FileInv
<1> QED
  BY <1>11, <1>14, <1>18, <1>19, <1>20, <1>21, <1>22 DEF FileInv

-------------------------------------------------------------------------------
\* A call in flight has read the clock before.
LEMMA InFlight ==
  ASSUME FileInv, NEW w \in Worker, job[w].pc \notin {"idle", "done"}
  PROVE  /\ job[w] \in Jobs /\ job[w].key \in Key /\ job[w].exp \in Exps
         /\ job[w].now \in Nat /\ job[w].now <= clock
<1>1. job[w] \in Jobs
  BY DEF FileInv, TypeOK
<1> QED
  BY <1>1, JobFields DEF FileInv, JobOK

\* A call goes on at another label, none of them the write.
LEMMA GotoInv ==
  ASSUME FileInv, NEW w \in Worker, job[w].pc \notin {"idle", "done"},
         NEW label \in PCs, label # "write",
         label = "remove" => ExpiredGrant(job[w].key), Goto(w, label),
         (lock' = lock /\ \A r \in Replica : lock[r] # w) \/ Unlock(w),
         calls' \in [Replica -> 0 .. SweepEvery], UNCHANGED <<clock, dir, granted>>
  PROVE  FileInv'
<1> DEFINE x == [pc |-> label, key |-> job[w].key, exp |-> job[w].exp, now |-> job[w].now]
<1>1. x \in Jobs
  BY InFlight, JobTypes
<1>2. x.pc = label /\ x.key = job[w].key /\ x.now = job[w].now /\ label # "sweep_remove"
  BY DEF PCs
<1>3. JobOK(w, x)
  BY <1>2, InFlight DEF JobOK
<1>4. job' = [job EXCEPT ![w] = x] /\ Mutexes(w, x)
  BY DEF Goto, Mutexes
<1> QED
  BY <1>1, <1>3, <1>4, MoveInv

\* A call is answered without a grant.
LEMMA AnswerInv ==
  ASSUME FileInv, NEW w \in Worker, NEW r \in Errors, Answer(w, r),
         (lock' = lock /\ \A q \in Replica : lock[q] # w) \/ Unlock(w),
         UNCHANGED <<clock, dir, calls, granted>>
  PROVE  FileInv'
<1> DEFINE x == [pc |-> "done", res |-> r]
<1>1. x \in Jobs
  BY EndedTypes
<1>2. JobOK(w, x)
  BY DEF JobOK
<1>3. job' = [job EXCEPT ![w] = x] /\ Mutexes(w, x)
  BY DEF Answer, Mutexes
<1>4. calls' \in [Replica -> 0 .. SweepEvery]
  BY DEF FileInv, TypeOK
<1> QED
  BY <1>1, <1>2, <1>3, <1>4, MoveInv

\* A call sweeps on, or begins to.
LEMMA SweepingInv ==
  ASSUME FileInv, NEW w \in Worker, job[w].pc \notin {"idle", "done"},
         NEW todo \in SUBSET Key, NEW label \in {"count", "recount"},
         Sweeping(w, todo, label),
         lock' = lock \/ lock' = [lock EXCEPT ![ReplicaOf[w]] = w],
         calls' \in [Replica -> 0 .. SweepEvery], UNCHANGED <<clock, dir, granted>>
  PROVE  FileInv'
<1> DEFINE x == [pc |-> "sweep", key |-> job[w].key, exp |-> job[w].exp,
                 now |-> job[w].now, todo |-> todo, then |-> label]
<1>1. x \in Jobs
  BY InFlight, JobTypes
<1>2. JobOK(w, x)
  BY InFlight DEF JobOK
<1>3. job' = [job EXCEPT ![w] = x] /\ Mutexes(w, x)
  BY DEF Sweeping, Mutexes
<1> QED
  BY <1>1, <1>2, <1>3, MoveInv

\* The steps of one worker.
LEMMA StepInv ==
  ASSUME FileInv, NEW w \in Worker, Step(w)
  PROVE  FileInv'
<1>1. TypeOK /\ calls \in [Replica -> 0 .. SweepEvery] /\ Present \subseteq Key
  BY PresentKeys DEF FileInv, TypeOK
<1>2. job[w].pc \notin {"sweep", "sweep_remove"} => \A r \in Replica : lock[r] # w
  BY <1>1, HoldsNoLock
<1>3. ReplicaOf[w] \in Replica
  BY ReplayFileAssumption
<1>4. CASE MaybeSweep(w)
  <2>1. job[w].pc = "maybe_sweep" /\ UNCHANGED <<clock, dir, granted>>
    BY <1>4 DEF MaybeSweep
  <2>2. calls[ReplicaOf[w]] \in 0 .. SweepEvery
    BY <1>1, <1>3
  <2>3. CASE calls[ReplicaOf[w]] + 1 >= SweepEvery
    <3>1. /\ calls' = [calls EXCEPT ![ReplicaOf[w]] = SweepEvery]
          /\ lock' = [lock EXCEPT ![ReplicaOf[w]] = w]
          /\ StartSweep(w, "count")
      BY <1>4, <2>3 DEF MaybeSweep
    <3>2. PICK extra \in SUBSET Key : Sweeping(w, Present \cup extra, "count")
      BY <3>1 DEF StartSweep
    <3>3. calls' \in [Replica -> 0 .. SweepEvery]
      BY <1>1, <3>1, ReplayFileAssumption
    <3>4. Present \cup extra \in SUBSET Key
      BY <1>1
    <3> QED
      BY <2>1, <3>1, <3>2, <3>3, <3>4, SweepingInv
  <2>4. CASE ~(calls[ReplicaOf[w]] + 1 >= SweepEvery)
    <3>1. /\ calls' = [calls EXCEPT ![ReplicaOf[w]] = @ + 1]
          /\ lock' = lock
          /\ Goto(w, "count")
      BY <1>4, <2>4 DEF MaybeSweep
    <3>2. calls[ReplicaOf[w]] + 1 \in 0 .. SweepEvery
      BY <2>2, <2>4, ReplayFileAssumption
    <3>3. calls' \in [Replica -> 0 .. SweepEvery]
      BY <1>1, <3>1, <3>2
    <3>4. "count" \in PCs
      BY DEF PCs
    <3> QED
      BY <1>2, <2>1, <3>1, <3>3, <3>4, GotoInv
  <2> QED
    BY <2>3, <2>4
<1>5. ASSUME NEW k \in Key, SweepVisit(w, k) PROVE FileInv'
  <2>1. /\ job[w].pc = "sweep" /\ k \in job[w].todo
        /\ UNCHANGED <<clock, dir, calls, lock, granted>>
    BY <1>5 DEF SweepVisit
  <2>2. /\ job[w].key \in Key /\ job[w].exp \in Exps
        /\ job[w].now \in Nat /\ job[w].now <= clock /\ job[w] \in Jobs
    BY <2>1, InFlight
  <2>3. job[w].todo \subseteq Key /\ job[w].then \in {"count", "recount"}
    BY <2>1, <2>2, JobFields
  <2>4. job[w].todo \ {k} \in SUBSET Key
    BY <2>3
  <2> DEFINE x == [pc |-> "sweep_remove", key |-> job[w].key, exp |-> job[w].exp,
                   now |-> job[w].now, todo |-> job[w].todo \ {k},
                   then |-> job[w].then, victim |-> k]
  <2>5. CASE HoldsExpired(k, job[w].now) /\ job' = [job EXCEPT ![w] = x]
    <3>1. x \in Jobs
      BY <2>2, <2>3, <2>4, JobTypes
    <3>2. ExpiredGrant(k)
      BY <2>2, <2>5, ReadExpired
    <3>3. JobOK(w, x) /\ Mutexes(w, x)
      BY <2>1, <2>2, <3>2 DEF JobOK, Mutexes
    <3> QED
      BY <1>1, <2>1, <2>5, <3>1, <3>3, MoveInv
  <2>6. CASE Sweeping(w, job[w].todo \ {k}, job[w].then)
    BY <1>1, <2>1, <2>3, <2>4, <2>6, SweepingInv
  <2> QED
    BY <1>5, <2>5, <2>6 DEF SweepVisit
<1>6. CASE SweepRemove(w)
  <2>1. /\ job[w].pc = "sweep_remove" /\ RemoveFile(job[w].victim)
        /\ UNCHANGED <<clock, calls, lock, granted>>
    BY <1>6 DEF SweepRemove
  <2>2. /\ job[w].key \in Key /\ job[w].exp \in Exps
        /\ job[w].now \in Nat /\ job[w].now <= clock /\ job[w] \in Jobs
    BY <2>1, InFlight
  <2>3. job[w].todo \in SUBSET Key /\ job[w].then \in {"count", "recount"}
    BY <2>1, <2>2, JobFields
  <2> DEFINE x == [pc |-> "sweep", key |-> job[w].key, exp |-> job[w].exp,
                   now |-> job[w].now, todo |-> job[w].todo, then |-> job[w].then]
  <2>4. x \in Jobs /\ job' = [job EXCEPT ![w] = x]
    BY <1>6, <2>2, <2>3, JobTypes DEF SweepRemove, Sweeping
  <2>5. ExpiredGrant(job[w].victim)
    BY <2>1 DEF FileInv, JobOK
  <2>6. Mutexes(w, x)
    BY <2>1 DEF Mutexes
  <2>7. x.pc \in {"sweep", "create"} /\ x.now <= clock
    BY <2>2
  <2> QED
    BY <2>1, <2>4, <2>5, <2>6, <2>7, RemoveInv
<1>7. CASE SweepEnd(w)
  <2>1. /\ job[w].pc = "sweep" /\ Unlock(w) /\ Goto(w, job[w].then)
        /\ UNCHANGED <<clock, dir, granted>>
    BY <1>7 DEF SweepEnd
  <2>2. job[w].then \in {"count", "recount"}
    BY <2>1, InFlight, JobFields
  <2>3. job[w].then \in PCs
    BY <2>2 DEF PCs
  <2>4. calls' \in [Replica -> 0 .. SweepEvery]
    BY <1>1, <1>7, ReplayFileAssumption DEF SweepEnd
  <2> QED
    BY <2>1, <2>2, <2>3, <2>4, GotoInv
<1>8. CASE Count(w)
  <2>1. job[w].pc = "count" /\ UNCHANGED <<clock, dir, calls, lock, granted>>
    BY <1>8 DEF Count
  <2>2. CASE StartSweep(w, "recount")
    <3>1. PICK extra \in SUBSET Key : Sweeping(w, Present \cup extra, "recount")
      BY <2>2 DEF StartSweep
    <3>2. Present \cup extra \in SUBSET Key
      BY <1>1
    <3> QED
      BY <1>1, <2>1, <3>1, <3>2, SweepingInv
  <2>3. CASE Goto(w, "recount")
    <3>1. "recount" \in PCs
      BY DEF PCs
    <3> QED
      BY <1>1, <1>2, <2>1, <2>3, <3>1, GotoInv
  <2> QED
    BY <1>8, <2>2, <2>3 DEF Count
<1>9. CASE Recount(w)
  <2>1. job[w].pc = "recount" /\ UNCHANGED <<clock, dir, calls, lock, granted>>
    BY <1>9 DEF Recount
  <2>2. CASE Answer(w, "StoreFull")
    BY <1>2, <2>1, <2>2, AnswerInv DEF Errors
  <2>3. CASE Goto(w, "read")
    <3>1. "read" \in PCs
      BY DEF PCs
    <3> QED
      BY <1>1, <1>2, <2>1, <2>3, <3>1, GotoInv
  <2> QED
    BY <1>9, <2>2, <2>3 DEF Recount
<1>10. CASE ReadPath(w)
  <2>1. job[w].pc = "read" /\ UNCHANGED <<clock, dir, calls, lock, granted>>
    BY <1>10 DEF ReadPath
  <2>2. CASE HoldsExpired(job[w].key, job[w].now) /\ Goto(w, "remove")
    <3>1. "remove" \in PCs
      BY DEF PCs
    <3>2. ExpiredGrant(job[w].key)
      BY <2>1, <2>2, InFlight, ReadExpired
    <3> QED
      BY <1>1, <1>2, <2>1, <2>2, <3>1, <3>2, GotoInv
  <2>3. CASE Goto(w, "create")
    <3>1. "create" \in PCs
      BY DEF PCs
    <3> QED
      BY <1>1, <1>2, <2>1, <2>3, <3>1, GotoInv
  <2> QED
    BY <1>10, <2>2, <2>3 DEF ReadPath
<1>11. CASE RemovePath(w)
  <2>1. /\ job[w].pc = "remove" /\ RemoveFile(job[w].key)
        /\ UNCHANGED <<clock, calls, lock, granted>>
    BY <1>11 DEF RemovePath
  <2> DEFINE x == [pc |-> "create", key |-> job[w].key, exp |-> job[w].exp,
                   now |-> job[w].now]
  <2>2. job' = [job EXCEPT ![w] = x]
    BY <1>11 DEF RemovePath, Goto
  <2>3. x \in Jobs
    BY <2>1, InFlight, JobTypes DEF PCs
  <2>4. ExpiredGrant(job[w].key)
    BY <2>1 DEF FileInv, JobOK
  <2>5. Mutexes(w, x)
    BY <1>2, <2>1 DEF Mutexes
  <2>6. x.pc \in {"sweep", "create"} /\ x.now <= clock
    BY <2>1, InFlight
  <2> QED
    BY <2>1, <2>2, <2>3, <2>4, <2>5, <2>6, RemoveInv
<1>12. CASE CreateNew(w)
  BY <1>12, CreateInv
<1>13. CASE WriteExp(w)
  BY <1>13, WriteInv
<1> QED
  BY <1>4, <1>5, <1>6, <1>7, <1>8, <1>9, <1>10, <1>11, <1>12, <1>13 DEF Step

\* Time passes: an expired grant stays one, and nothing else is read.
LEMMA TickInv ==
  ASSUME FileInv, Tick
  PROVE  FileInv'
<1>1. TypeOK /\ TypeOK' /\ UNCHANGED <<dir, calls, lock, job, granted>>
  BY DEF FileInv, TypeOK, Tick
<1>2. clock \in Nat /\ clock' = clock + 1
  BY <1>1 DEF TypeOK, Tick
<1>3. \A k : ExpiredGrant(k) => ExpiredGrant(k)'
  BY <1>1, <1>2, ExpiredGrantStable
<1>4. DirOK' /\ GrantsOK'
  BY <1>1, <1>3 DEF FileInv, DirOK, GrantsOK
<1>5. ASSUME NEW w \in Worker PROVE JobOK(w, job[w])'
  <2> PICK j : j = job[w]
    OBVIOUS
  <2>1. job'[w] = j /\ JobOK(w, j) /\ j \in Jobs
    BY <1>1 DEF FileInv, TypeOK
  <2>2. j.pc \notin {"idle", "done"} => j.now <= clock'
    BY <1>2, <2>1, JobFields DEF JobOK
  <2>3. OwnFile(w, j)' <=> OwnFile(w, j)
    BY <1>1 DEF OwnFile
  <2>4. JobOK(w, j)'
    BY <1>1, <1>3, <2>1, <2>2, <2>3 DEF JobOK
  <2> QED
    BY <2>1, <2>4
<1> QED
  BY <1>1, <1>4, <1>5 DEF FileInv

\* A request arrives.
LEMMA CallInv ==
  ASSUME FileInv, NEW w \in Worker, NEW k \in Key, NEW e \in Exps, Call(w, k, e)
  PROVE  FileInv'
<1>1. job[w].pc \in {"idle", "done"} /\ UNCHANGED <<clock, dir, calls, lock, granted>>
  BY DEF Call
<1>2. TypeOK /\ clock \in Nat /\ calls' \in [Replica -> 0 .. SweepEvery]
  BY <1>1 DEF FileInv, TypeOK
<1>3. \A r \in Replica : lock[r] # w
  BY <1>1, <1>2, HoldsNoLock
<1>4. CASE k \in BlankKey
  BY <1>1, <1>3, <1>4, AnswerInv DEF Call, Errors
<1>5. CASE k \notin BlankKey
  <2> DEFINE x == [pc |-> "maybe_sweep", key |-> k, exp |-> e, now |-> clock]
  <2>1. job' = [job EXCEPT ![w] = x]
    BY <1>5 DEF Call
  <2>2. x \in Jobs
    BY <1>2, JobTypes DEF PCs
  <2>3. JobOK(w, x) /\ Mutexes(w, x)
    BY <1>1, <1>2, <1>3 DEF JobOK, Mutexes
  <2> QED
    BY <1>1, <1>2, <2>1, <2>2, <2>3, MoveInv
<1> QED
  BY <1>4, <1>5

\* A replica dies: what the others rely on is on disk and in their own jobs, and
\* the mutexes they hold are their own replicas'.
LEMMA CrashInv ==
  ASSUME FileInv, NEW r \in Replica, Crash(r)
  PROVE  FileInv'
<1>1. UNCHANGED <<clock, dir, granted>>
  BY DEF Crash
<1>2. /\ job' = [w \in Worker |-> IF ReplicaOf[w] = r THEN Idle ELSE job[w]]
      /\ calls' = [calls EXCEPT ![r] = 0]
      /\ lock' = [lock EXCEPT ![r] = NoWorker]
  BY DEF Crash
<1>3. TypeOK'
  <2>1. job' \in [Worker -> Jobs]
    BY <1>2, EndedTypes DEF FileInv, TypeOK
  <2>2. calls' \in [Replica -> 0 .. SweepEvery]
    BY <1>2, ReplayFileAssumption DEF FileInv, TypeOK
  <2>3. lock' \in [Replica -> Worker \cup {NoWorker}]
    BY <1>2 DEF FileInv, TypeOK
  <2>4. ASSUME NEW q \in Replica, lock'[q] # NoWorker
        PROVE  ReplicaOf[lock'[q]] = q /\ job'[lock'[q]].pc \in {"sweep", "sweep_remove"}
    <3>1. q # r /\ lock'[q] = lock[q]
      BY <1>2, <2>4 DEF FileInv, TypeOK
    <3>2. /\ lock[q] \in Worker /\ ReplicaOf[lock[q]] = q
          /\ job[lock[q]].pc \in {"sweep", "sweep_remove"}
      BY <2>4, <3>1 DEF FileInv, TypeOK
    <3> QED
      BY <1>2, <3>1, <3>2
  <2> QED
    BY <1>1, <2>1, <2>2, <2>3, <2>4 DEF FileInv, TypeOK
<1>4. DirOK' /\ GrantsOK'
  BY <1>1 DEF FileInv, DirOK, GrantsOK, ExpiredGrant
<1>5. \A v, j : JobOK(v, j) => JobOK(v, j)'
  BY <1>1 DEF JobOK, ExpiredGrant, OwnFile
<1>6. \A v \in Worker : JobOK(v, Idle)
  BY DEF JobOK, Idle
<1>7. \A v \in Worker : job'[v] = Idle \/ job'[v] = job[v]
  BY <1>2
<1>8. \A v \in Worker : JobOK(v, job[v])
  BY DEF FileInv
<1> QED
  BY <1>3, <1>4, <1>5, <1>6, <1>7, <1>8 DEF FileInv

-------------------------------------------------------------------------------
\* The directory starts empty.
LEMMA InitInv == ASSUME Init PROVE FileInv
<1>1. TypeOK
  <2>1. Idle \in Jobs
    BY EndedTypes
  <2> QED
    BY <2>1, ReplayFileAssumption DEF Init, TypeOK
<1>2. DirOK /\ GrantsOK
  BY FS_EmptySet DEF Init, DirOK, GrantsOK
<1>3. \A w \in Worker : JobOK(w, job[w])
  BY DEF Init, JobOK, Idle
<1> QED
  BY <1>1, <1>2, <1>3 DEF FileInv

\* Every step of every worker and every crash keeps the invariant.
LEMMA NextInv == ASSUME FileInv, [Next]_vars PROVE FileInv'
<1>1. CASE Tick
  BY <1>1, TickInv
<1>2. CASE \E w \in Worker, k \in Key, e \in Exps : Call(w, k, e)
  BY <1>2, CallInv
<1>3. CASE \E w \in Worker : Step(w)
  BY <1>3, StepInv
<1>4. ASSUME NEW w \in Worker, IoFailure(w) PROVE FileInv'
  BY <1>4, AnswerInv DEF IoFailure, Errors
<1>5. CASE \E r \in Replica : Crash(r)
  BY <1>5, CrashInv
<1>6. CASE UNCHANGED vars
  <2>1. \A v, j : JobOK(v, j)' <=> JobOK(v, j)
    BY <1>6 DEF vars, JobOK, OwnFile, ExpiredGrant
  <2> QED
    BY <1>6, <2>1 DEF vars, FileInv, TypeOK, DirOK, GrantsOK, ExpiredGrant
<1> QED
  BY <1>1, <1>2, <1>3, <1>4, <1>5, <1>6 DEF Next

\* FileInv holds throughout, whatever the replicas do to each other's files.
THEOREM FileInvHolds == Spec => []FileInv
<1>1. Init => FileInv
  BY InitInv
<1>2. FileInv /\ [Next]_vars => FileInv'
  BY NextInv
<1> QED
  BY <1>1, <1>2, PTL DEF Spec

\* The types, and that a replica's mutex is only held by a worker of that replica
\* that is in its periodic sweep, also after failures of file operations.
THEOREM FileTypesHold == Spec => []TypeOK
<1>1. FileInv => TypeOK
  BY DEF FileInv
<1> QED
  BY <1>1, FileInvHolds, PTL

\* Until a first record of a key expires, its file is on disk with the expiry
\* granted and nobody is about to remove it: for any number of replicas, any
\* interleaving of their sweeps, and any crashes.
THEOREM FileGrantOnDisk == Spec => []GrantOnDisk
<1>1. FileInv => GrantOnDisk
  BY DEF FileInv, GrantsOK, JobOK, GrantOnDisk
<1> QED
  BY <1>1, FileInvHolds, PTL

\* Of the calls racing on a key one is answered Ok, and no other before a record
\* of that key has expired: create_new decides.
THEOREM FileOneWinner == Spec => OneWinnerUntilExpiry
<1>1. FileInv /\ [Next]_vars =>
        [\A w \in Worker, k \in Key :
           Wins(w, k) /\ (\E g \in granted : g.key = k) => ExpiredGrant(k)]_vars
  BY DEF FileInv, JobOK, Wins
<1> QED
  BY <1>1, FileInvHolds, PTL DEF Spec, OneWinnerUntilExpiry

-------------------------------------------------------------------------------
(***************************************************************************)
(* What the comment on FileReplayStore claims, exactly one winner until    *)
(* its record expires, is broken by two replicas (run file_store_race).    *)
(* The one way to break it is a removal that meets another file than the   *)
(* expired one that was read: no other interleaving, crash or failing file *)
(* operation does.                                                         *)
(***************************************************************************)

\* The path of k holds an expired record, by the clock value now, or no file.
NothingToLose(k, now) == k \notin Present \/ HoldsExpired(k, now)

\* Whoever is about to remove a path, in check_and_record or in a sweep, still
\* finds there what it has read, or nothing.
RemovesWhatItRead ==
  \A w \in Worker :
    /\ job[w].pc = "remove" => NothingToLose(job[w].key, job[w].now)
    /\ job[w].pc = "sweep_remove" => NothingToLose(job[w].victim, job[w].now)

\* The record of a grant is on disk until it expires, whatever other grants of
\* its key there were.
RecordKept ==
  \A g \in granted :
    g.exp < clock \/ \E f \in dir : f.key = g.key /\ f.exp = g.exp /\ f.written

\* The file that job j of worker w has created and not written.
OpenFile(w, j) ==
  \E f \in dir : f.key = j.key /\ f.by = w /\ f.exp = j.exp /\ ~f.written

\* Whoever is about to write has its file at the path.
WriterOwns == \A w \in Worker : job[w].pc = "write" => OpenFile(w, job[w])

\* A step that touches no file and brings no worker to its write.
Quiet ==
  /\ UNCHANGED <<dir, granted>> /\ clock' \in Int /\ clock <= clock'
  /\ \A v \in Worker : job'[v].pc = "write" => job'[v] = job[v]

\* The steps, by what they do to the files.
LEMMA FileShape ==
  ASSUME FileInv, [Next]_vars
  PROVE  \/ Quiet
         \/ \E w \in Worker : SweepRemove(w) \/ RemovePath(w) \/ CreateNew(w) \/ WriteExp(w)
<1>1. TypeOK /\ clock \in Int /\ clock <= clock /\ job \in [Worker -> Jobs]
  BY TimesAreIntegers DEF FileInv, TypeOK
<1>2. ASSUME UNCHANGED <<clock, dir, granted>>, NEW w \in Worker, NEW x,
             job' = [job EXCEPT ![w] = x], x.pc # "write"
      PROVE  Quiet
  BY <1>1, <1>2 DEF Quiet
<1>3. ASSUME UNCHANGED <<clock, dir, granted>>, NEW w \in Worker, NEW label, Goto(w, label),
             label # "write"
      PROVE  Quiet
  BY <1>1, <1>3 DEF Goto, Quiet
<1>4. ASSUME UNCHANGED <<clock, dir, granted>>, NEW w \in Worker, NEW r, Answer(w, r)
      PROVE  Quiet
  BY <1>1, <1>4 DEF Answer, Quiet
<1>5. ASSUME UNCHANGED <<clock, dir, granted>>, NEW w \in Worker, NEW todo, NEW label,
             Sweeping(w, todo, label)
      PROVE  Quiet
  BY <1>1, <1>5 DEF Sweeping, Quiet
<1>6. ASSUME NEW w \in Worker, NEW k, SweepVisit(w, k) PROVE Quiet
  <2>1. CASE Sweeping(w, job[w].todo \ {k}, job[w].then)
    BY <1>5, <1>6, <2>1 DEF SweepVisit
  <2>2. ASSUME job' = [job EXCEPT ![w] =
                 [pc |-> "sweep_remove", key |-> job[w].key,
                  exp |-> job[w].exp, now |-> job[w].now,
                  todo |-> job[w].todo \ {k}, then |-> job[w].then,
                  victim |-> k]]
        PROVE  Quiet
    BY <1>1, <1>6, <2>2 DEF SweepVisit, Quiet
  <2> QED
    BY <1>6, <2>1, <2>2 DEF SweepVisit
<1>7. ASSUME NEW w \in Worker, MaybeSweep(w) PROVE Quiet
  BY <1>3, <1>5, <1>7 DEF MaybeSweep, StartSweep
<1>8. ASSUME NEW w \in Worker, SweepEnd(w) PROVE Quiet
  <2>1. job[w] \in Jobs /\ job[w].pc = "sweep"
    BY <1>1, <1>8 DEF SweepEnd
  <2>2. job[w].then # "write"
    BY <2>1, JobFields
  <2> QED
    BY <1>3, <1>8, <2>2 DEF SweepEnd
<1>9. ASSUME NEW w \in Worker, Count(w) \/ Recount(w) \/ ReadPath(w) PROVE Quiet
  BY <1>3, <1>4, <1>5, <1>9 DEF Count, Recount, ReadPath, StartSweep
<1>10. CASE Tick
  BY <1>1, <1>10 DEF Tick, Quiet
<1>11. ASSUME NEW w \in Worker, NEW k, NEW e, Call(w, k, e) PROVE Quiet
  <2>1. CASE k \in BlankKey
    BY <1>4, <1>11, <2>1 DEF Call
  <2>2. CASE k \notin BlankKey
    BY <1>2, <1>11, <2>2 DEF Call
  <2> QED
    BY <2>1, <2>2
<1>12. ASSUME NEW w \in Worker, IoFailure(w) PROVE Quiet
  BY <1>4, <1>12 DEF IoFailure
<1>13. ASSUME NEW r \in Replica, Crash(r) PROVE Quiet
  BY <1>1, <1>13 DEF Crash, Quiet, Idle
<1>14. CASE UNCHANGED vars
  BY <1>1, <1>14 DEF vars, Quiet
<1> QED
  BY <1>6, <1>7, <1>8, <1>9, <1>10, <1>11, <1>12, <1>13, <1>14 DEF Next, Step

\* A removal of what was read loses no record that has not expired, and takes
\* nobody's open file away.
LEMMA RemovalKeeps ==
  ASSUME FileInv, RecordKept, WriterOwns, NEW w \in Worker, NEW k, NEW now \in Nat,
         now <= clock, NothingToLose(k, now), RemoveFile(k), UNCHANGED <<clock, granted>>,
         \A v \in Worker : job'[v].pc = "write" => job'[v] = job[v]
  PROVE  RecordKept' /\ WriterOwns'
<1>1. \A f \in dir : f.key # k => f \in dir'
  BY DEF RemoveFile
<1>2. \A f \in dir : f.key = k => f.written /\ f.exp < now
  BY DEF NothingToLose, Present, HoldsExpired, FileInv, DirOK
<1>3. clock \in Int /\ \A f \in dir : f.exp \in Int
  BY TimesAreIntegers DEF FileInv
<1>4. RecordKept'
  <2> SUFFICES ASSUME NEW g \in granted, ~(g.exp < clock)
               PROVE  \E f \in dir' : f.key = g.key /\ f.exp = g.exp /\ f.written
    BY DEF RecordKept
  <2>1. PICK f \in dir : f.key = g.key /\ f.exp = g.exp /\ f.written
    BY DEF RecordKept
  <2>2. f.key # k
    BY <1>2, <1>3, <2>1
  <2> QED
    BY <1>1, <2>1, <2>2
<1>5. WriterOwns'
  <2> SUFFICES ASSUME NEW v \in Worker, job'[v].pc = "write" PROVE OpenFile(v, job[v])'
    BY DEF WriterOwns, OpenFile
  <2>1. job'[v] = job[v]
    OBVIOUS
  <2>2. PICK f \in dir : f.key = job[v].key /\ f.by = v /\ f.exp = job[v].exp /\ ~f.written
    BY <2>1 DEF WriterOwns, OpenFile
  <2>3. f \in dir'
    BY <1>1, <1>2, <2>2
  <2> QED
    BY <2>1, <2>2, <2>3 DEF OpenFile
<1> QED
  BY <1>4, <1>5

\* A file that create_new makes is the worker's own, and takes no other's place.
LEMMA CreationKeeps ==
  ASSUME FileInv, RecordKept, WriterOwns, NEW w \in Worker, CreateNew(w)
  PROVE  RecordKept' /\ WriterOwns'
<1>1. job \in [Worker -> Jobs] /\ UNCHANGED <<clock, granted>>
  BY DEF CreateNew, FileInv, TypeOK
<1>2. CASE job[w].key \in Present
  <2>1. dir' = dir /\ job' = [job EXCEPT ![w] = [pc |-> "done", res |-> "ReplayDetected"]]
    BY <1>2 DEF CreateNew, Answer
  <2>2. \A v \in Worker : job'[v].pc = "write" => job'[v] = job[v]
    BY <1>1, <2>1
  <2> QED
    BY <1>1, <2>1, <2>2 DEF RecordKept, WriterOwns, OpenFile
<1>3. CASE job[w].key \notin Present
  <2>1. PICK nf : nf = [key |-> job[w].key, by |-> w, exp |-> job[w].exp, written |-> FALSE]
    OBVIOUS
  <2>2. PICK x : x = [pc |-> "write", key |-> job[w].key, exp |-> job[w].exp, now |-> job[w].now]
    OBVIOUS
  <2>3. dir' = dir \cup {nf} /\ job' = [job EXCEPT ![w] = x]
    BY <1>3, <2>1, <2>2 DEF CreateNew, Goto
  <2>4. dir \subseteq dir' /\ nf \in dir'
    BY <2>3
  <2>5. job'[w] = x /\ \A v \in Worker : v # w => job'[v] = job[v]
    BY <1>1, <2>3
  <2>6. nf.key = x.key /\ nf.by = w /\ nf.exp = x.exp /\ ~nf.written
    BY <2>1, <2>2
  <2>7. RecordKept'
    BY <1>1, <2>4 DEF RecordKept
  <2>8. ASSUME NEW v \in Worker, job'[v].pc = "write" PROVE OpenFile(v, job[v])'
    <3>1. CASE v = w
      BY <2>4, <2>5, <2>6, <3>1 DEF OpenFile
    <3>2. CASE v # w
      BY <2>4, <2>5, <2>8, <3>2 DEF OpenFile, WriterOwns
    <3> QED
      BY <3>1, <3>2
  <2> QED
    BY <2>7, <2>8 DEF WriterOwns, OpenFile
<1> QED
  BY <1>2, <1>3

\* A written record is on disk: the file at the path is the worker's.
LEMMA WriteKeeps ==
  ASSUME FileInv, RecordKept, WriterOwns, NEW w \in Worker, WriteExp(w)
  PROVE  RecordKept' /\ WriterOwns'
<1> DEFINE Mine(f) == f.key = job[w].key /\ f.by = w
           Filled(f) == [f EXCEPT !.written = TRUE]
<1>1. /\ job \in [Worker -> Jobs] /\ clock' = clock /\ job[w].pc = "write"
      /\ dir \subseteq File
  BY DEF WriteExp, FileInv, TypeOK
<1>2. PICK h \in dir : h.key = job[w].key /\ h.by = w /\ h.exp = job[w].exp /\ ~h.written
  BY <1>1 DEF WriterOwns, OpenFile
<1>3. \A f \in dir : f.key = job[w].key => f = h
  BY <1>2 DEF FileInv, DirOK
<1>4. \A f \in dir : f # h => f \in dir'
  BY <1>3 DEF WriteExp
<1>5. Filled(h) \in dir'
  BY <1>2 DEF WriteExp
<1>6. Filled(h).key = h.key /\ Filled(h).exp = h.exp /\ Filled(h).written
  BY <1>1 DEF File
<1>7. granted' = granted \cup {[key |-> job[w].key, exp |-> job[w].exp]}
  BY DEF WriteExp
<1>8. /\ job'[w].pc = "done"
      /\ \A v \in Worker : v # w => job'[v] = job[v]
  BY <1>1 DEF WriteExp, Answer
<1> HIDE DEF Filled
<1>9. RecordKept'
  <2> SUFFICES ASSUME NEW g \in granted', ~(g.exp < clock)
               PROVE  \E f \in dir' : f.key = g.key /\ f.exp = g.exp /\ f.written
    BY <1>1 DEF RecordKept
  <2>1. CASE g \in granted
    <3>1. PICK f \in dir : f.key = g.key /\ f.exp = g.exp /\ f.written
      BY <2>1 DEF RecordKept
    <3>2. f \in dir'
      BY <1>2, <1>4, <3>1
    <3> QED
      BY <3>1, <3>2
  <2>2. CASE g = [key |-> job[w].key, exp |-> job[w].exp]
    <3>1. g.key = h.key /\ g.exp = h.exp
      BY <1>2, <2>2
    <3> QED
      BY <1>5, <1>6, <3>1
  <2> QED
    BY <1>7, <2>1, <2>2
<1>10. WriterOwns'
  <2> SUFFICES ASSUME NEW v \in Worker, job'[v].pc = "write" PROVE OpenFile(v, job[v])'
    BY DEF WriterOwns, OpenFile
  <2>1. v # w /\ job'[v] = job[v]
    BY <1>8
  <2>2. PICK f \in dir : f.key = job[v].key /\ f.by = v /\ f.exp = job[v].exp /\ ~f.written
    BY <2>1 DEF WriterOwns, OpenFile
  <2>3. f \in dir'
    BY <1>2, <1>4, <2>1, <2>2
  <2> QED
    BY <2>1, <2>2, <2>3 DEF OpenFile
<1> QED
  BY <1>9, <1>10

\* Every step but a removal of something else keeps the records and the open
\* files.
LEMMA NextKeeps ==
  ASSUME FileInv, RemovesWhatItRead, RecordKept, WriterOwns, [Next]_vars
  PROVE  RecordKept' /\ WriterOwns'
<1>1. CASE Quiet
  <2>1. ASSUME NEW g \in granted, g.exp < clock PROVE g.exp < clock'
    BY <1>1, <2>1, TimesAreIntegers DEF Quiet, FileInv
  <2>2. RecordKept'
    BY <1>1, <2>1 DEF Quiet, RecordKept
  <2>3. WriterOwns'
    BY <1>1 DEF Quiet, WriterOwns, OpenFile
  <2> QED
    BY <2>2, <2>3
<1>2. ASSUME NEW w \in Worker, SweepRemove(w) PROVE RecordKept' /\ WriterOwns'
  <2>1. job[w].pc = "sweep_remove" /\ job \in [Worker -> Jobs]
    BY <1>2 DEF SweepRemove, FileInv, TypeOK
  <2>2. job[w].now \in Nat /\ job[w].now <= clock
    BY <2>1, InFlight
  <2>3. \A v \in Worker : job'[v].pc = "write" => job'[v] = job[v]
    BY <1>2, <2>1 DEF SweepRemove, Sweeping
  <2>4. /\ NothingToLose(job[w].victim, job[w].now) /\ RemoveFile(job[w].victim)
        /\ UNCHANGED <<clock, granted>>
    BY <1>2, <2>1 DEF SweepRemove, RemovesWhatItRead
  <2> QED
    BY <2>2, <2>3, <2>4, RemovalKeeps
<1>3. ASSUME NEW w \in Worker, RemovePath(w) PROVE RecordKept' /\ WriterOwns'
  <2>1. job[w].pc = "remove" /\ job \in [Worker -> Jobs]
    BY <1>3 DEF RemovePath, FileInv, TypeOK
  <2>2. job[w].now \in Nat /\ job[w].now <= clock
    BY <2>1, InFlight
  <2>3. \A v \in Worker : job'[v].pc = "write" => job'[v] = job[v]
    BY <1>3, <2>1 DEF RemovePath, Goto
  <2>4. /\ NothingToLose(job[w].key, job[w].now) /\ RemoveFile(job[w].key)
        /\ UNCHANGED <<clock, granted>>
    BY <1>3, <2>1 DEF RemovePath, RemovesWhatItRead
  <2> QED
    BY <2>2, <2>3, <2>4, RemovalKeeps
<1> QED
  BY <1>1, <1>2, <1>3, CreationKeeps, WriteKeeps, FileShape

LEMMA KeepsStart == Init => RecordKept /\ WriterOwns
BY DEF Init, Idle, RecordKept, WriterOwns

\* A worker about to write a key has its own, unwritten file at the path, so no
\* grant of that key is unexpired.
LEMMA WriterAlone ==
  ASSUME FileInv, RecordKept, WriterOwns, NEW w \in Worker, job[w].pc = "write"
  PROVE  ~\E g \in granted : g.key = job[w].key /\ g.exp >= clock
<1> SUFFICES ASSUME NEW g \in granted, g.key = job[w].key, g.exp >= clock PROVE FALSE
  OBVIOUS
<1>1. PICK h \in dir : h.key = job[w].key /\ ~h.written
  BY DEF WriterOwns, OpenFile
<1>2. ~(g.exp < clock)
  BY TimesAreIntegers DEF FileInv
<1>3. PICK f \in dir : f.key = g.key /\ f.written
  BY <1>2 DEF RecordKept
<1> QED
  BY <1>1, <1>3 DEF FileInv, DirOK

\* As long as every removal meets what its worker read, exactly one caller wins a
\* key until its record expires: for any replicas and workers, any interleaving
\* of their other steps, crashes and failing file operations.
THEOREM FileExactlyOneWinner == Spec /\ []RemovesWhatItRead => ExactlyOneWinner
<1>1. Init => RecordKept /\ WriterOwns
  BY KeepsStart
<1>2. /\ FileInv /\ RemovesWhatItRead /\ RecordKept /\ WriterOwns /\ [Next]_vars
      => RecordKept' /\ WriterOwns'
  BY NextKeeps
<1>3. FileInv /\ RecordKept /\ WriterOwns =>
        [\A w \in Worker, k \in Key :
           Wins(w, k) => ~\E g \in granted : g.key = k /\ g.exp >= clock]_vars
  BY WriterAlone DEF Wins
<1> QED
  BY <1>1, <1>2, <1>3, FileInvHolds, PTL DEF Spec, ExactlyOneWinner

-------------------------------------------------------------------------------
(***************************************************************************)
(* The overshoot.  A worker is admitted when the recount finds room; it    *)
(* then has a place in the count until its file is created.                *)
(***************************************************************************)
Admitting == {"read", "remove", "create"}
Admitted == {w \in Worker : job[w].pc \in Admitting}

\* The places taken can be counted, and no more workers are admitted than there
\* are.
LEMMA AdmittedCount ==
  /\ IsFiniteSet(Admitted) /\ Cardinality(Admitted) \in Nat
  /\ Cardinality(Worker) \in Nat
  /\ Cardinality(Admitted) <= Cardinality(Worker)
<1>1. IsFiniteSet(Worker) /\ Admitted \subseteq Worker
  BY ReplayFileAssumption DEF Admitted
<1>2. IsFiniteSet(Admitted) /\ Cardinality(Admitted) <= Cardinality(Worker)
  BY <1>1, FS_Subset
<1>3. Cardinality(Admitted) \in Nat /\ Cardinality(Worker) \in Nat
  BY <1>1, <1>2, FS_CardinalityType
<1> QED
  BY <1>2, <1>3

\* A step that admits nobody and adds no file.
LEMMA ShrinkBounded ==
  ASSUME BoundedOvershoot, IsFiniteSet(dir), IsFiniteSet(dir'),
         Cardinality(dir') <= Cardinality(dir), Admitted' \subseteq Admitted
  PROVE  BoundedOvershoot'
<1>1. Cardinality(dir) \in Nat /\ Cardinality(dir') \in Nat
  BY FS_CardinalityType
<1>2. IsFiniteSet(Admitted) /\ Cardinality(Admitted) \in Nat /\ Cardinality(Worker) \in Nat
  BY AdmittedCount
<1>3. IsFiniteSet(Admitted') /\ Cardinality(Admitted') <= Cardinality(Admitted)
  BY <1>2, FS_Subset
<1>4. Cardinality(Admitted') \in Nat
  BY <1>3, FS_CardinalityType
<1>5. Cardinality(dir) + Cardinality(Admitted) < MaxSeen + Cardinality(Worker)
  BY DEF BoundedOvershoot, Admitted, Admitting
<1>6. Cardinality(dir') + Cardinality(Admitted') < MaxSeen + Cardinality(Worker)
  BY <1>1, <1>2, <1>3, <1>4, <1>5, ReplayFileAssumption
<1> QED
  BY <1>6 DEF BoundedOvershoot, Admitted, Admitting

\* The recount admits a worker only below max_seen.
LEMMA RecountBounded ==
  ASSUME IsFiniteSet(dir), ~DirFull, dir' = dir, BoundedOvershoot
  PROVE  BoundedOvershoot'
<1>1. Cardinality(dir) \in Nat /\ Cardinality(dir) < MaxSeen
  BY FS_CardinalityType, ReplayFileAssumption DEF DirFull
<1>2. IsFiniteSet(Worker) /\ Admitted' \subseteq Worker
  BY ReplayFileAssumption DEF Admitted
<1>3. IsFiniteSet(Admitted') /\ Cardinality(Admitted') <= Cardinality(Worker)
  BY <1>2, FS_Subset
<1>4. Cardinality(Admitted') \in Nat /\ Cardinality(Worker) \in Nat
  BY <1>2, <1>3, FS_CardinalityType
<1>5. Cardinality(dir') + Cardinality(Admitted') < MaxSeen + Cardinality(Worker)
  BY <1>1, <1>3, <1>4, ReplayFileAssumption
<1> QED
  BY <1>5 DEF BoundedOvershoot, Admitted, Admitting

\* A created file takes the place of the worker that created it.
LEMMA CreateBounded ==
  ASSUME BoundedOvershoot, IsFiniteSet(dir), NEW nf, dir' = dir \cup {nf},
         NEW w \in Admitted, Admitted' = Admitted \ {w}
  PROVE  BoundedOvershoot'
<1>1. Cardinality(dir) \in Nat
  BY FS_CardinalityType
<1>2. IsFiniteSet(dir') /\
      (Cardinality(dir') = Cardinality(dir) \/ Cardinality(dir') = Cardinality(dir) + 1)
  BY FS_AddElement
<1>3. IsFiniteSet(Admitted) /\ Cardinality(Admitted) \in Nat /\ Cardinality(Worker) \in Nat
  BY AdmittedCount
<1>4. Cardinality(Admitted') = Cardinality(Admitted) - 1
  BY <1>3, FS_RemoveElement
<1>5. Cardinality(dir) + Cardinality(Admitted) < MaxSeen + Cardinality(Worker)
  BY DEF BoundedOvershoot, Admitted, Admitting
<1>6. Cardinality(dir') + Cardinality(Admitted') < MaxSeen + Cardinality(Worker)
  BY <1>1, <1>2, <1>3, <1>4, <1>5, ReplayFileAssumption
<1> QED
  BY <1>6 DEF BoundedOvershoot, Admitted, Admitting

\* The job of worker w changes to one that is admitted only if w was.
LEMMA AdmitsNobody ==
  ASSUME FileInv, NEW w \in Worker, NEW x, job' = [job EXCEPT ![w] = x],
         x.pc \in Admitting => job[w].pc \in Admitting
  PROVE  Admitted' \subseteq Admitted
BY DEF FileInv, TypeOK, Admitted

\* The steps of one worker keep the bound.
LEMMA StepBounded ==
  ASSUME FileInv, BoundedOvershoot, NEW w \in Worker, Step(w)
  PROVE  BoundedOvershoot'
<1>1. FileInv' /\ IsFiniteSet(dir) /\ IsFiniteSet(dir')
  BY StepInv DEF FileInv, DirOK
<1>2. Cardinality(dir) \in Nat /\ Cardinality(dir) <= Cardinality(dir)
  BY <1>1, FS_CardinalityType
<1>3. ASSUME dir' = dir, NEW x, job' = [job EXCEPT ![w] = x],
             x.pc \in Admitting => job[w].pc \in Admitting
      PROVE  BoundedOvershoot'
  BY <1>1, <1>2, <1>3, AdmitsNobody, ShrinkBounded
<1>4. ASSUME NEW todo, NEW label, Sweeping(w, todo, label), dir' = dir
      PROVE  BoundedOvershoot'
  <2> DEFINE x == [pc |-> "sweep", key |-> job[w].key, exp |-> job[w].exp,
                   now |-> job[w].now, todo |-> todo, then |-> label]
  <2>1. job' = [job EXCEPT ![w] = x] /\ x.pc = "sweep"
    BY <1>4 DEF Sweeping
  <2>2. x.pc \in Admitting => job[w].pc \in Admitting
    BY <2>1 DEF Admitting
  <2> QED
    BY <2>1, <2>2, <1>3, <1>4
<1>5. ASSUME NEW label, Goto(w, label), dir' = dir,
             label \in Admitting => job[w].pc \in Admitting
      PROVE  BoundedOvershoot'
  <2> DEFINE x == [pc |-> label, key |-> job[w].key, exp |-> job[w].exp, now |-> job[w].now]
  <2>1. job' = [job EXCEPT ![w] = x] /\ x.pc = label
    BY <1>5 DEF Goto
  <2> HIDE DEF x
  <2> QED
    BY <2>1, <1>3, <1>5
<1>6. ASSUME NEW r, Answer(w, r), dir' = dir PROVE BoundedOvershoot'
  <2> DEFINE x == [pc |-> "done", res |-> r]
  <2>1. job' = [job EXCEPT ![w] = x] /\ x.pc = "done"
    BY <1>6 DEF Answer
  <2>2. x.pc \in Admitting => job[w].pc \in Admitting
    BY <2>1 DEF Admitting
  <2> QED
    BY <2>1, <2>2, <1>3, <1>6
<1>7. ASSUME NEW k, RemoveFile(k), Admitted' \subseteq Admitted PROVE BoundedOvershoot'
  <2>1. dir' \subseteq dir
    BY <1>7 DEF RemoveFile
  <2>2. Cardinality(dir') <= Cardinality(dir)
    BY <1>1, <2>1, FS_Subset
  <2> QED
    BY <1>1, <1>7, <2>2, ShrinkBounded
<1>8. CASE MaybeSweep(w)
  <2>1. dir' = dir /\ (StartSweep(w, "count") \/ Goto(w, "count"))
    BY <1>8 DEF MaybeSweep
  <2> QED
    BY <1>4, <1>5, <2>1 DEF StartSweep, Admitting
<1>9. ASSUME NEW k \in Key, SweepVisit(w, k) PROVE BoundedOvershoot'
  <2>1. CASE Sweeping(w, job[w].todo \ {k}, job[w].then)
    BY <1>4, <1>9, <2>1 DEF SweepVisit
  <2>2. ASSUME NEW x, x.pc = "sweep_remove", job' = [job EXCEPT ![w] = x]
        PROVE  BoundedOvershoot'
    BY <1>3, <1>9, <2>2 DEF SweepVisit, Admitting
  <2> DEFINE y == [pc |-> "sweep_remove", key |-> job[w].key, exp |-> job[w].exp,
                   now |-> job[w].now, todo |-> job[w].todo \ {k},
                   then |-> job[w].then, victim |-> k]
  <2>3. y.pc = "sweep_remove"
    OBVIOUS
  <2>4. Sweeping(w, job[w].todo \ {k}, job[w].then) \/ job' = [job EXCEPT ![w] = y]
    BY <1>9 DEF SweepVisit
  <2> HIDE DEF y
  <2> QED
    BY <2>1, <2>2, <2>3, <2>4
<1>10. CASE SweepRemove(w)
  <2> DEFINE x == [pc |-> "sweep", key |-> job[w].key, exp |-> job[w].exp,
                   now |-> job[w].now, todo |-> job[w].todo, then |-> job[w].then]
  <2>1. job' = [job EXCEPT ![w] = x] /\ x.pc = "sweep"
    BY <1>10 DEF SweepRemove, Sweeping
  <2> HIDE DEF x
  <2>2. Admitted' \subseteq Admitted
    BY <2>1, AdmitsNobody DEF Admitting
  <2> QED
    BY <1>7, <1>10, <2>2 DEF SweepRemove
<1>11. CASE SweepEnd(w)
  <2>1. job[w].pc = "sweep" /\ dir' = dir /\ Goto(w, job[w].then)
    BY <1>11 DEF SweepEnd
  <2>2. job[w].then \in {"count", "recount"}
    BY <2>1, InFlight, JobFields
  <2> QED
    BY <1>5, <2>1, <2>2 DEF Admitting
<1>12. CASE Count(w)
  <2>1. dir' = dir /\ (StartSweep(w, "recount") \/ Goto(w, "recount"))
    BY <1>12 DEF Count
  <2> QED
    BY <1>4, <1>5, <2>1 DEF StartSweep, Admitting
<1>13. CASE Recount(w)
  <2>1. CASE DirFull
    BY <1>6, <1>13, <2>1 DEF Recount
  <2>2. CASE ~DirFull
    BY <1>1, <1>13, <2>2, RecountBounded DEF Recount
  <2> QED
    BY <2>1, <2>2
<1>14. CASE ReadPath(w)
  BY <1>5, <1>14 DEF ReadPath, Admitting
<1>15. CASE RemovePath(w)
  <2> DEFINE x == [pc |-> "create", key |-> job[w].key, exp |-> job[w].exp,
                   now |-> job[w].now]
  <2>1. job' = [job EXCEPT ![w] = x] /\ job[w].pc = "remove"
    BY <1>15 DEF RemovePath, Goto
  <2> HIDE DEF x
  <2>2. Admitted' \subseteq Admitted
    BY <2>1, AdmitsNobody DEF Admitting
  <2> QED
    BY <1>7, <1>15, <2>2 DEF RemovePath
<1>16. CASE CreateNew(w)
  <2>1. CASE job[w].key \in Present
    BY <1>6, <1>16, <2>1 DEF CreateNew
  <2>2. CASE job[w].key \notin Present
    <3> DEFINE x == [pc |-> "write", key |-> job[w].key, exp |-> job[w].exp,
                     now |-> job[w].now]
               nf == [key |-> job[w].key, by |-> w, exp |-> job[w].exp, written |-> FALSE]
    <3>1. /\ job' = [job EXCEPT ![w] = x] /\ x.pc = "write" /\ job[w].pc = "create"
          /\ dir' = dir \cup {nf}
      BY <1>16, <2>2 DEF CreateNew, Goto
    <3> HIDE DEF x, nf
    <3>2. Admitted' = Admitted \ {w} /\ w \in Admitted
      BY <3>1 DEF FileInv, TypeOK, Admitted, Admitting
    <3> QED
      BY <1>1, <3>1, <3>2, CreateBounded
  <2> QED
    BY <2>1, <2>2
<1>17. CASE WriteExp(w)
  <2> DEFINE upd(f) == IF f.key = job[w].key /\ f.by = w
                         THEN [f EXCEPT !.written = TRUE] ELSE f
             F == [f \in dir |-> upd(f)]
  <2>1. F \in Surjection(dir, dir')
    BY <1>17 DEF WriteExp, Surjection
  <2>2. Cardinality(dir') <= Cardinality(dir)
    BY <1>1, <2>1, FS_Surjection
  <2>3. job' = [job EXCEPT ![w] = [pc |-> "done", res |-> "Ok"]]
    BY <1>17 DEF WriteExp, Answer
  <2>4. Admitted' \subseteq Admitted
    BY <2>3, AdmitsNobody DEF Admitting
  <2> QED
    BY <1>1, <2>2, <2>4, ShrinkBounded
<1> QED
  BY <1>8, <1>9, <1>10, <1>11, <1>12, <1>13, <1>14, <1>15, <1>16, <1>17 DEF Step

\* The directory exceeds max_seen by fewer files than there are workers, for any
\* number of replicas and workers, any capacity and any crashes.
THEOREM FileBoundedOvershoot == Spec => []BoundedOvershoot
<1>1. Init => BoundedOvershoot
  <2> SUFFICES ASSUME Init PROVE BoundedOvershoot
    OBVIOUS
  <2>1. Admitted = {}
    BY DEF Init, Admitted, Admitting, Idle
  <2>2. Cardinality(dir) = 0 /\ Cardinality(Admitted) = 0
    BY <2>1, FS_EmptySet DEF Init
  <2>3. Cardinality(dir) + Cardinality(Admitted) < MaxSeen + Cardinality(Worker)
    BY <2>2, AdmittedCount, ReplayFileAssumption
  <2> QED
    BY <2>3 DEF BoundedOvershoot, Admitted, Admitting
<1>2. ASSUME FileInv, BoundedOvershoot, [Next]_vars PROVE BoundedOvershoot'
  <2>1. IsFiniteSet(dir) /\ Cardinality(dir) <= Cardinality(dir)
    BY <1>2, FS_CardinalityType DEF FileInv, DirOK
  <2>2. ASSUME dir' = dir, Admitted' \subseteq Admitted PROVE BoundedOvershoot'
    BY <1>2, <2>1, <2>2, ShrinkBounded
  <2>3. CASE Tick \/ UNCHANGED vars
    BY <2>2, <2>3 DEF Tick, vars, Admitted
  <2>4. ASSUME NEW w \in Worker, NEW k \in Key, NEW e \in Exps, Call(w, k, e)
        PROVE  BoundedOvershoot'
    <3>1. PICK x : job' = [job EXCEPT ![w] = x] /\ x.pc \in {"done", "maybe_sweep"}
      <4>1. [pc |-> "done", res |-> "InvalidRequest"].pc = "done"
        OBVIOUS
      <4>2. [pc |-> "maybe_sweep", key |-> k, exp |-> e, now |-> clock].pc = "maybe_sweep"
        OBVIOUS
      <4> QED
        BY <2>4, <4>1, <4>2 DEF Call, Answer
    <3>2. Admitted' \subseteq Admitted
      BY <1>2, <3>1, AdmitsNobody DEF Admitting
    <3> QED
      BY <2>2, <2>4, <3>2 DEF Call
  <2>5. CASE \E w \in Worker : Step(w)
    BY <1>2, <2>5, StepBounded
  <2>6. ASSUME NEW w \in Worker, IoFailure(w) PROVE BoundedOvershoot'
    <3>1. job' = [job EXCEPT ![w] = [pc |-> "done", res |-> "StoreFull"]]
      BY <2>6 DEF IoFailure, Answer
    <3>2. Admitted' \subseteq Admitted
      BY <1>2, <3>1, AdmitsNobody DEF Admitting
    <3> QED
      BY <2>2, <2>6, <3>2 DEF IoFailure
  <2>7. ASSUME NEW r \in Replica, Crash(r) PROVE BoundedOvershoot'
    <3>1. Admitted' \subseteq Admitted
      BY <2>7 DEF Crash, Admitted, Admitting, Idle
    <3> QED
      BY <2>2, <2>7, <3>1 DEF Crash
  <2> QED
    BY <1>2, <2>3, <2>4, <2>5, <2>6, <2>7 DEF Next
<1> QED
  BY <1>1, <1>2, FileInvHolds, PTL DEF Spec
===============================================================================
