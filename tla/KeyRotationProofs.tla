-------------------------- MODULE KeyRotationProofs ---------------------------
(***************************************************************************)
(* Proofs about `key rotate', for every number of competing rotations and  *)
(* of generated keys, and about `pqc key rotate' when no two of them run   *)
(* at a time.                                                              *)
(***************************************************************************)
EXTENDS KeyRotation, TLAPS

\* RotationInv is inductive for the RSA command only: `pqc key rotate' reads
\* the files before it takes the lock.
RsaInv == Kind = "rsa" /\ RotationInv

\* What concerns the files and the servers, whichever command rotates.
FilesInv == TypeOK /\ ServerCovered /\ NoKeyLost

\* A tool about to write acts on what the files hold.
ReadyToWrite(p) ==
  /\ At(p, "stage") => tool[p].current = keyFile /\ tool[p].keys = overlap
  /\ At(p, "replace") => keyFile \in overlap
  /\ At(p, "stage") \/ At(p, "replace") => \A k \in OnFile : k.id < tool[p].new.id

\* The steps of rotate_signing_key follow each other in the order of the code.
LEMMA RsaOrder ==
  ASSUME Kind = "rsa"
  PROVE  /\ Program[1] = "lock"
         /\ After("lock") = "readKey"
         /\ After("readKey") = "generate"
         /\ After("generate") = "readOverlap"
         /\ After("readOverlap") = "stage"
         /\ After("stage") = "replace"
         /\ After("replace") = "unlock"
<1>1. Program = <<"lock", "readKey", "generate", "readOverlap", "stage", "replace", "unlock">>
  BY DEF Program
<1>2. /\ DOMAIN Program = 1 .. 7
      /\ Program[1] = "lock" /\ Program[2] = "readKey" /\ Program[3] = "generate"
      /\ Program[4] = "readOverlap" /\ Program[5] = "stage" /\ Program[6] = "replace"
      /\ Program[7] = "unlock"
  BY <1>1
<1>3. ASSUME NEW n \in 1 .. 6
      PROVE  After(Program[n]) = Program[n + 1]
  <2>1. \A i \in DOMAIN Program : Program[i] = Program[n] => i = n
    BY <1>2
  <2>2. n = CHOOSE i \in DOMAIN Program : Program[i] = Program[n]
    BY <1>2, <2>1
  <2> QED
    BY <2>2 DEF After
<1> QED
  BY <1>2, <1>3

\* A key generated later leaves the earlier ones known, and is new.
LEMMA GeneratedGrows ==
  ASSUME NEW n \in Nat
  PROVE  /\ Generated(n) \subseteq Generated(n + 1)
         /\ Key(n + 1, n + 1) \in Generated(n + 1)
         /\ Key(n + 1, n + 1) \notin Generated(n)
         /\ \A k \in Generated(n) : k.id \in Nat /\ k.id < Key(n + 1, n + 1).id
         /\ \A k, l \in Generated(n) : k.kid = l.kid => k = l
         /\ \A k, l \in Generated(n) : k.id = l.id => k = l
<1>1. Generated(n) \subseteq Generated(n + 1) /\ Key(n + 1, n + 1) \in Generated(n + 1)
  BY DEF Generated
<1>2. \A k \in Generated(n) : k.id \in 0 .. n
  BY DEF Generated, Key
<1>3. Key(n + 1, n + 1).id \notin 0 .. n
  BY DEF Key
<1>4. \A k, l \in Generated(n) : k.kid = l.kid \/ k.id = l.id => k = l
  BY DEF Generated, Key
<1>5. Key(n + 1, n + 1).id = n + 1
  BY DEF Key
<1> QED
  BY <1>1, <1>2, <1>3, <1>4, <1>5

\* Staging keeps every staged key and adds the key to be replaced.
LEMMA RetainedKeepsAll ==
  ASSUME NEW n \in Nat, NEW current \in Generated(n), NEW keys \in SUBSET Generated(n),
         NEW new \in Generated(n) \ keys
  PROVE  Retained(current, keys, new) = keys \cup {current}
<1>1. \A k \in keys : k.kid = current.kid => k = current
  BY GeneratedGrows
<1>2. \A k \in keys : k.kid # new.kid
  BY GeneratedGrows
<1> QED
  BY <1>1, <1>2 DEF Retained

\* The server publishes every staged key beside its own.
LEMMA PublishedIsAll ==
  ASSUME NEW n \in Nat, NEW key \in Generated(n), NEW extra \in SUBSET Generated(n)
  PROVE  Published(key, extra) = {key} \cup extra
BY GeneratedGrows DEF Published

\* The first key is known from the start.
LEMMA FirstKeyGenerated ==
  ASSUME NEW n \in Nat
  PROVE  FirstKey \in Generated(n)
BY DEF FirstKey, Generated, Key

-------------------------------------------------------------------------------
\* Before the first rotation and the first start of the server.
LEMMA RsaInit == Kind = "rsa" /\ Init => RsaInv
<1> SUFFICES ASSUME Kind = "rsa", Init PROVE RsaInv
  OBVIOUS
<1>1. TypeOK
  BY KeyRotationAssumption, FirstKeyGenerated
     DEF Init, TypeOK, Idle, Down, ToolStates, ServerStates
<1>2. ReadsAreCurrent
  BY DEF Init, ReadsAreCurrent, Idle, PastLock, At
<1>3. ServerCovered /\ NoKeyLost
  BY DEF Init, Down, ServerCovered, NoKeyLost
<1> QED
  BY <1>1, <1>2, <1>3 DEF RsaInv, RotationInv

\* A step that moves one tool, changes neither file nor the server and leaves
\* the lock to its owner only has to keep what that tool has read current.
LEMMA ToolStepInv ==
  ASSUME RsaInv, NEW p \in Tool, NEW t,
         t \in ToolStates(made),
         tool' = [tool EXCEPT ![p] = t],
         lock' \in Tool \cup {NoTool, Dead},
         lock' # lock => lock \in {p, NoTool, Dead},
         t.pc \in PastLock => lock' = p,
         t.pc \in {"generate", "readOverlap", "stage"} => t.current = keyFile,
         t.pc \in {"readOverlap", "stage", "replace"} =>
           \A k \in OnFile : k.id < t.new.id,
         t.pc = "stage" => t.keys = overlap,
         t.pc = "replace" => keyFile \in overlap,
         UNCHANGED <<keyFile, overlap, made, server, signed>>
  PROVE  RsaInv'
<1> USE DEF RsaInv, RotationInv
<1>1. TypeOK'
  BY DEF TypeOK
<1>2. ReadsAreCurrent'
  <2> SUFFICES ASSUME NEW q \in Tool
               PROVE  /\ tool'[q].pc \in PastLock => lock' = q
                      /\ tool'[q].pc \in {"generate", "readOverlap", "stage"} =>
                           tool'[q].current = keyFile'
                      /\ tool'[q].pc \in {"readOverlap", "stage", "replace"} =>
                           \A k \in OnFile' : k.id < tool'[q].new.id
                      /\ tool'[q].pc = "stage" => tool'[q].keys = overlap'
                      /\ tool'[q].pc = "replace" => keyFile' \in overlap'
    BY DEF ReadsAreCurrent, At
  <2>1. CASE q = p
    BY <2>1 DEF TypeOK, OnFile
  <2>2. CASE q # p
    <3>1. tool'[q] = tool[q]
      BY <2>2 DEF TypeOK
    <3>2. tool[q].pc \in PastLock => lock' = q
      BY <2>2, KeyRotationAssumption DEF ReadsAreCurrent
    <3> QED
      BY <3>1, <3>2 DEF ReadsAreCurrent, At, OnFile
  <2> QED
    BY <2>1, <2>2
<1>3. (ServerCovered /\ NoKeyLost)'
  BY DEF ServerCovered, OnFile, NoKeyLost
<1> QED
  BY <1>1, <1>2, <1>3

\* A tool that ends, whether or not it held the lock, disturbs nobody.
LEMMA IdleStepInv ==
  ASSUME RsaInv, NEW p \in Tool,
         tool' = [tool EXCEPT ![p] = Idle],
         lock' = lock \/ (lock = p /\ lock' \in {NoTool, Dead}),
         UNCHANGED <<keyFile, overlap, made, server, signed>>
  PROVE  RsaInv'
<1>1. Idle \in ToolStates(made)
  BY FirstKeyGenerated DEF RsaInv, RotationInv, TypeOK, Idle, ToolStates
<1>2. Idle.pc = "idle"
  BY DEF Idle
<1>3. lock' \in Tool \cup {NoTool, Dead}
  BY DEF RsaInv, RotationInv, TypeOK
<1>4. lock' # lock => lock \in {p, NoTool, Dead}
  OBVIOUS
<1> QED
  BY <1>1, <1>2, <1>3, <1>4, ToolStepInv DEF PastLock

-------------------------------------------------------------------------------
\* Before the lock is tried a tool has read nothing and owns nothing.
LEMMA BeginInv ==
  ASSUME RsaInv, NEW p \in Tool, Begin(p)
  PROVE  RsaInv'
<1> DEFINE t == [Idle EXCEPT !.pc = "lock"]
<1>1. tool' = [tool EXCEPT ![p] = t]
  BY RsaOrder DEF Begin, RsaInv
<1>2. t \in ToolStates(made) /\ t.pc = "lock"
  BY FirstKeyGenerated DEF Idle, TypeOK, ToolStates, RsaInv, RotationInv
<1>3. lock' = lock /\ lock \in Tool \cup {NoTool, Dead}
  BY DEF Begin, TypeOK, RsaInv, RotationInv
<1>4. UNCHANGED <<keyFile, overlap, made, server, signed>>
  BY DEF Begin
<1> HIDE DEF t
<1> QED
  BY <1>1, <1>2, <1>3, <1>4, ToolStepInv DEF PastLock

\* The tool that creates the lock file owns it; the others give up.
LEMMA AcquireLockInv ==
  ASSUME RsaInv, NEW p \in Tool, AcquireLock(p)
  PROVE  RsaInv'
<1>1. CASE lock = NoTool /\ lock' = p
  <2> DEFINE t == [tool[p] EXCEPT !.pc = "readKey"]
  <2>1. tool[p] \in ToolStates(made)
    BY DEF TypeOK, RsaInv, RotationInv
  <2>2. tool' = [tool EXCEPT ![p] = t]
    BY <1>1, RsaOrder, KeyRotationAssumption DEF AcquireLock, RsaInv
  <2>3. t \in ToolStates(made) /\ t.pc = "readKey"
    BY <2>1 DEF ToolStates
  <2>4. UNCHANGED <<keyFile, overlap, made, server, signed>>
    BY DEF AcquireLock
  <2> HIDE DEF t
  <2> QED
    BY <1>1, <2>2, <2>3, <2>4, ToolStepInv DEF PastLock
<1>2. CASE lock # NoTool
  BY <1>2, IdleStepInv DEF AcquireLock
<1> QED
  BY <1>1, <1>2 DEF AcquireLock

\* What the owner of the lock reads is what the file holds.
LEMMA LoadInv ==
  ASSUME RsaInv, NEW p \in Tool, LoadCurrentKey(p) \/ LoadExistingOverlap(p)
  PROVE  RsaInv'
<1>1. /\ tool[p] \in ToolStates(made)
      /\ keyFile \in Generated(made) /\ overlap \in SUBSET Generated(made)
      /\ lock \in Tool \cup {NoTool, Dead}
  BY DEF TypeOK, RsaInv, RotationInv
<1>2. lock = p
  BY DEF LoadCurrentKey, LoadExistingOverlap, At, ReadsAreCurrent, PastLock, RsaInv,
         RotationInv
<1>3. UNCHANGED <<lock, keyFile, overlap, made, server, signed>>
  BY DEF LoadCurrentKey, LoadExistingOverlap
<1>4. CASE LoadCurrentKey(p)
  <2> DEFINE t == [tool[p] EXCEPT !.pc = "generate", !.current = keyFile]
  <2>1. tool' = [tool EXCEPT ![p] = t]
    BY <1>4, RsaOrder DEF LoadCurrentKey, RsaInv
  <2>2. t \in ToolStates(made) /\ t.pc = "generate" /\ t.current = keyFile
    BY <1>1 DEF ToolStates
  <2> HIDE DEF t
  <2> QED
    BY <1>1, <1>2, <1>3, <2>1, <2>2, ToolStepInv DEF PastLock
<1>5. CASE LoadExistingOverlap(p)
  <2> DEFINE t == [tool[p] EXCEPT !.pc = "stage", !.keys = overlap]
  <2>1. tool' = [tool EXCEPT ![p] = t]
    BY <1>5, RsaOrder DEF LoadExistingOverlap, RsaInv
  <2>2. t \in ToolStates(made) /\ t.pc = "stage" /\ t.keys = overlap
        /\ t.current = tool[p].current /\ t.new = tool[p].new
    BY <1>1 DEF ToolStates
  <2>3. t.current = keyFile /\ \A k \in OnFile : k.id < t.new.id
    BY <1>5, <2>2 DEF LoadExistingOverlap, At, ReadsAreCurrent, RsaInv, RotationInv
  <2> HIDE DEF t
  <2> QED
    BY <1>1, <1>2, <1>3, <2>1, <2>2, <2>3, ToolStepInv DEF PastLock
<1> QED
  BY <1>4, <1>5

\* Only one tool can be past the lock.
LEMMA OwnerAlone ==
  ASSUME RsaInv, NEW p \in Tool, tool[p].pc \in PastLock
  PROVE  \A q \in Tool : tool[q].pc \in PastLock => q = p
BY DEF RsaInv, RotationInv, ReadsAreCurrent

\* Everything known stays known when a key is generated.
LEMMA TypesGrow ==
  ASSUME NEW n \in Nat
  PROVE  /\ ToolStates(n) \subseteq ToolStates(n + 1)
         /\ ServerStates(n) \subseteq ServerStates(n + 1)
BY GeneratedGrows DEF ToolStates, ServerStates

\* The key the owner of the lock generates is in neither file.
LEMMA GenerateKeyInv ==
  ASSUME RsaInv, NEW p \in Tool, GenerateKey(p)
  PROVE  RsaInv'
<1> DEFINE new == Key(made + 1, made + 1)
           t == [tool[p] EXCEPT !.pc = "readOverlap", !.new = new]
<1>1. TypeOK /\ ReadsAreCurrent /\ ServerCovered /\ NoKeyLost
      /\ Kind = "rsa" /\ made \in Nat
  BY DEF RsaInv, RotationInv, TypeOK
<1>2. tool[p].pc = "generate" /\ tool[p].current = keyFile /\ lock = p
  BY <1>1 DEF GenerateKey, At, ReadsAreCurrent, PastLock
<1>3. UNCHANGED <<keyFile, overlap, lock, server, signed>> /\ made' = made + 1
      /\ made < MaxKeys
  BY DEF GenerateKey
<1>4. tool' = [tool EXCEPT ![p] = t]
  BY <1>1, RsaOrder DEF GenerateKey
<1>5. new \in Generated(made + 1) /\ \A k \in OnFile : k.id < new.id
  BY <1>1, GeneratedGrows DEF TypeOK, OnFile
<1> HIDE DEF new
<1>6. t \in ToolStates(made + 1) /\ t.pc = "readOverlap" /\ t.current = keyFile
      /\ \A k \in OnFile : k.id < t.new.id
  <2>1. tool[p] \in ToolStates(made + 1)
    BY <1>1, TypesGrow DEF TypeOK
  <2> QED
    BY <1>2, <1>5, <2>1 DEF ToolStates
<1> HIDE DEF t
<1>7. TypeOK'
  <2>1. tool' \in [Tool -> ToolStates(made')]
    BY <1>1, <1>3, <1>4, <1>6, TypesGrow DEF TypeOK
  <2>2. keyFile' \in Generated(made') /\ overlap' \in SUBSET Generated(made')
        /\ signed' \in SUBSET Generated(made')
    BY <1>1, <1>3, GeneratedGrows DEF TypeOK
  <2>3. server' \in [Server -> ServerStates(made')]
    <3>1. ServerStates(made) \subseteq ServerStates(made')
      BY <1>1, <1>3, TypesGrow
    <3> QED
      BY <1>1, <1>3, <3>1 DEF TypeOK
  <2>4. made' \in 0 .. MaxKeys
    BY <1>1, <1>3, KeyRotationAssumption
  <2>5. lock' \in Tool \cup {NoTool, Dead}
    BY <1>1, <1>3 DEF TypeOK
  <2> QED
    BY <2>1, <2>2, <2>3, <2>4, <2>5 DEF TypeOK
<1>8. ReadsAreCurrent'
  <2>1. \A q \in Tool : q # p => tool'[q] = tool[q]
    BY <1>1, <1>4 DEF TypeOK
  <2>2. tool'[p] = t
    BY <1>1, <1>4 DEF TypeOK
  <2> QED
    BY <1>1, <1>2, <1>3, <1>6, <2>1, <2>2 DEF ReadsAreCurrent, At, PastLock, OnFile
<1>9. (ServerCovered /\ NoKeyLost)'
  BY <1>1, <1>3 DEF ServerCovered, OnFile, NoKeyLost
<1> QED
  BY <1>1, <1>7, <1>8, <1>9 DEF RsaInv, RotationInv

\* Staging adds the key about to be replaced and drops no key.
LEMMA StageOverlapInv ==
  ASSUME RsaInv, NEW p \in Tool, StageOverlap(p)
  PROVE  RsaInv'
<1> DEFINE t == [tool[p] EXCEPT !.pc = "replace"]
<1>1. TypeOK /\ ReadsAreCurrent /\ ServerCovered /\ NoKeyLost
      /\ Kind = "rsa" /\ made \in Nat
  BY DEF RsaInv, RotationInv, TypeOK
<1>2. /\ tool[p].pc = "stage" /\ tool[p].current = keyFile /\ tool[p].keys = overlap
      /\ (\A k \in OnFile : k.id < tool[p].new.id) /\ lock = p
  BY <1>1 DEF StageOverlap, At, ReadsAreCurrent, PastLock
<1>3. UNCHANGED <<keyFile, lock, made, server, signed>>
  BY DEF StageOverlap
<1>4. tool' = [tool EXCEPT ![p] = t]
  BY <1>1, RsaOrder DEF StageOverlap
<1>5. tool[p] \in ToolStates(made) /\ tool[p].new \in Generated(made)
  BY <1>1 DEF TypeOK, ToolStates
<1>6. overlap' = overlap \cup {keyFile} /\ OnFile' = OnFile
  <2>1. overlap \in SUBSET Generated(made) /\ keyFile \in Generated(made)
    BY <1>1 DEF TypeOK
  <2>2. tool[p].new \notin overlap
    BY <1>1, <1>2, <1>5, GeneratedGrows DEF OnFile
  <2>3. overlap' = overlap \cup {keyFile}
    BY <1>1, <1>2, <1>5, <2>1, <2>2, RetainedKeepsAll DEF StageOverlap
  <2> QED
    BY <1>3, <2>3 DEF OnFile
<1>7. t \in ToolStates(made) /\ t.pc = "replace" /\ t.new = tool[p].new
  BY <1>5 DEF ToolStates
<1> HIDE DEF t
<1>8. TypeOK'
  BY <1>1, <1>3, <1>4, <1>6, <1>7 DEF TypeOK
<1>9. ReadsAreCurrent'
  <2>1. \A q \in Tool : q # p => tool'[q] = tool[q] /\ tool[q].pc \notin PastLock
    BY <1>1, <1>2, <1>4, OwnerAlone DEF TypeOK, PastLock
  <2>2. tool'[p] = t
    BY <1>1, <1>4 DEF TypeOK
  <2> QED
    BY <1>2, <1>3, <1>6, <1>7, <2>1, <2>2 DEF ReadsAreCurrent, At, PastLock
<1>10. (ServerCovered /\ NoKeyLost)'
  <2>1. keyFile.id <= keyFile.id
    BY <1>1, GeneratedGrows DEF TypeOK
  <2> QED
    BY <1>1, <1>3, <1>6, <2>1 DEF ServerCovered, NoKeyLost
<1> QED
  BY <1>1, <1>8, <1>9, <1>10 DEF RsaInv, RotationInv

\* A newer key in place of one that is staged leaves the servers covered.
LEMMA ReplaceFiles ==
  ASSUME FilesInv, made \in Nat, NEW new \in Generated(made), keyFile \in overlap,
         \A k \in OnFile : k.id < new.id, keyFile' = new,
         UNCHANGED <<overlap, server, signed>>
  PROVE  (ServerCovered /\ NoKeyLost)'
<1>1. \A k \in OnFile : k.id \in Nat /\ new.id \in Nat /\ k.id < new.id
  BY GeneratedGrows DEF FilesInv, TypeOK, OnFile
<1>2. OnFile' = OnFile \cup {new}
  BY DEF OnFile
<1>3. \A k \in overlap' : k.id <= keyFile'.id
  BY <1>1 DEF OnFile
<1>4. ASSUME NEW s \in Server
      PROVE  /\ server'[s].pc # "down" => server'[s].key \in OnFile'
             /\ server'[s].pc = "up" =>
                  \A k \in OnFile' : k.id <= server'[s].key.id => k \in server'[s].published
  BY <1>1, <1>2 DEF FilesInv, ServerCovered
<1> QED
  BY <1>3, <1>4 DEF FilesInv, ServerCovered, NoKeyLost

\* The replaced key was staged before: it is still in the overlap file.
LEMMA ReplaceKeyInv ==
  ASSUME RsaInv, NEW p \in Tool, ReplaceKey(p)
  PROVE  RsaInv'
<1> DEFINE t == [tool[p] EXCEPT !.pc = "unlock"]
<1>1. TypeOK /\ ReadsAreCurrent /\ ServerCovered /\ NoKeyLost
      /\ Kind = "rsa" /\ made \in Nat
  BY DEF RsaInv, RotationInv, TypeOK
<1>2. tool[p].pc = "replace" /\ keyFile \in overlap /\ lock = p
      /\ \A k \in OnFile : k.id < tool[p].new.id
  BY <1>1 DEF ReplaceKey, At, ReadsAreCurrent, PastLock
<1>3. UNCHANGED <<overlap, lock, made, server, signed>> /\ keyFile' = tool[p].new
  BY DEF ReplaceKey
<1>4. tool' = [tool EXCEPT ![p] = t]
  BY <1>1, RsaOrder DEF ReplaceKey
<1>5. t \in ToolStates(made) /\ t.pc = "unlock" /\ tool[p].new \in Generated(made)
  BY <1>1 DEF TypeOK, ToolStates
<1> HIDE DEF t
<1>6. TypeOK'
  BY <1>1, <1>3, <1>4, <1>5 DEF TypeOK
<1>7. ReadsAreCurrent'
  <2>1. \A q \in Tool : q # p => tool'[q] = tool[q] /\ tool[q].pc \notin PastLock
    BY <1>1, <1>2, <1>4, OwnerAlone DEF TypeOK, PastLock
  <2>2. tool'[p] = t
    BY <1>1, <1>4 DEF TypeOK
  <2> QED
    BY <1>2, <1>3, <1>5, <2>1, <2>2 DEF ReadsAreCurrent, At, PastLock
<1>8. (ServerCovered /\ NoKeyLost)'
  BY <1>1, <1>2, <1>3, <1>5, ReplaceFiles DEF FilesInv
<1> QED
  BY <1>1, <1>6, <1>7, <1>8 DEF RsaInv, RotationInv

\* Every step of a rotation, its failures and its death included.
LEMMA RotateInv ==
  ASSUME RsaInv, NEW p \in Tool, Rotate(p)
  PROVE  RsaInv'
<1>1. CASE Begin(p)
  BY <1>1, BeginInv
<1>2. CASE AcquireLock(p)
  BY <1>2, AcquireLockInv
<1>3. CASE LoadCurrentKey(p) \/ LoadExistingOverlap(p)
  BY <1>3, LoadInv
<1>4. CASE StageOverlap(p)
  BY <1>4, StageOverlapInv
<1>5. CASE ReplaceKey(p)
  BY <1>5, ReplaceKeyInv
<1>6. CASE Unlock(p)
  BY <1>6, IdleStepInv DEF Unlock, DropLock
<1>7. CASE Fail(p)
  BY <1>7, IdleStepInv DEF Fail, DropLock
<1>8. CASE Kill(p)
  BY <1>8, IdleStepInv DEF Kill
<1>9. CASE GenerateKey(p)
  BY <1>9, GenerateKeyInv
<1> QED
  BY <1>1, <1>2, <1>3, <1>4, <1>5, <1>6, <1>7, <1>8, <1>9 DEF Rotate

-------------------------------------------------------------------------------
\* A server that starts or stops has to stay covered by the files.
LEMMA ServerStepInv ==
  ASSUME FilesInv, NEW s \in Server, NEW v \in ServerStates(made),
         server' = [server EXCEPT ![s] = v],
         v.pc # "down" => v.key \in OnFile,
         v.pc = "up" => \A k \in OnFile : k.id <= v.key.id => k \in v.published,
         UNCHANGED <<keyFile, overlap, lock, tool, made, signed>>
  PROVE  FilesInv'
<1> USE DEF FilesInv
<1>1. TypeOK'
  BY DEF TypeOK
<1>2. NoKeyLost'
  BY DEF NoKeyLost
<1>3. ServerCovered'
  <2>1. OnFile' = OnFile
    BY DEF OnFile
  <2>2. \A r \in Server : server'[r] = IF r = s THEN v ELSE server[r]
    BY DEF TypeOK
  <2> QED
    BY <2>1, <2>2 DEF ServerCovered
<1> QED
  BY <1>1, <1>2, <1>3

\* A server reads the files, whatever moment of a rotation it is.
LEMMA ServeFiles ==
  ASSUME FilesInv, NEW s \in Server, Serve(s)
  PROVE  FilesInv'
<1>1. /\ TypeOK /\ ServerCovered /\ NoKeyLost
      /\ made \in Nat /\ OnFile \subseteq Generated(made)
      /\ server[s] \in ServerStates(made)
  BY KeyRotationAssumption DEF FilesInv, TypeOK, OnFile
<1>2. CASE LoadSigner(s)
  <2> DEFINE v == [pc |-> "loading", key |-> keyFile, published |-> {keyFile}]
  <2>1. v \in ServerStates(made) /\ v.pc = "loading" /\ v.key \in OnFile
    BY <1>1 DEF ServerStates, TypeOK, OnFile
  <2>2. /\ server' = [server EXCEPT ![s] = v]
        /\ UNCHANGED <<keyFile, overlap, lock, tool, made, signed>>
    BY <1>2 DEF LoadSigner
  <2> HIDE DEF v
  <2> QED
    BY <2>1, <2>2, ServerStepInv
<1>3. CASE PublishJwks(s)
  <2> DEFINE key == server[s].key
             v == [pc |-> "up", key |-> key, published |-> {key} \cup overlap]
  <2>1. key \in OnFile /\ key \in Generated(made)
    BY <1>1, <1>3 DEF PublishJwks, ServerCovered, ServerStates
  <2>2. /\ server' = [server EXCEPT ![s] = v]
        /\ UNCHANGED <<keyFile, overlap, lock, tool, made, signed>>
    BY <1>1, <1>3, <2>1, PublishedIsAll DEF TypeOK, PublishJwks
  <2>3. v \in ServerStates(made) /\ v.pc = "up" /\ v.key = key
        /\ v.published = {key} \cup overlap
    BY <1>1, <2>1 DEF ServerStates, TypeOK
  <2>4. ASSUME NEW k \in OnFile, k.id <= key.id
        PROVE  k \in {key} \cup overlap
    <3>1. key.id <= keyFile.id /\ key.id \in Nat /\ keyFile.id \in Nat
      BY <1>1, <2>1, GeneratedGrows DEF ServerCovered, OnFile, TypeOK
    <3>2. CASE k = keyFile
      BY <1>1, <2>1, <2>4, <3>1, <3>2, GeneratedGrows
    <3> QED
      BY <3>2 DEF OnFile
  <2> HIDE DEF v
  <2> QED
    BY <2>1, <2>2, <2>3, <2>4, ServerStepInv
<1>4. CASE SignToken(s)
  <2>1. server[s].key \in OnFile /\ server[s].key \in Generated(made)
    BY <1>1, <1>4 DEF SignToken, ServerCovered, ServerStates
  <2>2. TypeOK'
    BY <1>1, <1>4, <2>1 DEF TypeOK, SignToken
  <2>3. ServerCovered'
    BY <1>1, <1>4 DEF ServerCovered, OnFile, SignToken
  <2>4. NoKeyLost'
    BY <1>1, <1>4, <2>1 DEF NoKeyLost, OnFile, SignToken
  <2> QED
    BY <2>2, <2>3, <2>4 DEF FilesInv
<1>5. CASE StopServer(s)
  <2>1. Down \in ServerStates(made) /\ Down.pc = "down"
    BY <1>1, FirstKeyGenerated DEF Down, ServerStates
  <2> QED
    BY <1>5, <2>1, ServerStepInv DEF StopServer
<1> QED
  BY <1>2, <1>3, <1>4, <1>5 DEF Serve

LEMMA ServeInv ==
  ASSUME RsaInv, NEW s \in Server, Serve(s)
  PROVE  RsaInv'
<1>1. FilesInv'
  BY ServeFiles DEF RsaInv, RotationInv, FilesInv
<1>2. UNCHANGED <<keyFile, overlap, lock, tool, made>>
  BY DEF Serve, LoadSigner, PublishJwks, SignToken, StopServer
<1>3. ReadsAreCurrent'
  BY <1>2 DEF RsaInv, RotationInv, ReadsAreCurrent, At, OnFile
<1> QED
  BY <1>1, <1>3 DEF RsaInv, RotationInv, FilesInv

\* Nobody is past a lock a killed tool left.
LEMMA RemoveDeadLockInv ==
  ASSUME RsaInv, RemoveDeadLock
  PROVE  RsaInv'
<1> USE DEF RsaInv, RotationInv, RemoveDeadLock
<1>1. TypeOK'
  BY DEF TypeOK
<1>2. ReadsAreCurrent'
  BY KeyRotationAssumption DEF ReadsAreCurrent, At, OnFile
<1>3. ServerCovered' /\ NoKeyLost'
  BY DEF ServerCovered, OnFile, NoKeyLost
<1> QED
  BY <1>1, <1>2, <1>3

\* RotationInv, and the command being the RSA one, hold throughout.
LEMMA RsaAlways == Kind = "rsa" /\ Spec => []RsaInv
<1>1. Kind = "rsa" /\ Init => RsaInv
  BY RsaInit
<1>2. RsaInv /\ [Next]_vars => RsaInv'
  <2> SUFFICES ASSUME RsaInv, [Next]_vars PROVE RsaInv'
    OBVIOUS
  <2>1. CASE \E p \in Tool : Rotate(p)
    BY <2>1, RotateInv
  <2>2. CASE \E s \in Server : Serve(s)
    BY <2>2, ServeInv
  <2>3. CASE RemoveDeadLock
    BY <2>3, RemoveDeadLockInv
  <2>4. CASE UNCHANGED vars
    BY <2>4 DEF vars, RsaInv, RotationInv, TypeOK, ReadsAreCurrent, At, ServerCovered,
                OnFile, NoKeyLost
  <2> QED
    BY <2>1, <2>2, <2>3, <2>4 DEF Next
<1> QED
  BY <1>1, <1>2, PTL DEF Spec

\* RotationInv holds throughout for the RSA command.
THEOREM RsaRotationInv == Kind = "rsa" /\ Spec => []RotationInv
<1>1. RsaInv => RotationInv
  BY DEF RsaInv
<1> QED
  BY <1>1, RsaAlways, PTL

\* No key that signed a token is lost by `key rotate', however many rotations
\* compete, fail or are killed, and whenever the server is restarted.
THEOREM RsaNoKeyLost == Kind = "rsa" /\ Spec => []NoKeyLost
<1>1. RotationInv => NoKeyLost
  BY DEF RotationInv
<1> QED
  BY <1>1, RsaRotationInv, PTL

\* Servers covered by files that lost no key verify what was signed.
LEMMA FilesVerify == FilesInv => JwksVerifiesMinted /\ RestartedVerifiesAll
<1> SUFFICES ASSUME FilesInv  PROVE  JwksVerifiesMinted /\ RestartedVerifiesAll
  OBVIOUS
<1>1. JwksVerifiesMinted
  BY DEF FilesInv, NoKeyLost, ServerCovered, OnFile, JwksVerifiesMinted
<1>2. ASSUME NEW s \in Server, server[s].pc = "up", server[s].key = keyFile, NEW k \in signed
      PROVE  k \in server[s].published
  <2>1. k \in OnFile
    BY DEF FilesInv, NoKeyLost, OnFile
  <2>2. k.id <= keyFile.id
    <3>1. keyFile.id \in Nat
      BY KeyRotationAssumption, GeneratedGrows DEF FilesInv, TypeOK
    <3> QED
      BY <2>1, <3>1 DEF FilesInv, ServerCovered, OnFile
  <2> QED
    BY <1>2, <2>1, <2>2 DEF FilesInv, ServerCovered
<1> QED
  BY <1>1, <1>2 DEF RestartedVerifiesAll

\* A running server's /jwks verifies every token signed so far with its own key
\* or an older one, by whichever of any number of replicas.
THEOREM RsaJwksVerifiesMinted == Kind = "rsa" /\ Spec => []JwksVerifiesMinted
<1>1. RotationInv => JwksVerifiesMinted
  BY FilesVerify DEF RotationInv, FilesInv
<1> QED
  BY <1>1, RsaRotationInv, PTL

\* A replica restarted since the last rotation verifies every token of every
\* replica.
THEOREM RsaRestartedVerifiesAll == Kind = "rsa" /\ Spec => []RestartedVerifiesAll
<1>1. RotationInv => RestartedVerifiesAll
  BY FilesVerify DEF RotationInv, FilesInv
<1> QED
  BY <1>1, RsaRotationInv, PTL

\* `key rotate' replaces the private key only after the old key was staged.
THEOREM RsaOldKeyStaged == Kind = "rsa" /\ Spec => OldKeyStaged
<1>1. RotationInv /\ [Next]_vars
        => [\A p \in Tool : At(p, "replace") /\ keyFile' # keyFile
              => keyFile \in overlap]_vars
  BY DEF RotationInv, ReadsAreCurrent
<1> QED
  BY <1>1, RsaRotationInv, PTL DEF Spec, OldKeyStaged

-------------------------------------------------------------------------------
\* A step of a tool is a step of the ring or leaves it alone.
LEMMA RotateStep ==
  ASSUME TypeOK, NEW p \in Tool, ReadyToWrite(p), Rotate(p)
  PROVE  Ring!Next \/ UNCHANGED Ring!vars
<1>1. TypeOK /\ made \in Nat /\ MaxKeys \in Nat /\ made <= MaxKeys
  BY KeyRotationAssumption DEF TypeOK
<1>2. CASE StageOverlap(p)
  <2>1. /\ tool[p].current = keyFile /\ tool[p].keys = overlap
        /\ \A k \in OnFile : k.id < tool[p].new.id
    BY <1>2 DEF StageOverlap, ReadyToWrite
  <2>2. tool[p].new \in Generated(made) \ overlap
    BY <1>1, <2>1, GeneratedGrows DEF TypeOK, ToolStates, OnFile
  <2>3. overlap' = overlap \cup {keyFile}
    BY <1>1, <1>2, <2>1, <2>2, RetainedKeepsAll DEF TypeOK, StageOverlap
  <2> QED
    BY <1>2, <2>3 DEF StageOverlap, Ring!Next, Ring!Stage
<1>3. CASE ReplaceKey(p)
  <2>1. keyFile \in overlap /\ \A k \in OnFile : k.id < tool[p].new.id
    BY <1>3 DEF ReplaceKey, ReadyToWrite
  <2>2. tool[p].new \in Generated(MaxKeys)
    BY <1>1 DEF TypeOK, ToolStates, Generated
  <2>3. Ring!Swap(tool[p].new)
    BY <1>3, <2>1 DEF ReplaceKey, Ring!Swap, OnFile
  <2> QED
    BY <2>2, <2>3 DEF Ring!Next
<1>4. CASE UNCHANGED <<keyFile, overlap, server, signed>>
  BY <1>4 DEF Ring!vars
<1> QED
  BY <1>2, <1>3, <1>4 DEF Rotate, Begin, AcquireLock, LoadCurrentKey, GenerateKey,
     LoadExistingOverlap, Unlock, Fail, Kill

\* A server of the deployment takes the same steps as a server of the ring.
LEMMA ServeStep ==
  ASSUME TypeOK, NEW s \in Server, Serve(s)
  PROVE  Ring!Next
<1>1. TypeOK /\ made \in Nat /\ server[s] \in ServerStates(made)
  BY KeyRotationAssumption DEF TypeOK
<1>2. server[s].key \in Generated(made) /\ overlap \in SUBSET Generated(made)
  BY <1>1 DEF TypeOK, ServerStates
<1>3. Published(server[s].key, overlap) = {server[s].key} \cup overlap
  BY <1>1, <1>2, PublishedIsAll
<1>4. Ring!Serve(s)
  BY <1>3 DEF Serve, LoadSigner, PublishJwks, SignToken, StopServer, Down,
     Ring!Serve, Ring!LoadSigner, Ring!PublishJwks, Ring!SignToken, Ring!StopServer,
     Ring!Down
<1> QED
  BY <1>4 DEF Ring!Next

\* Every step of the deployment, as far as the ring goes.
LEMMA RingStep ==
  ASSUME TypeOK, \A p \in Tool : ReadyToWrite(p), [Next]_vars
  PROVE  Ring!Next \/ UNCHANGED Ring!vars
<1>1. CASE \E p \in Tool : Rotate(p)
  BY <1>1, RotateStep
<1>2. CASE \E s \in Server : Serve(s)
  BY <1>2, ServeStep
<1>3. CASE RemoveDeadLock \/ UNCHANGED vars
  BY <1>3 DEF RemoveDeadLock, vars, Ring!vars
<1> QED
  BY <1>1, <1>2, <1>3 DEF Next

LEMMA RingInit == Init => Ring!Init
BY DEF Init, Down, Ring!Init, Ring!Down

\* Whatever rotations compete, fail or are killed, the servers see a key ring:
\* `key rotate' implements KeyRing.
THEOREM RsaImplementsRing == Kind = "rsa" /\ Spec => ImplementsRing
<1>1. RsaInv /\ [Next]_vars => [Ring!Next]_(Ring!vars)
  <2> SUFFICES ASSUME RsaInv, [Next]_vars PROVE Ring!Next \/ UNCHANGED Ring!vars
    OBVIOUS
  <2>1. \A p \in Tool : ReadyToWrite(p)
    BY DEF RsaInv, RotationInv, ReadsAreCurrent, ReadyToWrite, At
  <2> QED
    BY <2>1, RingStep DEF RsaInv, RotationInv
<1> QED
  BY <1>1, RingInit, RsaAlways, PTL DEF Spec, ImplementsRing, Ring!Spec

-------------------------------------------------------------------------------
(***************************************************************************)
(* `pqc key rotate' reads both files before it takes the lock, so the lock *)
(* protects nothing it has read.  What is left of its promise needs two    *)
(* things of the operator: no two rotations at a time, and no --kid.       *)
(***************************************************************************)

Serial == \A p, q \in Tool : p # q => At(p, "idle") \/ At(q, "idle")

\* What a tool has read is still what the files hold, whether or not it holds
\* the lock.
PqcReads(t) ==
  /\ t.pc \in {"readOverlap", "lock", "generate", "stage"} => t.current = keyFile
  /\ t.pc \in {"lock", "generate", "stage"} => t.keys = overlap
  /\ t.pc \in {"stage", "replace"} => \A k \in OnFile : k.id < t.new.id
  /\ t.pc = "replace" => keyFile \in overlap

PqcInv ==
  /\ Kind = "pqc" /\ Kids = {}
  /\ FilesInv
  /\ \A p \in Tool : PqcReads(tool[p])

\* The steps of rotate_pqc_key follow each other in the order of the code.
LEMMA PqcOrder ==
  ASSUME Kind = "pqc"
  PROVE  /\ Program[1] = "readKey"
         /\ After("readKey") = "readOverlap"
         /\ After("readOverlap") = "lock"
         /\ After("lock") = "generate"
         /\ After("generate") = "stage"
         /\ After("stage") = "replace"
         /\ After("replace") = "unlock"
<1>1. Program = <<"readKey", "readOverlap", "lock", "generate", "stage", "replace", "unlock">>
  BY DEF Program
<1>2. /\ DOMAIN Program = 1 .. 7
      /\ Program[1] = "readKey" /\ Program[2] = "readOverlap" /\ Program[3] = "lock"
      /\ Program[4] = "generate" /\ Program[5] = "stage" /\ Program[6] = "replace"
      /\ Program[7] = "unlock"
  BY <1>1
<1>3. ASSUME NEW n \in 1 .. 6
      PROVE  After(Program[n]) = Program[n + 1]
  <2>1. \A i \in DOMAIN Program : Program[i] = Program[n] => i = n
    BY <1>2
  <2>2. n = CHOOSE i \in DOMAIN Program : Program[i] = Program[n]
    BY <1>2, <2>1
  <2> QED
    BY <2>2 DEF After
<1> QED
  BY <1>2, <1>3

LEMMA PqcInit == Kind = "pqc" /\ Kids = {} /\ Init => PqcInv
<1> SUFFICES ASSUME Kind = "pqc", Kids = {}, Init PROVE PqcInv
  OBVIOUS
<1>1. TypeOK
  BY KeyRotationAssumption, FirstKeyGenerated
     DEF Init, TypeOK, Idle, Down, ToolStates, ServerStates
<1>2. \A p \in Tool : PqcReads(tool[p])
  BY DEF Init, PqcReads, Idle
<1>3. ServerCovered /\ NoKeyLost
  BY DEF Init, Down, ServerCovered, NoKeyLost
<1> QED
  BY <1>1, <1>2, <1>3 DEF PqcInv, FilesInv

\* A step of one tool that writes no file.
LEMMA PqcToolStep ==
  ASSUME PqcInv, NEW p \in Tool, NEW t \in ToolStates(made),
         tool' = [tool EXCEPT ![p] = t],
         lock' \in Tool \cup {NoTool, Dead},
         PqcReads(t),
         UNCHANGED <<keyFile, overlap, made, server, signed>>
  PROVE  PqcInv'
<1>1. TypeOK'
  BY DEF PqcInv, FilesInv, TypeOK
<1>2. (ServerCovered /\ NoKeyLost)'
  BY DEF PqcInv, FilesInv, ServerCovered, OnFile, NoKeyLost
<1>3. \A q \in Tool : tool'[q] = IF q = p THEN t ELSE tool[q]
  BY DEF PqcInv, FilesInv, TypeOK
<1>4. \A q \in Tool : PqcReads(tool[q])'
  BY <1>3 DEF PqcInv, PqcReads, OnFile
<1> QED
  BY <1>1, <1>2, <1>4 DEF PqcInv, FilesInv

LEMMA PqcIdleStep ==
  ASSUME PqcInv, NEW p \in Tool,
         tool' = [tool EXCEPT ![p] = Idle],
         lock' = lock \/ lock' \in {NoTool, Dead},
         UNCHANGED <<keyFile, overlap, made, server, signed>>
  PROVE  PqcInv'
<1>1. Idle \in ToolStates(made)
  BY FirstKeyGenerated DEF PqcInv, FilesInv, TypeOK, Idle, ToolStates
<1>2. PqcReads(Idle)
  BY DEF Idle, PqcReads
<1>3. lock' \in Tool \cup {NoTool, Dead}
  BY DEF PqcInv, FilesInv, TypeOK
<1> QED
  BY <1>1, <1>2, <1>3, PqcToolStep

\* The steps up to the lock: what is read is what the files hold now, and what
\* was read before cannot have changed.
LEMMA PqcReadStep ==
  ASSUME PqcInv, NEW p \in Tool,
         Begin(p) \/ LoadCurrentKey(p) \/ LoadExistingOverlap(p) \/ AcquireLock(p)
  PROVE  PqcInv'
<1>1. /\ tool[p] \in ToolStates(made) /\ PqcReads(tool[p]) /\ Kind = "pqc" /\ made \in Nat
      /\ keyFile \in Generated(made) /\ overlap \in SUBSET Generated(made)
      /\ lock \in Tool \cup {NoTool, Dead}
  BY DEF PqcInv, FilesInv, TypeOK
<1>2. UNCHANGED <<keyFile, overlap, made, server, signed>>
      /\ lock' \in Tool \cup {NoTool, Dead}
  BY <1>1 DEF Begin, LoadCurrentKey, LoadExistingOverlap, AcquireLock
<1>3. CASE Begin(p)
  <2> DEFINE t == [Idle EXCEPT !.pc = "readKey"]
  <2>1. tool' = [tool EXCEPT ![p] = t]
    BY <1>1, <1>3, PqcOrder DEF Begin
  <2>2. t \in ToolStates(made) /\ t.pc = "readKey"
    BY <1>1, FirstKeyGenerated DEF Idle, ToolStates
  <2> HIDE DEF t
  <2>3. PqcReads(t)
    BY <2>2 DEF PqcReads
  <2> QED
    BY <1>2, <2>1, <2>2, <2>3, PqcToolStep
<1>4. CASE LoadCurrentKey(p)
  <2> DEFINE t == [tool[p] EXCEPT !.pc = "readOverlap", !.current = keyFile]
  <2>1. tool' = [tool EXCEPT ![p] = t]
    BY <1>1, <1>4, PqcOrder DEF LoadCurrentKey
  <2>2. t \in ToolStates(made) /\ t.pc = "readOverlap" /\ t.current = keyFile
    BY <1>1 DEF ToolStates
  <2> HIDE DEF t
  <2>3. PqcReads(t)
    BY <2>2 DEF PqcReads
  <2> QED
    BY <1>2, <2>1, <2>2, <2>3, PqcToolStep
<1>5. CASE LoadExistingOverlap(p)
  <2> DEFINE t == [tool[p] EXCEPT !.pc = "lock", !.keys = overlap]
  <2>1. tool' = [tool EXCEPT ![p] = t]
    BY <1>1, <1>5, PqcOrder DEF LoadExistingOverlap
  <2>2. /\ t \in ToolStates(made) /\ t.pc = "lock" /\ t.keys = overlap
        /\ t.current = tool[p].current
    BY <1>1 DEF ToolStates
  <2> HIDE DEF t
  <2>3. PqcReads(t)
    BY <1>1, <1>5, <2>2 DEF PqcReads, LoadExistingOverlap, At
  <2> QED
    BY <1>2, <2>1, <2>2, <2>3, PqcToolStep
<1>6. CASE AcquireLock(p) /\ lock = NoTool
  <2> DEFINE t == [tool[p] EXCEPT !.pc = "generate"]
  <2>1. tool' = [tool EXCEPT ![p] = t]
    BY <1>1, <1>6, PqcOrder DEF AcquireLock
  <2>2. /\ t \in ToolStates(made) /\ t.pc = "generate"
        /\ t.current = tool[p].current /\ t.keys = tool[p].keys
    BY <1>1 DEF ToolStates
  <2> HIDE DEF t
  <2>3. PqcReads(t)
    BY <1>1, <1>6, <2>2 DEF PqcReads, AcquireLock, At
  <2> QED
    BY <1>2, <2>1, <2>2, <2>3, PqcToolStep
<1>7. CASE AcquireLock(p) /\ lock # NoTool
  BY <1>7, PqcIdleStep DEF AcquireLock
<1> QED
  BY <1>3, <1>4, <1>5, <1>6, <1>7

LEMMA PqcGenerate ==
  ASSUME PqcInv, NEW p \in Tool, GenerateKey(p)
  PROVE  PqcInv'
<1> DEFINE new == Key(made + 1, made + 1)
           t == [tool[p] EXCEPT !.pc = "stage", !.new = new]
<1>1. TypeOK /\ ServerCovered /\ NoKeyLost /\ Kind = "pqc" /\ Kids = {} /\ made \in Nat
  BY DEF PqcInv, FilesInv, TypeOK
<1>2. tool[p].current = keyFile /\ tool[p].keys = overlap
  BY DEF PqcInv, GenerateKey, At, PqcReads
<1>3. UNCHANGED <<keyFile, overlap, lock, server, signed>> /\ made' = made + 1
      /\ made < MaxKeys
  BY DEF GenerateKey
<1>4. tool' = [tool EXCEPT ![p] = t]
  BY <1>1, PqcOrder DEF GenerateKey
<1>5. new \in Generated(made + 1) /\ \A k \in OnFile : k.id < new.id
  BY <1>1, GeneratedGrows DEF TypeOK, OnFile
<1> HIDE DEF new
<1>6. /\ t \in ToolStates(made + 1) /\ t.pc = "stage"
      /\ t.current = keyFile /\ t.keys = overlap /\ t.new = new
  <2>1. tool[p] \in ToolStates(made + 1)
    BY <1>1, TypesGrow DEF TypeOK
  <2> QED
    BY <1>2, <1>5, <2>1 DEF ToolStates
<1> HIDE DEF t
<1>7. TypeOK'
  <2>1. tool' \in [Tool -> ToolStates(made')]
    BY <1>1, <1>3, <1>4, <1>6, TypesGrow DEF TypeOK
  <2>2. keyFile' \in Generated(made') /\ overlap' \in SUBSET Generated(made')
        /\ signed' \in SUBSET Generated(made')
    BY <1>1, <1>3, GeneratedGrows DEF TypeOK
  <2>3. server' \in [Server -> ServerStates(made')]
    <3>1. ServerStates(made) \subseteq ServerStates(made')
      BY <1>1, <1>3, TypesGrow
    <3> QED
      BY <1>1, <1>3, <3>1 DEF TypeOK
  <2>4. made' \in 0 .. MaxKeys
    BY <1>1, <1>3, KeyRotationAssumption
  <2>5. lock' \in Tool \cup {NoTool, Dead}
    BY <1>1, <1>3 DEF TypeOK
  <2> QED
    BY <2>1, <2>2, <2>3, <2>4, <2>5 DEF TypeOK
<1>8. \A q \in Tool : PqcReads(tool[q])'
  <2>1. \A q \in Tool : tool'[q] = IF q = p THEN t ELSE tool[q]
    BY <1>1, <1>4 DEF TypeOK
  <2> QED
    BY <1>3, <1>5, <1>6, <2>1 DEF PqcInv, PqcReads, OnFile
<1>9. (ServerCovered /\ NoKeyLost)'
  BY <1>1, <1>3 DEF ServerCovered, OnFile, NoKeyLost
<1> QED
  BY <1>1, <1>7, <1>8, <1>9 DEF PqcInv, FilesInv

\* The writes: whoever writes is the only tool that runs, so nobody else's
\* reads become stale.
LEMMA PqcStage ==
  ASSUME PqcInv, Serial, NEW p \in Tool, StageOverlap(p)
  PROVE  PqcInv'
<1> DEFINE t == [tool[p] EXCEPT !.pc = "replace"]
<1>1. TypeOK /\ ServerCovered /\ NoKeyLost /\ Kind = "pqc" /\ Kids = {} /\ made \in Nat
  BY DEF PqcInv, FilesInv, TypeOK
<1>2. /\ tool[p].pc = "stage" /\ tool[p].current = keyFile /\ tool[p].keys = overlap
      /\ \A k \in OnFile : k.id < tool[p].new.id
  BY DEF PqcInv, StageOverlap, At, PqcReads
<1>3. UNCHANGED <<keyFile, lock, made, server, signed>>
  BY DEF StageOverlap
<1>4. tool' = [tool EXCEPT ![p] = t]
  BY <1>1, PqcOrder DEF StageOverlap
<1>5. tool[p] \in ToolStates(made) /\ tool[p].new \in Generated(made)
  BY <1>1 DEF TypeOK, ToolStates
<1>6. overlap' = overlap \cup {keyFile} /\ OnFile' = OnFile
  <2>1. overlap \in SUBSET Generated(made) /\ keyFile \in Generated(made)
    BY <1>1 DEF TypeOK
  <2>2. tool[p].new \notin overlap
    BY <1>1, <1>2, <1>5, GeneratedGrows DEF OnFile
  <2>3. overlap' = overlap \cup {keyFile}
    BY <1>1, <1>2, <1>5, <2>1, <2>2, RetainedKeepsAll DEF StageOverlap
  <2> QED
    BY <1>3, <2>3 DEF OnFile
<1>7. t \in ToolStates(made) /\ t.pc = "replace" /\ t.new = tool[p].new
  BY <1>5 DEF ToolStates
<1> HIDE DEF t
<1>8. TypeOK'
  BY <1>1, <1>3, <1>4, <1>6, <1>7 DEF TypeOK
<1>9. \A q \in Tool : PqcReads(tool[q])'
  <2>1. \A q \in Tool : q # p => tool'[q] = tool[q] /\ tool[q].pc = "idle"
    BY <1>1, <1>2, <1>4 DEF TypeOK, Serial, At
  <2>2. tool'[p] = t
    BY <1>1, <1>4 DEF TypeOK
  <2> QED
    BY <1>2, <1>3, <1>6, <1>7, <2>1, <2>2 DEF PqcReads
<1>10. (ServerCovered /\ NoKeyLost)'
  <2>1. keyFile.id <= keyFile.id
    BY <1>1, GeneratedGrows DEF TypeOK
  <2> QED
    BY <1>1, <1>3, <1>6, <2>1 DEF ServerCovered, NoKeyLost
<1> QED
  BY <1>1, <1>8, <1>9, <1>10 DEF PqcInv, FilesInv

LEMMA PqcReplace ==
  ASSUME PqcInv, Serial, NEW p \in Tool, ReplaceKey(p)
  PROVE  PqcInv'
<1> DEFINE t == [tool[p] EXCEPT !.pc = "unlock"]
<1>1. TypeOK /\ ServerCovered /\ NoKeyLost /\ Kind = "pqc" /\ Kids = {} /\ made \in Nat
  BY DEF PqcInv, FilesInv, TypeOK
<1>2. tool[p].pc = "replace" /\ keyFile \in overlap /\ \A k \in OnFile : k.id < tool[p].new.id
  BY DEF PqcInv, ReplaceKey, At, PqcReads
<1>3. UNCHANGED <<overlap, lock, made, server, signed>> /\ keyFile' = tool[p].new
  BY DEF ReplaceKey
<1>4. tool' = [tool EXCEPT ![p] = t]
  BY <1>1, PqcOrder DEF ReplaceKey
<1>5. t \in ToolStates(made) /\ t.pc = "unlock" /\ tool[p].new \in Generated(made)
  BY <1>1 DEF TypeOK, ToolStates
<1> HIDE DEF t
<1>6. TypeOK'
  BY <1>1, <1>3, <1>4, <1>5 DEF TypeOK
<1>7. \A q \in Tool : PqcReads(tool[q])'
  <2>1. \A q \in Tool : q # p => tool'[q] = tool[q] /\ tool[q].pc = "idle"
    BY <1>1, <1>2, <1>4 DEF TypeOK, Serial, At
  <2>2. tool'[p] = t
    BY <1>1, <1>4 DEF TypeOK
  <2> QED
    BY <1>5, <2>1, <2>2 DEF PqcReads
<1>8. (ServerCovered /\ NoKeyLost)'
  BY <1>1, <1>2, <1>3, <1>5, ReplaceFiles DEF FilesInv
<1> QED
  BY <1>1, <1>6, <1>7, <1>8 DEF PqcInv, FilesInv

LEMMA PqcNext == PqcInv /\ Serial /\ [Next]_vars => PqcInv'
<1> SUFFICES ASSUME PqcInv, Serial, [Next]_vars  PROVE  PqcInv'
  OBVIOUS
<1>1. ASSUME NEW p \in Tool, Rotate(p)  PROVE  PqcInv'
  <2>1. CASE Begin(p) \/ LoadCurrentKey(p) \/ LoadExistingOverlap(p) \/ AcquireLock(p)
    BY <2>1, PqcReadStep
  <2>2. CASE GenerateKey(p)
    BY <2>2, PqcGenerate
  <2>3. CASE StageOverlap(p)
    BY <2>3, PqcStage
  <2>4. CASE ReplaceKey(p)
    BY <2>4, PqcReplace
  <2>5. CASE Unlock(p) \/ Fail(p) \/ Kill(p)
    BY <2>5, PqcIdleStep DEF Unlock, Fail, Kill, DropLock
  <2> QED
    BY <1>1, <2>1, <2>2, <2>3, <2>4, <2>5 DEF Rotate
<1>2. ASSUME NEW s \in Server, Serve(s)  PROVE  PqcInv'
  <2>1. FilesInv'
    BY <1>2, ServeFiles DEF PqcInv
  <2>2. UNCHANGED <<keyFile, overlap, tool>>
    BY <1>2 DEF Serve, LoadSigner, PublishJwks, SignToken, StopServer
  <2>3. \A q \in Tool : PqcReads(tool[q])'
    BY <2>2 DEF PqcInv, PqcReads, OnFile
  <2> QED
    BY <2>1, <2>3 DEF PqcInv
<1>3. CASE RemoveDeadLock \/ UNCHANGED vars
  <2>1. TypeOK'
    BY <1>3 DEF PqcInv, FilesInv, TypeOK, RemoveDeadLock, vars
  <2>2. UNCHANGED <<keyFile, overlap, tool, server, signed>>
    BY <1>3 DEF RemoveDeadLock, vars
  <2>3. (ServerCovered /\ NoKeyLost)' /\ \A q \in Tool : PqcReads(tool[q])'
    BY <2>2 DEF PqcInv, FilesInv, ServerCovered, NoKeyLost, PqcReads, OnFile
  <2> QED
    BY <2>1, <2>3 DEF PqcInv, FilesInv
<1> QED
  BY <1>1, <1>2, <1>3 DEF Next

LEMMA PqcAlways == Kind = "pqc" /\ Kids = {} /\ Spec /\ []Serial => []PqcInv
BY PqcInit, PqcNext, PTL DEF Spec

\* With no two rotations at a time and no --kid, `pqc key rotate' loses no key
\* either, killed or not: the reads before the lock are harmless then, and only
\* then (the race is a finding).
THEOREM PqcSerialNoKeyLost ==
  Kind = "pqc" /\ Kids = {} /\ Spec /\ []Serial => []NoKeyLost
<1>1. PqcInv => NoKeyLost
  BY DEF PqcInv, FilesInv
<1> QED
  BY <1>1, PqcAlways, PTL

\* A running server's /jwks then verifies what its own and older keys signed.
THEOREM PqcSerialJwksVerifiesMinted ==
  Kind = "pqc" /\ Kids = {} /\ Spec /\ []Serial => []JwksVerifiesMinted
<1>1. PqcInv => JwksVerifiesMinted
  BY FilesVerify DEF PqcInv
<1> QED
  BY <1>1, PqcAlways, PTL

\* And a replica restarted since the last rotation verifies everything.
THEOREM PqcSerialRestartedVerifiesAll ==
  Kind = "pqc" /\ Kids = {} /\ Spec /\ []Serial => []RestartedVerifiesAll
<1>1. PqcInv => RestartedVerifiesAll
  BY FilesVerify DEF PqcInv
<1> QED
  BY <1>1, PqcAlways, PTL

\* The README's claim that the old public key is staged before the private key
\* is replaced holds of `pqc key rotate' under the same two conditions.
THEOREM PqcSerialOldKeyStaged ==
  Kind = "pqc" /\ Kids = {} /\ Spec /\ []Serial => OldKeyStaged
<1>1. PqcInv /\ [Next]_vars
        => [\A p \in Tool : At(p, "replace") /\ keyFile' # keyFile
              => keyFile \in overlap]_vars
  BY DEF PqcInv, PqcReads, At
<1> QED
  BY <1>1, PqcAlways, PTL DEF Spec, OldKeyStaged

\* To the servers the files are then a key ring, as with `key rotate'.
THEOREM PqcSerialImplementsRing ==
  Kind = "pqc" /\ Kids = {} /\ Spec /\ []Serial => ImplementsRing
<1>1. PqcInv /\ [Next]_vars => [Ring!Next]_(Ring!vars)
  <2> SUFFICES ASSUME PqcInv, [Next]_vars PROVE Ring!Next \/ UNCHANGED Ring!vars
    OBVIOUS
  <2>1. \A p \in Tool : ReadyToWrite(p)
    BY DEF PqcInv, PqcReads, ReadyToWrite, At
  <2> QED
    BY <2>1, RingStep DEF PqcInv, FilesInv
<1> QED
  BY <1>1, RingInit, PqcAlways, PTL DEF Spec, ImplementsRing, Ring!Spec
===============================================================================
