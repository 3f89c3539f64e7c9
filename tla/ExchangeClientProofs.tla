------------------------- MODULE ExchangeClientProofs -------------------------
(***************************************************************************)
(* Proofs about the key generation commands and the exchange client, for   *)
(* every set of commands and command lines, every number of replicas,      *)
(* rotations, faults and runs.                                             *)
(***************************************************************************)
EXTENDS ExchangeClient, TLAPS

-------------------------------------------------------------------------------
(***************************************************************************)
(* The key files.                                                          *)
(***************************************************************************)
GenPCs == {"idle", "create", "fill", "replace", "written", "check", "publish"}

Contents == [key : 1 .. MaxDrawn, whole : BOOLEAN]

Torn(k) == [key |-> k, whole |-> FALSE]

Complete(k) == [key |-> k, whole |-> TRUE]

FileTypes ==
  /\ script \in DOMAIN Script
  /\ file \in [Path -> {None} \cup Contents]
  /\ drawn \in 0 .. MaxDrawn
  /\ gen \in [Command -> [pc : GenPCs, key : Nat]]
  /\ \A p \in Command :
       /\ gen[p].key <= drawn
       /\ gen[p].pc # "idle" => Generates(p) /\ gen[p].key > 0

\* Two commands never hold one key.
KeysDiffer ==
  \A p, q \in Command :
    p # q /\ gen[p].pc # "idle" /\ gen[q].pc # "idle" => gen[p].key # gen[q].key

\* A command past create_new owns its file, where no other may replace it.
SecretsOwned ==
  \A p \in Command : Generates(p) /\ Replacing(Args(p).out) = {} =>
    /\ gen[p].pc # "replace"
    /\ gen[p].pc = "fill" => file[Args(p).out] = Torn(gen[p].key)
    /\ gen[p].pc \in {"written", "check", "publish"} =>
         file[Args(p).out] = Complete(gen[p].key)

ReportedTypes == \A r \in reported : r.path \in Path /\ r.key \in 1 .. MaxDrawn

\* The JWKS of a key pair, where PublicMatchesPrivate speaks of one.
Paired(p) ==
  /\ Generates(p) /\ Args(p).public # None /\ Replacing(Args(p).out) = {}
  /\ \A q \in Command : Generates(q) =>
       /\ Args(q).out # Args(p).public
       /\ Args(q).public = Args(p).public => Args(q).out = Args(p).out

\* A published JWKS shows that the private key is complete.
PublicComplete ==
  \A p \in Command : Paired(p) /\ file[Args(p).public] # None =>
    /\ file[Args(p).out] \in Contents /\ file[Args(p).out].whole = TRUE
    /\ file[Args(p).out] = file[Args(p).public]

\* The inductive invariant of the key files.
FilesInv ==
  /\ FileTypes
  /\ KeysDiffer
  /\ SecretsOwned
  /\ ReportedTypes
  /\ ReportedKeyKept
  /\ PublicComplete

LEMMA ContentsFacts ==
  /\ \A k \in 1 .. MaxDrawn : Torn(k) \in Contents /\ Complete(k) \in Contents
  /\ \A k : Torn(k).key = k /\ Complete(k).key = k
  /\ \A k : Torn(k).whole = FALSE /\ Complete(k).whole = TRUE
  /\ \A k, l : Torn(k) # Complete(l)
  /\ \A k, l : Torn(k) = Torn(l) => k = l
  /\ None \notin Contents
<1>1. /\ \A k \in 1 .. MaxDrawn : Torn(k) \in Contents /\ Complete(k) \in Contents
      /\ \A k : Torn(k).key = k /\ Complete(k).key = k
  BY DEF Torn, Complete, Contents
<1>2. \A k : Torn(k).whole = FALSE /\ Complete(k).whole = TRUE
  BY DEF Torn, Complete
<1>3. \A k, l : Torn(k) # Complete(l)
  BY <1>2
<1>4. None \notin Contents
  <2>1. Contents \subseteq [key : Nat, whole : BOOLEAN]
    BY DEF Contents
  <2> QED
    BY <2>1, SecretFilesAssumption
<1> QED
  BY <1>1, <1>2, <1>3, <1>4

\* The paths of a command that generates keys.
LEMMA ArgsFacts ==
  ASSUME script \in DOMAIN Script, NEW p \in Command, Generates(p)
  PROVE  /\ Args(p).out \in Path /\ Args(p).public \in Path \cup {None}
         /\ Args(p).force \in BOOLEAN
BY SecretFilesAssumption DEF Args, Generates

\* What a step writes to a file that nobody may replace: nothing, unless the
\* command creates the file or fills the one it created.
LEMMA UnreplacedFile ==
  ASSUME FilesInv, NEW p \in Command, Generate(p), NEW f \in Path, Replacing(f) = {},
         file'[f] # file[f]
  PROVE  /\ Generates(p) /\ Args(p).out = f
         /\ \/ GenAt(p, "create") /\ file[f] = None
            \/ GenAt(p, "fill") /\ file[f] = Torn(gen[p].key)
<1>1. file \in [Path -> {None} \cup Contents] /\ script \in DOMAIN Script
  BY DEF FilesInv, FileTypes
<1>2. ASSUME NEW q \in Path, NEW k, NEW b, Write(q, k, b) PROVE q = f
  BY <1>1, <1>2 DEF Write
<1>3. Generates(p)
  BY DEF Generate, DrawKey, CreateSecret, FillSecret, ReplaceSecret, PrivateWritten,
         CheckPublic, PublishPublic, GenerateCut, GenAt
<1>4. Args(p).out \in Path /\ Args(p).public \in Path \cup {None}
  BY <1>1, <1>3, ArgsFacts
<1>5. p \notin Replacing(f)
  OBVIOUS
<1>6. CASE CreateSecret(p)
  BY <1>2, <1>3, <1>4, <1>6 DEF CreateSecret
<1>7. CASE FillSecret(p)
  <2>1. Args(p).out = f /\ GenAt(p, "fill")
    BY <1>2, <1>3, <1>4, <1>7 DEF FillSecret
  <2> QED
    BY <1>3, <2>1 DEF FilesInv, SecretsOwned, GenAt
<1>8. CASE ReplaceSecret(p)
  <2>1. Args(p).out = f /\ GenAt(p, "replace")
    BY <1>2, <1>3, <1>4, <1>8 DEF ReplaceSecret
  <2> QED
    BY <1>3, <2>1 DEF FilesInv, SecretsOwned, GenAt
<1>9. CASE PublishPublic(p)
  <2>1. GenAt(p, "publish") /\ Write(Args(p).public, gen[p].key, TRUE)
    BY <1>9 DEF PublishPublic
  <2>2. Args(p).public # f
    BY <1>3, <1>5 DEF Replacing
  <2>3. file'[f] = file[f]
    BY <1>1, <2>1, <2>2 DEF Write
  <2> QED
    BY <2>3
<1> QED
  BY <1>6, <1>7, <1>8, <1>9 DEF Generate, DrawKey, PrivateWritten, CheckPublic, GenerateCut

\* A complete file that nobody may replace stays as it is.
LEMMA CompleteKept ==
  ASSUME FilesInv, NEW p \in Command, Generate(p), NEW f \in Path, Replacing(f) = {},
         file[f] \in Contents, file[f].whole = TRUE
  PROVE  file'[f] = file[f]
BY UnreplacedFile, ContentsFacts

\* How a step changes the command that takes it: it draws the next key, or it
\* moves on with the key it has, or it is over.
LEMMA GenerateMoves ==
  ASSUME FilesInv, NEW p \in Command, Generate(p)
  PROVE  /\ Generates(p)
         /\ \E pc \in GenPCs :
              \/ /\ pc = IF Args(p).force THEN "replace" ELSE "create"
                 /\ gen' = [gen EXCEPT ![p] = [pc |-> pc, key |-> drawn + 1]]
                 /\ drawn < MaxDrawn /\ drawn' = drawn + 1
                 /\ file' = file /\ reported' = reported
              \/ /\ gen[p].pc # "idle" /\ drawn' = drawn
                 /\ gen' = [gen EXCEPT ![p].pc = pc]
              \/ /\ drawn' = drawn
                 /\ gen' = [gen EXCEPT ![p] = NotRun]
<1>1. Generates(p)
  BY DEF Generate, DrawKey, CreateSecret, FillSecret, ReplaceSecret, PrivateWritten,
         CheckPublic, PublishPublic, GenerateCut, GenAt
<1>2. CASE DrawKey(p)
  <2>1. PICK pc : pc = IF Args(p).force THEN "replace" ELSE "create"
    OBVIOUS
  <2>2. pc \in GenPCs
    BY <2>1 DEF GenPCs
  <2> QED
    BY <1>1, <1>2, <2>1, <2>2 DEF DrawKey
<1>3. CASE CreateSecret(p)
  BY <1>1, <1>3 DEF CreateSecret, GenAt, GenGoto, GenPCs
<1>4. CASE FillSecret(p) \/ ReplaceSecret(p)
  BY <1>1, <1>4 DEF FillSecret, ReplaceSecret, GenAt, GenGoto, GenPCs
<1>5. CASE PrivateWritten(p)
  <2>1. PICK pc : pc = IF Args(p).force THEN "publish" ELSE "check"
    OBVIOUS
  <2>2. pc \in GenPCs
    BY <2>1 DEF GenPCs
  <2> QED
    BY <1>1, <1>5, <2>1, <2>2 DEF PrivateWritten, GenAt, GenGoto
<1>6. CASE CheckPublic(p)
  BY <1>1, <1>6 DEF CheckPublic, GenAt, GenPCs, FilesInv, FileTypes
<1>7. CASE PublishPublic(p) \/ GenerateCut(p)
  BY <1>1, <1>7 DEF PublishPublic, GenerateCut, GenPCs
<1> QED
  BY <1>2, <1>3, <1>4, <1>5, <1>6, <1>7 DEF Generate

LEMMA FileTypesStep ==
  ASSUME FilesInv, NEW p \in Command, Generate(p), UNCHANGED script
  PROVE  FileTypes' /\ KeysDiffer' /\ \A q \in Command \ {p} : gen'[q] = gen[q]
<1>1. /\ script \in DOMAIN Script /\ file \in [Path -> {None} \cup Contents]
      /\ drawn \in 0 .. MaxDrawn /\ gen \in [Command -> [pc : GenPCs, key : Nat]]
      /\ MaxDrawn \in Nat
      /\ \A q \in Command : /\ gen[q].key <= drawn
                            /\ gen[q].pc # "idle" => Generates(q) /\ gen[q].key > 0
  BY SecretFilesAssumption DEF FilesInv, FileTypes
<1>2. Generates(p) /\ \A q : Generates(q)' <=> Generates(q)
  BY GenerateMoves DEF Generates, Args
<1>3. ASSUME NEW v \in [pc : GenPCs, key : Nat], gen' = [gen EXCEPT ![p] = v],
             drawn' \in 0 .. MaxDrawn, drawn <= drawn', v.key <= drawn',
             v.pc # "idle" => v.key > 0,
             v.pc # "idle" => v.key = drawn + 1 \/ (v.key = gen[p].key /\ gen[p].pc # "idle")
      PROVE  /\ gen' \in [Command -> [pc : GenPCs, key : Nat]]
             /\ \A q \in Command : /\ gen'[q].key <= drawn'
                                   /\ gen'[q].pc # "idle" => Generates(q)' /\ gen'[q].key > 0
             /\ KeysDiffer'
             /\ \A q \in Command \ {p} : gen'[q] = gen[q]
  <2>1. \A q \in Command : gen'[q] = IF q = p THEN v ELSE gen[q]
    BY <1>1, <1>3
  <2>2. gen' \in [Command -> [pc : GenPCs, key : Nat]]
    BY <1>1, <1>3
  <2>3. \A q \in Command : gen[q].key \in Nat
    BY <1>1
  <2>4. \A q \in Command : /\ gen'[q].key <= drawn'
                           /\ gen'[q].pc # "idle" => Generates(q)' /\ gen'[q].key > 0
    BY <1>1, <1>2, <1>3, <2>1, <2>3
  <2>5. \A q \in Command \ {p} : gen[q].pc # "idle" /\ v.pc # "idle" => gen[q].key # v.key
    BY <1>1, <1>3, <2>3 DEF FilesInv, KeysDiffer
  <2>6. KeysDiffer'
    BY <2>1, <2>5 DEF FilesInv, KeysDiffer
  <2> QED
    BY <2>1, <2>2, <2>4, <2>6
<1>4. /\ gen' \in [Command -> [pc : GenPCs, key : Nat]] /\ drawn' \in 0 .. MaxDrawn
      /\ \A q \in Command : /\ gen'[q].key <= drawn'
                            /\ gen'[q].pc # "idle" => Generates(q)' /\ gen'[q].key > 0
      /\ KeysDiffer'
      /\ \A q \in Command \ {p} : gen'[q] = gen[q]
  <2>1. PICK pc \in GenPCs :
          \/ /\ gen' = [gen EXCEPT ![p] = [pc |-> pc, key |-> drawn + 1]]
             /\ drawn < MaxDrawn /\ drawn' = drawn + 1
          \/ /\ gen[p].pc # "idle" /\ drawn' = drawn
             /\ gen' = [gen EXCEPT ![p].pc = pc]
          \/ /\ drawn' = drawn
             /\ gen' = [gen EXCEPT ![p] = NotRun]
    BY GenerateMoves
  <2>2. CASE /\ gen' = [gen EXCEPT ![p] = [pc |-> pc, key |-> drawn + 1]]
             /\ drawn < MaxDrawn /\ drawn' = drawn + 1
    <3>1. PICK v : v = [pc |-> pc, key |-> drawn + 1]
      OBVIOUS
    <3>2. v \in [pc : GenPCs, key : Nat] /\ v.key = drawn + 1 /\ drawn + 1 > 0
      BY <1>1, <3>1
    <3>3. drawn' \in 0 .. MaxDrawn /\ drawn <= drawn' /\ v.key <= drawn'
      BY <1>1, <2>2, <3>2
    <3> QED
      BY <1>3, <2>2, <3>1, <3>2, <3>3
  <2>3. CASE /\ gen[p].pc # "idle" /\ drawn' = drawn
             /\ gen' = [gen EXCEPT ![p].pc = pc]
    <3>1. PICK v : v = [gen[p] EXCEPT !.pc = pc]
      OBVIOUS
    <3>2. v \in [pc : GenPCs, key : Nat] /\ v.key = gen[p].key
          /\ gen' = [gen EXCEPT ![p] = v]
      BY <1>1, <2>3, <3>1
    <3>3. drawn' \in 0 .. MaxDrawn /\ drawn <= drawn' /\ v.key <= drawn' /\ v.key > 0
      BY <1>1, <2>3, <3>2
    <3> QED
      BY <1>3, <2>3, <3>2, <3>3
  <2>4. CASE drawn' = drawn /\ gen' = [gen EXCEPT ![p] = NotRun]
    <3>1. NotRun \in [pc : GenPCs, key : Nat] /\ NotRun.pc = "idle" /\ NotRun.key = 0
      BY DEF NotRun, GenPCs
    <3>2. drawn' \in 0 .. MaxDrawn /\ drawn <= drawn' /\ NotRun.key <= drawn'
      BY <1>1, <2>4, <3>1
    <3> QED
      BY <1>3, <2>4, <3>1, <3>2
  <2> QED
    BY <2>1, <2>2, <2>3, <2>4
<1>5. file' \in [Path -> {None} \cup Contents]
  <2>1. gen[p].pc # "idle" => gen[p].key \in 1 .. MaxDrawn
    BY <1>1
  <2>2. ASSUME NEW f, NEW b \in BOOLEAN, gen[p].pc # "idle", Write(f, gen[p].key, b)
        PROVE  file' \in [Path -> {None} \cup Contents]
    <3>1. [key |-> gen[p].key, whole |-> b] \in Contents
      BY <2>1, <2>2 DEF Contents
    <3> QED
      BY <1>1, <2>2, <3>1 DEF Write
  <2>3. CASE UNCHANGED file
    BY <1>1, <2>3
  <2>4. CASE CreateSecret(p) \/ FillSecret(p) \/ ReplaceSecret(p) \/ PublishPublic(p)
    BY <2>2, <2>3, <2>4 DEF CreateSecret, FillSecret, ReplaceSecret, PublishPublic, GenAt
  <2> QED
    BY <2>3, <2>4 DEF Generate, DrawKey, PrivateWritten, CheckPublic, GenerateCut
<1> QED
  BY <1>1, <1>4, <1>5 DEF FileTypes

\* The keyed state of the files of the commands does not depend on the step.
LEMMA ScriptFixed ==
  ASSUME UNCHANGED script
  PROVE  /\ \A p : Args(p)' = Args(p) /\ (Generates(p)' <=> Generates(p))
         /\ \A f : Replacing(f)' = Replacing(f)
         /\ \A p : Paired(p)' <=> Paired(p)
BY DEF Args, Generates, Replacing, Paired

LEMMA SecretsOwnedStep ==
  ASSUME FilesInv, NEW p \in Command, Generate(p), UNCHANGED script
  PROVE  SecretsOwned'
<1>1. /\ script \in DOMAIN Script /\ file \in [Path -> {None} \cup Contents]
      /\ gen \in [Command -> [pc : GenPCs, key : Nat]]
      /\ gen[p].key <= MaxDrawn /\ (gen[p].pc # "idle" => gen[p].key \in 1 .. MaxDrawn)
  BY SecretFilesAssumption DEF FilesInv, FileTypes
<1>2. SUFFICES ASSUME NEW q \in Command, Generates(q), Replacing(Args(q).out) = {}
               PROVE  /\ gen'[q].pc # "replace"
                      /\ gen'[q].pc = "fill" => file'[Args(q).out] = Torn(gen'[q].key)
                      /\ gen'[q].pc \in {"written", "check", "publish"} =>
                           file'[Args(q).out] = Complete(gen'[q].key)
  BY ScriptFixed DEF SecretsOwned
<1>3. PICK f : f = Args(q).out
  OBVIOUS
<1>4. f \in Path
  BY <1>1, <1>2, <1>3, ArgsFacts
<1>5. /\ gen[q].pc # "replace"
      /\ gen[q].pc = "fill" => file[f] = Torn(gen[q].key)
      /\ gen[q].pc \in {"written", "check", "publish"} => file[f] = Complete(gen[q].key)
  BY <1>2, <1>3 DEF FilesInv, SecretsOwned
<1>6. CASE q # p
  <2>1. gen'[q] = gen[q]
    BY <1>6, FileTypesStep
  <2>2. CASE file'[f] = file[f]
    BY <1>3, <1>5, <2>1, <2>2
  <2>3. CASE GenAt(p, "create") /\ file[f] = None
    <3>1. gen[q].pc # "idle" => gen[q].key \in 1 .. MaxDrawn
      BY <1>1, SecretFilesAssumption DEF FilesInv, FileTypes
    <3>2. gen[q].pc \notin {"fill", "written", "check", "publish"}
      BY <1>5, <2>3, <3>1, ContentsFacts
    <3> QED
      BY <1>5, <2>1, <3>2
  <2>4. CASE GenAt(p, "fill") /\ file[f] = Torn(gen[p].key)
    <3>1. gen[q].pc # "idle" => gen[q].key # gen[p].key
      BY <1>6, <2>4 DEF FilesInv, KeysDiffer, GenAt
    <3>2. gen[q].pc \notin {"fill", "written", "check", "publish"}
      BY <1>5, <2>4, <3>1, ContentsFacts
    <3> QED
      BY <1>5, <2>1, <3>2
  <2> QED
    BY <1>2, <1>3, <1>4, <2>2, <2>3, <2>4, UnreplacedFile
<1>7. CASE q = p
  <2>1. ~Args(p).force /\ Args(p).public # f
    BY <1>2, <1>3, <1>7 DEF Replacing
  <2>2. CASE gen' = [gen EXCEPT ![p] = NotRun]
    BY <1>1, <1>7, <2>2 DEF NotRun
  <2>3. CASE DrawKey(p)
    <3>1. gen'[p].pc = "create"
      BY <1>1, <2>1, <2>3 DEF DrawKey
    <3> QED
      BY <1>7, <3>1
  <2>4. CASE CreateSecret(p)
    <3>1. CASE Write(f, gen[p].key, FALSE) /\ GenGoto(p, "fill")
      <4>1. file'[f] = Torn(gen[p].key)
        BY <1>1, <1>4, <3>1 DEF Write, Torn
      <4>2. gen'[p].pc = "fill" /\ gen'[p].key = gen[p].key
        BY <1>1, <3>1 DEF GenGoto
      <4> QED
        BY <1>3, <1>7, <4>1, <4>2
    <3> QED
      BY <1>3, <1>7, <2>2, <2>4, <3>1 DEF CreateSecret
  <2>5. CASE FillSecret(p)
    <3>1. file'[f] = Complete(gen[p].key)
      BY <1>1, <1>3, <1>4, <1>7, <2>5 DEF FillSecret, Write, Complete
    <3>2. gen'[p].pc = "written" /\ gen'[p].key = gen[p].key
      BY <1>1, <2>5 DEF FillSecret, GenGoto
    <3> QED
      BY <1>3, <1>7, <3>1, <3>2
  <2>6. CASE ReplaceSecret(p)
    BY <1>5, <1>7, <2>6 DEF ReplaceSecret, GenAt
  <2>7. CASE PrivateWritten(p)
    <3>1. file' = file /\ file[f] = Complete(gen[p].key)
      BY <1>5, <1>7, <2>7 DEF PrivateWritten, GenAt
    <3>2. CASE GenGoto(p, IF Args(p).force THEN "publish" ELSE "check")
      <4>1. gen'[p].pc = "check" /\ gen'[p].key = gen[p].key
        BY <1>1, <2>1, <3>2 DEF GenGoto
      <4> QED
        BY <1>3, <1>7, <3>1, <4>1
    <3> QED
      BY <2>2, <2>7, <3>2 DEF PrivateWritten
  <2>8. CASE CheckPublic(p)
    <3>1. file' = file /\ file[f] = Complete(gen[p].key)
      BY <1>5, <1>7, <2>8 DEF CheckPublic, GenAt
    <3>2. CASE file[Args(p).public] = None
      <4>1. gen'[p].pc = "publish" /\ gen'[p].key = gen[p].key
        BY <1>1, <2>8, <3>2 DEF CheckPublic
      <4> QED
        BY <1>3, <1>7, <3>1, <4>1
    <3>3. CASE file[Args(p).public] # None
      BY <2>2, <2>8, <3>3 DEF CheckPublic
    <3> QED
      BY <3>2, <3>3
  <2> QED
    BY <2>2, <2>3, <2>4, <2>5, <2>6, <2>7, <2>8 DEF Generate, PublishPublic, GenerateCut
<1> QED
  BY <1>6, <1>7

LEMMA ReportedStep ==
  ASSUME FilesInv, NEW p \in Command, Generate(p), UNCHANGED script
  PROVE  ReportedTypes' /\ ReportedKeyKept'
<1>1. /\ script \in DOMAIN Script /\ file \in [Path -> {None} \cup Contents]
      /\ (gen[p].pc # "idle" => gen[p].key \in 1 .. MaxDrawn)
  BY SecretFilesAssumption DEF FilesInv, FileTypes
<1>2. PICK new : new = [path |-> Args(p).out, key |-> gen[p].key]
  OBVIOUS
<1>3. \A r \in reported' : r \in reported \/ r = new
  BY <1>2 DEF Generate, DrawKey, CreateSecret, FillSecret, ReplaceSecret, PrivateWritten,
              CheckPublic, PublishPublic, GenerateCut
<1>4. ASSUME NEW r \in reported, Replacing(r.path) = {}
      PROVE  file'[r.path] = [key |-> r.key, whole |-> TRUE]
  <2>1. r.path \in Path /\ r.key \in 1 .. MaxDrawn /\ file[r.path] = Complete(r.key)
    BY <1>4 DEF FilesInv, ReportedTypes, ReportedKeyKept, Complete
  <2>2. file'[r.path] = file[r.path]
    BY <1>4, <2>1, ContentsFacts, CompleteKept
  <2> QED
    BY <2>1, <2>2 DEF Complete
<1>5. ASSUME new \in reported', new \notin reported
      PROVE  /\ Generates(p) /\ gen[p].pc \in {"written", "publish"}
             /\ file' = file \/ Write(Args(p).public, gen[p].key, TRUE)
  BY <1>2, <1>5 DEF Generate, DrawKey, CreateSecret, FillSecret, ReplaceSecret,
                    PrivateWritten, CheckPublic, PublishPublic, GenerateCut, GenAt
<1>6. ASSUME new \in reported', new \notin reported
      PROVE  new.path \in Path /\ new.key \in 1 .. MaxDrawn
  BY <1>1, <1>2, <1>5, <1>6, ArgsFacts
<1>7. ASSUME new \in reported', new \notin reported, Replacing(new.path) = {}
      PROVE  file'[new.path] = [key |-> new.key, whole |-> TRUE]
  <2>1. file[new.path] = Complete(new.key)
    BY <1>2, <1>5, <1>7 DEF FilesInv, SecretsOwned
  <2>2. Args(p).public # new.path
    BY <1>5, <1>7 DEF Replacing
  <2>3. file'[new.path] = file[new.path]
    BY <1>1, <1>5, <1>6, <1>7, <2>2 DEF Write
  <2> QED
    BY <2>1, <2>3 DEF Complete
<1>8. ReportedTypes'
  BY <1>3, <1>6 DEF FilesInv, ReportedTypes
<1>9. ReportedKeyKept'
  BY <1>3, <1>4, <1>7, ScriptFixed DEF ReportedKeyKept
<1> QED
  BY <1>8, <1>9

LEMMA PublicStep ==
  ASSUME FilesInv, NEW p \in Command, Generate(p), UNCHANGED script
  PROVE  PublicComplete'
<1>1. /\ script \in DOMAIN Script /\ file \in [Path -> {None} \cup Contents]
      /\ (gen[p].pc # "idle" => gen[p].key \in 1 .. MaxDrawn)
  BY SecretFilesAssumption DEF FilesInv, FileTypes
<1>2. SUFFICES ASSUME NEW q \in Command, Paired(q), file'[Args(q).public] # None
               PROVE  /\ file'[Args(q).out] \in Contents /\ file'[Args(q).out].whole = TRUE
                      /\ file'[Args(q).out] = file'[Args(q).public]
  BY ScriptFixed DEF PublicComplete
<1>3. /\ Generates(q) /\ Args(q).out \in Path /\ Args(q).public \in Path
      /\ Replacing(Args(q).out) = {}
  BY <1>1, <1>2, ArgsFacts DEF Paired
<1>4. CASE file'[Args(q).public] = file[Args(q).public]
  <2>1. /\ file[Args(q).out] \in Contents /\ file[Args(q).out].whole = TRUE
        /\ file[Args(q).out] = file[Args(q).public]
    BY <1>2, <1>4 DEF FilesInv, PublicComplete
  <2>2. file'[Args(q).out] = file[Args(q).out]
    BY <1>3, <2>1, CompleteKept
  <2> QED
    BY <1>4, <2>1, <2>2
<1>5. CASE file'[Args(q).public] # file[Args(q).public]
  <2>1. Generates(p) /\ Args(p).out # Args(q).public
    BY <1>2, GenerateMoves DEF Paired
  <2>2. PublishPublic(p)
    BY <1>1, <1>3, <1>5, <2>1 DEF Generate, DrawKey, CreateSecret, FillSecret, ReplaceSecret,
         PrivateWritten, CheckPublic, GenerateCut, Write
  <2>3. /\ gen[p].pc = "publish" /\ Write(Args(p).public, gen[p].key, TRUE)
    BY <2>2 DEF PublishPublic, GenAt
  <2>4. Args(p).public = Args(q).public
    BY <1>1, <1>3, <1>5, <2>3 DEF Write
  <2>5. Args(p).out = Args(q).out
    BY <1>2, <2>1, <2>4 DEF Paired
  <2>6. file[Args(q).out] = Complete(gen[p].key)
    BY <1>3, <2>1, <2>3, <2>5 DEF FilesInv, SecretsOwned
  <2>7. file'[Args(q).public] = Complete(gen[p].key)
    BY <1>1, <1>3, <2>3, <2>4 DEF Write, Complete
  <2>8. file[Args(q).out] \in Contents /\ file[Args(q).out].whole = TRUE
    BY <1>1, <2>3, <2>6, ContentsFacts
  <2>9. file'[Args(q).out] = file[Args(q).out]
    BY <1>3, <2>8, CompleteKept
  <2> QED
    BY <2>6, <2>7, <2>8, <2>9
<1> QED
  BY <1>4, <1>5

LEMMA FilesStep ==
  ASSUME FilesInv, NEW p \in Command, Generate(p), UNCHANGED script
  PROVE  FilesInv'
BY FileTypesStep, SecretsOwnedStep, ReportedStep, PublicStep DEF FilesInv

LEMMA FilesStart ==
  ASSUME script \in DOMAIN Script, FilesInit
  PROVE  FilesInv
<1>1. FileTypes /\ KeysDiffer
  BY SecretFilesAssumption DEF FilesInit, FileTypes, KeysDiffer, NotRun, GenPCs
<1>2. SecretsOwned /\ ReportedTypes /\ ReportedKeyKept
  BY DEF FilesInit, SecretsOwned, NotRun, ReportedTypes, ReportedKeyKept
<1>3. PublicComplete
  <2>1. ASSUME NEW p \in Command, Paired(p) PROVE file[Args(p).public] = None
    BY <2>1, ArgsFacts DEF FilesInit, Paired
  <2> QED
    BY <2>1 DEF PublicComplete
<1> QED
  BY <1>1, <1>2, <1>3 DEF FilesInv

-------------------------------------------------------------------------------
(***************************************************************************)
(* The keys of the STS during a rollout.                                   *)
(***************************************************************************)

\* Every key that was ever the signing key.
Known == retained \cup {signing}

\* A key set d, from a replica that signs with d.of, has every known key that is
\* not newer than d.of.
Covers(d) == d.of \in Known /\ \A k \in Known : k.id <= d.of.id => k \in d.keys

ServerStates == [pc : {"down", "loading", "up"}, key : RingKeys, published : SUBSET RingKeys]

Jwks(s) == [of |-> server[s].key, keys |-> server[s].published]

\* The inductive invariant of the key ring: retained keys are older than the
\* signing key, replicas and tokens have known keys, and what a replica
\* publishes covers the known keys up to its own.
RingInv ==
  /\ script \in DOMAIN Script
  /\ signing \in RingKeys /\ retained \subseteq RingKeys
  /\ server \in [Server -> ServerStates]
  /\ \A k \in retained : k = signing \/ k.id < signing.id
  /\ \A s \in Server : server[s].pc # "down" => server[s].key \in Known
  /\ \A s \in Server : server[s].pc = "up" => Covers(Jwks(s))
  /\ \A t \in minted : t.key \in Known

LEMMA KeyIds == \A k \in RingKeys : k.id \in Int
BY ExchangeClientAssumption

\* A replica that has loaded the signing key finds the older ones retained.
LEMMA LoadedCovers ==
  ASSUME RingInv, NEW key \in Known
  PROVE  \A k \in Known : k.id <= key.id => k \in {key} \cup retained
<1>1. \A k \in Known : k \in RingKeys /\ k.id \in Int
  BY KeyIds DEF RingInv, Known
<1>2. \A k \in Known : k \notin retained => k = signing
  BY DEF Known
<1>3. ASSUME NEW k \in Known, k.id <= key.id, k # key, k \notin retained PROVE FALSE
  <2>1. k = signing /\ key \in retained
    BY <1>2, <1>3 DEF Known
  <2>2. key.id < k.id
    BY <1>3, <2>1 DEF RingInv
  <2> QED
    BY <1>1, <1>3, <2>2
<1> QED
  BY <1>3

\* How rotation changes the known keys: staging not at all, the swap by a newer
\* one.
LEMMA RotationGrows ==
  ASSUME RingInv, RotateKey
  PROVE  /\ signing' \in RingKeys /\ retained' \subseteq RingKeys
         /\ Known \subseteq Known'
         /\ \A k \in Known' : k \in Known \/ \A j \in Known : j.id < k.id
         /\ \A k \in retained' : k = signing' \/ k.id < signing'.id
         /\ server' = server /\ minted' = minted /\ script' = script
<1>1. server' = server /\ minted' = minted /\ script' = script
  BY DEF RotateKey, Ring!Stage, Ring!Swap
<1>2. CASE Ring!Stage
  BY <1>1, <1>2 DEF Ring!Stage, Known, RingInv
<1>3. ASSUME NEW k \in NewKeys, Ring!Swap(k)
      PROVE  /\ signing' \in RingKeys /\ retained' \subseteq RingKeys
             /\ Known \subseteq Known'
             /\ \A l \in Known' : l \in Known \/ \A j \in Known : j.id < l.id
             /\ \A l \in retained' : l = signing' \/ l.id < signing'.id
  <2>1. /\ signing \in retained /\ (\A j \in retained : j.id < k.id)
        /\ signing' = k /\ retained' = retained
    BY <1>3 DEF Ring!Swap
  <2>2. k \in RingKeys
    BY <1>3 DEF NewKeys, RingKeys, RingInv
  <2>3. Known = retained
    BY <2>1 DEF Known
  <2> QED
    BY <2>1, <2>2, <2>3 DEF Known, RingInv
<1> QED
  BY <1>1, <1>2, <1>3 DEF RotateKey

\* A key set that covers the known keys goes on to.
LEMMA RotationCovers ==
  ASSUME RingInv, RotateKey, NEW d, Covers(d)
  PROVE  Covers(d)'
<1>1. d.of \in Known /\ d.of \in RingKeys /\ Known' \subseteq RingKeys
  BY RotationGrows DEF Covers, RingInv, Known
<1>2. ASSUME NEW k \in Known', k.id <= d.of.id PROVE k \in Known
  <2>1. k.id \in Int /\ d.of.id \in Int
    BY <1>1, KeyIds
  <2> QED
    BY <1>1, <1>2, <2>1, RotationGrows
<1> QED
  BY <1>1, <1>2, RotationGrows DEF Covers

LEMMA ReplicaStep ==
  ASSUME RingInv, NEW s \in Server, StartReplica(s) \/ StopReplica(s)
  PROVE  RingInv' /\ signing' = signing /\ retained' = retained /\ minted' = minted
<1>1. /\ signing' = signing /\ retained' = retained /\ minted' = minted /\ script' = script
  BY DEF StartReplica, StopReplica, Ring!LoadSigner, Ring!PublishJwks, Ring!StopServer
<1>2. Known' = Known /\ signing \in Known /\ Known \subseteq RingKeys
  BY <1>1 DEF Known, RingInv
<1>3. ASSUME NEW v \in ServerStates, server' = [server EXCEPT ![s] = v],
             v.pc # "down" => v.key \in Known,
             v.pc = "up" => \A k \in Known : k.id <= v.key.id => k \in v.published
      PROVE  RingInv'
  <2>1. \A r \in Server : server'[r] = IF r = s THEN v ELSE server[r]
    BY <1>3 DEF RingInv
  <2>2. server' \in [Server -> ServerStates]
    BY <1>3 DEF RingInv
  <2>3. \A r \in Server : server'[r].pc # "down" => server'[r].key \in Known
    BY <1>3, <2>1 DEF RingInv
  <2>4. ASSUME NEW r \in Server, server'[r].pc = "up" PROVE Covers(Jwks(r))'
    <3>1. CASE r = s
      BY <1>2, <1>3, <2>1, <2>4, <3>1 DEF Covers, Jwks
    <3>2. CASE r # s
      BY <1>2, <2>1, <2>4, <3>2 DEF RingInv, Covers, Jwks
    <3> QED
      BY <3>1, <3>2
  <2> QED
    BY <1>1, <1>2, <2>2, <2>3, <2>4 DEF RingInv
<1>4. server[s] \in ServerStates /\ FirstKey \in RingKeys
  BY DEF RingInv, RingKeys
<1>5. CASE Ring!LoadSigner(s)
  <2>1. PICK v : v = [pc |-> "loading", key |-> signing, published |-> {signing}]
    OBVIOUS
  <2>2. v \in ServerStates /\ v.pc = "loading" /\ v.key = signing
    BY <2>1 DEF ServerStates, RingInv
  <2> QED
    BY <1>1, <1>2, <1>3, <1>5, <2>1, <2>2 DEF Ring!LoadSigner
<1>6. CASE Ring!PublishJwks(s)
  <2>1. PICK v : v = [pc |-> "up", key |-> server[s].key,
                      published |-> {server[s].key} \cup retained]
    OBVIOUS
  <2>2. server[s].pc = "loading" /\ server' = [server EXCEPT ![s] = v]
    BY <1>6, <2>1 DEF Ring!PublishJwks
  <2>3. server[s].key \in Known /\ server[s].key \in RingKeys
    BY <2>2 DEF RingInv, ServerStates
  <2>4. /\ v \in ServerStates /\ v.key = server[s].key
        /\ v.published = {server[s].key} \cup retained
    BY <2>1, <2>3 DEF ServerStates, RingInv
  <2> QED
    BY <1>1, <1>3, <2>2, <2>3, <2>4, LoadedCovers
<1>7. CASE Ring!StopServer(s)
  <2>1. Ring!Down \in ServerStates /\ Ring!Down.pc = "down"
    BY <1>4 DEF Ring!Down, ServerStates
  <2> QED
    BY <1>1, <1>3, <1>7, <2>1 DEF Ring!StopServer
<1> QED
  BY <1>1, <1>5, <1>6, <1>7 DEF StartReplica, StopReplica

LEMMA RotationStep ==
  ASSUME RingInv, RotateKey
  PROVE  RingInv'
<1>1. ASSUME NEW s \in Server, server'[s].pc = "up" PROVE Covers(Jwks(s))'
  <2>1. PICK d : d = Jwks(s)
    OBVIOUS
  <2>2. Covers(d) /\ Jwks(s)' = d
    BY <1>1, <2>1, RotationGrows DEF RingInv, Jwks
  <2> QED
    BY <2>2, RotationCovers
<1> QED
  BY <1>1, RotationGrows DEF RingInv

LEMMA RingStart == Init => RingInv
<1> SUFFICES ASSUME Init PROVE RingInv
  OBVIOUS
<1>1. FirstKey \in RingKeys
  BY DEF RingKeys
<1>2. Ring!Down \in ServerStates /\ Ring!Down.pc = "down"
  BY <1>1 DEF Ring!Down, ServerStates
<1> QED
  BY <1>1, <1>2 DEF Init, Ring!Init, RingInv

LEMMA ExchangeRing ==
  ASSUME RingInv, NEW s \in Server, NEW q, HandleExchange(s, q)
  PROVE  /\ RingInv' /\ signing' = signing /\ retained' = retained
         /\ minted \subseteq minted' /\ \A t \in minted' \ minted : t.key \in RingKeys
<1>1. PICK new : /\ new.key = server[s].key
                 /\ minted' = minted \cup {new}
  <2>1. PICK new : new = Token(q, server[s].key, Jkt(q))
    OBVIOUS
  <2>2. new.key = server[s].key
    BY <2>1 DEF Token
  <2>3. minted' = minted \cup {new}
    BY <2>1 DEF HandleExchange, Mint
  <2> QED
    BY <2>2, <2>3
<1>2. /\ server[s].pc = "up" /\ signing' = signing /\ retained' = retained
      /\ server' = server /\ script' = script
  BY DEF HandleExchange, Mint, Incoming, Ring!SignToken
<1>3. server[s].key \in Known /\ Known \subseteq RingKeys /\ Known' = Known
  BY <1>2 DEF RingInv, Known
<1>4. \A r \in Server : server[r].pc = "up" => Covers(Jwks(r))'
  BY <1>2, <1>3 DEF RingInv, Covers, Jwks
<1>5. RingInv'
  BY <1>1, <1>2, <1>3, <1>4 DEF RingInv
<1> QED
  BY <1>1, <1>2, <1>3, <1>5

\* The steps, by what they do to the key ring.
LEMMA RingShape ==
  ASSUME Next
  PROVE  \/ RotateKey
         \/ \E s \in Server : StartReplica(s) \/ StopReplica(s)
         \/ \E s \in Server, q \in net : HandleExchange(s, q)
         \/ UNCHANGED <<script, ring, minted>>
<1>1. ASSUME NEW p \in Command,
             \/ GenerateKeys(p) \/ RefuseUsage(p) \/ SendExchange(p) \/ BeginVerify(p)
             \/ Proceed(p) \/ ExchangeCut(p)
      PROVE  UNCHANGED <<script, ring, minted>>
  BY <1>1 DEF GenerateKeys, RefuseUsage, SendExchange, BeginVerify, Proceed, ExchangeCut,
              ReceiveResponse, LoadJwks, CheckToken, sts
<1>2. ASSUME NEW q \in net, Answer(q)
      PROVE  \/ \E s \in Server : HandleExchange(s, q)
             \/ UNCHANGED <<script, ring, minted>>
  BY <1>2 DEF Answer, Serve, HandleReplayed, HandleLapsed, HandleFails, HandleRefused,
              HandleElsewhere, sts
<1>3. ASSUME NEW q, NEW id, Stall(q) \/ IssueActor \/ IssueAssertion \/ Expire(id)
      PROVE  UNCHANGED <<script, ring, minted>>
  BY <1>3 DEF Stall, IssueActor, IssueAssertion, Expire, sts
<1> QED
  BY <1>1, <1>2, <1>3 DEF Next

LEMMA RingNext ==
  ASSUME RingInv, Next
  PROVE  /\ RingInv'
         /\ \A d : Covers(d) => Covers(d)'
         /\ minted \subseteq minted' /\ \A t \in minted' \ minted : t.key \in RingKeys
<1>1. CASE RotateKey
  BY <1>1, RotationStep, RotationCovers, RotationGrows
<1>2. ASSUME NEW s \in Server, StartReplica(s) \/ StopReplica(s)
      PROVE  /\ RingInv' /\ minted' = minted
             /\ \A d : Covers(d) => Covers(d)'
  BY <1>2, ReplicaStep DEF Covers, Known
<1>3. ASSUME NEW s \in Server, NEW q \in net, HandleExchange(s, q)
      PROVE  /\ RingInv' /\ minted \subseteq minted'
             /\ \A t \in minted' \ minted : t.key \in RingKeys
             /\ \A d : Covers(d) => Covers(d)'
  BY <1>3, ExchangeRing DEF Covers, Known
<1>4. CASE UNCHANGED <<script, ring, minted>>
  <2>1. UNCHANGED <<script, signing, retained, server, minted>>
    BY <1>4 DEF ring
  <2> QED
    BY <2>1 DEF RingInv, Covers, Known, Jwks
<1> QED
  BY <1>1, <1>2, <1>3, <1>4, RingShape

\* The steps, by what they do to the key files.
LEMMA FilesShape ==
  ASSUME Next
  PROVE  script' = script /\ ((\E p \in Command : Generate(p)) \/ UNCHANGED files)
<1>1. ASSUME NEW p \in Command,
             \/ RefuseUsage(p) \/ SendExchange(p) \/ BeginVerify(p)
             \/ Proceed(p) \/ ExchangeCut(p)
      PROVE  UNCHANGED <<script, files>>
  BY <1>1 DEF RefuseUsage, SendExchange, BeginVerify, Proceed, ExchangeCut,
              ReceiveResponse, LoadJwks, CheckToken
<1>2. ASSUME NEW p \in Command, GenerateKeys(p) PROVE Generate(p) /\ script' = script
  BY <1>2 DEF GenerateKeys
<1>3. ASSUME NEW q \in net, Answer(q) PROVE UNCHANGED <<script, files>>
  BY <1>3 DEF Answer, Serve, HandleReplayed, HandleLapsed, HandleExchange, HandleFails,
              HandleRefused, HandleElsewhere
<1>4. ASSUME NEW q, NEW id, RotateKey \/ Stall(q) \/ IssueActor \/ IssueAssertion \/ Expire(id)
      PROVE  UNCHANGED <<script, files>>
  BY <1>4 DEF RotateKey, Stall, IssueActor, IssueAssertion, Expire
<1>5. ASSUME NEW s \in Server, StartReplica(s) \/ StopReplica(s) PROVE UNCHANGED <<script, files>>
  BY <1>5 DEF StartReplica, StopReplica
<1> QED
  BY <1>1, <1>2, <1>3, <1>4, <1>5 DEF Next

LEMMA FilesNext ==
  ASSUME FilesInv, Next
  PROVE  /\ FilesInv'
         /\ \A f \in Path : Replacing(f) = {} /\ file[f] \in Contents /\ file[f].whole = TRUE =>
              file'[f] = file[f]
<1>1. script' = script
  BY FilesShape
<1>2. CASE UNCHANGED files
  BY <1>1, <1>2, ScriptFixed DEF files, FilesInv, FileTypes, KeysDiffer, SecretsOwned,
     ReportedTypes, ReportedKeyKept, PublicComplete
<1>3. ASSUME NEW p \in Command, Generate(p)
      PROVE  /\ FilesInv'
             /\ \A f \in Path : Replacing(f) = {} /\ file[f] \in Contents /\ file[f].whole = TRUE =>
                  file'[f] = file[f]
  BY <1>1, <1>3, FilesStep, CompleteKept
<1> QED
  BY <1>2, <1>3, FilesShape

-------------------------------------------------------------------------------
(***************************************************************************)
(* Single use with a shared replay directory.                              *)
(***************************************************************************)

\* The actor token of every minted token was recorded by some replica; while it
\* has not expired the record is there and refuses another.
SharedInv ==
  /\ seen = [s \in Server |-> seen[s]]
  /\ Shared => \A t \in minted : \E s \in Server : <<"actor", t.actor>> \in seen[s]
  /\ OneLiveTokenPerActorToken

\* The steps, by what they do to the replay stores.
LEMMA SeenShape ==
  ASSUME Next
  PROVE  /\ script' = script
         /\ \/ \E s \in Server, q \in net : HandleExchange(s, q)
            \/ /\ minted' = minted
               /\ \/ seen' = seen
                  \/ \E s \in Server : \E ids : Burn(s, ids)
                  \/ ~Shared /\ \E s \in Server : seen' = [seen EXCEPT ![s] = {}]
<1>1. ASSUME NEW p \in Command,
             \/ GenerateKeys(p) \/ RefuseUsage(p) \/ SendExchange(p) \/ BeginVerify(p)
             \/ Proceed(p) \/ ExchangeCut(p)
      PROVE  seen' = seen /\ minted' = minted
  BY <1>1 DEF GenerateKeys, RefuseUsage, SendExchange, BeginVerify, Proceed, ExchangeCut,
              ReceiveResponse, LoadJwks, CheckToken, sts
<1>2. ASSUME NEW q \in net, Answer(q)
      PROVE  \/ \E s \in Server : HandleExchange(s, q)
             \/ minted' = minted /\ (seen' = seen \/ \E s \in Server : \E ids : Burn(s, ids))
  BY <1>2 DEF Answer, Serve, HandleReplayed, HandleLapsed, HandleFails, HandleRefused,
              HandleElsewhere, sts
<1>3. ASSUME NEW q, NEW id, RotateKey \/ Stall(q) \/ IssueActor \/ IssueAssertion \/ Expire(id)
      PROVE  seen' = seen /\ minted' = minted
  BY <1>3 DEF RotateKey, Stall, IssueActor, IssueAssertion, Expire, sts
<1>4. ASSUME NEW s \in Server, StartReplica(s) \/ StopReplica(s)
      PROVE  /\ minted' = minted
             /\ seen' = seen \/ (~Shared /\ seen' = [seen EXCEPT ![s] = {}])
  BY <1>4 DEF StartReplica, StopReplica
<1> QED
  BY <1>1, <1>2, <1>3, <1>4, FilesShape DEF Next

LEMMA SharedNext ==
  ASSUME SharedInv, Next
  PROVE  SharedInv'
<1>1. script' = script /\ (Shared' <=> Shared)
  BY FilesShape DEF Shared
<1>2. ASSUME NEW s \in Server, NEW v, seen' = [seen EXCEPT ![s] = v], v = {} \/ seen[s] \subseteq v
      PROVE  /\ seen' = [r \in Server |-> seen'[r]]
             /\ v # {} => \A r \in Server : seen[r] \subseteq seen'[r]
             /\ seen'[s] = v
  BY <1>2 DEF SharedInv
<1>3. ASSUME NEW s \in Server, NEW ids, Burn(s, ids)
      PROVE  /\ seen' = [r \in Server |-> seen'[r]]
             /\ \A r \in Server : seen[r] \subseteq seen'[r]
             /\ ids \subseteq seen'[s]
  BY <1>3 DEF Burn, SharedInv
<1>4. CASE minted' = minted /\ seen' = seen
  BY <1>1, <1>4 DEF SharedInv, OneLiveTokenPerActorToken
<1>5. ASSUME NEW s \in Server, NEW ids, Burn(s, ids), minted' = minted PROVE SharedInv'
  BY <1>1, <1>3, <1>5 DEF SharedInv, OneLiveTokenPerActorToken
<1>6. ASSUME NEW s \in Server, ~Shared, seen' = [seen EXCEPT ![s] = {}], minted' = minted
      PROVE  SharedInv'
  BY <1>1, <1>2, <1>6 DEF SharedInv, OneLiveTokenPerActorToken
<1>7. ASSUME NEW s \in Server, NEW q \in net, HandleExchange(s, q) PROVE SharedInv'
  <2>1. PICK new : new = Token(q, server[s].key, Jkt(q))
    OBVIOUS
  <2>2. /\ new.actor = q.actor /\ minted' = minted \cup {new}
        /\ ~new.late => <<"actor", q.actor>> \notin expired
    BY <1>7, <2>1 DEF HandleExchange, Mint, Token, ActorId
  <2>3. Burn(s, Credentials(q)) /\ Fresh(s, q)
    BY <1>7 DEF HandleExchange
  <2>4. /\ seen' = [r \in Server |-> seen'[r]]
        /\ \A r \in Server : seen[r] \subseteq seen'[r]
        /\ <<"actor", q.actor>> \in seen'[s]
    BY <1>3, <2>3 DEF Credentials, ActorId
  <2>5. Shared /\ ~new.late => \A r \in Server : <<"actor", q.actor>> \notin seen[r]
    BY <2>2, <2>3 DEF Fresh, Free, Recorded, Credentials, ActorId
  <2>6. Shared /\ ~new.late => \A t \in minted : t.actor # q.actor
    BY <2>5 DEF SharedInv
  <2>7. OneLiveTokenPerActorToken'
    BY <1>1, <2>2, <2>6 DEF OneLiveTokenPerActorToken, SharedInv
  <2>8. Shared => \A t \in minted' : \E r \in Server : <<"actor", t.actor>> \in seen'[r]
    BY <2>2, <2>4 DEF SharedInv
  <2> QED
    BY <1>1, <2>4, <2>7, <2>8 DEF SharedInv
<1> QED
  BY <1>4, <1>5, <1>6, <1>7, SeenShape

-------------------------------------------------------------------------------
(***************************************************************************)
(* The runs of the commands.                                               *)
(***************************************************************************)
ClientPCs == {"idle", "sent", "keys", "check"} \cup Endings

KeySets == [of : RingKeys, keys : SUBSET RingKeys]

ClientStates ==
  [pc : ClientPCs, run : Nat, holder : {None} \cup (1 .. MaxDrawn),
   token : {None} \cup Tokens, jwks : {None} \cup KeySets]

\* A token of this STS, or one that its key gives away as another's.
Genuine(t) == t \in Tokens /\ (t \in minted \/ t.key = ForeignKey)

\* What holds of a run x of a command with arguments a.
RunOK(a, x) ==
  /\ x.run <= runs
  /\ x.pc \in {"keys", "check", "ok", "unverified"} => x.token # None
  /\ x.token # None => Genuine(x.token)
  /\ x.jwks # None => a.jwks = "file" \/ Covers(x.jwks)
  /\ x.holder # None =>
       /\ a.holder \in Path
       /\ Replacing(a.holder) = {} => file[a.holder] = Complete(x.holder)
  /\ x.pc = "ok" /\ x.jwks # None => x.token \in minted
  /\ x.pc = "ok" /\ x.holder # None => x.token.jkt = x.holder
  /\ x.pc = "unverified" /\ x.token \in minted =>
       a.jwks = "file" \/ x.jwks.of.id < x.token.key.id

MessageOK(m) ==
  /\ m.run \in 1 .. runs
  /\ m.type = "request" =>
       /\ m.from \in Command /\ m.actor \in Nat
       /\ m.proof # None => m.proof.jkt \in Nat
  /\ m.type = "token" => Genuine(m.token)

\* The inductive invariant of the client, beside those of the files and the ring.
ClientInv ==
  /\ actor \in 1 .. MaxActors /\ runs \in 0 .. MaxRuns /\ faults \in 0 .. MaxFaults
  /\ assertion \in 1 .. MaxAssertions /\ expired \subseteq Perishable
  /\ cmd \in [Command -> ClientStates]
  /\ \A p \in Command : RunOK(Args(p), cmd[p])
  /\ \A m \in net : MessageOK(m)
  /\ \A t \in printed : Genuine(t)
  /\ minted \subseteq Tokens

AllInv == FilesInv /\ RingInv /\ ClientInv

LEMMA Bounds ==
  ASSUME script \in DOMAIN Script
  PROVE  /\ MaxRuns \in Nat /\ MaxFaults \in Nat
         /\ MaxActors \in Nat \ {0} /\ MaxAssertions \in Nat \ {0}
BY ExchangeClientAssumption DEF MaxRuns, MaxFaults, MaxActors, MaxAssertions

\* What a step never does to the state the runs depend on.
Evolves ==
  /\ runs <= runs'
  /\ minted \subseteq minted' /\ \A t \in minted' \ minted : t.key \in RingKeys
  /\ \A d : Covers(d) => Covers(d)'
  /\ \A f : Replacing(f)' = Replacing(f)
  /\ \A f \in Path : Replacing(f) = {} /\ file[f] \in Contents /\ file[f].whole = TRUE =>
       file'[f] = file[f]

LEMMA GenuineStays ==
  ASSUME Evolves, NEW t, Genuine(t)
  PROVE  Genuine(t)'
BY DEF Evolves, Genuine

LEMMA MessageStays ==
  ASSUME Evolves, runs \in Nat, runs' \in Nat, NEW m, MessageOK(m)
  PROVE  MessageOK(m)'
<1>1. m.run \in 1 .. runs'
  BY DEF MessageOK, Evolves
<1> QED
  BY <1>1, GenuineStays DEF MessageOK

\* A run that does not move is as good as before.
LEMMA RunStays ==
  ASSUME Evolves, runs \in Nat, runs' \in Nat, NEW a, NEW x \in ClientStates, RunOK(a, x)
  PROVE  RunOK(a, x)'
<1>1. x.run <= runs'
  BY DEF ClientStates, RunOK, Evolves
<1>2. x.token # None => Genuine(x.token)'
  BY GenuineStays DEF RunOK
<1>3. x.jwks # None => a.jwks = "file" \/ Covers(x.jwks)'
  BY DEF RunOK, Evolves
<1>4. ASSUME x.holder # None, Replacing(a.holder)' = {}
      PROVE  a.holder \in Path /\ file'[a.holder] = Complete(x.holder)
  <2>1. a.holder \in Path /\ file[a.holder] = Complete(x.holder) /\ x.holder \in 1 .. MaxDrawn
    BY <1>4 DEF RunOK, Evolves, ClientStates
  <2>2. file[a.holder] \in Contents /\ file[a.holder].whole = TRUE
    BY <2>1, ContentsFacts
  <2> QED
    BY <1>4, <2>1, <2>2 DEF Evolves
<1>5. x.pc = "ok" /\ x.jwks # None => x.token \in minted'
  BY DEF RunOK, Evolves
<1>6. x.pc = "unverified" /\ x.token \in minted' =>
        a.jwks = "file" \/ x.jwks.of.id < x.token.key.id
  <2>1. CASE x.token \in minted
    BY <2>1 DEF RunOK
  <2>2. CASE x.token \in minted' \ minted
    <3>1. x.token.key \in RingKeys
      BY <2>2 DEF Evolves
    <3>2. ForeignKey \notin RingKeys
      BY ExchangeClientAssumption
    <3> QED
      BY <2>2, <3>1, <3>2 DEF RunOK, Genuine
  <2> QED
    BY <2>1, <2>2
<1> QED
  BY <1>1, <1>2, <1>3, <1>4, <1>5, <1>6 DEF RunOK

\* Each counter is kept or counts one up, within its bound.
CountersMove ==
  /\ runs' = runs \/ (runs < MaxRuns /\ runs' = runs + 1)
  /\ faults' = faults \/ (faults < MaxFaults /\ faults' = faults + 1)
  /\ actor' = actor \/ (actor < MaxActors /\ actor' = actor + 1)
  /\ assertion' = assertion \/ (assertion < MaxAssertions /\ assertion' = assertion + 1)
  /\ expired' = expired \/ \E id \in Perishable : expired' = expired \cup {id}

\* The counters stay within the bounds of the script, and runs are not undone.
LEMMA Counters ==
  ASSUME AllInv, Next
  PROVE  /\ script' = script /\ script \in DOMAIN Script
         /\ actor \in Nat /\ runs \in Nat /\ runs' \in Nat /\ runs <= runs'
         /\ actor' \in 1 .. MaxActors' /\ runs' \in 0 .. MaxRuns' /\ faults' \in 0 .. MaxFaults'
         /\ assertion' \in 1 .. MaxAssertions' /\ expired' \subseteq Perishable'
<1>1. script' = script /\ script \in DOMAIN Script
  BY FilesShape DEF AllInv, RingInv
<1>2. /\ MaxRuns \in Nat /\ MaxFaults \in Nat /\ MaxActors \in Nat /\ MaxAssertions \in Nat
      /\ MaxRuns' = MaxRuns /\ MaxFaults' = MaxFaults /\ MaxActors' = MaxActors
      /\ MaxAssertions' = MaxAssertions /\ assertion \in 1 .. MaxAssertions
      /\ actor \in 1 .. MaxActors /\ runs \in 0 .. MaxRuns /\ faults \in 0 .. MaxFaults
      /\ expired \subseteq Perishable
  BY <1>1, Bounds DEF AllInv, ClientInv, MaxRuns, MaxFaults, MaxActors, MaxAssertions
<1>3. CountersMove
  <2>1. ASSUME NEW p \in Command,
               \/ GenerateKeys(p) \/ RefuseUsage(p) \/ SendExchange(p) \/ BeginVerify(p)
               \/ Proceed(p) \/ ExchangeCut(p)
        PROVE  CountersMove
    BY <2>1 DEF CountersMove, GenerateKeys, RefuseUsage, SendExchange, BeginVerify, Proceed, ExchangeCut,
                ReceiveResponse, LoadJwks, CheckToken, MayRun, issued
  <2>2. ASSUME NEW q \in net, Answer(q) \/ Stall(q) PROVE CountersMove
    BY <2>2 DEF CountersMove, Answer, Serve, HandleReplayed, HandleLapsed, HandleExchange,
                HandleFails, HandleRefused, HandleElsewhere, Stall, issued
  <2>3. RotateKey \/ IssueActor \/ IssueAssertion => CountersMove
    BY DEF CountersMove, RotateKey, IssueActor, IssueAssertion, issued
  <2>4. ASSUME NEW id \in Perishable, Expire(id) PROVE CountersMove
    BY <2>4 DEF CountersMove, Expire
  <2>5. ASSUME NEW s \in Server, StartReplica(s) \/ StopReplica(s)
        PROVE  CountersMove
    BY <2>5 DEF CountersMove, StartReplica, StopReplica, issued
  <2> QED
    BY <2>1, <2>2, <2>3, <2>4, <2>5 DEF Next
<1>4. expired' \subseteq Perishable'
  <2>1. /\ 1 .. actor \subseteq 1 .. actor' /\ 1 .. assertion \subseteq 1 .. assertion'
        /\ 0 .. runs \subseteq 0 .. runs'
    BY <1>2, <1>3 DEF CountersMove
  <2>2. Perishable \subseteq Perishable'
    BY <2>1 DEF Perishable
  <2> QED
    BY <1>2, <1>3, <2>2 DEF CountersMove
<1> QED
  BY <1>1, <1>2, <1>3, <1>4 DEF CountersMove

LEMMA NextEvolves ==
  ASSUME AllInv, Next
  PROVE  Evolves
BY Counters, RingNext, FilesNext, ScriptFixed DEF AllInv, Evolves

\* A step that moves at most one run, sends good messages and prints good tokens.
LEMMA ClientMove ==
  ASSUME AllInv, Next, NEW p \in Command, NEW x \in ClientStates,
         cmd' = [cmd EXCEPT ![p] = x], x = cmd[p] \/ RunOK(Args(p), x)',
         \A m \in net' : m \in net \/ MessageOK(m)',
         \A t \in printed' : t \in printed \/ Genuine(t)',
         minted' \subseteq Tokens
  PROVE  ClientInv'
<1>1. Evolves /\ runs \in Nat /\ runs' \in Nat /\ script' = script
  BY NextEvolves, Counters
<1>2. \A u \in Command : cmd'[u] = IF u = p THEN x ELSE cmd[u]
  BY DEF AllInv, ClientInv
<1>3. cmd' \in [Command -> ClientStates]
  BY DEF AllInv, ClientInv
<1>4. ASSUME NEW u \in Command PROVE RunOK(Args(u), cmd[u])'
  <2>1. PICK a, y : a = Args(u) /\ y = cmd[u]
    OBVIOUS
  <2>2. Args(u)' = a
    BY <1>1, <2>1 DEF Args
  <2>3. RunOK(a, y)'
    BY <1>1, <2>1, RunStays DEF AllInv, ClientInv
  <2>4. CASE cmd'[u] = y
    BY <2>2, <2>3, <2>4
  <2>5. CASE u = p /\ RunOK(Args(p), x)'
    BY <1>2, <2>5
  <2> QED
    BY <1>2, <2>1, <2>4, <2>5
<1>5. \A m \in net' : MessageOK(m)'
  BY <1>1, MessageStays DEF AllInv, ClientInv
<1>6. \A t \in printed' : Genuine(t)'
  BY <1>1, GenuineStays DEF AllInv, ClientInv
<1> QED
  BY <1>3, <1>4, <1>5, <1>6, Counters DEF ClientInv

\* A step that moves no run.
LEMMA ClientRest ==
  ASSUME AllInv, Next, cmd' = cmd,
         \A m \in net' : m \in net \/ MessageOK(m)',
         printed' = printed, minted' \subseteq Tokens
  PROVE  ClientInv'
<1>1. Evolves /\ runs \in Nat /\ runs' \in Nat /\ script' = script
  BY NextEvolves, Counters
<1>2. ASSUME NEW u \in Command PROVE RunOK(Args(u), cmd[u])'
  <2>1. PICK a, y : a = Args(u) /\ y = cmd[u]
    OBVIOUS
  <2>2. RunOK(a, y)' /\ Args(u)' = a
    BY <1>1, <2>1, RunStays DEF AllInv, ClientInv, Args
  <2> QED
    BY <2>1, <2>2
<1>3. \A m \in net' : MessageOK(m)'
  BY <1>1, MessageStays DEF AllInv, ClientInv
<1>4. \A t \in printed' : Genuine(t)'
  BY <1>1, GenuineStays DEF AllInv, ClientInv
<1> QED
  BY <1>2, <1>3, <1>4, Counters DEF AllInv, ClientInv

\* A run that moves on without a new number: what has to hold of it now.
LEMMA ClientMoveNow ==
  ASSUME AllInv, Next, NEW p \in Command, NEW x \in ClientStates,
         cmd' = [cmd EXCEPT ![p] = x], RunOK(Args(p), x), net' \subseteq net,
         \A t \in printed' : t \in printed \/ Genuine(t), minted' = minted
  PROVE  ClientInv'
<1>1. Evolves /\ runs \in Nat /\ runs' \in Nat /\ script' = script
  BY NextEvolves, Counters
<1>2. RunOK(Args(p), x)'
  <2>1. PICK a : a = Args(p)
    OBVIOUS
  <2>2. RunOK(a, x)' /\ Args(p)' = a
    BY <1>1, <2>1, RunStays DEF Args
  <2> QED
    BY <2>2
<1>3. \A t \in printed' : t \in printed \/ Genuine(t)'
  BY <1>1, GenuineStays
<1>4. minted' \subseteq Tokens
  BY DEF AllInv, ClientInv
<1> QED
  BY <1>2, <1>3, <1>4, ClientMove

\* The fields of a run, and what a new program counter changes.
LEMMA RunFields ==
  ASSUME AllInv, NEW p \in Command
  PROVE  /\ cmd[p] \in ClientStates /\ RunOK(Args(p), cmd[p])
         /\ \A pc \in ClientPCs :
              LET x == [cmd[p] EXCEPT !.pc = pc]
              IN  /\ x \in ClientStates /\ x.pc = pc /\ x.run = cmd[p].run
                  /\ x.holder = cmd[p].holder /\ x.token = cmd[p].token
                  /\ x.jwks = cmd[p].jwks
                  /\ [cmd EXCEPT ![p].pc = pc] = [cmd EXCEPT ![p] = x]
BY DEF AllInv, ClientInv, ClientStates

LEMMA RefuseUsageInv ==
  ASSUME AllInv, Next, NEW p \in Command, RefuseUsage(p)
  PROVE  ClientInv'
<1>1. PICK x : x = [NoRun EXCEPT !.pc = "usage", !.run = runs + 1]
  OBVIOUS
<1>2. runs \in Nat /\ runs' \in Nat /\ runs' = runs + 1 /\ runs' <= runs'
  BY Counters DEF RefuseUsage
<1>3. /\ x \in ClientStates /\ x.pc = "usage" /\ x.run = runs' /\ x.token = None
      /\ x.jwks = None /\ x.holder = None
  <2>1. "usage" \in ClientPCs
    BY DEF ClientPCs, Endings
  <2> QED
    BY <1>1, <1>2, <2>1 DEF NoRun, ClientStates
<1>4. RunOK(Args(p), x)'
  BY <1>2, <1>3 DEF RunOK
<1>5. cmd' = [cmd EXCEPT ![p] = x] /\ net' = net /\ printed' = printed /\ minted' = minted
  BY <1>1 DEF RefuseUsage
<1> QED
  BY <1>3, <1>4, <1>5, ClientMove DEF AllInv, ClientInv

\* A complete holder key.
LEMMA WholeIsComplete ==
  ASSUME FilesInv, NEW f \in Path, Whole(f)
  PROVE  file[f].key \in 1 .. MaxDrawn /\ file[f] = Complete(file[f].key)
<1>1. file[f] \in Contents /\ file[f].whole
  BY DEF FilesInv, FileTypes, Whole
<1>2. file[f].key \in 1 .. MaxDrawn /\ file[f].whole = TRUE
  BY <1>1 DEF Contents
<1>3. file[f] = [key |-> file[f].key, whole |-> file[f].whole]
  BY <1>1 DEF Contents
<1> QED
  BY <1>2, <1>3 DEF Complete

LEMMA SendExchangeInv ==
  ASSUME AllInv, Next, NEW p \in Command, SendExchange(p)
  PROVE  ClientInv'
<1>1. PICK h : h = IF Args(p).dpop = "key" THEN file[Args(p).holder].key ELSE None
  OBVIOUS
<1>2. PICK x : x = [NoRun EXCEPT !.pc = "sent", !.run = runs + 1, !.holder = h]
  OBVIOUS
<1>3. PICK req : req = [type |-> "request", from |-> p, run |-> runs + 1,
                        to |-> Args(p).endpoint, actor |-> actor,
                        assertion |-> IF Args(p).assertion THEN assertion ELSE None,
                        proof |-> Proof(p)]
  OBVIOUS
<1>4. /\ Args(p).kind = "exchange" /\ Usable(p)
      /\ runs' = runs + 1 /\ cmd' = [cmd EXCEPT ![p] = x] /\ net' = net \cup {req}
      /\ UNCHANGED <<script, files, printed, minted>>
  BY <1>1, <1>2, <1>3 DEF SendExchange
<1>5. /\ script \in DOMAIN Script /\ runs \in Nat /\ runs' \in Nat /\ actor \in Nat
      /\ MaxDrawn \in Nat /\ file' = file
  BY <1>4, Counters, SecretFilesAssumption DEF files
<1>6. /\ Args(p).dpop \in {"none", "file", "key"}
      /\ Args(p).dpop = "key" => Args(p).holder \in Path
  BY <1>4, <1>5, ExchangeClientAssumption DEF Args
<1>7. Args(p).dpop = "key" =>
        /\ file[Args(p).holder].key \in 1 .. MaxDrawn
        /\ file[Args(p).holder] = Complete(file[Args(p).holder].key)
  BY <1>4, <1>6, WholeIsComplete DEF AllInv, Usable
<1>8. h \in {None} \cup (1 .. MaxDrawn)
  BY <1>1, <1>7
<1>9. /\ x \in ClientStates /\ x.pc = "sent" /\ x.run = runs' /\ x.token = None
      /\ x.jwks = None /\ x.holder = h
  BY <1>2, <1>4, <1>5, <1>8 DEF NoRun, ClientStates, ClientPCs
<1>10. RunOK(Args(p), x)'
  <2>1. h # None => Args(p).dpop = "key"
    BY <1>1
  <2>2. Args(p)' = Args(p)
    BY <1>4 DEF Args
  <2>3. h # None => Args(p).holder \in Path /\ file'[Args(p).holder] = Complete(h)
    BY <1>1, <1>5, <1>6, <1>7, <2>1
  <2>4. runs' <= runs'
    BY <1>5
  <2> QED
    BY <1>9, <2>2, <2>3, <2>4 DEF RunOK
<1>11. MessageOK(req)'
  <2>1. Proof(p) # None => Proof(p).jkt \in Nat
    BY <1>5, <1>6, <1>7 DEF Proof
  <2>2. /\ req.run = runs' /\ req.type = "request" /\ req.from = p /\ req.actor = actor
        /\ req.proof = Proof(p)
    BY <1>3, <1>4
  <2>3. runs' \in 1 .. runs'
    BY <1>4, <1>5
  <2> QED
    BY <1>5, <2>1, <2>2, <2>3 DEF MessageOK
<1> QED
  BY <1>4, <1>9, <1>10, <1>11, ClientMove DEF AllInv, ClientInv

LEMMA BeginVerifyInv ==
  ASSUME AllInv, Next, NEW p \in Command, BeginVerify(p)
  PROVE  ClientInv'
<1>1. PICK t \in printed :
        cmd' = [cmd EXCEPT ![p] = [NoRun EXCEPT !.pc = "keys", !.run = runs + 1, !.token = t]]
  BY DEF BeginVerify
<1>2. PICK x : x = [NoRun EXCEPT !.pc = "keys", !.run = runs + 1, !.token = t]
  OBVIOUS
<1>3. /\ runs \in Nat /\ runs' \in Nat /\ runs' = runs + 1
      /\ net' = net /\ printed' = printed /\ minted' = minted
  BY Counters DEF BeginVerify
<1>4. Genuine(t) /\ t \in Tokens /\ t # None
  BY ExchangeClientAssumption DEF AllInv, ClientInv, Genuine
<1>5. /\ x \in ClientStates /\ x.pc = "keys" /\ x.run = runs' /\ x.token = t
      /\ x.jwks = None /\ x.holder = None
  BY <1>2, <1>3, <1>4 DEF NoRun, ClientStates, ClientPCs
<1>6. RunOK(Args(p), x)'
  <2>1. Genuine(t)'
    BY <1>4, NextEvolves, GenuineStays
  <2>2. runs' <= runs'
    BY <1>3
  <2> QED
    BY <1>4, <1>5, <2>1, <2>2 DEF RunOK
<1> QED
  BY <1>1, <1>2, <1>3, <1>5, <1>6, ClientMove DEF AllInv, ClientInv

LEMMA ReceiveResponseInv ==
  ASSUME AllInv, Next, NEW p \in Command, NEW m \in net, ReceiveResponse(p, m)
  PROVE  ClientInv'
<1>1. PICK pc, t : /\ pc = IF m.type = "token" THEN "keys" ELSE "denied"
                   /\ t = IF m.type = "token" THEN m.token ELSE None
  OBVIOUS
<1>2. PICK x : x = [cmd[p] EXCEPT !.pc = pc, !.token = t]
  OBVIOUS
<1>3. net' \subseteq net /\ printed' = printed /\ minted' = minted
  BY DEF ReceiveResponse
<1>4. cmd[p] \in ClientStates /\ RunOK(Args(p), cmd[p]) /\ cmd \in [Command -> ClientStates]
  BY RunFields DEF AllInv, ClientInv
<1>5. /\ m.type = "token" => Genuine(t) /\ t \in Tokens /\ t # None
      /\ m.type # "token" => t = None
  BY <1>1, ExchangeClientAssumption DEF AllInv, ClientInv, MessageOK, Genuine
<1>6. pc \in ClientPCs /\ t \in {None} \cup Tokens
  BY <1>1, <1>5 DEF ClientPCs, Endings
<1>7. /\ x \in ClientStates /\ x.pc = pc /\ x.token = t /\ x.run = cmd[p].run
      /\ x.holder = cmd[p].holder /\ x.jwks = cmd[p].jwks
  BY <1>2, <1>4, <1>6 DEF ClientStates
<1>8. cmd' = [cmd EXCEPT ![p] = x]
  BY <1>1, <1>2, <1>4 DEF ReceiveResponse, ClientStates
<1>9. RunOK(Args(p), x)
  BY <1>1, <1>4, <1>5, <1>7 DEF RunOK
<1> QED
  BY <1>3, <1>7, <1>8, <1>9, ClientMoveNow

LEMMA ExchangeCutInv ==
  ASSUME AllInv, Next, NEW p \in Command, ExchangeCut(p)
  PROVE  ClientInv'
<1>1. PICK x : x = [cmd[p] EXCEPT !.pc = "lost"]
  OBVIOUS
<1>2. "lost" \in ClientPCs
  BY DEF ClientPCs, Endings
<1>3. /\ x \in ClientStates /\ x.pc = "lost" /\ x.run = cmd[p].run
      /\ x.holder = cmd[p].holder /\ x.token = cmd[p].token /\ x.jwks = cmd[p].jwks
      /\ cmd' = [cmd EXCEPT ![p] = x]
  BY <1>1, <1>2, RunFields DEF ExchangeCut, End
<1>4. net' \subseteq net /\ printed' = printed /\ minted' = minted
  BY DEF ExchangeCut
<1>5. RunOK(Args(p), x)
  BY <1>3, RunFields DEF RunOK
<1> QED
  BY <1>3, <1>4, <1>5, ClientMoveNow

LEMMA LoadJwksInv ==
  ASSUME AllInv, Next, NEW p \in Command, LoadJwks(p)
  PROVE  ClientInv'
<1>1. cmd[p].pc = "keys" /\ net' = net /\ printed' = printed /\ minted' = minted
  BY DEF LoadJwks
<1>2. cmd[p] \in ClientStates /\ RunOK(Args(p), cmd[p]) /\ cmd \in [Command -> ClientStates]
  BY RunFields DEF AllInv, ClientInv
<1>3. ASSUME NEW how \in {"check", "nokeys"}, End(p, how) PROVE ClientInv'
  <2>1. PICK x : x = [cmd[p] EXCEPT !.pc = how]
    OBVIOUS
  <2>2. how \in ClientPCs
    BY <1>3 DEF ClientPCs, Endings
  <2>3. /\ x \in ClientStates /\ x.pc = how /\ x.run = cmd[p].run
        /\ x.holder = cmd[p].holder /\ x.token = cmd[p].token /\ x.jwks = cmd[p].jwks
        /\ cmd' = [cmd EXCEPT ![p] = x]
    BY <1>3, <2>1, <2>2, RunFields DEF End
  <2>4. RunOK(Args(p), x)
    BY <1>1, <1>2, <1>3, <2>3 DEF RunOK
  <2> QED
    BY <1>1, <2>3, <2>4, ClientMoveNow
<1>4. ASSUME NEW d \in KeySets, Args(p).jwks = "file" \/ Covers(d),
             cmd' = [cmd EXCEPT ![p].pc = "check", ![p].jwks = d]
      PROVE  ClientInv'
  <2>1. PICK x : x = [cmd[p] EXCEPT !.pc = "check", !.jwks = d]
    OBVIOUS
  <2>2. "check" \in ClientPCs
    BY DEF ClientPCs
  <2>3. /\ x \in ClientStates /\ x.pc = "check" /\ x.run = cmd[p].run
        /\ x.holder = cmd[p].holder /\ x.token = cmd[p].token /\ x.jwks = d
    BY <1>2, <2>1, <2>2 DEF ClientStates
  <2>4. cmd' = [cmd EXCEPT ![p] = x]
    BY <1>2, <1>4, <2>1 DEF ClientStates
  <2>5. RunOK(Args(p), x)
    BY <1>1, <1>2, <1>4, <2>3 DEF RunOK
  <2> QED
    BY <1>1, <2>3, <2>4, <2>5, ClientMoveNow
<1>5. ASSUME Args(p).jwks = "file",
             cmd' = [cmd EXCEPT ![p].pc = "check", ![p].jwks = [of |-> FirstKey, keys |-> {FirstKey}]]
      PROVE  ClientInv'
  <2>1. [of |-> FirstKey, keys |-> {FirstKey}] \in KeySets
    BY DEF KeySets, RingKeys
  <2> QED
    BY <1>4, <1>5, <2>1
<1>6. ASSUME NEW s \in Server, server[s].pc = "up",
             cmd' = [cmd EXCEPT ![p].pc = "check",
                       ![p].jwks = [of |-> server[s].key, keys |-> server[s].published]]
      PROVE  ClientInv'
  <2>1. server[s] \in ServerStates /\ Covers(Jwks(s))
    BY <1>6 DEF AllInv, RingInv
  <2>2. Jwks(s) \in KeySets
    BY <2>1 DEF Jwks, KeySets, ServerStates
  <2> QED
    BY <1>4, <1>6, <2>1, <2>2 DEF Jwks
<1> QED
  BY <1>3, <1>5, <1>6 DEF LoadJwks

\* A token that a key of this STS verifies was minted by it; one that no key
\* verifies was signed with a key newer than the replica that was asked.
LEMMA CheckTokenInv ==
  ASSUME AllInv, Next, NEW p \in Command, CheckToken(p)
  PROVE  ClientInv'
<1>1. PICK a, y : a = Args(p) /\ y = cmd[p]
  OBVIOUS
<1>2. PICK how : how = CASE y.jwks # None /\ ~Verifies(y.token, y.jwks.keys) -> "unverified"
                         [] y.jwks = None \/ Verifies(y.token, y.jwks.keys) ->
                              IF HolderMatches(p, y.token) THEN "ok" ELSE "unbound"
  OBVIOUS
<1>3. /\ y.pc = "check" /\ End(p, how) /\ net' = net /\ minted' = minted
      /\ \A t \in printed' : t \in printed \/ t = y.token
  BY <1>1, <1>2 DEF CheckToken
<1>4. /\ how \in {"unverified", "ok", "unbound"}
      /\ how = "unverified" => y.jwks # None /\ ~Verifies(y.token, y.jwks.keys)
      /\ how = "ok" => /\ y.jwks = None \/ Verifies(y.token, y.jwks.keys)
                       /\ HolderMatches(p, y.token)
  BY <1>2
<1>5. how \in ClientPCs
  BY <1>4 DEF ClientPCs, Endings
<1>6. PICK x : x = [cmd[p] EXCEPT !.pc = how]
  OBVIOUS
<1>7. /\ x \in ClientStates /\ x.pc = how /\ x.run = y.run
      /\ x.holder = y.holder /\ x.token = y.token /\ x.jwks = y.jwks
      /\ cmd' = [cmd EXCEPT ![p] = x]
  BY <1>1, <1>3, <1>5, <1>6, RunFields DEF End
<1>8. /\ y \in ClientStates /\ RunOK(a, y) /\ y.token # None /\ Genuine(y.token)
  BY <1>1, <1>3, RunFields DEF RunOK
<1>9. ASSUME how = "ok", y.jwks # None PROVE y.token \in minted
  <2>1. y.token.key \in y.jwks.keys /\ y.jwks.keys \subseteq RingKeys
    BY <1>4, <1>8, <1>9 DEF Verifies, ClientStates, KeySets
  <2> QED
    BY <1>8, <2>1, ExchangeClientAssumption DEF Genuine
<1>10. ASSUME how = "ok", y.holder # None PROVE y.token.jkt = y.holder
  BY <1>1, <1>4, <1>10 DEF HolderMatches
<1>11. ASSUME how = "unverified", y.token \in minted, a.jwks # "file"
       PROVE  y.jwks.of.id < y.token.key.id
  <2>1. Covers(y.jwks) /\ y.token.key \notin y.jwks.keys
    BY <1>4, <1>8, <1>11 DEF RunOK, Verifies
  <2>2. y.token.key \in Known /\ y.jwks.of \in Known /\ Known \subseteq RingKeys
    BY <1>11, <2>1 DEF AllInv, RingInv, Covers, Known
  <2>3. ~(y.token.key.id <= y.jwks.of.id)
    BY <2>1, <2>2 DEF Covers
  <2>4. y.token.key.id \in Int /\ y.jwks.of.id \in Int
    BY <2>2, KeyIds
  <2> QED
    BY <2>3, <2>4
<1>12. RunOK(a, x)
  BY <1>3, <1>4, <1>7, <1>8, <1>9, <1>10, <1>11 DEF RunOK
<1> QED
  BY <1>1, <1>3, <1>7, <1>8, <1>12, ClientMoveNow

LEMMA AnswerInv ==
  ASSUME AllInv, Next, NEW q \in net, Answer(q)
  PROVE  ClientInv'
<1>1. runs' = runs /\ cmd' = cmd /\ printed' = printed /\ q.type = "request"
  BY DEF Answer, Serve, HandleReplayed, HandleLapsed, HandleExchange, HandleFails,
         HandleRefused, HandleElsewhere, Incoming
<1>2. /\ MessageOK(q) /\ minted \subseteq Tokens /\ runs \in Nat
      /\ q.run \in 1 .. runs /\ q.run \in Nat /\ q.actor \in Nat
      /\ q.proof # None => q.proof.jkt \in Nat
  BY <1>1, Counters DEF AllInv, ClientInv, MessageOK
<1>3. ASSUME NEW m, Reply(q, m) PROVE \A n \in net' : n \in net \/ n = m
  BY <1>3 DEF Reply
<1>4. ASSUME NEW kind \in {"error", "page"}, Reply(q, [type |-> kind, run |-> q.run]),
             minted' = minted
      PROVE  ClientInv'
  <2>1. PICK m : m = [type |-> kind, run |-> q.run]
    OBVIOUS
  <2>2. MessageOK(m)'
    BY <1>1, <1>2, <1>4, <2>1 DEF MessageOK
  <2> QED
    BY <1>1, <1>2, <1>3, <1>4, <2>1, <2>2, ClientRest
<1>5. ASSUME NEW t \in Tokens, Genuine(t)', minted' \subseteq Tokens,
             Reply(q, [type |-> "token", run |-> q.run, token |-> t])
      PROVE  ClientInv'
  <2>1. PICK m : m = [type |-> "token", run |-> q.run, token |-> t]
    OBVIOUS
  <2>2. m.type = "token" /\ m.run = q.run /\ m.token = t
    BY <2>1
  <2>3. MessageOK(m)'
    BY <1>1, <1>2, <1>5, <2>2 DEF MessageOK
  <2> QED
    BY <1>1, <1>3, <1>5, <2>1, <2>3, ClientRest
<1>6. ASSUME NEW s \in Server, HandleReplayed(s, q) \/ HandleLapsed(s, q) \/ HandleFails(s, q)
      PROVE  ClientInv'
  BY <1>4, <1>6 DEF HandleReplayed, HandleLapsed, HandleFails, Denial
<1>7. CASE HandleRefused(q)
  BY <1>4, <1>7 DEF HandleRefused
<1>8. ASSUME NEW s \in Server, HandleExchange(s, q) PROVE ClientInv'
  <2>1. PICK t : t = Token(q, server[s].key, Jkt(q))
    OBVIOUS
  <2>2. /\ minted' = minted \cup {t}
        /\ Reply(q, [type |-> "token", run |-> q.run, token |-> t])
    BY <1>8, <2>1 DEF HandleExchange, Mint
  <2>3. Jkt(q) \in Nat \cup {None}
    BY <1>2 DEF Jkt
  <2>4. server[s].key \in RingKeys
    BY DEF AllInv, RingInv, ServerStates
  <2>5. t \in Tokens
    BY <1>2, <2>1, <2>3, <2>4 DEF Tokens, Token
  <2>6. Genuine(t)' /\ minted' \subseteq Tokens
    BY <1>2, <2>2, <2>5 DEF Genuine
  <2> QED
    BY <1>5, <2>2, <2>5, <2>6
<1>9. CASE HandleElsewhere(q)
  <2>1. PICK j \in {None} \cup (IF q.proof = None THEN {} ELSE {q.proof.jkt}) :
          Reply(q, [type |-> "token", run |-> q.run, token |-> Token(q, ForeignKey, j)])
    BY <1>9 DEF HandleElsewhere
  <2>2. PICK t : t = Token(q, ForeignKey, j)
    OBVIOUS
  <2>3. minted' = minted
    BY <1>9 DEF HandleElsewhere
  <2>4. j \in Nat \cup {None}
    BY <1>2, <2>1
  <2>5. t \in Tokens /\ t.key = ForeignKey
    BY <1>2, <2>2, <2>4 DEF Tokens, Token
  <2>6. Genuine(t)' /\ minted' \subseteq Tokens
    BY <1>2, <2>3, <2>5 DEF Genuine
  <2> QED
    BY <1>5, <2>1, <2>2, <2>5, <2>6
<1> QED
  BY <1>6, <1>7, <1>8, <1>9 DEF Answer, Serve

LEMMA ClientNext ==
  ASSUME AllInv, Next
  PROVE  ClientInv'
<1>1. ASSUME NEW p \in Command, Proceed(p) PROVE ClientInv'
  BY <1>1, ReceiveResponseInv, LoadJwksInv, CheckTokenInv DEF Proceed
<1>2. CASE UNCHANGED <<cmd, net, minted, printed>>
  BY <1>2, ClientRest DEF AllInv, ClientInv
<1>3. ASSUME NEW p \in Command, GenerateKeys(p) PROVE ClientInv'
  BY <1>2, <1>3 DEF GenerateKeys
<1>4. ASSUME NEW id, RotateKey \/ IssueActor \/ IssueAssertion \/ Expire(id) PROVE ClientInv'
  BY <1>2, <1>4 DEF RotateKey, IssueActor, IssueAssertion, Expire
<1>5. ASSUME NEW s \in Server, StartReplica(s) \/ StopReplica(s) PROVE ClientInv'
  BY <1>2, <1>5 DEF StartReplica, StopReplica
<1>6. ASSUME NEW m \in net, Stall(m) PROVE ClientInv'
  <2>1. cmd' = cmd /\ printed' = printed /\ minted' = minted /\ net' \subseteq net
    BY <1>6 DEF Stall
  <2> QED
    BY <2>1, ClientRest DEF AllInv, ClientInv
<1> QED
  BY <1>1, <1>3, <1>4, <1>5, <1>6, RefuseUsageInv, SendExchangeInv, BeginVerifyInv,
     ExchangeCutInv, AnswerInv DEF Next

LEMMA ClientStart == Init => AllInv /\ SharedInv
<1> SUFFICES ASSUME Init PROVE AllInv /\ SharedInv
  OBVIOUS
<1>1. FilesInv /\ RingInv
  BY FilesStart, RingStart DEF Init
<1>2. ClientInv
  <2>1. /\ MaxRuns \in Nat /\ MaxFaults \in Nat
        /\ MaxActors \in Nat \ {0} /\ MaxAssertions \in Nat \ {0}
    BY Bounds DEF Init
  <2>2. /\ NoRun \in ClientStates /\ NoRun.pc = "idle" /\ NoRun.run = 0 /\ NoRun.holder = None
        /\ NoRun.token = None /\ NoRun.jwks = None
    BY DEF NoRun, ClientStates, ClientPCs
  <2>3. \A p \in Command : cmd[p] = NoRun
    BY DEF Init
  <2>4. \A p \in Command : RunOK(Args(p), cmd[p])
    BY <2>2, <2>3 DEF RunOK, Init
  <2> QED
    BY <2>1, <2>2, <2>4 DEF ClientInv, Init
<1>3. SharedInv
  BY DEF Init, SharedInv, OneLiveTokenPerActorToken
<1> QED
  BY <1>1, <1>2, <1>3 DEF AllInv

LEMMA ClientStutter ==
  ASSUME AllInv, SharedInv, UNCHANGED vars
  PROVE  AllInv' /\ SharedInv'
<1>1. UNCHANGED <<script, file, gen, drawn, reported, signing, retained, server, signed, seen,
                  actor, assertion, expired, cmd, net, runs, faults, minted, printed>>
  BY DEF vars, files, ring, issued
<1>2. FilesInv'
  BY <1>1, ScriptFixed DEF AllInv, FilesInv, FileTypes, KeysDiffer, SecretsOwned,
     ReportedTypes, ReportedKeyKept, PublicComplete
<1>3. RingInv'
  BY <1>1 DEF AllInv, RingInv, Covers, Known, Jwks
<1>4. ClientInv'
  <2>1. \A a, x : RunOK(a, x)' <=> RunOK(a, x)
    BY <1>1, ScriptFixed DEF RunOK, Covers, Known, Genuine
  <2>2. \A m : MessageOK(m)' <=> MessageOK(m)
    BY <1>1 DEF MessageOK, Genuine
  <2>3. \A t : Genuine(t)' <=> Genuine(t)
    BY <1>1 DEF Genuine
  <2> QED
    BY <1>1, <2>1, <2>2, <2>3, ScriptFixed
       DEF AllInv, ClientInv, MaxActors, MaxAssertions, MaxRuns, MaxFaults, Perishable
<1>5. SharedInv'
  BY <1>1 DEF SharedInv, OneLiveTokenPerActorToken, Shared
<1> QED
  BY <1>2, <1>3, <1>4, <1>5 DEF AllInv

-------------------------------------------------------------------------------
(***************************************************************************)
(* The theorems.                                                           *)
(***************************************************************************)

\* The inductive invariant of the client, the files, the key ring and the replay
\* stores.
THEOREM ClientInvHolds == Spec => [](AllInv /\ SharedInv)
<1>1. Init => AllInv /\ SharedInv
  BY ClientStart
<1>2. AllInv /\ SharedInv /\ [Next]_vars => AllInv' /\ SharedInv'
  <2> SUFFICES ASSUME AllInv, SharedInv, [Next]_vars PROVE AllInv' /\ SharedInv'
    OBVIOUS
  <2>1. CASE Next
    <3>1. FilesInv' /\ RingInv' /\ ClientInv' /\ SharedInv'
      BY <2>1, FilesNext, RingNext, ClientNext, SharedNext DEF AllInv
    <3> QED
      BY <3>1 DEF AllInv
  <2>2. CASE UNCHANGED vars
    BY <2>2, ClientStutter
  <2> QED
    BY <2>1, <2>2
<1> QED
  BY <1>1, <1>2, PTL DEF Spec

\* The files, the runs and the messages have their types.
THEOREM ClientTypesHold == Spec => []TypeOK
<1>1. AllInv => TypeOK
  <2> SUFFICES ASSUME AllInv PROVE TypeOK
    OBVIOUS
  <2>1. FilesTypeOK
    BY SecretFilesAssumption
       DEF AllInv, FilesInv, FileTypes, FilesTypeOK, Contents, GenPCs
  <2>2. runs \in Nat /\ \A p \in Command : cmd[p] \in ClientStates /\ RunOK(Args(p), cmd[p])
    BY Bounds DEF AllInv, RingInv, ClientInv
  <2>3. ASSUME NEW p \in Command
        PROVE  /\ cmd[p].pc \in {"idle", "sent", "keys", "check"} \cup Endings
               /\ cmd[p].run \in 0 .. runs
               /\ cmd[p].pc \in {"keys", "check", "ok"} => cmd[p].token # None
    BY <2>2 DEF ClientStates, RunOK, ClientPCs
  <2> QED
    BY <2>1, <2>3 DEF AllInv, ClientInv, MessageOK, TypeOK
<1> QED
  BY <1>1, ClientInvHolds, PTL

\* Of the commands that compete for a private key file without --force exactly
\* one succeeds, and what it wrote stays.
THEOREM ClientReportedKeyKept == Spec => []ReportedKeyKept
<1>1. AllInv => ReportedKeyKept
  BY DEF AllInv, FilesInv
<1> QED
  BY <1>1, ClientInvHolds, PTL

\* A public JWKS is that of the private key beside it.
THEOREM ClientPublicMatchesPrivate == Spec => []PublicMatchesPrivate
<1>1. AllInv => PublicMatchesPrivate
  BY ContentsFacts DEF AllInv, FilesInv, PublicComplete, Paired, PublicMatchesPrivate
<1> QED
  BY <1>1, ClientInvHolds, PTL

\* A token that the client reports as verified was minted by this STS.
THEOREM ClientVerifiedIsMinted == Spec => []VerifiedIsMinted
<1>1. AllInv => VerifiedIsMinted
  BY DEF AllInv, ClientInv, RunOK, VerifiedIsMinted
<1> QED
  BY <1>1, ClientInvHolds, PTL

\* A token bound to a holder key is bound to the one that is in the file.
THEOREM ClientHolderBound == Spec => []HolderBound
<1>1. AllInv => HolderBound
  BY DEF AllInv, ClientInv, RunOK, HolderBound, Complete
<1> QED
  BY <1>1, ClientInvHolds, PTL

\* A token of this STS is refused for its signature only in the middle of a
\* rollout, or with saved keys.
THEOREM ClientRefusedOnlyMidRollout == Spec => []RefusedOnlyMidRollout
<1>1. AllInv => RefusedOnlyMidRollout
  BY DEF AllInv, ClientInv, RunOK, RefusedOnlyMidRollout
<1> QED
  BY <1>1, ClientInvHolds, PTL

\* One actor token yields at most one token that is alive when it is minted, when
\* the replicas share a replay directory: whatever expires, and whatever records
\* of expired credentials are dropped.
THEOREM ClientOneLiveTokenPerActorToken == Spec => []OneLiveTokenPerActorToken
<1>1. SharedInv => OneLiveTokenPerActorToken
  BY DEF SharedInv
<1> QED
  BY <1>1, ClientInvHolds, PTL

\* What the clients meet is the key ring that key rotation implements: every
\* step of commands, endpoint and replicas takes one step of KeyRing, or none, on
\* the signing key, the retained keys and what the replicas have loaded.
THEOREM ClientUsesRing == Spec => Ring!Spec
<1>1. Init => Ring!Init
  BY DEF Init
<1>2. RingInv /\ [Next]_vars => [Ring!Next]_(Ring!vars)
  <2> SUFFICES ASSUME RingInv, [Next]_vars PROVE [Ring!Next]_(Ring!vars)
    OBVIOUS
  <2>1. CASE RotateKey
    <3>1. NewKeys \subseteq UNION {Script[x].newKeys : x \in DOMAIN Script}
      BY DEF NewKeys, RingInv
    <3>2. Ring!Stage \/ \E k \in UNION {Script[x].newKeys : x \in DOMAIN Script} : Ring!Swap(k)
      BY <2>1, <3>1 DEF RotateKey
    <3> QED
      BY <3>2 DEF Ring!Next
  <2>2. ASSUME NEW s \in Server, StartReplica(s) \/ StopReplica(s) PROVE Ring!Next
    BY <2>2 DEF StartReplica, StopReplica, Ring!Next, Ring!Serve
  <2>3. ASSUME NEW s \in Server, NEW q \in net, HandleExchange(s, q) PROVE Ring!Next
    <3>1. Ring!SignToken(s)
      BY <2>3 DEF HandleExchange, Mint
    <3> QED
      BY <3>1 DEF Ring!Next, Ring!Serve
  <2>4. CASE UNCHANGED ring
    BY <2>4 DEF ring, Ring!vars
  <2>5. UNCHANGED vars => UNCHANGED ring
    BY DEF vars, ring
  <2> QED
    BY <2>1, <2>2, <2>3, <2>4, <2>5, RingShape
<1>3. AllInv => RingInv
  BY DEF AllInv
<1> QED
  BY <1>1, <1>2, <1>3, ClientInvHolds, PTL DEF Spec, Ring!Spec
===============================================================================
