----------------------------- MODULE SecretFiles ------------------------------
(***************************************************************************)
(* The commands that write key files for a client (`dpop key generate' and *)
(* `pqc key generate', crates/sts-cli), one step per file operation, run   *)
(* side by side, failing or killed anywhere.  Without --force a private    *)
(* key file is created in place and filled afterwards, so a reader can     *)
(* find it torn; with --force it is replaced by a rename.  The public JWKS *)
(* is written after the private key.                                       *)
(***************************************************************************)
EXTENDS Integers, FiniteSets

CONSTANTS
  Command,    \* invocations of sts-cli, each with its command line
  Path,       \* the files they write and read
  Script,     \* Script[x]: command lines that are run side by side
  MaxDrawn,   \* bound on the number of keys the commands generate
  None

\* None stands beside the contents of a file, and the files the commands write
\* are among the paths; without --public-jwks-out there is no public file.
ASSUME SecretFilesAssumption ==
  /\ MaxDrawn \in Nat
  /\ None \notin [key : Nat, whole : BOOLEAN]
  /\ None \notin Path
  /\ \A x \in DOMAIN Script : \A p \in Command :
       Script[x].args[p].kind \in {"dpop", "pqc"} =>
         /\ Script[x].args[p].out \in Path
         /\ Script[x].args[p].public \in Path \cup {None}
         /\ Script[x].args[p].force \in BOOLEAN

VARIABLES
  script,     \* the script that is run
  file,       \* file[f]: the key a file holds and whether it is all there
  gen,        \* gen[p]: how far command p got and the key it generated
  drawn,      \* number of keys generated
  reported    \* history: keys that commands reported as generated

files == <<file, gen, drawn, reported>>

\* The command line of p.
Args(p) == Script[script].args[p]

Generates(p) == Args(p).kind \in {"dpop", "pqc"}

NotRun == [pc |-> "idle", key |-> 0]

FilesInit ==
  /\ file = [f \in Path |-> None]
  /\ gen = [p \in Command |-> NotRun]
  /\ drawn = 0
  /\ reported = {}

-------------------------------------------------------------------------------
GenAt(p, pc) == Generates(p) /\ gen[p].pc = pc

GenGoto(p, pc) == gen' = [gen EXCEPT ![p].pc = pc]

Write(path, key, whole) == file' = [file EXCEPT ![path] = [key |-> key, whole |-> whole]]

\* write_secret_text: --force decides how the private key is written.
DrawKey(p) ==
  /\ GenAt(p, "idle")
  /\ drawn < MaxDrawn
  /\ drawn' = drawn + 1
  /\ gen' = [gen EXCEPT ![p] = [pc |-> IF Args(p).force THEN "replace" ELSE "create",
                                key |-> drawn + 1]]
  /\ UNCHANGED <<file, reported>>

\* Mutant: an existing file is opened and truncated.
CreateOrTruncateSecret(p) ==
  /\ GenAt(p, "create")
  /\ Write(Args(p).out, gen[p].key, FALSE)
  /\ GenGoto(p, "fill")
  /\ UNCHANGED <<drawn, reported>>

\* Mutant: a file that exists is taken for the command's own.
AdoptExistingSecret(p) ==
  /\ GenAt(p, "create")
  /\ \/ /\ file[Args(p).out] = None
        /\ Write(Args(p).out, gen[p].key, FALSE)
        /\ GenGoto(p, "fill")
     \/ /\ file[Args(p).out] # None
        /\ GenGoto(p, IF Args(p).public = None THEN "idle" ELSE "check")
        /\ UNCHANGED file
  /\ UNCHANGED <<drawn, reported>>

\* create_new: the command gives up when the file exists, torn or not.
CreateSecret(p) ==
  /\ GenAt(p, "create")
  /\ \/ /\ file[Args(p).out] = None
        /\ Write(Args(p).out, gen[p].key, FALSE)
        /\ GenGoto(p, "fill")
     \/ /\ file[Args(p).out] # None
        /\ gen' = [gen EXCEPT ![p] = NotRun]
        /\ UNCHANGED file
  /\ UNCHANGED <<drawn, reported>>

\* write_all.
FillSecret(p) ==
  /\ GenAt(p, "fill")
  /\ Write(Args(p).out, gen[p].key, TRUE)
  /\ GenGoto(p, "written")
  /\ UNCHANGED <<drawn, reported>>

\* atomic_write_text.
ReplaceSecret(p) ==
  /\ GenAt(p, "replace")
  /\ Write(Args(p).out, gen[p].key, TRUE)
  /\ GenGoto(p, "written")
  /\ UNCHANGED <<drawn, reported>>

\* The private key is in place; what is left is the public JWKS, if asked for.
PrivateWritten(p) ==
  /\ GenAt(p, "written")
  /\ \/ /\ Args(p).public # None
        /\ GenGoto(p, IF Args(p).force THEN "publish" ELSE "check")
        /\ UNCHANGED reported
     \/ /\ Args(p).public = None
        /\ gen' = [gen EXCEPT ![p] = NotRun]
        /\ reported' = reported \cup {[path |-> Args(p).out, key |-> gen[p].key]}
  /\ UNCHANGED <<file, drawn>>

\* Without --force an existing public JWKS is refused, once the private key is
\* written.
CheckPublic(p) ==
  /\ GenAt(p, "check")
  /\ gen' = [gen EXCEPT ![p] =
       IF file[Args(p).public] = None THEN [@ EXCEPT !.pc = "publish"] ELSE NotRun]
  /\ UNCHANGED <<file, drawn, reported>>

PublishPublic(p) ==
  /\ GenAt(p, "publish")
  /\ Write(Args(p).public, gen[p].key, TRUE)
  /\ gen' = [gen EXCEPT ![p] = NotRun]
  /\ reported' = reported \cup {[path |-> Args(p).out, key |-> gen[p].key]}
  /\ UNCHANGED drawn

\* A file operation fails or the process is killed; what is written stays.
GenerateCut(p) ==
  /\ Generates(p)
  /\ gen[p].pc # "idle"
  /\ gen' = [gen EXCEPT ![p] = NotRun]
  /\ UNCHANGED <<file, drawn, reported>>

Generate(p) ==
  \/ DrawKey(p)
  \/ CreateSecret(p)
  \/ FillSecret(p)
  \/ ReplaceSecret(p)
  \/ PrivateWritten(p)
  \/ CheckPublic(p)
  \/ PublishPublic(p)
  \/ GenerateCut(p)

-------------------------------------------------------------------------------
FilesTypeOK ==
  /\ script \in DOMAIN Script
  /\ file \in [Path -> {None} \cup [key : 1 .. MaxDrawn, whole : BOOLEAN]]
  /\ drawn \in 0 .. MaxDrawn
  /\ \A p \in Command :
       /\ gen[p].pc \in {"idle", "create", "fill", "replace", "written", "check", "publish"}
       /\ gen[p].key \in 0 .. drawn
       /\ gen[p].pc # "idle" => Generates(p) /\ gen[p].key > 0

\* Commands that may replace the file at path by a rename: with --force the
\* private key, in any case the public JWKS.
Replacing(path) ==
  {p \in Command : /\ Generates(p)
                   /\ (Args(p).force /\ Args(p).out = path) \/ Args(p).public = path}

\* A key reported as generated stays in its file: of the commands that compete
\* for a path without --force exactly one succeeds, and neither a rerun nor a
\* command that was cut short damages what the winner wrote.
ReportedKeyKept ==
  \A r \in reported :
    Replacing(r.path) = {} => file[r.path] = [key |-> r.key, whole |-> TRUE]

\* The public JWKS beside a private key is the public part of that key, at every
\* moment and whatever command was cut short: a deployment never verifies with a
\* key other than the one it signs with.  It takes commands that do not use
\* --force, do not write one JWKS for two private keys (the check for an existing
\* JWKS and its rename are two steps) and keep private keys and JWKS apart.
PublicMatchesPrivate ==
  \A p \in Command :
    /\ Generates(p) /\ Args(p).public # None /\ Replacing(Args(p).out) = {}
    /\ \A q \in Command : Generates(q) =>
         /\ Args(q).out # Args(p).public
         /\ Args(q).public = Args(p).public => Args(q).out = Args(p).out
    /\ file[Args(p).public] # None
    => file[Args(p).out] # None /\ file[Args(p).out] = file[Args(p).public]
===============================================================================
