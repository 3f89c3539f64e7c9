----------------------------- MODULE KeyRotation ------------------------------
(***************************************************************************)
(* Rotation of the STS signing key (`sts-cli key rotate' and `sts-cli pqc  *)
(* key rotate', crates/sts-cli) beside servers that load the files when    *)
(* they start (load_signer and published_jwks, crates/sts-http).  The      *)
(* files are replaced atomically, one after the other, by a process that   *)
(* may fail or be killed between any two steps; a lock file keeps          *)
(* rotations apart and stays behind when its owner is killed.  Replicas    *)
(* are restarted one by one.                                               *)
(***************************************************************************)
EXTENDS Integers, Sequences

CONSTANTS
  Tool,      \* rotation processes, each may rotate again after it ended
  Server,    \* replicas of the STS
  Kind,      \* "rsa" or "pqc": the command the deployment uses
  Kids,      \* key ids an operator may pick with --kid (pqc only)
  MaxKeys,   \* bound on the number of keys generated
  NoTool,    \* the lock file does not exist
  Dead       \* the lock file was left behind by a killed process

ASSUME KeyRotationAssumption ==
  /\ Kind \in {"rsa", "pqc"}
  /\ MaxKeys \in Nat
  /\ NoTool \notin Tool /\ Dead \notin Tool

VARIABLES
  keyFile,   \* the key in OBO_STS_KEY_FILE
  overlap,   \* the keys in OBO_STS_EXTRA_JWKS_FILE
  lock,      \* who created the .rotate.lock file
  tool,      \* tool[p]: how far p got and what it has read
  made,      \* number of keys generated
  server,    \* server[s]: the key s signs with and the keys of its /jwks
  signed     \* history: keys that have signed tokens

vars == <<keyFile, overlap, lock, tool, made, server, signed>>

\* A key generated without --kid gets the thumbprint of its public part.
Key(n, kid) == [id |-> n, kid |-> kid]

FirstKey == Key(0, 0)

Idle == [pc |-> "idle", current |-> FirstKey, keys |-> {}, new |-> FirstKey]

Down == [pc |-> "down", key |-> FirstKey, published |-> {}]

Init ==
  /\ keyFile = FirstKey
  /\ overlap = {}
  /\ lock = NoTool
  /\ tool = [p \in Tool |-> Idle]
  /\ made = 0
  /\ server = [s \in Server |-> Down]
  /\ signed = {}

-------------------------------------------------------------------------------
(***************************************************************************)
(* The rotation commands.  rotate_pqc_key reads both files before it takes *)
(* the lock, rotate_signing_key after.                                     *)
(***************************************************************************)

\* Mutant: the private key is replaced before the old key is staged.
ReplaceFirst ==
  <<"lock", "readKey", "generate", "readOverlap", "replace", "stage", "unlock">>

\* Mutant: the lock is taken after the files were read, whatever the command.
LockAfterReads ==
  <<"readKey", "readOverlap", "lock", "generate", "stage", "replace", "unlock">>

Program ==
  IF Kind = "rsa"
  THEN <<"lock", "readKey", "generate", "readOverlap", "stage", "replace", "unlock">>
  ELSE <<"readKey", "readOverlap", "lock", "generate", "stage", "replace", "unlock">>

After(pc) ==
  LET i == CHOOSE n \in DOMAIN Program : Program[n] = pc
  IN  Program[i + 1]

At(p, pc) == tool[p].pc = pc

Begin(p) ==
  /\ At(p, "idle")
  /\ made < MaxKeys
  /\ tool' = [tool EXCEPT ![p] = [Idle EXCEPT !.pc = Program[1]]]
  /\ UNCHANGED <<keyFile, overlap, lock, made, server, signed>>

\* create_new on the lock file: the command gives up when it exists.
AcquireLock(p) ==
  /\ At(p, "lock")
  /\ \/ /\ lock = NoTool
        /\ lock' = p
        /\ tool' = [tool EXCEPT ![p].pc = After("lock")]
     \/ /\ lock # NoTool
        /\ tool' = [tool EXCEPT ![p] = Idle]
        /\ UNCHANGED lock
  /\ UNCHANGED <<keyFile, overlap, made, server, signed>>

LoadCurrentKey(p) ==
  /\ At(p, "readKey")
  /\ tool' = [tool EXCEPT ![p].pc = After("readKey"), ![p].current = keyFile]
  /\ UNCHANGED <<keyFile, overlap, lock, made, server, signed>>

\* The key id is the thumbprint of the new key unless --kid names another.
GenerateKey(p) ==
  /\ At(p, "generate")
  /\ made < MaxKeys
  /\ made' = made + 1
  /\ \E kid \in {made + 1} \cup (IF Kind = "pqc" THEN Kids ELSE {}) :
       tool' = [tool EXCEPT ![p].pc = After("generate"), ![p].new = Key(made + 1, kid)]
  /\ UNCHANGED <<keyFile, overlap, lock, server, signed>>

LoadExistingOverlap(p) ==
  /\ At(p, "readOverlap")
  /\ tool' = [tool EXCEPT ![p].pc = After("readOverlap"), ![p].keys = overlap]
  /\ UNCHANGED <<keyFile, overlap, lock, made, server, signed>>

\* Mutant: only the key being replaced is kept for overlap.
RetainedCurrentOnly(current, keys, new) == {current}

\* The keys staged for overlap.
Retained(current, keys, new) ==
  {k \in keys : k.kid # current.kid /\ k.kid # new.kid} \cup {current}

StageOverlap(p) ==
  /\ At(p, "stage")
  /\ overlap' = Retained(tool[p].current, tool[p].keys, tool[p].new)
  /\ tool' = [tool EXCEPT ![p].pc = After("stage")]
  /\ UNCHANGED <<keyFile, lock, made, server, signed>>

ReplaceKey(p) ==
  /\ At(p, "replace")
  /\ keyFile' = tool[p].new
  /\ tool' = [tool EXCEPT ![p].pc = After("replace")]
  /\ UNCHANGED <<overlap, lock, made, server, signed>>

DropLock(p) == lock' = IF lock = p THEN NoTool ELSE lock

\* The command returns: RotationLock is dropped.
Unlock(p) ==
  /\ At(p, "unlock")
  /\ DropLock(p)
  /\ tool' = [tool EXCEPT ![p] = Idle]
  /\ UNCHANGED <<keyFile, overlap, made, server, signed>>

\* A read, the generation or a write fails: the files keep their content and
\* the lock, if held, is dropped on the way out.
Fail(p) ==
  /\ tool[p].pc \in {"lock", "readKey", "generate", "readOverlap", "stage", "replace"}
  /\ DropLock(p)
  /\ tool' = [tool EXCEPT ![p] = Idle]
  /\ UNCHANGED <<keyFile, overlap, made, server, signed>>

\* The process is killed: a lock it held stays.
Kill(p) ==
  /\ ~At(p, "idle")
  /\ lock' = IF lock = p THEN Dead ELSE lock
  /\ tool' = [tool EXCEPT ![p] = Idle]
  /\ UNCHANGED <<keyFile, overlap, made, server, signed>>

\* An operator removes the lock file a killed process left.
RemoveDeadLock ==
  /\ lock = Dead
  /\ lock' = NoTool
  /\ UNCHANGED <<keyFile, overlap, tool, made, server, signed>>

-------------------------------------------------------------------------------
(***************************************************************************)
(* The servers.  A server is given the overlap file once the file exists.  *)
(***************************************************************************)

LoadSigner(s) ==
  /\ server[s].pc = "down"
  /\ server' = [server EXCEPT ![s] =
       [pc |-> "loading", key |-> keyFile, published |-> {keyFile}]]
  /\ UNCHANGED <<keyFile, overlap, lock, tool, made, signed>>

\* Mutant: the overlap file is not merged into /jwks.
PublishedSignerOnly(key, extra) == {key}

\* A staged key whose kid the signer uses too is left out.
Published(key, extra) == {key} \cup {k \in extra : k.kid # key.kid}

PublishJwks(s) ==
  /\ server[s].pc = "loading"
  /\ server' = [server EXCEPT ![s] =
       [pc |-> "up", key |-> server[s].key,
        published |-> Published(server[s].key, overlap)]]
  /\ UNCHANGED <<keyFile, overlap, lock, tool, made, signed>>

SignToken(s) ==
  /\ server[s].pc = "up"
  /\ signed' = signed \cup {server[s].key}
  /\ UNCHANGED <<keyFile, overlap, lock, tool, made, server>>

StopServer(s) ==
  /\ server[s].pc # "down"
  /\ server' = [server EXCEPT ![s] = Down]
  /\ UNCHANGED <<keyFile, overlap, lock, tool, made, signed>>

Serve(s) == LoadSigner(s) \/ PublishJwks(s) \/ SignToken(s) \/ StopServer(s)

Rotate(p) ==
  \/ Begin(p)
  \/ AcquireLock(p)
  \/ LoadCurrentKey(p)
  \/ GenerateKey(p)
  \/ LoadExistingOverlap(p)
  \/ StageOverlap(p)
  \/ ReplaceKey(p)
  \/ Unlock(p)
  \/ Fail(p)
  \/ Kill(p)

Next ==
  \/ \E p \in Tool : Rotate(p)
  \/ RemoveDeadLock
  \/ \E s \in Server : Serve(s)

Spec == Init /\ [][Next]_vars

-------------------------------------------------------------------------------
\* Every key that has signed a token is in the key file or staged in the
\* overlap file, whatever rotation was cut short at whatever step: a server
\* restarted from the files can publish it.
NoKeyLost ==
  \A k \in signed : k = keyFile \/ k \in overlap

\* A running server's /jwks verifies every token signed so far, by whichever
\* replica, with its own key or an older one, although it read the two files
\* at different moments of a rotation.  Only the tokens of a replica restarted
\* since from a newer key are beyond it.
JwksVerifiesMinted ==
  \A s \in Server : server[s].pc = "up" =>
    \A k \in signed : k.id <= server[s].key.id => k \in server[s].published

\* A rollout ends well: a replica that signs with the key now in the key file
\* verifies every token of every replica, restarted or not, so once all of
\* them are restarted they verify each other's tokens.
RestartedVerifiesAll ==
  \A s \in Server :
    server[s].pc = "up" /\ server[s].key = keyFile => signed \subseteq server[s].published

-------------------------------------------------------------------------------
(***************************************************************************)
(* Why an RSA rotation loses no key: the files cannot change between the   *)
(* reads and the writes of the tool that holds the lock, so what it stages *)
(* is what it read plus the key it replaces.                               *)
(***************************************************************************)

\* The keys generated so far when every key id is a thumbprint.
Generated(n) == {Key(i, i) : i \in 0 .. n}

ToolStates(n) ==
  [pc : {"idle", "lock", "readKey", "generate", "readOverlap", "stage", "replace",
         "unlock"},
   current : Generated(n), keys : SUBSET Generated(n), new : Generated(n)]

ServerStates(n) ==
  [pc : {"down", "loading", "up"}, key : Generated(n), published : SUBSET Generated(n)]

\* Types, when every key id is a thumbprint.
TypeOK ==
  /\ made \in 0 .. MaxKeys
  /\ keyFile \in Generated(made)
  /\ overlap \in SUBSET Generated(made)
  /\ signed \in SUBSET Generated(made)
  /\ lock \in Tool \cup {NoTool, Dead}
  /\ tool \in [Tool -> ToolStates(made)]
  /\ server \in [Server -> ServerStates(made)]

PastLock == {"readKey", "generate", "readOverlap", "stage", "replace", "unlock"}

\* The keys the two files hold.
OnFile == {keyFile} \cup overlap

\* What a tool past the lock has read is still what the files hold, and the key
\* it generated is newer than all of them.
ReadsAreCurrent ==
  \A p \in Tool :
    /\ tool[p].pc \in PastLock => lock = p
    /\ tool[p].pc \in {"generate", "readOverlap", "stage"} => tool[p].current = keyFile
    /\ tool[p].pc \in {"readOverlap", "stage", "replace"} =>
         \A k \in OnFile : k.id < tool[p].new.id
    /\ At(p, "stage") => tool[p].keys = overlap
    /\ At(p, "replace") => keyFile \in overlap

\* The key file holds the newest key; a server's key is on file, and a running
\* server publishes every key on file up to its own.
ServerCovered ==
  /\ \A k \in overlap : k.id <= keyFile.id
  /\ \A s \in Server :
       /\ server[s].pc # "down" => server[s].key \in OnFile
       /\ server[s].pc = "up" =>
            \A k \in OnFile : k.id <= server[s].key.id => k \in server[s].published

\* The inductive invariant of RSA rotation: a rotation that acts on files
\* changed since it read them, and a server whose key the files no longer
\* hold, are both impossible.
RotationInv ==
  /\ TypeOK
  /\ ReadsAreCurrent
  /\ ServerCovered
  /\ NoKeyLost

-------------------------------------------------------------------------------
\* Claim of the README: each command, `pqc key rotate' too, stages the old
\* public key before it replaces the private key.
OldKeyStaged ==
  [][\A p \in Tool : At(p, "replace") /\ keyFile' # keyFile => keyFile \in overlap]_vars

-------------------------------------------------------------------------------
(***************************************************************************)
(* Tools, lock and files implement the key ring.                           *)
(***************************************************************************)

Ring == INSTANCE KeyRing WITH
  Keys <- Generated(MaxKeys), signing <- keyFile, retained <- overlap,
  Server <- Server, FirstKey <- FirstKey, server <- server, signed <- signed

\* `key rotate' keeps the promise of the key ring whatever tools compete, fail
\* or are killed: to the servers the two files look as if each rotation were
\* one staging followed by one swap to a newer key.
ImplementsRing == Ring!Spec
===============================================================================
