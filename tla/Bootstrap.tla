------------------------------- MODULE Bootstrap -------------------------------
(***************************************************************************)
(* Start-up of the service: `serve' (serve_from_env) and `bootstrap-check' *)
(* (bootstrap_check_from_env), crates/sts-http.  A process parses the      *)
(* environment, then loads the signer, the published keys and the three    *)
(* trust anchors one file or request after the other, while an operator    *)
(* may replace files and the identity provider may change its answers.     *)
(* Either everything loads and the server binds its port, or it stops with *)
(* the first error.                                                        *)
(***************************************************************************)
EXTENDS Discovery

CONSTANTS
  Checker,      \* processes that run bootstrap-check
  Server,       \* processes that run serve
  Environments, \* the environment (settings and build) of all processes
  InitialFiles, \* the files before the operator changes them
  FileStates,   \* FileStates[f]: what an operator may put in place of file f
  InitialIdp,   \* the identity provider at first
  Paths,        \* the paths that clients ask for
  IdpStates,    \* what the identity provider may answer
  MaxEdits      \* bound on the number of changes by the operator

VARIABLES
  env,     \* the settings, fixed while the processes run
  files,   \* the files the settings name
  idp,     \* the identity provider as seen over the network
  dir,     \* STS_REPLAY_DIR: "absent", "directory" or "blocked"
  edits,   \* number of changes by the operator
  proc     \* proc[p]: what p has left to do and what it has loaded

vars == <<env, files, idp, dir, edits, proc>>

Process == Checker \cup Server

\* The files that are read with read_checked_file, by what they are for.
Role == {"key", "public", "mockKey", "extra", "idp", "actor", "client"}

File == Role \cup {"policy"}

ASSUME BootstrapAssumption ==
  /\ Checker \cap Server = {}
  /\ MaxEdits \in Nat
  /\ DOMAIN InitialFiles = File
  /\ \A e \in Environments : e.replayDir \in {"absent", "directory", "blocked"}

PqcAlgs == {"ML-DSA-44", "ML-DSA-65", "ML-DSA-87"}

-------------------------------------------------------------------------------
(***************************************************************************)
(* The settings (crates/sts-config).                                       *)
(***************************************************************************)

\* Only "true" is true; any other value that is set is false.
Bool(flag, default) == IF flag = "unset" THEN default ELSE flag = "true"

AllowNonPqcInbound(e) ==
  Bool(e.nonPqcInbound, ~Bool(e.pqcInbound, TRUE))

InboundAlgs(e) ==
  IF e.inboundAlgs # {}
  THEN e.inboundAlgs
  ELSE (IF Bool(e.pqcInbound, TRUE) THEN {"ML-DSA-65"} ELSE {})
         \cup (IF AllowNonPqcInbound(e) THEN {"RS256"} ELSE {})

InboundAlgsParse(e) ==
  /\ InboundAlgs(e) # {}
  /\ InboundAlgs(e) \subseteq PqcAlgs \cup {"RS256"}
  /\ "RS256" \in InboundAlgs(e) => AllowNonPqcInbound(e)

\* TARGET_POLICY_JSON wins; a policy file that cannot be read counts as none.
TargetPolicy(e, file) ==
  IF e.policyJson # "unset" THEN e.policyJson
  ELSE IF "policy" \in e.named /\ file.present THEN file.content.form
  ELSE "empty"

\* RuntimeConfig::from_source.
ConfigParses(e, policyFile) ==
  /\ e.settings = "valid"
  /\ InboundAlgsParse(e)
  /\ e.issuer # "invalid"
  /\ TargetPolicy(e, policyFile) # "junk"
  /\ e.replay # "invalid"

\* The override that lets a group- or world-writable file pass.
Override(e, role) ==
  CASE role \in {"key", "mockKey"} -> Bool(e.insecureKey, FALSE)
    [] role \in {"public", "extra", "idp"} -> Bool(e.insecureJwks, FALSE)
    [] role = "actor" -> Bool(e.insecureActor, FALSE)
    [] role = "client" -> Bool(e.insecureClient, Bool(e.insecureActor, FALSE))

\* CLIENT_JWKS_FILE defaults to ACTOR_JWKS_FILE.
Path(e, role) == IF role = "client" /\ "client" \notin e.named THEN "actor" ELSE role

\* BackendSelection::parse.
Selection(e) ==
  CASE e.signingAlg = "unset" -> "ML-DSA-65"
    [] e.signingAlg = "classical" -> "RS256"
    [] OTHER -> e.signingAlg

-------------------------------------------------------------------------------
(***************************************************************************)
(* File contents.  A private key file holds one key, as PEM or as a JWK; a *)
(* public file holds a list of keys; "junk" is anything that cannot be     *)
(* parsed.  A key has an algorithm, an identity (private and public part   *)
(* share it), a kid ("none" when the file gives none) and is sound when it *)
(* is long enough, for signatures, well encoded and, in a public file,     *)
(* free of private members.                                                *)
(***************************************************************************)

Nothing == [form |-> "none", keys |-> <<>>]

\* load_public_jwks_file and normalize_public_jwks_value.
PublicFileAccepted(content) ==
  /\ content.form = "jwks"
  /\ content.keys # <<>>
  /\ \A i \in DOMAIN content.keys : content.keys[i].sound

\* What a lookup by kid can find: the first key with each kid.
Findable(keys) ==
  {keys[i] : i \in {n \in DOMAIN keys : \A m \in 1..(n - 1) : keys[m].kid # keys[n].kid}}

\* MlDsaJoseSigner::from_private_jwk_for_backend, behind the build feature.
PqcKeyAccepted(e, content) ==
  /\ e.pqcBuild
  /\ Selection(e) \in PqcAlgs
  /\ content.form = "jwk"
  /\ content.keys[1].alg = Selection(e)
  /\ content.keys[1].sound

\* RsaJoseSigner::from_pkcs1_pem and from_private_jwk.
RsaKeyAccepted(content) ==
  /\ content.form \in {"pem", "jwk"}
  /\ content.keys[1].alg = "RS256"
  /\ content.keys[1].sound

\* Mutant: a PQC selection the build cannot serve falls back to RSA.
FallBackToRsa(e, content) ==
  IF Selection(e) \in PqcAlgs /\ e.pqcBuild
  THEN PqcKeyAccepted(e, content)
  ELSE RsaKeyAccepted(content)

\* load_file_signer: every selection but the classical one asks for PQC.
SigningKeyAccepted(e, content) ==
  IF Selection(e) # "RS256"
  THEN PqcKeyAccepted(e, content)
  ELSE RsaKeyAccepted(content)

\* load_mock_external_signer: the public key of the configured kid.
ExternalPublicKeys(e, content) == {k \in Findable(content.keys) : k.kid = e.kid}

\* Mutant: no token is signed and verified before the signer is used.
NoSelfCheck(e, public, content) ==
  /\ content.form = "jwk"
  /\ RsaKeyAccepted(content)
  /\ \A k \in ExternalPublicKeys(e, public) : k.alg = "RS256"

\* The provider's key is an RSA JWK, the public key is one for RS256, and a
\* token signed by the provider verifies under it.
ExternalSignerAccepted(e, public, content) ==
  /\ content.form = "jwk"
  /\ RsaKeyAccepted(content)
  /\ \A k \in ExternalPublicKeys(e, public) :
       k.alg = "RS256" /\ k.id = content.keys[1].id

Accepted(e, role, loaded, content) ==
  CASE role = "key" -> SigningKeyAccepted(e, content)
    [] role = "public" -> /\ PublicFileAccepted(content)
                          /\ ExternalPublicKeys(e, content) # {}
    [] role = "mockKey" -> ExternalSignerAccepted(e, loaded["public"], content)
    [] OTHER -> PublicFileAccepted(content)

\* The key that signs and the kid in the tokens it signs.
Signer(e, loaded) ==
  LET key == loaded[IF e.provider = "file" THEN "key" ELSE "mockKey"].keys[1]
  IN  [alg |-> key.alg, id |-> key.id,
       kid |-> IF e.provider = "file" /\ key.kid # "none" THEN key.kid ELSE e.kid]

OwnPublicKeys(e, loaded) ==
  IF e.provider = "file"
  THEN {Signer(e, loaded)}
  ELSE {[alg |-> k.alg, id |-> k.id, kid |-> k.kid] :
          k \in ExternalPublicKeys(e, loaded["public"])}

\* published_jwks: the extra keys whose kid is not taken are added.
Published(e, loaded) ==
  LET own == OwnPublicKeys(e, loaded)
      extra == {[alg |-> k.alg, id |-> k.id, kid |-> k.kid] :
                  k \in Findable(loaded["extra"].keys)}
  IN  own \cup {k \in extra : \A o \in own : o.kid # k.kid}

-------------------------------------------------------------------------------
(***************************************************************************)
(* The order of the steps.  read_checked_file is two of them: the mode is  *)
(* checked on the path, then the path is read.                             *)
(***************************************************************************)

Load(role) == << <<"check", role>>, <<"read", role>> >>

SignerSteps(e) ==
  IF e.provider = "mock-external" THEN Load("public") \o Load("mockKey") ELSE Load("key")

SubjectSteps(e) ==
  IF "idp" \in e.named THEN Load("idp")
  ELSE (IF e.idpUri = "unset" THEN << <<"discover", "idp">> >> ELSE <<>>)
         \o << <<"fetch", "idp">> >>

\* build_state_from_config.
BuildState(e) ==
  << <<"inbound", "config">>, <<"provider", "config">> >> \o SignerSteps(e)
    \o (IF "extra" \in e.named THEN Load("extra") ELSE <<>>)
    \o SubjectSteps(e) \o Load("actor") \o Load("client")
    \o << <<"replay", "dir">> >>

\* Mutant: bootstrap-check does not look at the bind address.
StepsWithoutAddr(p, e) ==
  << <<"config", "config">> >>
    \o (IF p \in Server THEN << <<"addr", "config">> >> ELSE <<>>)
    \o BuildState(e)
    \o (IF p \in Server THEN << <<"bind", "port">> >> ELSE <<>>)

\* serve_from_env and bootstrap_check_from_source.
Steps(p, e) ==
  << <<"config", "config">>, <<"addr", "config">> >> \o BuildState(e)
    \o (IF p \in Server THEN << <<"bind", "port">> >> ELSE <<>>)

Idle ==
  [pc |-> "idle", todo |-> <<>>, since |-> 0, at |-> "none", uri |-> "unset",
   targets |-> "empty", loaded |-> [r \in Role |-> Nothing]]

Init ==
  /\ env \in Environments
  /\ files = InitialFiles
  /\ idp = InitialIdp
  /\ dir = env.replayDir
  /\ edits = 0
  /\ proc = [p \in Process |-> Idle]

At(p, op) == proc[p].pc = "running" /\ Head(proc[p].todo)[1] = op

Subject(p) == Head(proc[p].todo)[2]

\* Mutant: the last step does not end the start.
AdvanceForever(r) == [r EXCEPT !.todo = Tail(@)]

Advance(r) ==
  [r EXCEPT !.todo = Tail(@), !.pc = IF Len(r.todo) = 1 THEN "done" ELSE "running"]

\* The first error ends the process; what was loaded is dropped.
Refuse(r) == [Idle EXCEPT !.pc = "failed", !.since = r.since, !.at = Head(r.todo)[1]]

\* The step at hand succeeds exactly when ok holds and then yields r.
Resolve(p, ok, r) ==
  /\ proc' = [proc EXCEPT ![p] = IF ok THEN Advance(r) ELSE Refuse(@)]
  /\ UNCHANGED <<env, files, idp, edits>>

Begin(p) ==
  /\ proc[p].pc = "idle"
  /\ proc' = [proc EXCEPT ![p] = [Idle EXCEPT !.pc = "running", !.since = edits,
                                              !.todo = Steps(p, env), !.uri = env.idpUri]]
  /\ UNCHANGED <<env, files, idp, dir, edits>>

LoadConfig(p) ==
  /\ At(p, "config")
  /\ Resolve(p, ConfigParses(env, files["policy"]),
             [proc[p] EXCEPT !.targets = TargetPolicy(env, files["policy"])])
  /\ UNCHANGED dir

\* A plaintext issuer is served on a loopback address only.
ParseBindAddr(p) ==
  /\ At(p, "addr")
  /\ Resolve(p, /\ env.addr # "invalid"
                /\ \/ env.issuer # "http"
                   \/ env.addr = "loopback"
                   \/ Bool(env.insecureBind, FALSE),
             proc[p])
  /\ UNCHANGED dir

ValidateInboundAlgs(p) ==
  /\ At(p, "inbound")
  /\ Resolve(p, InboundAlgs(env) \cap PqcAlgs # {} => env.pqcBuild, proc[p])
  /\ UNCHANGED dir

SelectProvider(p) ==
  /\ At(p, "provider")
  /\ Resolve(p, \/ env.provider = "file"
                \/ /\ env.provider = "mock-external"
                   /\ Selection(env) = "RS256"
                   /\ {"public", "mockKey"} \subseteq env.named,
             proc[p])
  /\ UNCHANGED dir

\* Mutant: the client file is checked with the actor file's override.
CheckWithActorOverride(p) ==
  /\ At(p, "check")
  /\ LET role == Subject(p)
         file == files[Path(env, role)]
     IN  Resolve(p, ~file.present \/ ~file.writable
                      \/ Override(env, IF role = "client" THEN "actor" ELSE role),
                 proc[p])
  /\ UNCHANGED dir

\* check_file_mode: a file without metadata passes, and then fails to be read.
CheckFileMode(p) ==
  /\ At(p, "check")
  /\ LET file == files[Path(env, Subject(p))]
     IN  Resolve(p, ~file.present \/ ~file.writable \/ Override(env, Subject(p)), proc[p])
  /\ UNCHANGED dir

\* Mutant: a missing file is waited for.
ReadWhenPresent(p) ==
  /\ At(p, "read")
  /\ LET role == Subject(p)
         file == files[Path(env, role)]
     IN  IF file.present
         THEN Resolve(p, Accepted(env, role, proc[p].loaded, file.content),
                      [proc[p] EXCEPT !.loaded[role] = file.content])
         ELSE UNCHANGED <<env, files, idp, edits, proc>>
  /\ UNCHANGED dir

ReadFile(p) ==
  /\ At(p, "read")
  /\ LET role == Subject(p)
         file == files[Path(env, role)]
     IN  Resolve(p, file.present /\ Accepted(env, role, proc[p].loaded, file.content),
                 [proc[p] EXCEPT !.loaded[role] = file.content])
  /\ UNCHANGED dir

\* discover_document, and the comparison of the issuers in resolve_idp_jwks.
Discover(p) ==
  /\ At(p, "discover")
  /\ Resolve(p, idp.up /\ idp.issuer = "configured", [proc[p] EXCEPT !.uri = idp.jwksUri])
  /\ UNCHANGED dir

\* fetch_jwks: the keys are taken as they come, without the checks of a file.
FetchJwks(p) ==
  /\ At(p, "fetch")
  /\ Resolve(p, proc[p].uri = "https" /\ idp.up,
             [proc[p] EXCEPT !.loaded["idp"] = [form |-> "jwks", keys |-> idp.keys]])
  /\ UNCHANGED dir

\* build_replay_policy: the file store creates its directory, also in a check.
BuildReplayPolicy(p) ==
  /\ At(p, "replay")
  /\ Resolve(p, env.replay = "file" => dir # "blocked", proc[p])
  /\ dir' = IF env.replay = "file" /\ dir = "absent" THEN "directory" ELSE dir

\* The port may be taken by another process.
Bind(p) ==
  /\ At(p, "bind")
  /\ \E free \in BOOLEAN : Resolve(p, free, proc[p])
  /\ UNCHANGED dir

\* The process has printed its result, or the server is stopped.
Exit(p) ==
  /\ proc[p].pc \in {"done", "failed"}
  /\ proc' = [proc EXCEPT ![p] = Idle]
  /\ UNCHANGED <<env, files, idp, dir, edits>>

LocalStep(p) ==
  \/ LoadConfig(p) \/ ParseBindAddr(p) \/ ValidateInboundAlgs(p) \/ SelectProvider(p)
  \/ CheckFileMode(p) \/ ReadFile(p) \/ BuildReplayPolicy(p) \/ Bind(p)

ReplaceFile(f) ==
  /\ edits < MaxEdits
  /\ \E s \in FileStates[f] \ {files[f]} : files' = [files EXCEPT ![f] = s]
  /\ edits' = edits + 1
  /\ UNCHANGED <<env, idp, dir, proc>>

ChangeIdp ==
  /\ edits < MaxEdits
  /\ idp' \in IdpStates \ {idp}
  /\ edits' = edits + 1
  /\ UNCHANGED <<env, files, dir, proc>>

Next ==
  \/ \E p \in Process :
       Begin(p) \/ LocalStep(p) \/ Discover(p) \/ FetchJwks(p) \/ Exit(p)
  \/ \E f \in File : ReplaceFile(f)
  \/ ChangeIdp

\* A process that runs is scheduled and file operations return; the identity
\* provider may never answer, as the client sets no timeout.
Spec ==
  /\ Init /\ [][Next]_vars
  /\ \A p \in Process : WF_vars(LocalStep(p))

-------------------------------------------------------------------------------
(***************************************************************************)
(* Properties.                                                             *)
(***************************************************************************)

\* Types: a process runs exactly while it has steps left, and whoever failed
\* or is idle holds nothing it loaded (BuildState returns all or nothing).
TypeOK ==
  /\ env \in Environments
  /\ DOMAIN files = File
  /\ dir \in {"absent", "directory", "blocked"}
  /\ edits \in 0..MaxEdits
  /\ \A p \in Process :
       /\ proc[p].pc \in {"idle", "running", "done", "failed"}
       /\ proc[p].since \in 0..edits
       /\ (proc[p].pc = "running") <=> (proc[p].todo # <<>>)
       /\ proc[p].pc \in {"idle", "failed"} => \A r \in Role : proc[p].loaded[r] = Nothing

Up(p) == p \in Server /\ proc[p].pc = "done"

\* Nothing was changed since p began.
Undisturbed(p) == proc[p].since = edits

\* The files that e makes the server load.
LoadedRoles(e) ==
  {"actor", "client"}
    \cup (IF e.provider = "file" THEN {"key"} ELSE {"public", "mockKey"})
    \cup (e.named \cap {"extra", "idp"})

\* A server signs with the algorithm that was selected: a PQC or an unknown
\* selection never ends in an RS256 signer, whatever key file, build and
\* provider it meets (load_signer, BackendSelection; ledger R-081).
SignerAsSelected ==
  \A p \in Process : Up(p) => Signer(env, proc[p].loaded).alg = Selection(env)

\* A token the server signs verifies under the key its /jwks gives for the
\* token's kid, whatever the extra file and the provider's public key file
\* hold and whenever they were replaced (published_jwks,
\* verify_external_signer_at_bootstrap).
MintedVerifiable ==
  \A p \in Process : Up(p) =>
    LET signer == Signer(env, proc[p].loaded)
    IN  {k \in Published(env, proc[p].loaded) : k.kid = signer.kid} = {signer}

\* As long as nothing is changed from the moment a server begins to start, no
\* file it loaded is open to others for writing, unless the override for what
\* this file is used as was given (the fallbacks of CLIENT_JWKS_FILE and
\* ALLOW_INSECURE_CLIENT_JWKS: one file may be loaded for two uses with two
\* overrides).  Nothing is promised of a start that a change disturbs:
\* read_checked_file checks the mode of the path and then reads the path, and a
\* file put there in between is loaded whatever its mode.
TrustedFilesProtected ==
  \A p \in Process : Up(p) /\ Undisturbed(p) =>
    \A role \in LoadedRoles(env) :
      /\ files[Path(env, role)].present
      /\ files[Path(env, role)].writable =>
           CASE role \in {"key", "mockKey"} -> env.insecureKey = "true"
             [] role \in {"public", "extra", "idp"} -> env.insecureJwks = "true"
             [] role = "actor" -> env.insecureActor = "true"
             [] role = "client" ->
                  \/ env.insecureClient = "true"
                  \/ env.insecureClient = "unset" /\ env.insecureActor = "true"

\* bootstrap-check says what serve will do: as long as nothing is changed, a
\* server stops before it binds exactly when the check fails, and at the same
\* step, although the check itself creates the replay directory; what a
\* passing check has loaded is what the server serves with
\* (bootstrap_check_from_source, serve_from_env; README, Runtime bootstrap).
CheckPredictsServe ==
  \A c \in Checker, s \in Server :
    Undisturbed(c) /\ Undisturbed(s) =>
      /\ proc[c].pc = "done" /\ proc[s].pc = "failed" => proc[s].at = "bind"
      /\ proc[c].pc = "failed" => ~Up(s)
      /\ proc[c].pc = "done" /\ Up(s) =>
           /\ proc[s].loaded = proc[c].loaded
           /\ proc[s].targets = proc[c].targets
      /\ proc[c].pc = "failed" /\ proc[s].pc = "failed" => proc[s].at = proc[c].at

\* The paths of issuers whose discovery closes.
Closing ==
  {at \in {e.issuerPath : e \in Environments} :
     /\ \A path \in Paths \cup {at} :
          path = at \/ "challenge" \in Handlers(at, path) =>
            LET url == ResourceMetadataUrl(path)
            IN  Handlers(at, url) = {"resource"} /\ ResourceIdentifier(url) = path
     /\ Handlers(at, AuthorizationServer \o at) = {"metadata"}
     /\ \A r \in Advertised(at) : Handlers(at, r.path) = {r.handler}}

\* Discovery from the server that is up closes: a challenged path leads to the
\* metadata of exactly that resource, the authorization server named there (the
\* issuer, which is a resource itself) is found where RFC 8414 puts it, each
\* endpoint it advertises reaches its own handler although wildcard routes
\* overlap, and this build can verify every assertion algorithm it advertises
\* (router, metadata, protected_resource_challenge; ledger R-023D, R-023E, R-024,
\* R-030).  The issuer paths of the run are not below /.well-known.  One below
\* /.well-known/oauth-protected-resource, which validate_issuer accepts, breaks
\* it: its mcp alias takes the place of the metadata of the resource /mcp.
DiscoveryCloses ==
  \A p \in Process : Up(p) =>
    /\ env.issuerPath \in Closing
    /\ \A alg \in InboundAlgs(env) : alg = "RS256" \/ (alg \in PqcAlgs /\ env.pqcBuild)

\* A start that needs no network ends: the server is up or the process failed,
\* also when files are missing or change meanwhile.
StartSettles ==
  \A p \in Process :
    (proc[p].pc = "running" /\ "idp" \in env.named) ~> (proc[p].pc # "running")

===============================================================================
