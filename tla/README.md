# A TLA+ model of sts-delegate-rs

`sts-delegate-rs` is an OAuth 2.0 token-exchange service (RFC 8693). A caller
presents a subject token and either an actor token (delegation) or a client
assertion (impersonation); the service verifies them, downscopes, and signs a
short-lived token bound to one target. This directory models the parts of the
service that keep state or decide who gets which token, checks them with TLC and
proves the central results with TLAPS.

Paths below are relative to the repository (`src/` in `PROJECT.json`). The file
`PROJECT.json` maps every definition to the lines it models and lists the runs,
the mutants, the hazards, the findings and the theorems.

## 1. Inventory

| Component | State | Operations | Interacts with | What makes it correct |
|---|---|---|---|---|
| in-memory replay store (`crates/sts-replay`, `InMemoryReplayStore`) | map jti to exp, `calls_since_sweep`, two mutexes | `check_and_record`, `cache_size` | called by `/token`, `/introspect`, `/revoke` with a clock value read earlier | a key is granted once while its record is unexpired; capacity; expired records never refuse a request |
| file replay store (`FileReplayStore`) | a directory shared by replicas, one counter and mutex per replica | `check_and_record`, `maybe_sweep`, `sweep_expired` | other replicas, through the file system only | one winner per key; a granted record stays on disk until it expires; bounded overshoot of the capacity |
| token endpoint (`crates/sts-http`, `token_inner`) | the request in flight; the replay store | parse, authenticate client, DPoP, subject token, target, scope, actor token, `may_act`, signing policy, replay records, sign | replay store, signer | a refused request burns no credential; reuse is refused while the record lives; a token never exceeds its inputs and policies |
| verification (`crates/sts-verify`), DPoP (`crates/sts-dpop`), policy (`crates/sts-core`) | none | claim and time checks, key binding, target resolution, downscoping, act chain | called by the endpoints | each gate refuses with its own error code, in the order of the code |
| introspection and revocation (`crates/sts-http`, `RevocationState`) | revoked tokens with their exp, one mutex | `introspect`, `revoke`, sweep | replay store (client assertions are burned), published keys | an acknowledged revocation is kept until the token expires and is seen by every later introspection |
| key rotation (`crates/sts-cli`: `key rotate`, `pqc key rotate`) | key file, overlap JWKS file, lock file | lock, read, stage, replace | every replica reads the files when it starts | no key that has signed is lost; a replica publishes every key up to its own, and all of them once it is restarted |
| key generation (`dpop key generate`, `pqc key generate`) | private key file, public JWKS file | create or replace, fill, write the JWKS | the exchange client reads the files | a reported key stays; private and public file belong together |
| exchange client (`exchange`, `token verify`) | none between runs; files it reads | build the request, send it once, fetch the JWKS, check the minted token | key files, replicas, the network | one live token per actor token whatever is lost and run again; a good ending means a token of this STS bound to the holder's key |
| server bootstrap (`crates/sts-http`) | configuration, signer, published keys, trust anchors | parse, check bind address and algorithms, load signer, extra keys and anchors, create the replay directory, bind | files, environment, identity provider | fails closed; never signs with another algorithm than selected; publishes the key it signs with; `bootstrap-check` and `serve` agree |
| configuration (`crates/sts-config`) | none after parsing | parse and normalise the environment | all of the above | rejects inconsistent settings |
| JOSE (`crates/sts-jose`) | signers | sign, verify, backend selection | endpoints, CLI | algorithm allow-lists |
| metrics | counters | update, render | the endpoints; nothing reads them but `/metrics` | |
| routes, metadata, challenge | none | match a path, advertise URLs and algorithms | clients that start from the challenge or the issuer | every advertised URL reaches the handler it is advertised for |
| inspection, `preflight`, `smoke`, `canary` (`crates/sts-cli`) | none | read a file or the environment, print | start-up check | |
| scripts, deployment manifests | none of the service | release and live tests | | |

Hard behaviours: the clock is read up to five times by one request and its
values are used later; other requests sweep and record in between; replicas
share a directory without a lock; a rotation changes two files one after the
other and may be killed in between; replicas are restarted one by one after it,
so they sign and publish different keys for a while; an answer is lost after the
token was minted and its credentials are burned; a key file is read while it is
being written; mutexes may be poisoned by a panic; a restart forgets what only
memory holds. The list with lines is under `hazards`
in `PROJECT.json`.

## 2. Modules

```
ReplaySpec            the promise of trait ReplayStore (abstract)
ReplayTable           what check_and_record computes on the map (operators)
ReplayMemory          InMemoryReplayStore         EXTENDS ReplayTable, INSTANCE ReplaySpec
ReplayFile            FileReplayStore of several replicas      MCReplayFile: instances
TokenPolicy           the stateless gates (operators)
TokenExchange         POST /token     EXTENDS TokenPolicy, ReplayTable
                                                   MCTokenExchange: instances
OnlineEndpoints       POST /introspect, POST /revoke
                                      EXTENDS TokenPolicy, ReplayTable
                                                   MCOnlineEndpoints: instances
KeyRing               what rotation promises the replicas (abstract)
KeyRotation           the rotation commands beside replicas that load the files
                                      INSTANCE KeyRing
                                                   MCKeyRotation: symmetry
SecretFiles           dpop key generate, pqc key generate
ExchangeClient        exchange, token verify against a rotated STS
                                      EXTENDS SecretFiles, INSTANCE KeyRing
                                                   MCExchangeClient: instances
Discovery             routes and advertised URLs (operators)
Bootstrap             serve and bootstrap-check up to the bound port
                                      EXTENDS Discovery
                                                   MCBootstrap: instances
```

Theorems and proofs are in modules of their own: `ReplayTableProofs` (lemmas on the
map, used by the next three), `ReplayMemoryProofs`, `OnlineEndpointsProofs`,
`TokenExchangeProofs`, `ReplayFileProofs`, `KeyRotationProofs`,
`ExchangeClientProofs` (with those of `SecretFiles`) and `BootstrapProofs`.

**ReplaySpec, ReplayTable, ReplayMemory.** The map is the set `seen` of
(key, exp) entries; `calls` is `calls_since_sweep`. A call is two steps: the
handler reads the clock (`Request`), and later `check_and_record` runs under the
mutexes with that stale value, one action per way it ends (`RejectBlank`,
`RejectUnavailable`, `RejectReplay`, `RejectFull`, `Record`). `RejectReplay` comes
before any sweep, as in the code. A panic poisons the mutexes; a restart empties
the store. `ReplaySpec` knows only the clock, the calls and the grants: a key is
granted only when no earlier grant of it is unexpired at the moment of the
answer.

**ReplayFile.** Every file operation of `check_and_record` is a step of its own:
`read_dir`, each `read_exp`, each `remove_file`, the two counts, `create_new`, the
write. The mutex of a replica is held over the periodic sweep only. A file
created during a sweep may or may not be returned by `read_dir`; a read may fail
and counts as "not expired"; any other operation may fail; a replica may crash at
any step. A removed path is removed whatever file is there by then, and the
write goes to the open file even when its path is gone: both matter to the race
below.

**TokenPolicy, TokenExchange.** A token is a record of what verification finds in
it: the boolean `verifies` (signature, algorithm, required claims) and the claims
the gates tell apart. A gate yields `"ok"` or the OAuth error code. The actions
follow `token_inner`: a request reads the clock anew for the client assertion,
the DPoP proof, the subject token and the actor token, and once more (`ReadNow`)
for the value it passes to the replay store and puts into the token. The records
(actor token, client assertion, DPoP proof, in this order) are separate store
calls, so other requests run between them; then the signer succeeds or fails. `MayAct`, the act chain,
downscoping, targets and signing policy are operators of `TokenPolicy`. Identity
prefixes (a key id belongs to the longest registered identity it extends) are a
relation, `extends`, of the configuration. What a run starts with, the configuration
and the requests that will arrive, is one element of the constant `Batch`.

**OnlineEndpoints.** `/introspect` and `/revoke` up to the mutex of
`RevocationState`: authenticate, read the clock, burn the assertion, verify the
access token, then `Lookup` or `Revoke` with a clock value read before. A token is
its own revocation key (the code uses a digest of the token).

**KeyRotation.** `Program` is the order of steps of the command: `key rotate`
takes the lock first, `pqc key rotate` reads both files first. A step may fail (the
lock is dropped) or the process may be killed (the lock file stays until an
operator removes it). A replica reads the key file and then the overlap file, and
a rotation may run in between; it keeps what it read until it is restarted.

**KeyRing.** The same without tools, lock and files: a signing key, the retained
keys, `Stage` and `Swap`, and the replicas. `KeyRotation` implements it with the key
file as the signing key and the overlap file as the retained keys (`ImplementsRing`).
`ExchangeClient` uses it as the STS, so what the client relies on is what rotation
was shown to provide.

**SecretFiles, ExchangeClient.** A command of `sts-cli` is its command line
(`Args`), a script (`Script`) the commands that run side by side. Generating a key
without `--force` creates the file, fills it and reports; with `--force` it is
replaced by a rename; the public JWKS comes last. A command may fail or be killed
at each step. An exchange reads the holder key file as it stands, sends one
request, and never retries: a user runs it again. The network holds requests and
answers; a connection may break before or after the STS has minted, or swallow a
message (`Stall`: the client has no timeout and waits until it is killed), a proxy may
answer with a page that is not JSON. The STS answers in one step (`Answer`): the
replay records, the token, and the signing key of the replica that happens to be
reached. Credentials (actor token, client assertion, proof) are recorded in the code's
order, and a request may fail after any of them, with the ones before it burned. A
credential may expire (`Expire`): from then on its record may be dropped or lost to
a race, so it may be accepted again (`Free`), refused as replayed, or refused as past
its leeway (`HandleLapsed`), and a token minted from an expired actor token is `late`.
Before the expiry a record is one step, which is what `ReplayMemory` and `ReplayFile`
justify: one caller wins (`FileOneWinner`). Taking the records of one request in one
step is justified too: every request records in the same order and stops at the first
refusal, so of two requests that share credentials the winner of the first shared one
can be put before the other. The JWKS is fetched from a replica, maybe another one, after the token
was minted. Every ending of the command is a value of `Endings`.

**Discovery.** Paths are sequences of segments, routes are patterns with one- and
many-segment wildcards, and `Handlers` is the router's precedence. `Bootstrap`
adds the path of the issuer to the environment.

**Bootstrap.** A process holds the list of steps it has left (`Steps`, in the order
of `serve_from_env` and `build_state_from_config`) and what it has loaded; the
first step that fails ends it. The settings are one record `env`: those that
start-up treats alike (each parsed, and refused when malformed) are one flag,
those that interact are fields of their own, with "unset", "true" and any other
value told apart as `parse_bool` does. `read_checked_file` is two steps,
`CheckFileMode` and `ReadFile`, and an operator may replace the file between
them. A file holds a private key, a list of public keys or junk; a key has an
algorithm, an identity, a kid and a flag for the checks on its size and encoding.
Keys fetched over the network are taken without the checks that a file gets, as
in `fetch_jwks`.

## 3. Runs

| Run | Instance | Shows |
|---|---|---|
| `memory_store` | 3 keys and a blank one, room for 2, 2 threads, sweep every 2nd call, exp 0 or 1, clock to 2 (675 136 states) | types, capacity, no unexpired record swept, refinement of `ReplaySpec`, "full" only of unexpired records |
| `file_store` | 2 replicas with 1 worker each, 2 keys and a blank one, room for 1, exp 0 or 1, clock to 1 | grants stay on disk until a record of the key has expired, the capacity is overshot by fewer than the workers, no second winner before that |
| `file_store_race` | 2 replicas, 1 key | **violated**: two winners for one key after an expired record |
| `exchange` | either 2 threads and 3 requests out of 7 that share actor token, client assertion and proof, that reuse a jti with another expiry, or that present one JWT once as actor token and once as client assertion; or one request of each of about 260 kinds under 19 configurations; room for 3 records, leeway 1, clock to 3 (682 794 states) | credentials are burned only after the last gate; none is accepted again before a record of it expires; a token from an assertion reused in the same role is dead when signed; minted tokens stay within subject, actor, scope, key ownership, `may_act`, impersonation and signing policy |
| `actor_reuse` | 2 threads, requests that share an actor token, sweep at every call, leeway 1 | **violated**: two delegations served with one actor token |
| `proof_reuse` | as `exchange`, with one DPoP proof | **violated**: two requests served with one proof |
| `empty_actor` | one request of any kind | **violated**: an empty `actor_token` in impersonation mode |
| `online` | 2 threads, 3 requests out of 10, 3 tokens, room for 2 revocations | stores bounded, acknowledged revocations kept and seen, repeated revocation accepted |
| `rotation_rsa` | 2 competing rotations, 3 new keys, 2 replicas (24 484 states) | the inductive invariant, which includes that no key is lost; each replica's `/jwks` verifies the tokens of every replica up to its own key, a restarted one's all tokens; refinement of `KeyRing` |
| `rotation_pqc_race` | 2 competing rotations | **violated**: the second replaces a key it has not staged |
| `bootstrap` | one `bootstrap-check` beside one `serve`, 31 environments, one change of a file or of the identity provider at any moment (561 847 states) | the signer is the one selected and its tokens verify under `/jwks`; files open to others are refused by a start during which nothing changes; the check foretells the server; from a server that is up, a client that starts at the issuer or at a challenge reaches every endpoint (`DiscoveryCloses`, issuers without and with a path); a start without network ends |
| `client` | 10 scripts of up to 3 commands, up to 2 replicas, one rotation (367 153 states) | one live token per actor token over a shared replay directory, whatever expires; a good ending means a token of this STS, bound to the key in the holder file; a token is refused only in the middle of a rollout or with saved keys; key files stay whole and paired; an exchange with a fresh actor token and client assertion is served after one that burned its own |

Why the bounds are enough: in every store the number of keys exceeds the capacity
by one, so both sweeps, the refusal and the reuse of freed room happen; the
sweep period is small, so periodic and forced sweeps both run; the clock passes
every expiry and every expiry plus leeway, with a step before, at and after the
boundary; two actors are enough for each race the code is exposed to, and a third
request or key shows what the race leaves behind. Three keys let a rotation act
on the result of a rotation that was cut short, and two replicas are each other's
stale peer during a rollout. In `client` every script carries its own bounds: two
runs, so that the second meets what the first left (a burned token, a rotated key);
two actor tokens and client assertions where the retry needs fresh ones; one or two faults, enough for
an answer lost and a restart, or an answer lost and the actor token expired before the
second run. The scripts `pairs` and `forced` only write key
files. Symmetry is used over threads, or
over keys and replicas, in safety runs only.

Fairness is assumed in two runs. `bootstrap`: weak fairness of each process's `LocalStep`, and none of
`Discover` and `FetchJwks`, because the HTTP client sets no timeout and the
identity provider may never answer. The operating system schedules a runnable
thread, and each of these steps is one file or socket operation that returns.
`client`: weak fairness of `Serve` (a replica that is up and has a request answers it:
the handler waits for nobody but a mutex and the file system) and of `Proceed` (a
command whose answer has arrived goes on). A request that was swallowed, found no
replica or went to another STS may stay unanswered for ever, and no property says
that an exchange ends. Nobody has to start a command, a rotation or a replica. Failures
and crashes are not fair: nothing is promised to happen.

Deadlock is checked in every run but `client`, whose scripts end: elsewhere a
restart, a crash or a stop of the server is always possible.

Each property has a mutant: a small change of the modelled code (a comparison
off by one, a dropped guard, a reset left out, two steps swapped) under which TLC
finds the property violated.

## 4. Findings

* `file_store_race`: `check_and_record` of the file store reads an expired record,
  removes the path and creates it in three steps. A replica that read the expired
  record before another one re-created the file removes the new record and wins
  too. The comment on `FileReplayStore` says "exactly one winner". What does hold
  is `OneWinnerUntilExpiry`; and the comment's claim holds as long as a removal meets
  the file that was read (`FileExactlyOneWinner`), so this window is all there is to
  close.
* `actor_reuse`: an actor token is accepted until its expiry plus the leeway, its
  record binds until the expiry. Once another request has swept the record, a second
  delegation with the token is served in the leeway. The ledger (R-102, UC-13, N-21)
  says that an actor token is single-use and its reuse rejected. What does hold:
  the second token expires with the actor token, so it is dead when it is signed
  (`ReuseYieldsDeadToken`).
* `proof_reuse`: a DPoP proof is validated with one clock reading and recorded with
  a later one. When two requests validate it in its last second, a sweep between
  their records lets both through. The ledger (R-104) says single-use.
* `empty_actor`: the flag for an empty `actor_token` is looked at in `both` mode
  only, so in `impersonation` mode such a request mints an impersonation token. The
  ledger (R-097) says it does not.
* `rotation_pqc_race`: `rotate_pqc_key` reads the files before it takes the lock.
  The second of two rotations stages the wrong key and may drop one that has
  signed. The README says each command stages the old key first; for `key rotate`
  this is proved (`RsaOldKeyStaged`), for `pqc key rotate` when no two rotations
  overlap and no `--kid` is given (`PqcSerialOldKeyStaged`).

Met while modelling and not stated as runs: one JWT can serve once as actor token and once
as client assertion, as the two are recorded under different keys; a signer failure leaves the credentials
burned; an introspection delayed past the token's expiry may answer active after
the revocation was swept; `pqc key rotate --kid` with the current key's id hides the
old key from `/jwks`; a `TARGET_POLICY_FILE` that cannot be read counts as no policy
at all, so the check passes and the server refuses every target; the mode of a
file that appears between `check_file_mode` and the read is never looked at; an
issuer spelled `HTTP://` passes `validate_issuer` but not the prefix test of
`parse_bind_addr` (the model's issuers are in lower case); `exchange --output claims
--print-token` prints the claims only, so the minted token is lost although its
actor token is burned; an exchange fetches the JWKS after minting, so a wrong JWKS
URL costs an actor token; with `--force`, or with two commands that share only the
JWKS path, `pqc key generate` can leave a JWKS beside the private key of another run
(the test for an existing file and the rename are two steps); for an issuer with a
path the root alias `/token` stays live but refuses a DPoP proof made for its own
URL; an issuer path below `/.well-known/oauth-protected-resource` passes
`validate_issuer`, and its `mcp` alias then takes the place of the metadata of the
resource `/mcp`.

A `--kid` that repeats breaks `pqc key rotate` without any race: with the current
key's id `published_jwks` leaves the staged old key out, and with a retained key's id
`rotate_pqc_key` filters that key out of the overlap file. TLC shows the second when
`KeyRotationRsa.cfg` is given `Kind = "pqc"`, one `Tool` and `Kids = {0}`, and `NoKeyLost` is
checked. No document promises otherwise, so it is a hazard and not a finding.

## 5. Proofs

TLC checks the instances of section 3; the theorems below hold for every value of
the constants that meets the assumption named in the component's module. In each
module an inductive invariant is proved first, one lemma per action, and the
properties follow from it. Every safety property of a run that passes is proved,
and of the claims that are violated, those about the file store and about rotation
are proved under the condition that the counterexample breaks.

**ReplayTableProofs** has the facts the three users of the map need: a sweep keeps
the unexpired entries, recording keeps the map finite and within the capacity.

**ReplayMemoryProofs**, for any sets of keys and threads, any integers as expiry
times, any `max_seen` and `sweep_every` of at least 1 (`ReplayTableAssumption`,
`ReplayMemoryAssumption`; the constructor and the configuration ensure them):

* `TypeCorrect`, `CapacityHolds`, `RetentionHolds`: `TypeOK`, `CapacityBound`,
  `RetainedUntilExpiry` are invariants. Their conjunction `Inv` is inductive; the
  parts are not by themselves. That a sweep keeps every unexpired record needs that
  the clock value it runs with is not ahead of the clock, which is why
  `RetainedUntilExpiry` also speaks of the calls in flight. That the capacity holds
  after an insertion needs finiteness and the lookup before it.
* `Refinement`: the store implements `ReplaySpec`. `Record` implements `Grant`
  because a binding grant would be in `seen` (`RetainedUntilExpiry`) and the lookup
  would have found it; `RejectReplay` implements `Deny` because `seen` holds only
  what was granted.
* `FullHolds`: the action property `FullOnlyOfUnexpired`.

**ReplayFileProofs**, for any replicas, any finite set of workers, any keys, expiry
times, capacity and sweep period (`ReplayFileAssumption`). `FileInv` says what each
worker relies on at the point where it stands (`JobOK`: whoever is about to remove a
path has seen an expired grant of its key; whoever is about to write still owns the
file it created, or a grant of the key has expired), that there is one file per key
and every written one was granted (`DirOK`), and that a grant's file is on disk until
a grant of the key expires (`GrantsOK`). None of these is inductive alone: a file is
only safe because nobody stands before a removal of it, and nobody does because the
expiry read from the file was one that was granted. `FileTypesHold`,
`FileGrantOnDisk` and the action property `FileOneWinner` follow.
`BoundedOvershoot` counts the workers between the count and `create_new` with the files,
which makes it inductive beside `FileInv` (`FileBoundedOvershoot`).
The violated `ExactlyOneWinner` is proved from a hypothesis on the removals only
(`FileExactlyOneWinner`): `RemovesWhatItRead`, the path a worker is about to remove
holds an expired record or no file. Then every unexpired grant has its file on disk
(`RecordKept`, which `GrantsOK` only says while no grant of the key has expired), and
whoever is about to write finds its own unwritten file at the path (`WriterOwns`); as
there is one file per key, no unexpired grant of that key can exist. The two are
inductive together: a removal spares unwritten files because they are never read as
expired. `ReplaySpec` is not implemented even then: a call
that fails between `create_new` and the write leaves an empty file, and the next one is
answered "replay detected" for a key that was never granted.

**TokenExchangeProofs**, for any finite set of threads, any batches of requests and
configurations with integer times, any leeway and lifetimes (`TokenExchangeAssumption`,
`ReplayTableAssumption`). `ExchangeInv` records for every program counter which gates
the request has passed and that its clock values are not ahead (`ThreadsOK`); that a
minted token was approved and built from a clock reading not after its signature
(`MintedOK`); that every record written by a request in flight or behind a token is
in the store or expired (`AllHeld`); and that any two holders of one replay key are
separated by the expiry of one of their records (`AllApart`). The last two depend on
each other: a second holder gets in only if the first one's record is gone, and it is
gone only once it has expired. From it: `ExchangeTypesHold`,
`ExchangeBurnedOnlyAfterGates`, `ExchangeSingleUse`, `ExchangeReuseYieldsDeadToken` (a
reuse comes after the assertion's expiry, and the token's `exp` is at most that),
`ExchangeMintedWithinGrant` (`MintedOK` keeps, of what each gate approved, what the
token may say: the life, the scope, the longest registered identity of the key id, `sub`
and `iss` of `may_act`, the act chain, the impersonation entry).

**OnlineEndpointsProofs**, for any threads, requests and capacities
(`OnlineEndpointsAssumption`, `ReplayTableAssumption`). `OnlineInv` joins the bounds and
`RevocationKept` with the clock values in flight, for the same reason as in
`ReplayMemory`. `OnlineStoresBounded`, `OnlineRevocationKept`, and the action properties
`OnlineRevokedIsInactive` and `OnlineRepeatedRevocationAccepted`.

**KeyRotationProofs**, for any number of rotation processes, replicas and keys, under
`Kind = "rsa"`: `RsaRotationInv` proves the inductive invariant `RotationInv` of
`KeyRotation`: whoever is past the lock owns it (`ReadsAreCurrent`), so the key and
the overlap it read are still what the files hold, what it stages is a superset of
what was staged, and the replaced key is among it; each replica's key and the keys
that signed are covered by the files (`ServerCovered`). `RsaNoKeyLost`,
`RsaJwksVerifiesMinted`, `RsaRestartedVerifiesAll` and `RsaOldKeyStaged` follow, and with
them `RsaImplementsRing`: a replacement maps to `Swap` because the old key is staged
and the new one is newer than all that are, every other step of a tool to `Stage` or
to a stutter. The same invariant fails for
`pqc key rotate` with two processes (`rotation_pqc_race`). For that command the same
five results are proved under two conditions on the operator, `[]Serial` (no two
rotations at a time) and `Kids = {}` (no `--kid`, so key ids are thumbprints):
`PqcSerialNoKeyLost`, `PqcSerialJwksVerifiesMinted`, `PqcSerialRestartedVerifiesAll`,
`PqcSerialOldKeyStaged`, `PqcSerialImplementsRing`. Their invariant `PqcInv` replaces the lock
by `Serial`: what a tool has read is what the files hold from the first read on, since
nobody else writes before it is done (`PqcReads`). The lemmas on the files and the
servers (`ReplaceFiles`, `ServeFiles`, `FilesVerify`) are the same for both commands. Both
conditions are needed: without the first there is the race, without the second a
`--kid` that repeats (section 4).

**ExchangeClientProofs**, for any scripts, replicas, keys and bounds
(`SecretFilesAssumption`, `ExchangeClientAssumption`: command lines are well formed, key
ids are integers, the forged key is not one of the ring). Four invariants are proved
together (`ClientInvHolds`). `FilesInv`: generated keys differ, a half-written key file
has one owner, a JWKS lies beside the private key it was made from. `RingInv`: retained
keys are older than the signing key and a replica that is up publishes every known key
up to its own. `ClientInv`: what each run and message holds (a verified token was
minted, a bound one is bound to the key the run read). `SharedInv`: the actor token of
every minted token is recorded by some replica, so that a second token from it is
minted only once the actor token has expired, and is then late. `ClientTypesHold`,
`ClientReportedKeyKept`, `ClientPublicMatchesPrivate`, `ClientVerifiedIsMinted`,
`ClientHolderBound`, `ClientRefusedOnlyMidRollout` and `ClientOneLiveTokenPerActorToken` follow.
`ClientUsesRing`: commands, endpoint and replicas take only steps of `KeyRing`, so with
`RsaImplementsRing` and `PqcSerialImplementsRing` the ring is all that has to be known of
the rotation tools here.

**BootstrapProofs**, for any number of checks and servers, any environments, contents
of files, answers of the identity provider and number of changes
(`BootstrapAssumption`: no process is both a check and a server, and the replay path is
absent, a directory or blocked). `BootInv` says that what a process has left is the end
of its list (`OnTrack`), what the steps behind it established whatever changes (`Kept`:
the provider is admissible, the loaded signing keys are accepted, the algorithm
settings were parsed and fit the build), and for a process in
whose time nothing changed, that each step behind it succeeds by a condition
(`Succeeds`) that no longer mentions the process, and that it holds what the files
hold (`Current`); a failed one failed at the first step that does not succeed
(`FailedAt`). The lemmas before it are about the list: which steps occur
(`CommonOccurs`), that the public key is read before the private one and discovery
comes before the fetch (`PublicBeforePrivate`, `DiscoverBeforeFetch`).
`BootTypesHold`, `BootSignerAsSelected`, `BootMintedVerifiable` and
`BootTrustedFilesProtected` follow; `BootCheckPredictsServe` compares two processes:
serve's list is the check's and the bind (`ListsAgree`), so both stop at the same first
step that does not succeed.
`BootDiscoveryCloses` is about the router, for any set of paths over any segments and
any issuer paths that are `Ordinary`: their segments are literal and the first is not
`.well-known` (the second is needed, see section 4; the code does not ask for it). It
takes no induction over sequences. A path that some literal route equals is
dispatched to that route, since no pattern wins over a literal one; the URL of a
resource's metadata that equals none of them is matched by the wildcard alone, whose
handler returns the metadata of the path below it. What is left is that the literal
routes of the issuer path, of the root and of `.well-known` are pairwise distinct, which
the heads and the last segments of the paths decide.

**What the proofs corrected.** Five properties held on the instances and not in
general, and were restated. The requests behind the first two are now part of the run
`exchange`.

* `SingleUseWhileRecorded` assumed that one replay key has one expiry. An issuer may use
  a jti again with another expiry; the second token then comes after one of the two
  records has expired, which need not be the first.
* `ReuseYieldsDeadToken` compared callers only. One JWT can be the actor token of one
  request and the client assertion of another; the roles have separate replay keys, so
  both are served.
* `ReportedKeyKept` and `PublicMatchesPrivate` did not exclude that a command writes its
  JWKS over another's private key (`Replacing`), or one JWKS for two private keys.
* `HolderBound` did not exclude a command that may replace the holder key.

**Only model-checked.**

* Liveness, which needs fairness and is beyond the prover: `StartSettles`,
  `FreshActorTokenServed`.
* That the five violated claims fail: `ExactlyOneWinner`, `OldKeyStaged`, and those about
  single use of an actor token, single use of a DPoP proof and an empty actor token.

## 6. Assumptions and what is left out

* The clock does not step back, and replicas share it. The two clock readings
  inside one verification of an assertion fall in the same second.
* Cryptography, key and token encodings: a signature verifies or does not.
* HTTP framing, TLS, JSON and form syntax beyond what a handler branches on;
  rendering of metadata, OpenAPI, metrics text and CLI output.
* `TokenExchange` runs over the in-memory store; a poisoned replay mutex is modelled
  in `ReplayMemory` and not repeated there. Claims carried through unchanged
  (`auth_time`, `acr`, `amr`) are left out.
* Power loss that reorders the renames of a rotation.
* Metrics: counters that no decision depends on.
* `ReplayFile` takes a count of the directory (`active_entry_count`, a `read_dir` loop) as
  one step. `BoundedOvershoot` does not depend on it: take the worker whose last
  admitting count began latest; every file that is not the last one its creator made
  was there before that count and is there still, so it was counted, and there are fewer than
  `MaxSeen` of them beside at most one file per worker. That a sweep ends
  and its mutex is released in time is left to the guard's drop and the file system.
* `TrustedFilesProtected` is about starts during which nothing changes. The window between
  `check_file_mode` and the read is in the model (`ReplaceFile` may come between the
  two steps) and no property claims that the code closes it. `DiscoveryCloses` is about
  issuer paths outside `/.well-known` (section 4).
* The exchanges of `ExchangeClient` are delegations, with an actor token. Replicas agree
  on what has expired. A command does not check `exp` of the token it verifies, so a
  late token verifies like any other. What a command prints is the set of printed tokens,
  without layout.
* `inspect`, `preflight`, `smoke` and `canary` read and print and have no state;
  `scopes_supported`, cache headers and the static OpenAPI document are data.
* The text of settings (which URL is a valid issuer, how integers and lists are
  read), entries of the target and impersonation policies, the trust-anchor plan
  of `sts-verify` (it has no caller).
* Scripts and deployment manifests have no behaviour of the service.

## 7. Plan

Modelled first because single use and key custody are what the service stands on:
replay stores, token endpoint, revocation, rotation, start-up; then the rollout of
replicas, the exchange client with its key files, and discovery. Next, in this order:

1. Pure operators against reference definitions: target resolution, downscoping,
   longest-prefix key binding, policy normalisation.
2. `TokenExchange` over the file store.
