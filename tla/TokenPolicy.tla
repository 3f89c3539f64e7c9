----------------------------- MODULE TokenPolicy ------------------------------
(***************************************************************************)
(* The stateless gates of the token endpoint (token_inner of               *)
(* crates/sts-http and the functions it calls in sts-verify, sts-dpop and  *)
(* sts-core), as operators on a configuration cfg, a request r and, where  *)
(* a gate reads the clock, its value now.  A gate yields "ok" or the OAuth *)
(* error code of the response.                                             *)
(*                                                                         *)
(* Strings are taken after trimming, Blank stands for whitespace only and  *)
(* None for an absent value (an empty form value is absent).  A token is a *)
(* record of what verification finds in it; `verifies' says that its       *)
(* signature checks under the configured keys and algorithms.              *)
(***************************************************************************)
EXTENDS Integers, Sequences, FiniteSets

CONSTANTS
  None,           \* an absent optional value
  Blank,          \* a string of spaces
  Malformed,      \* a claim of the wrong JSON type
  Star,           \* the "*" selector of an impersonation policy
  AbsoluteUris,   \* the target names that are absolute URIs without fragment
  PqcAlgs         \* the signing algorithms that are post-quantum

MaxActDepth == 10

\* gates is a sequence of <<failed, error>> pairs: the error of the first that
\* failed.
FirstError(gates) ==
  LET failed == {i \in DOMAIN gates : gates[i][1]}
  IN  IF failed = {} THEN "ok"
      ELSE gates[CHOOSE i \in failed : \A j \in failed : i <= j][2]

\* The first of two gates that fails; the second is not evaluated otherwise.
Then(a, b) == IF a = "ok" THEN b ELSE a

-------------------------------------------------------------------------------
(***************************************************************************)
(* The request.                                                            *)
(***************************************************************************)

ParseTokenForm(r) ==
  FirstError(<<
    <<~r.urlencoded,      "invalid_request">>,
    <<r.authHeader,       "invalid_client">>,
    <<r.dup = "target",   "invalid_target">>,
    <<r.dup = "other",    "invalid_request">> >>)

InputTypes == {"access_token", "jwt"}

ValidateRequestParams(r) ==
  FirstError(<<
    <<r.grant = None,                                   "invalid_request">>,
    <<r.grant # "token-exchange",                       "unsupported_grant_type">>,
    <<r.subject = None \/ r.subjectType = None,         "invalid_request">>,
    <<r.tooLarge # {},                                  "invalid_request">>,
    <<(r.actor = None) # (r.actorType = None),          "invalid_request">>,
    <<r.subjectType \notin InputTypes,                  "invalid_request">>,
    <<r.actorType \notin InputTypes \cup {None},        "invalid_request">>,
    <<r.requestedType \notin {None, "access_token"},    "invalid_request">> >>)

EffectiveExchangeMode(cfg, r) ==
  IF cfg.mode # "both" THEN cfg.mode
  ELSE IF r.actor # None \/ r.emptyActor THEN "delegation" ELSE "impersonation"

-------------------------------------------------------------------------------
(***************************************************************************)
(* Assertions: the actor token and the client assertion.                   *)
(***************************************************************************)

\* Mutant: a key id that extends the claimed identity is enough.
KidExtendsClaimedIdentity(cfg, a) == a.sub \in a.kid

\* a.kid is the set of identities that the key id equals or extends after a
\* separator; the key belongs to the longest of them that is registered.
KidBelongsToClaimedIdentity(cfg, a) ==
  /\ a.sub \in a.kid
  /\ ~ \E other \in (cfg.actorIds \cup cfg.clientIds) \cap a.kid :
         <<a.sub, other>> \in cfg.extends

NotExpired(cfg, exp, now) == exp + cfg.leeway >= now

AssertionLifetimeOk(cfg, a, now) ==
  a.exp - (IF a.iat = None THEN now ELSE a.iat) <= cfg.assertionMaxTtl + cfg.leeway

VerifyAssertion(cfg, a, now) ==
  /\ a.verifies
  /\ a.iss = a.sub
  /\ a.audOk
  /\ KidBelongsToClaimedIdentity(cfg, a)
  /\ NotExpired(cfg, a.exp, now)
  /\ AssertionLifetimeOk(cfg, a, now)

HasClientAuth(r) ==
  r.assertion # None \/ r.assertionType # None \/ r.clientId # None

\* A blank field, a wrong assertion type or no assertion at all.
ClientAuthMalformed(r) ==
  \/ Blank \in {r.assertion, r.assertionType, r.clientId}
  \/ r.assertionType # "jwt-bearer"
  \/ r.assertion = None

AuthenticateClientIfPresent(cfg, r, now) ==
  LET mode == EffectiveExchangeMode(cfg, r)
      a    == r.assertion
  IN  Then(
        FirstError(<<
          <<mode = "impersonation" /\ r.actor # None,         "invalid_client">>,
          <<mode = "impersonation" /\ ~HasClientAuth(r),      "invalid_client">>,
          <<cfg.clientAuthRequired /\ ~HasClientAuth(r),      "invalid_client">> >>),
        IF ~HasClientAuth(r) THEN "ok"
        ELSE IF ClientAuthMalformed(r) THEN "invalid_client"
        ELSE FirstError(<<
          <<~VerifyAssertion(cfg, a, now),                    "invalid_client">>,
          <<a.sub \notin cfg.clientIds,                       "invalid_client">>,
          <<r.clientId \notin {None, a.sub},                  "invalid_client">>,
          <<a.jti \in {None, Blank},                          "invalid_client">>,
          <<mode = "delegation" /\ r.actor = None,            "invalid_request">> >>))

-------------------------------------------------------------------------------
(***************************************************************************)
(* DPoP.                                                                   *)
(***************************************************************************)

ReplayExpiresAt(cfg, p) == p.iat + cfg.leeway

IatInWindow(cfg, p, now) == p.iat - cfg.leeway <= now /\ now <= p.iat + cfg.leeway

\* Size, compact form, header, embedded public key, signature and jti bound.
DpopProofVerifies(p) == p.verifies

\* htm is POST and htu the token endpoint, after normalising both URIs.
DpopProofForRequest(p) == p.forTokenEndpoint

ValidateDpopHeader(cfg, r, now) ==
  IF r.dpop = None THEN "ok"
  ELSE IF /\ r.dpopHeaders = 1
          /\ DpopProofVerifies(r.dpop)
          /\ DpopProofForRequest(r.dpop)
          /\ IatInWindow(cfg, r.dpop, now)
       THEN "ok"
       ELSE "invalid_dpop_proof"

-------------------------------------------------------------------------------
(***************************************************************************)
(* Subject token, target and scope.                                        *)
(***************************************************************************)

VerifySubjectToken(cfg, s, now) ==
  IF /\ s.verifies
     /\ s.issOk
     /\ NotExpired(cfg, s.exp, now)
     /\ s.nbf # None => s.nbf - cfg.leeway <= now
     /\ s.audOk
  THEN "ok"
  ELSE "invalid_grant"

NamedTargets(r) == {x \in {r.audience, r.resource} : x # None}

ResolvedTarget(r) == CHOOSE x \in NamedTargets(r) : TRUE

ResolveTarget(cfg, r) ==
  IF /\ Cardinality(NamedTargets(r)) = 1
     /\ Blank \notin NamedTargets(r)
     /\ r.resource # None => r.resource \in AbsoluteUris
     /\ ResolvedTarget(r) \in DOMAIN cfg.targets
  THEN "ok"
  ELSE "invalid_target"

Downscope(requested, allowed, subject, boundRequired) ==
  LET result == requested \cap allowed
      bound  == allowed \cap subject
  IN  IF subject # {} /\ (boundRequired \/ bound # {})
      THEN result \cap bound
      ELSE result

\* The scope of the minted token; s.scopes joins the claims scope and scp.
ResolvedScope(cfg, r) ==
  LET policy == cfg.targets[ResolvedTarget(r)]
  IN  Downscope(IF r.scope \in {None, {}} THEN policy.default ELSE r.scope,
                policy.allowed, r.subject.scopes, cfg.scopeBoundRequired)

ResolveScope(cfg, r) ==
  IF r.subject.scopes = Malformed THEN "invalid_request"
  ELSE IF ResolvedScope(cfg, r) = {} THEN "invalid_scope"
  ELSE "ok"

\* Everything token_inner decides once the subject token has been verified.
SubjectGates(cfg, r, now) ==
  Then(VerifySubjectToken(cfg, r.subject, now),
  Then(ResolveTarget(cfg, r),
  Then(ResolveScope(cfg, r),
       IF r.subject.sub = Blank THEN "invalid_grant" ELSE "ok")))

-------------------------------------------------------------------------------
(***************************************************************************)
(* Delegation, impersonation and the signing algorithm.                    *)
(***************************************************************************)

\* m is the may_act claim of the subject token; Malformed also stands for {}.
GateMayAct(m, a) ==
  IF m = None THEN "ok"
  ELSE IF m = Malformed THEN "invalid_request"
  ELSE IF m.sub = a.sub /\ m.iss \in {None, a.iss} THEN "ok"
  ELSE "invalid_request"

PqcFallback(cfg) == cfg.pqcPreferred /\ cfg.alg \notin PqcAlgs

SigningDecisionForTarget(cfg, target) ==
  LET policy == cfg.targets[target]
      pqc    == cfg.alg \in PqcAlgs
  IN  IF \/ policy.accepted # {} /\ cfg.alg \notin policy.accepted
         \/ policy.pqcRequired /\ ~pqc
         \/ cfg.pqcPreferred /\ pqc /\ cfg.alg \notin cfg.pqcPreferredAlgs
         \/ PqcFallback(cfg) /\ ~cfg.allowNonPqc
      THEN "invalid_target"
      ELSE "ok"

VerifyActorToken(cfg, r, now) ==
  /\ VerifyAssertion(cfg, r.actor, now)
  /\ cfg.requireSubjectBinding => r.actor.boundTo = r.subject.id

DelegationGates(cfg, r, now) ==
  IF r.actor = None
  THEN IF HasClientAuth(r) THEN "invalid_request" ELSE "invalid_client"
  ELSE Then(FirstError(<<
              <<~VerifyActorToken(cfg, r, now),       "invalid_client">>,
              <<r.actor.sub \notin cfg.actorIds,      "invalid_client">> >>),
       Then(GateMayAct(r.subject.mayAct, r.actor),
            SigningDecisionForTarget(cfg, ResolvedTarget(r))))

Allows(selector, x) == selector = Star \/ (selector # Star /\ x \in selector)

ImpersonationGates(cfg, r) ==
  LET client == r.assertion.sub
      policy == cfg.impersonation[client]
  IN  IF client \notin DOMAIN cfg.impersonation THEN "invalid_request"
      ELSE IF ~Allows(policy.targets, ResolvedTarget(r)) THEN "invalid_target"
      ELSE IF ~Allows(policy.subjects, r.subject.sub) THEN "invalid_request"
      ELSE SigningDecisionForTarget(cfg, ResolvedTarget(r))

\* The act chain of the subject token is a sequence of actor names; what
\* exchange_delegation checks after it has read the clock.
ActGates(r) ==
  FirstError(<<
    <<r.subject.act = Malformed \/ Len(r.subject.act) > MaxActDepth, "invalid_request">>,
    <<r.actor.jti \in {None, Blank},                                 "invalid_client">> >>)

-------------------------------------------------------------------------------
(***************************************************************************)
(* The minted token.                                                       *)
(***************************************************************************)

ActorKey(r) == <<"act", r.actor.sub, r.actor.jti>>
ClientKey(r) == <<"ca", r.assertion.sub, r.assertion.jti>>
DpopKey(r) == <<"dpop", r.dpop.jkt, r.dpop.jti>>

Least(S) == CHOOSE x \in S : \A y \in S : x <= y

\* Mutant: the token may outlive the assertion that authorised it.
ScopedTokenExpUncapped(cfg, r, now) == Least({now + cfg.scopedTtl, r.subject.exp})

ScopedTokenExp(cfg, r, now) ==
  LET caller == IF EffectiveExchangeMode(cfg, r) = "delegation"
                THEN r.actor ELSE r.assertion
  IN  Least({now + cfg.scopedTtl, r.subject.exp, caller.exp})

BuildScopedPayload(cfg, r, now) ==
  LET delegation == EffectiveExchangeMode(cfg, r) = "delegation"
  IN  [sub      |-> r.subject.sub,
       aud      |-> ResolvedTarget(r),
       scope    |-> ResolvedScope(cfg, r),
       iat      |-> now,
       exp      |-> ScopedTokenExp(cfg, r, now),
       clientId |-> IF delegation THEN r.actor.sub ELSE r.assertion.sub,
       act      |-> IF delegation THEN <<r.actor.sub>> \o r.subject.act ELSE <<>>,
       cnf      |-> IF r.dpop = None THEN None ELSE r.dpop.jkt]
===============================================================================
