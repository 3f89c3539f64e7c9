--------------------------- MODULE MCTokenExchange ----------------------------
(***************************************************************************)
(* Small instances of TokenExchange: two targets, an actor, a client that  *)
(* may impersonate, tokens that expire at time 1 or 3, a leeway of one     *)
(* second, and requests that share credentials.                            *)
(***************************************************************************)
EXTENDS TokenExchange, TLC

CONSTANTS t1, t2

BaseConfig ==
  [mode |-> "both", clientAuthRequired |-> FALSE, requireSubjectBinding |-> TRUE,
   actorIds |-> {"agent"}, clientIds |-> {"client"},
   extends |-> {}, leeway |-> 1, assertionMaxTtl |-> 1, scopedTtl |-> 2,
   scopeBoundRequired |-> TRUE,
   targets |-> ("api" :> [allowed |-> {"read", "write"}, default |-> {"read"},
                          accepted |-> {}, pqcRequired |-> FALSE]
             @@ "pqc" :> [allowed |-> {"read"}, default |-> {},
                          accepted |-> {"ML-DSA-65"}, pqcRequired |-> TRUE]),
   impersonation |-> ("client" :> [targets |-> Star, subjects |-> {"user"}]),
   alg |-> "RS256", pqcPreferred |-> FALSE, pqcPreferredAlgs |-> {"ML-DSA-65"},
   allowNonPqc |-> TRUE]

Subject ==
  [id |-> "s1", verifies |-> TRUE, issOk |-> TRUE, audOk |-> TRUE, exp |-> 3,
   nbf |-> None, sub |-> "user", scopes |-> {"read"}, mayAct |-> None, act |-> <<>>]

Actor ==
  [verifies |-> TRUE, iss |-> "agent", sub |-> "agent", audOk |-> TRUE,
   kid |-> {"agent"}, exp |-> 1, iat |-> 0, boundTo |-> "s1", jti |-> "j1"]

FreshActor == [Actor EXCEPT !.exp = 3, !.iat = 2, !.jti = "j2"]

\* An actor token with a longer life whose issuer has reused the jti.
ReusedJti == [Actor EXCEPT !.exp = 3, !.iat = 2]

Client ==
  [verifies |-> TRUE, iss |-> "client", sub |-> "client", audOk |-> TRUE,
   kid |-> {"client"}, exp |-> 1, iat |-> None, boundTo |-> None, jti |-> "j1"]

Proof ==
  [verifies |-> TRUE, forTokenEndpoint |-> TRUE, iat |-> 0, jti |-> "j1", jkt |-> "thumb"]

Delegation ==
  [urlencoded |-> TRUE, authHeader |-> FALSE, dup |-> "none", grant |-> "token-exchange",
   subject |-> Subject, subjectType |-> "jwt", actor |-> Actor, emptyActor |-> FALSE,
   actorType |-> "jwt", requestedType |-> None, tooLarge |-> {}, audience |-> "api",
   resource |-> None, scope |-> {"read", "write"}, clientId |-> None,
   assertion |-> None, assertionType |-> None, dpop |-> None, dpopHeaders |-> 0]

WithClient(r) == [r EXCEPT !.assertion = Client, !.assertionType = "jwt-bearer",
                           !.clientId = "client"]
WithProof(r) == [r EXCEPT !.dpop = Proof, !.dpopHeaders = 1]
Later(r) == [r EXCEPT !.actor = FreshActor]

Impersonation == WithClient([Delegation EXCEPT !.actor = None, !.actorType = None])

\* The actor token again, as the client assertion of an agent that is also a
\* client.
ActorAsClient == [Impersonation EXCEPT !.assertion = Actor, !.clientId = None]
BadTarget(r) == [r EXCEPT !.audience = "other"]

\* Requests that compete for the same actor token, client assertion and proof.
Competing ==
  {Delegation,
   WithProof(WithClient(Delegation)),
   WithClient(Later(Delegation)),
   WithProof(Impersonation),
   [Delegation EXCEPT !.actor = ReusedJti],
   ActorAsClient,
   BadTarget(WithProof(WithClient(Delegation)))}

Proofs == {WithProof(Delegation), WithProof(Later(Delegation)), Impersonation}

-------------------------------------------------------------------------------
(***************************************************************************)
(* One request at a time, of every kind the gates tell apart.              *)
(***************************************************************************)

Chain(n) == [i \in 1 .. n |-> "prior"]

SubjectVariants ==
  {Subject}
    \cup {[Subject EXCEPT !.mayAct = m] :
            m \in {Malformed, [sub |-> "agent", iss |-> None], [sub |-> "agent", iss |-> "x"],
                   [sub |-> "other", iss |-> None]}}
    \cup {[Subject EXCEPT !.scopes = s] : s \in {{}, {"write"}, {"mail"}, Malformed}}
    \cup {[Subject EXCEPT !.act = a] : a \in {Chain(10), Chain(11), Malformed}}
    \cup {[Subject EXCEPT !.exp = 0], [Subject EXCEPT !.nbf = 2], [Subject EXCEPT !.sub = Blank],
          [Subject EXCEPT !.sub = "root"], [Subject EXCEPT !.verifies = FALSE],
          [Subject EXCEPT !.issOk = FALSE]}

ActorVariants ==
  {None, Actor, FreshActor}
    \cup {[Actor EXCEPT !.kid = {"agent", "agent-2"}], [Actor EXCEPT !.iss = "x"],
          [Actor EXCEPT !.jti = Blank], [Actor EXCEPT !.boundTo = "s2"],
          [Actor EXCEPT !.iat = None, !.exp = 3], [Actor EXCEPT !.verifies = FALSE],
          [Actor EXCEPT !.iss = "stranger", !.sub = "stranger", !.kid = {"stranger"}]}

Delegations(S, A) ==
  {[Delegation EXCEPT !.subject = s, !.actor = a, !.actorType = IF a = None THEN None ELSE "jwt"] :
     s \in S, a \in A}

ClientVariants(r) ==
  {r, WithClient(r), [WithClient(r) EXCEPT !.assertion.jti = None],
   [WithClient(r) EXCEPT !.clientId = "agent"], [r EXCEPT !.clientId = Blank],
   [WithClient(r) EXCEPT !.assertion = None], [WithClient(r) EXCEPT !.assertionType = "other"],
   [WithClient(r) EXCEPT !.assertion.iss = "agent", !.assertion.sub = "agent",
                         !.assertion.kid = {"agent"}]}

FormVariants(r) ==
  {[r EXCEPT !.urlencoded = FALSE], [r EXCEPT !.authHeader = TRUE], [r EXCEPT !.dup = "target"],
   [r EXCEPT !.dup = "other"], [r EXCEPT !.grant = None], [r EXCEPT !.grant = "other"],
   [r EXCEPT !.subject = None], [r EXCEPT !.tooLarge = {"scope"}], [r EXCEPT !.actorType = None],
   [r EXCEPT !.subjectType = "saml"], [r EXCEPT !.actorType = "saml"],
   [r EXCEPT !.requestedType = "jwt"], [r EXCEPT !.emptyActor = TRUE]}

TargetVariants(r) ==
  {[r EXCEPT !.audience = a, !.resource = x] :
     a \in {None, Blank, "api", "pqc", "uri"}, x \in {None, "api", "uri"}}
    \cup {[r EXCEPT !.scope = s] : s \in {None, {}, {"write"}, {"mail"}}}

ProofVariants(r) ==
  {WithProof(r), [WithProof(r) EXCEPT !.dpopHeaders = 2], [WithProof(r) EXCEPT !.dpop.iat = 3],
   [WithProof(r) EXCEPT !.dpop.verifies = FALSE],
   [WithProof(r) EXCEPT !.dpop.forTokenEndpoint = FALSE]}

AllKinds ==
  Delegations(SubjectVariants, ActorVariants)
    \cup {[Impersonation EXCEPT !.subject = s, !.emptyActor = e] :
            s \in SubjectVariants, e \in BOOLEAN}
    \cup UNION {ClientVariants(r) \cup FormVariants(r) \cup TargetVariants(r) \cup ProofVariants(r) :
                  r \in {Delegation, Impersonation}}

AgentIsClient ==
  [BaseConfig EXCEPT
     !.clientIds = {"client", "agent"},
     !.impersonation = [x \in {"client", "agent"} |-> [targets |-> Star, subjects |-> {"user"}]]]

Modes == {"delegation", "impersonation", "both"}

AllConfigs ==
  {[BaseConfig EXCEPT !.mode = m, !.clientAuthRequired = c] : m \in Modes, c \in BOOLEAN}
    \cup {[BaseConfig EXCEPT !.scopeBoundRequired = FALSE, !.requireSubjectBinding = FALSE]}
    \cup {[BaseConfig EXCEPT !.actorIds = {"agent", "agent-2"}, !.extends = {<<"agent", "agent-2">>}]}
    \cup {[BaseConfig EXCEPT !.alg = a, !.pqcPreferred = TRUE, !.allowNonPqc = n] :
            a \in {"RS256", "ML-DSA-65", "ML-DSA-44"}, n \in BOOLEAN}
    \cup {[BaseConfig EXCEPT !.impersonation = "client" :> [targets |-> {"pqc"}, subjects |-> Star]],
          [BaseConfig EXCEPT !.impersonation = [x \in {} |-> 0]],
          [BaseConfig EXCEPT !.targets = ("uri" :> BaseConfig.targets["api"]) @@ @]}

-------------------------------------------------------------------------------
\* Three competing requests in both mode, or one request of any kind under any
\* configuration.
CompetingAndAllKinds ==
  [competing |-> [configs |-> {AgentIsClient}, requests |-> Competing, max |-> 3],
   kinds     |-> [configs |-> AllConfigs, requests |-> AllKinds, max |-> 1]]

OneOfAnyKind == [kinds |-> CompetingAndAllKinds.kinds]

\* One actor token in two delegations, in its life and in the leeway after it;
\* another request's call sweeps its record in between.
SharedActor ==
  [actor |-> [configs |-> {BaseConfig}, requests |-> {Delegation, Later(Delegation)}, max |-> 3]]

SharedProofs == [proofs |-> [configs |-> {BaseConfig}, requests |-> Proofs, max |-> 3]]

Symmetry == Permutations(Thread)
===============================================================================
