------------------------------ MODULE MCBootstrap ------------------------------
(* Instance of Bootstrap: one bootstrap-check beside one serve, in some thirty  *)
(* environments, each one or two settings away from a classical or a PQC one.   *)
EXTENDS Bootstrap

Key(alg, id, kid) == [alg |-> alg, id |-> id, kid |-> kid, sound |-> TRUE]

Weak(key) == [key EXCEPT !.sound = FALSE]

Holding(form, keys) ==
  [present |-> TRUE, writable |-> FALSE, content |-> [form |-> form, keys |-> keys]]

Writable(file) == [file EXCEPT !.writable = TRUE]

Missing == [present |-> FALSE, writable |-> FALSE, content |-> Nothing]

Anchor == Holding("jwks", <<Key("RS256", "a", "k")>>)

WeakAnchor ==
  Holding("jwks", <<Key("RS256", "a", "k"), Weak(Key("RS256", "b", "l"))>>)

MCInitialFiles ==
  [f \in File |->
     CASE f = "key" -> Holding("jwk", <<Key("RS256", "s", "none")>>)
       [] f = "public" -> Holding("jwks", <<Key("RS256", "m", "k1")>>)
       [] f = "mockKey" -> Holding("jwk", <<Key("RS256", "m", "none")>>)
       [] f = "extra" -> Holding("jwks", <<Key("RS256", "old", "k0")>>)
       [] f = "policy" -> Holding("valid", <<>>)
       [] OTHER -> Anchor]

MCFileStates ==
  [f \in File |->
     CASE f = "key" ->
            {Holding("jwk", <<Key("ML-DSA-65", "s", "k2")>>),
             Holding("jwk", <<Key("ML-DSA-44", "s", "k2")>>),
             Holding("pem", <<Key("RS256", "s", "none")>>),
             Holding("jwk", <<Weak(Key("RS256", "s", "k2"))>>),
             Holding("junk", <<>>), Writable(MCInitialFiles["key"]), Missing}
       [] f = "public" ->
            {Holding("jwks", <<Key("RS256", "n", "k1"), Key("RS256", "m", "k1")>>),
             Holding("jwks", <<Key("ML-DSA-65", "m", "k1")>>),
             Holding("jwks", <<Key("RS256", "m", "k3")>>), Missing}
       [] f = "mockKey" ->
            {Holding("jwk", <<Key("RS256", "n", "none")>>),
             Holding("pem", <<Key("RS256", "m", "none")>>)}
       [] f = "extra" ->
            {Holding("jwks", <<Key("RS256", "old", "k1"), Key("RS256", "older", "k2")>>),
             Writable(Anchor), Holding("jwks", <<>>)}
       [] f \in {"actor", "client"} -> {Writable(Anchor), WeakAnchor}
       [] f = "idp" -> {WeakAnchor, Missing}
       [] f = "policy" -> {Holding("junk", <<>>), Missing}]

MCInitialIdp ==
  [up |-> TRUE, issuer |-> "configured", jwksUri |-> "https", keys |-> MCInitialFiles["idp"].content.keys]

MCIdpStates ==
  {[MCInitialIdp EXCEPT !.up = FALSE], [MCInitialIdp EXCEPT !.issuer = "other"],
   [MCInitialIdp EXCEPT !.jwksUri = "http"], [MCInitialIdp EXCEPT !.keys = <<>>]}

\* The names that routes and issuers use, in every order.
MCPaths == UNION {[1 .. n -> {"mcp", "tenant", "token", "x"}] : n \in 1 .. 4}

\* RS256 everywhere, files only.
Classical ==
  [pqcBuild |-> TRUE, settings |-> "valid", issuer |-> "https", issuerPath |-> <<>>, addr |-> "any",
   insecureBind |-> "unset", signingAlg |-> "RS256", provider |-> "file", kid |-> "k1",
   named |-> {"idp", "extra", "policy"}, idpUri |-> "unset", policyJson |-> "unset",
   pqcInbound |-> "unset", nonPqcInbound |-> "true", inboundAlgs |-> {"RS256"},
   insecureKey |-> "unset", insecureJwks |-> "unset", insecureActor |-> "unset",
   insecureClient |-> "unset", replay |-> "memory", replayDir |-> "absent"]

External ==
  [Classical EXCEPT !.provider = "mock-external", !.named = @ \cup {"public", "mockKey"}]

Networked == [Classical EXCEPT !.named = {"extra", "client"}]

OpenActor == [Classical EXCEPT !.insecureActor = "true"]

MCEnvironments ==
  {Classical, External, Networked, OpenActor,
   [Classical EXCEPT !.signingAlg = "classical", !.settings = "invalid"],
   [Classical EXCEPT !.signingAlg = "unset"],
   [Classical EXCEPT !.signingAlg = "unset", !.pqcBuild = FALSE],
   [Classical EXCEPT !.signingAlg = "unset", !.inboundAlgs = {}, !.nonPqcInbound = "unset"],
   [Classical EXCEPT !.signingAlg = "pqc-unknown"],
   [Classical EXCEPT !.pqcInbound = "other", !.nonPqcInbound = "unset"],
   [Classical EXCEPT !.nonPqcInbound = "unset"],
   [Classical EXCEPT !.inboundAlgs = {"ML-DSA-87"}, !.pqcBuild = FALSE],
   [Classical EXCEPT !.pqcInbound = "other", !.nonPqcInbound = "other", !.inboundAlgs = {}],
   [Classical EXCEPT !.issuer = "http"],
   [Classical EXCEPT !.issuer = "http", !.addr = "loopback", !.issuerPath = <<"tenant", "token">>],
   [Classical EXCEPT !.issuer = "http", !.insecureBind = "true"],
   [Classical EXCEPT !.issuer = "invalid"],
   [Classical EXCEPT !.addr = "invalid"],
   [Classical EXCEPT !.provider = "other"],
   [Classical EXCEPT !.provider = "mock-external"],
   [External EXCEPT !.signingAlg = "ML-DSA-65"],
   [Networked EXCEPT !.idpUri = "https"],
   [Networked EXCEPT !.idpUri = "http"],
   [OpenActor EXCEPT !.named = @ \cup {"client"}],
   [OpenActor EXCEPT !.named = @ \cup {"client"}, !.insecureClient = "other"],
   [OpenActor EXCEPT !.insecureClient = "other"],
   [Classical EXCEPT !.insecureKey = "true", !.insecureJwks = "true",
                     !.issuerPath = <<"mcp">>, !.inboundAlgs = {"RS256", "ML-DSA-44"}],
   [Classical EXCEPT !.policyJson = "valid", !.issuerPath = <<"tenant">>],
   [Classical EXCEPT !.replay = "file"],
   [Classical EXCEPT !.replay = "file", !.replayDir = "blocked"],
   [Classical EXCEPT !.replay = "invalid"]}
===============================================================================
