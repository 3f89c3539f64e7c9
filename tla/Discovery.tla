------------------------------- MODULE Discovery -------------------------------
(***************************************************************************)
(* The routes of the service and the URLs it advertises (crates/sts-http,  *)
(* router and the metadata handlers).  A path is a sequence of segments;   *)
(* every URL has the origin of the issuer, so it is left out.  The issuer  *)
(* has no trailing slash (validate_issuer) and may have a path, for which  *)
(* the router has aliases.                                                 *)
(***************************************************************************)
EXTENDS Integers, Sequences

\* Segments of a route: "{}" matches one segment, "{*}" one or more.
Param == "{}"
CatchAll == "{*}"

AuthorizationServer == <<".well-known", "oauth-authorization-server">>
ProtectedResource == <<".well-known", "oauth-protected-resource">>

Route(path, handler) == [path |-> path, handler |-> handler]

\* The endpoints that exist below the root and below the issuer's path.
Endpoints(at) ==
  {Route(at \o <<"token">>, "token"), Route(at \o <<"introspect">>, "introspect"),
   Route(at \o <<"revoke">>, "revoke"), Route(at \o <<"jwks">>, "jwks"),
   Route(AuthorizationServer \o at, "metadata"),
   Route(at \o <<"mcp">>, "challenge"), Route(at \o <<Param, "mcp">>, "challenge"),
   Route(ProtectedResource \o at, "resource")}

\* Mutant: the issuer's path has no routes of its own.
RootRoutesOnly(issuerPath) ==
  Endpoints(<<>>) \cup {Route(ProtectedResource \o <<CatchAll>>, "resource")}

\* router; the optional /metrics and /openapi.json are not advertised.
Routes(issuerPath) ==
  Endpoints(<<>>) \cup Endpoints(issuerPath)
    \cup {Route(ProtectedResource \o <<CatchAll>>, "resource")}

\* The router's matching: a literal segment wins over "{}", "{}" over "{*}".
Matches(pattern, path) ==
  LET n == Len(pattern)
  IN  /\ IF pattern[n] = CatchAll THEN Len(path) >= n ELSE Len(path) = n
      /\ \A i \in 1 .. n : pattern[i] \in {path[i], Param, CatchAll}

Looseness(segment) == CASE segment = Param -> 1 [] segment = CatchAll -> 2 [] OTHER -> 0

Wins(a, b) ==
  \E i \in 1 .. Len(a) :
    /\ i <= Len(b)
    /\ \A j \in 1 .. (i - 1) : a[j] = b[j]
    /\ Looseness(a[i]) < Looseness(b[i])

\* The handlers a request for path may reach; a well-formed router has one.
Handlers(issuerPath, path) ==
  LET found == {r \in Routes(issuerPath) : Matches(r.path, path)}
  IN  {r.handler : r \in {f \in found : \A g \in found : ~Wins(g.path, f.path)}}

\* metadata: what the authorization server metadata names, by handler.
Advertised(issuerPath) ==
  {Route(issuerPath \o <<name>>, name) : name \in {"token", "jwks", "introspect", "revoke"}}

\* resource_metadata_url_for_resource_path.
ResourceMetadataUrl(path) == ProtectedResource \o path

\* resource_identifier_for_metadata_path.
ResourceIdentifier(path) ==
  LET n == Len(ProtectedResource)
  IN  IF SubSeq(path, 1, n) = ProtectedResource THEN SubSeq(path, n + 1, Len(path)) ELSE <<>>
===============================================================================
