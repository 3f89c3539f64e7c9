-------------------------- MODULE MCOnlineEndpoints ---------------------------
(***************************************************************************)
(* Small instances of OnlineEndpoints: three access tokens and client     *)
(* assertions, with room for two entries in each store.                    *)
(***************************************************************************)
EXTENDS OnlineEndpoints, TLC

CONSTANTS t1, t2

OneTarget ==
  [actorIds |-> {}, clientIds |-> {"rs"}, extends |-> {}, leeway |-> 0,
   assertionMaxTtl |-> 3, targets |-> "api" :> {}]

AccessToken(e, s) == [verifies |-> TRUE, aud |-> "api", exp |-> e, iat |-> 0, sub |-> s]

Short == AccessToken(1, "user")
Long == AccessToken(3, "user")
OtherLong == AccessToken(3, "other")

\* The first assertion expires at once, the others outlive the run.
Assertion(j) ==
  [verifies |-> TRUE, iss |-> "rs", sub |-> "rs", audOk |-> TRUE, kid |-> {"rs"},
   exp |-> IF j = "j1" THEN 0 ELSE 3, iat |-> 0, jti |-> j]

Request(op, k, j) ==
  [op |-> op, urlencoded |-> TRUE, authHeader |-> FALSE, dup |-> "none", token |-> k,
   tooLarge |-> FALSE, clientId |-> "rs", assertion |-> Assertion(j),
   assertionType |-> "jwt-bearer"]

\* Revocations and introspections that compete for room, and requests the
\* checks before the stores turn away.
Mixed ==
  {Request("revoke", Long, "j1"), Request("revoke", OtherLong, "j2"),
   Request("revoke", Short, "j3"), Request("revoke", Long, "j3"),
   Request("introspect", Short, "j2"), Request("introspect", Long, "j2")}
    \cup {[Request("revoke", Long, "j1") EXCEPT !.token = None],
          [Request("introspect", Long, "j1") EXCEPT !.dup = "token"],
          [Request("introspect", Long, "j1") EXCEPT !.assertion = None],
          [Request("introspect", Long, "j2") EXCEPT !.token.aud = "other"]}

Symmetry == Permutations(Thread)
===============================================================================
