--------------------------- MODULE MCExchangeClient ---------------------------
(***************************************************************************)
(* Small instances of ExchangeClient: three commands side by side, two     *)
(* replicas and one rotation.                                              *)
(***************************************************************************)
EXTENDS ExchangeClient, TLC

CONSTANTS c1, c2, c3, s1, s2

Key1 == [id |-> 0, kid |-> "k1"]
Key2 == [id |-> 1, kid |-> "k2"]

\* Another STS whose key happens to have the same kid.
OtherKey == [id |-> 9, kid |-> "k1"]

NotUsed == [kind |-> "none"]

Exchange ==
  [kind |-> "exchange", endpoint |-> "sts", assertion |-> FALSE, dpop |-> "none",
   holder |-> None, jwks |-> "none", printToken |-> FALSE, output |-> "redacted"]

WithHolder(x) == [x EXCEPT !.dpop = "key", !.holder = "holder"]

Verify(from) == [kind |-> "verify", jwks |-> from]

DpopGenerate == [kind |-> "dpop", out |-> "holder", public |-> None, force |-> FALSE]
PqcGenerate == [kind |-> "pqc", out |-> "private", public |-> "public", force |-> FALSE]

Args3(a, b, c) == (c1 :> a) @@ (c2 :> b) @@ (c3 :> c)

\* A script with the bounds it needs for its case to happen.
Run(args, replicas, newKeys, shared, maxRuns, maxActors, maxFaults) ==
  [args |-> args, replicas |-> replicas, newKeys |-> newKeys, sharedReplay |-> shared,
   maxRuns |-> maxRuns, maxActors |-> maxActors, maxAssertions |-> 1, maxFaults |-> maxFaults,
   expiring |-> {}]

Cases ==
  [ \* A token is minted, printed and verified again while the key is rotated
    \* and the replicas are restarted one by one.
    rollout |-> Run(Args3([Exchange EXCEPT !.jwks = "url", !.printToken = TRUE],
                          Verify("url"), NotUsed), {s1, s2}, {Key2}, FALSE, 2, 1, 2),
    saved |-> Run(Args3([Exchange EXCEPT !.jwks = "file", !.output = "claims"], NotUsed, NotUsed),
                  {s1}, {Key2}, FALSE, 2, 2, 1),
    \* Two commands write the holder key an exchange reads.
    holder |-> Run(Args3(DpopGenerate, DpopGenerate, WithHolder(Exchange)),
                   {s1}, {}, TRUE, 2, 2, 1),
    \* Clients that share an actor token, one with a proof from a file, the
    \* other with a client assertion.
    retry |-> [Run(Args3([Exchange EXCEPT !.assertion = TRUE], [Exchange EXCEPT !.dpop = "file"],
                         NotUsed), {s1, s2}, {}, TRUE, 2, 2, 2) EXCEPT !.expiring = {"actor"}],
    \* A client that is run again after its credentials were burned or expired.
    renew |-> [Run(Args3(WithHolder([Exchange EXCEPT !.assertion = TRUE]), DpopGenerate, NotUsed),
                   {s1}, {}, TRUE, 2, 2, 2)
                 EXCEPT !.maxAssertions = 2, !.expiring = {"actor", "client", "proof"}],
    \* Exchanges sent to another STS, or nowhere.
    elsewhere |-> Run(Args3(WithHolder([Exchange EXCEPT !.endpoint = "other"]),
                            [Exchange EXCEPT !.endpoint = "other", !.jwks = "url"], DpopGenerate),
                      {s1}, {}, TRUE, 2, 1, 0),
    nowhere |-> Run(Args3([Exchange EXCEPT !.endpoint = None],
                          [Exchange EXCEPT !.jwks = "bad", !.printToken = TRUE],
                          [Exchange EXCEPT !.printToken = TRUE]),
                    {s1}, {}, TRUE, 2, 1, 1),
    nokeys |-> Run(Args3([Exchange EXCEPT !.printToken = TRUE], Verify("none"), Verify("bad")),
                   {s1}, {}, TRUE, 2, 1, 0),
    \* Commands that write a pair of key files.
    pairs |-> Run(Args3(PqcGenerate, PqcGenerate, NotUsed), {}, {}, TRUE, 0, 1, 0),
    forced |-> Run(Args3(PqcGenerate, [PqcGenerate EXCEPT !.force = TRUE],
                         [PqcGenerate EXCEPT !.force = TRUE, !.public = None]),
                   {}, {}, TRUE, 0, 1, 0) ]

Scripts == [x \in DOMAIN Cases |-> Cases[x]]
===============================================================================
