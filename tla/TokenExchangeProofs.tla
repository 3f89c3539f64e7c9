------------------------- MODULE TokenExchangeProofs --------------------------
(***************************************************************************)
(* Proofs about the token endpoint, for every set of requests and          *)
(* configurations, every number of threads, every capacity and sweep       *)
(* period of the replay store and every clock.                             *)
(***************************************************************************)
EXTENDS TokenExchange, ReplayTableProofs, SequenceTheorems

Requests == Batch[batch].requests

PCs == {"idle", "client", "dpop", "subject", "mode", "now", "record", "sign"}

\* What a request has passed at each point of token_inner, as far as it does not
\* depend on when: a gate that reads the clock passed at some reading.
ClientPassed(c, r) == \E n \in Int : AuthenticateClientIfPresent(c, r, n) = "ok"

SubjectPassed(c, r) == \E n \in Int : SubjectGates(c, r, n) = "ok"

ModePassed(c, r) ==
  IF EffectiveExchangeMode(c, r) = "delegation"
  THEN \E n \in Int : DelegationGates(c, r, n) = "ok"
  ELSE ImpersonationGates(c, r) = "ok"

ActPassed(c, r) == EffectiveExchangeMode(c, r) = "delegation" => ActGates(r) = "ok"

Approved(c, r) ==
  /\ r.subject # None
  /\ ClientPassed(c, r)
  /\ SubjectPassed(c, r)
  /\ ModePassed(c, r)
  /\ ActPassed(c, r)

\* What holds of a request in flight, x = thread[t], in configuration c.
FlightOK(c, x) ==
  /\ x.pc # "idle" => x.r \in Requests /\ x.r.subject # None
  /\ x.pc \notin {"idle", "client"} => ClientPassed(c, x.r)
  /\ x.pc \in {"mode", "now", "record", "sign"} => SubjectPassed(c, x.r)
  /\ x.pc \in {"now", "record", "sign"} => ModePassed(c, x.r)
  /\ x.pc \in {"record", "sign"} => ActPassed(c, x.r) /\ x.r \in passed
  /\ x.pc = "record" => x.i \in DOMAIN ReplayRecords(c, x.r)
  /\ x.pc = "sign" => x.i > Len(ReplayRecords(c, x.r))

ThreadsOK ==
  /\ thread \in [Thread -> [pc : PCs, r : Requests \cup {None}, now : Nat, i : Nat]]
  /\ \A t \in Thread : thread[t].now <= clock /\ FlightOK(config, thread[t])

StoreOK ==
  /\ IsFiniteSet(seen)
  /\ Cardinality(seen) <= MaxSeen
  /\ calls \in 0 .. SweepEvery - 1
  /\ \A e \in seen : e.exp \in Int

\* A token was signed for an approved request, with the claims of a clock reading
\* that was not ahead.
TokenOK(c, m) ==
  /\ m.r \in Requests
  /\ Approved(c, m.r)
  /\ m.at \in Int
  /\ \E now \in Nat : now <= m.at /\ m.claims = BuildScopedPayload(c, m.r, now)

Tokens == {[r |-> r, at |-> at, claims |-> BuildScopedPayload(config, r, now)] :
             r \in Requests, at \in Nat, now \in Nat}

MintedOK ==
  /\ minted \in Seq(Tokens)
  /\ \A i \in DOMAIN minted : TokenOK(config, minted[i])

-------------------------------------------------------------------------------
(***************************************************************************)
(* Who holds a replay record: a request in flight the ones it has written  *)
(* so far, a token all of its request's.                                   *)
(***************************************************************************)

\* The records request x in flight has written.
Written(c, x) ==
  IF x.pc \in {"record", "sign"}
  THEN {ReplayRecords(c, x.r)[a] : a \in {b \in DOMAIN ReplayRecords(c, x.r) : b < x.i}}
  ELSE {}

RecordsOf(c, r) == {ReplayRecords(c, r)[a] : a \in DOMAIN ReplayRecords(c, r)}

\* A record is in the store until it has expired.
Held(x) == x \in seen \/ x.exp < clock

\* Two records with one key: one of them has expired by time n.
Apart(x, y, n) == x.key = y.key => x.exp < n \/ y.exp < n

AllHeld ==
  /\ \A t \in Thread : \A x \in Written(config, thread[t]) : Held(x)
  /\ \A i \in DOMAIN minted : \A x \in RecordsOf(config, minted[i].r) : Held(x)

AllApart ==
  /\ \A t, u \in Thread : t # u =>
       \A x \in Written(config, thread[t]), y \in Written(config, thread[u]) :
         Apart(x, y, clock)
  /\ \A t \in Thread, i \in DOMAIN minted :
       \A x \in Written(config, thread[t]), y \in RecordsOf(config, minted[i].r) :
         Apart(x, y, clock)
  /\ \A i, j \in DOMAIN minted : i < j =>
       \A x \in RecordsOf(config, minted[i].r), y \in RecordsOf(config, minted[j].r) :
         Apart(x, y, minted[j].at)

\* The inductive invariant.
ExchangeInv ==
  /\ batch \in DOMAIN Batch
  /\ config \in Batch[batch].configs
  /\ clock \in 0 .. MaxTime
  /\ ThreadsOK
  /\ StoreOK
  /\ MintedOK
  /\ BurnedOnlyAfterGates
  /\ AllHeld
  /\ AllApart

-------------------------------------------------------------------------------
(***************************************************************************)
(* What a gate that passed has established.                                *)
(***************************************************************************)

\* A nonempty set of positions in a list of at most eight gates has a first one.
LEMMA FirstPosition ==
  ASSUME NEW S \in SUBSET (1 .. 8), S # {}
  PROVE  \E i \in S : \A j \in S : i <= j
<1>1. ASSUME NEW i \in S, \A j \in 1 .. 8 : j < i => j \notin S
      PROVE  \A j \in S : i <= j
  BY <1>1
<1>2. \A i \in S : i = 1 \/ i = 2 \/ i = 3 \/ i = 4 \/ i = 5 \/ i = 6 \/ i = 7 \/ i = 8
  OBVIOUS
<1>3. CASE 1 \in S
  BY <1>1, <1>3
<1>4. CASE 1 \notin S /\ 2 \in S
  BY <1>1, <1>2, <1>4
<1>5. CASE 1 \notin S /\ 2 \notin S /\ 3 \in S
  BY <1>1, <1>2, <1>5
<1>6. CASE 1 \notin S /\ 2 \notin S /\ 3 \notin S /\ 4 \in S
  BY <1>1, <1>2, <1>6
<1>7. CASE 1 \notin S /\ 2 \notin S /\ 3 \notin S /\ 4 \notin S
  <2>1. CASE 5 \in S
    BY <1>1, <1>2, <1>7, <2>1
  <2>2. CASE 5 \notin S /\ 6 \in S
    BY <1>1, <1>2, <1>7, <2>2
  <2>3. CASE 5 \notin S /\ 6 \notin S /\ 7 \in S
    BY <1>1, <1>2, <1>7, <2>3
  <2>4. CASE 5 \notin S /\ 6 \notin S /\ 7 \notin S
    <3>1. 8 \in S
      BY <1>2, <1>7, <2>4
    <3> QED
      BY <1>1, <1>2, <1>7, <2>4, <3>1
  <2> QED
    BY <2>1, <2>2, <2>3, <2>4
<1> QED
  BY <1>3, <1>4, <1>5, <1>6, <1>7

\* A list of gates that yields ok has none that failed.
LEMMA FirstErrorOk ==
  ASSUME NEW g, DOMAIN g \subseteq 1 .. 8, \A i \in DOMAIN g : g[i][2] # "ok",
         FirstError(g) = "ok"
  PROVE  \A i \in DOMAIN g : ~g[i][1]
<1> DEFINE failed == {i \in DOMAIN g : g[i][1]}
<1>1. CASE failed = {}
  BY <1>1
<1>2. CASE failed # {}
  <2>1. failed \in SUBSET (1 .. 8)
    OBVIOUS
  <2> HIDE DEF failed
  <2>2. \E i \in failed : \A j \in failed : i <= j
    BY <1>2, <2>1, FirstPosition
  <2>3. (CHOOSE i \in failed : \A j \in failed : i <= j) \in failed
    BY <2>2
  <2> USE DEF failed
  <2>4. g[CHOOSE i \in failed : \A j \in failed : i <= j][2] = "ok"
    BY <1>2 DEF FirstError
  <2> QED
    BY <2>3, <2>4
<1> QED
  BY <1>1, <1>2

\* A request whose parameters are valid has a subject token.
LEMMA HasSubject ==
  ASSUME NEW r, Then(ParseTokenForm(r), ValidateRequestParams(r)) = "ok"
  PROVE  r.subject # None
<1> DEFINE g == <<
      <<r.grant = None,                                   "invalid_request">>,
      <<r.grant # "token-exchange",                       "unsupported_grant_type">>,
      <<r.subject = None \/ r.subjectType = None,         "invalid_request">>,
      <<r.tooLarge # {},                                  "invalid_request">>,
      <<(r.actor = None) # (r.actorType = None),          "invalid_request">>,
      <<r.subjectType \notin InputTypes,                  "invalid_request">>,
      <<r.actorType \notin InputTypes \cup {None},        "invalid_request">>,
      <<r.requestedType \notin {None, "access_token"},    "invalid_request">> >>
<1>1. DOMAIN g = 1 .. 8 /\ \A i \in DOMAIN g : g[i][2] # "ok"
  OBVIOUS
<1>2. FirstError(g) = "ok"
  BY DEF ValidateRequestParams, Then
<1>3. g[3][1] = (r.subject = None \/ r.subjectType = None)
  OBVIOUS
<1> HIDE DEF g
<1>4. ~g[3][1]
  BY <1>1, <1>2, FirstErrorOk
<1> QED
  BY <1>3, <1>4

\* An authenticated client has an assertion and owns its key; an impersonation
\* has no actor token and is authenticated.
LEMMA ClientFacts ==
  ASSUME NEW c, NEW r, ClientPassed(c, r)
  PROVE  /\ HasClientAuth(r) => r.assertion \notin {None, Blank}
         /\ HasClientAuth(r) => KidBelongsToClaimedIdentity(c, r.assertion)
         /\ EffectiveExchangeMode(c, r) = "impersonation" => r.actor = None /\ HasClientAuth(r)
<1>1. PICK n \in Int : AuthenticateClientIfPresent(c, r, n) = "ok"
  BY DEF ClientPassed
<1> DEFINE mode == EffectiveExchangeMode(c, r)
           g == <<
             <<mode = "impersonation" /\ r.actor # None,         "invalid_client">>,
             <<mode = "impersonation" /\ ~HasClientAuth(r),      "invalid_client">>,
             <<c.clientAuthRequired /\ ~HasClientAuth(r),      "invalid_client">> >>
<1>2. FirstError(g) = "ok" /\ (HasClientAuth(r) => ~ClientAuthMalformed(r))
  BY <1>1 DEF AuthenticateClientIfPresent, Then
<1>3. HasClientAuth(r) => r.assertion \notin {None, Blank}
  BY <1>2 DEF ClientAuthMalformed
<1>4. DOMAIN g = 1 .. 3 /\ \A i \in DOMAIN g : g[i][2] # "ok"
  OBVIOUS
<1>5. g[1][1] = (mode = "impersonation" /\ r.actor # None)
  OBVIOUS
<1>6. g[2][1] = (mode = "impersonation" /\ ~HasClientAuth(r))
  OBVIOUS
<1> HIDE DEF g
<1>7. DOMAIN g \subseteq 1 .. 8 /\ 1 \in DOMAIN g /\ 2 \in DOMAIN g
  BY <1>4
<1>8. ~g[1][1] /\ ~g[2][1]
  BY <1>2, <1>4, <1>7, FirstErrorOk
<1>9. ASSUME HasClientAuth(r) PROVE KidBelongsToClaimedIdentity(c, r.assertion)
  <2> DEFINE h == <<
        <<~VerifyAssertion(c, r.assertion, n),              "invalid_client">>,
        <<r.assertion.sub \notin c.clientIds,               "invalid_client">>,
        <<r.clientId \notin {None, r.assertion.sub},        "invalid_client">>,
        <<r.assertion.jti \in {None, Blank},                "invalid_client">>,
        <<mode = "delegation" /\ r.actor = None,            "invalid_request">> >>
  <2>1. FirstError(h) = "ok"
    BY <1>1, <1>2, <1>9 DEF AuthenticateClientIfPresent, Then
  <2>2. DOMAIN h = 1 .. 5 /\ \A i \in DOMAIN h : h[i][2] # "ok"
    OBVIOUS
  <2>3. h[1][1] = (~VerifyAssertion(c, r.assertion, n))
    OBVIOUS
  <2> HIDE DEF h
  <2>4. DOMAIN h \subseteq 1 .. 8 /\ 1 \in DOMAIN h
    BY <2>2
  <2>5. ~h[1][1]
    BY <2>1, <2>2, <2>4, FirstErrorOk
  <2> QED
    BY <2>3, <2>5 DEF VerifyAssertion
<1> QED
  BY <1>3, <1>5, <1>6, <1>8, <1>9

\* The target is known and the scope is not empty.
LEMMA SubjectFacts ==
  ASSUME NEW c, NEW r, SubjectPassed(c, r)
  PROVE  ResolveTarget(c, r) = "ok" /\ ResolvedScope(c, r) # {}
BY DEF SubjectPassed, SubjectGates, Then, ResolveScope

\* The actor is a registered identity that owns its key, is the one may_act
\* names, and the signing policy of the target allows the algorithm.
LEMMA DelegationFacts ==
  ASSUME NEW c, NEW r, ModePassed(c, r), EffectiveExchangeMode(c, r) = "delegation"
  PROVE  /\ r.actor # None
         /\ r.actor.sub \in c.actorIds
         /\ KidBelongsToClaimedIdentity(c, r.actor)
         /\ GateMayAct(r.subject.mayAct, r.actor) = "ok"
         /\ SigningDecisionForTarget(c, ResolvedTarget(r)) = "ok"
<1>1. PICK n \in Int : DelegationGates(c, r, n) = "ok"
  BY DEF ModePassed
<1> DEFINE g == << <<~VerifyActorToken(c, r, n),       "invalid_client">>,
                   <<r.actor.sub \notin c.actorIds,    "invalid_client">> >>
<1>2. /\ r.actor # None /\ FirstError(g) = "ok"
      /\ GateMayAct(r.subject.mayAct, r.actor) = "ok"
      /\ SigningDecisionForTarget(c, ResolvedTarget(r)) = "ok"
  BY <1>1 DEF DelegationGates, Then
<1>3. DOMAIN g = 1 .. 2 /\ \A i \in DOMAIN g : g[i][2] # "ok"
  OBVIOUS
<1>4. g[1][1] = (~VerifyActorToken(c, r, n))
  OBVIOUS
<1>5. g[2][1] = (r.actor.sub \notin c.actorIds)
  OBVIOUS
<1> HIDE DEF g
<1>6. DOMAIN g \subseteq 1 .. 8 /\ 1 \in DOMAIN g /\ 2 \in DOMAIN g
  BY <1>3
<1>7. ~g[1][1] /\ ~g[2][1]
  BY <1>2, <1>3, <1>6, FirstErrorOk
<1>8. VerifyActorToken(c, r, n) /\ r.actor.sub \in c.actorIds
  BY <1>4, <1>5, <1>7
<1>9. KidBelongsToClaimedIdentity(c, r.actor)
  BY <1>8 DEF VerifyActorToken, VerifyAssertion
<1> QED
  BY <1>2, <1>8, <1>9

\* The client's policy entry allows the target and the subject, and the signing
\* policy of the target allows the algorithm.
LEMMA ImpersonationFacts ==
  ASSUME NEW c, NEW r, ModePassed(c, r), EffectiveExchangeMode(c, r) # "delegation"
  PROVE  /\ r.assertion.sub \in DOMAIN c.impersonation
         /\ Allows(c.impersonation[r.assertion.sub].targets, ResolvedTarget(r))
         /\ Allows(c.impersonation[r.assertion.sub].subjects, r.subject.sub)
         /\ SigningDecisionForTarget(c, ResolvedTarget(r)) = "ok"
BY DEF ModePassed, ImpersonationGates

\* The act chain of the subject token is a list of at most ten names.
LEMMA ActFacts ==
  ASSUME NEW c, NEW r, ActPassed(c, r), EffectiveExchangeMode(c, r) = "delegation"
  PROVE  r.subject.act # Malformed /\ ~(Len(r.subject.act) > MaxActDepth)
<1> DEFINE g == <<
      <<r.subject.act = Malformed \/ Len(r.subject.act) > MaxActDepth, "invalid_request">>,
      <<r.actor.jti \in {None, Blank},                                 "invalid_client">> >>
<1>1. FirstError(g) = "ok"
  BY DEF ActPassed, ActGates
<1>2. DOMAIN g = 1 .. 2 /\ \A i \in DOMAIN g : g[i][2] # "ok"
  OBVIOUS
<1>3. g[1][1] = (r.subject.act = Malformed \/ Len(r.subject.act) > MaxActDepth)
  OBVIOUS
<1> HIDE DEF g
<1>4. DOMAIN g \subseteq 1 .. 8 /\ 1 \in DOMAIN g
  BY <1>2
<1>5. ~g[1][1]
  BY <1>1, <1>2, <1>4, FirstErrorOk
<1> QED
  BY <1>3, <1>5

\* A mode is delegation or impersonation.
LEMMA ModeValues ==
  ASSUME NEW c, c.mode \in {"delegation", "impersonation", "both"}, NEW r
  PROVE  EffectiveExchangeMode(c, r) \in {"delegation", "impersonation"}
BY DEF EffectiveExchangeMode

-------------------------------------------------------------------------------
(***************************************************************************)
(* The replay records of a request.                                        *)
(***************************************************************************)
ActorRecord(r) == [key |-> ActorKey(r), exp |-> r.actor.exp]
ClientRecord(r) == [key |-> ClientKey(r), exp |-> r.assertion.exp]
ProofRecord(c, r) ==
  [key |-> DpopKey(r), exp |-> ReplayExpiresAt(c, r.dpop)]

Joined(s1, s2, s3) == s1 \o s2 \o s3

\* Three lists in a row: their elements and nothing else.
LEMMA ThreeLists ==
  ASSUME NEW S, NEW s1 \in Seq(S), NEW s2 \in Seq(S), NEW s3 \in Seq(S), NEW v,
         v = Joined(s1, s2, s3)
  PROVE  /\ v \in Seq(S)
         /\ \A i \in DOMAIN v :
              \/ \E a \in DOMAIN s1 : v[i] = s1[a]
              \/ \E a \in DOMAIN s2 : v[i] = s2[a]
              \/ \E a \in DOMAIN s3 : v[i] = s3[a]
         /\ \A a \in DOMAIN s1 : \E i \in DOMAIN v : v[i] = s1[a]
         /\ \A a \in DOMAIN s2 : \E i \in DOMAIN v : v[i] = s2[a]
<1>1. PICK u : u = s1 \o s2
  OBVIOUS
<1>2. u \in Seq(S) /\ Len(u) = Len(s1) + Len(s2)
  BY <1>1, ConcatProperties
<1>3. \A i \in 1 .. Len(s1) + Len(s2) :
        u[i] = IF i <= Len(s1) THEN s1[i] ELSE s2[i - Len(s1)]
  BY <1>1, ConcatProperties
<1>4. v = u \o s3
  BY <1>1 DEF Joined
<1>5. v \in Seq(S) /\ Len(v) = Len(u) + Len(s3)
  BY <1>2, <1>4, ConcatProperties
<1>6. \A i \in 1 .. Len(u) + Len(s3) : v[i] = IF i <= Len(u) THEN u[i] ELSE s3[i - Len(u)]
  BY <1>2, <1>4, ConcatProperties
<1>7. /\ DOMAIN s1 = 1 .. Len(s1) /\ DOMAIN s2 = 1 .. Len(s2) /\ DOMAIN s3 = 1 .. Len(s3)
      /\ DOMAIN v = 1 .. Len(v)
      /\ Len(s1) \in Nat /\ Len(s2) \in Nat /\ Len(s3) \in Nat
  BY <1>5, LenProperties
<1>8. ASSUME NEW i \in DOMAIN v
      PROVE  \/ \E a \in DOMAIN s1 : v[i] = s1[a]
             \/ \E a \in DOMAIN s2 : v[i] = s2[a]
             \/ \E a \in DOMAIN s3 : v[i] = s3[a]
  <2>1. i \in Nat /\ i <= Len(s1) + Len(s2) + Len(s3) /\ i >= 1
    BY <1>2, <1>5, <1>7
  <2>2. CASE i <= Len(s1)
    BY <1>2, <1>3, <1>6, <1>7, <2>1, <2>2
  <2>3. CASE i > Len(s1) /\ i <= Len(s1) + Len(s2)
    <3>1. i - Len(s1) \in DOMAIN s2 /\ v[i] = s2[i - Len(s1)]
      BY <1>2, <1>3, <1>6, <1>7, <2>1, <2>3
    <3> QED
      BY <3>1
  <2>4. CASE i > Len(s1) + Len(s2)
    <3>1. i - Len(u) \in DOMAIN s3 /\ v[i] = s3[i - Len(u)]
      BY <1>2, <1>6, <1>7, <2>1, <2>4
    <3> QED
      BY <3>1
  <2> QED
    BY <1>7, <2>1, <2>2, <2>3, <2>4
<1>9. \A a \in DOMAIN s1 : a \in DOMAIN v /\ v[a] = s1[a]
  BY <1>2, <1>3, <1>5, <1>6, <1>7
<1>10. \A a \in DOMAIN s2 : Len(s1) + a \in DOMAIN v /\ v[Len(s1) + a] = s2[a]
  BY <1>2, <1>3, <1>5, <1>6, <1>7
<1> QED
  BY <1>5, <1>8, <1>9, <1>10

\* A list of one element or of none.
LEMMA OneOrNone ==
  ASSUME NEW S, NEW x \in S, NEW s, s = <<x>> \/ s = <<>>
  PROVE  s \in Seq(S) /\ (\A a \in DOMAIN s : s = <<x>> /\ s[a] = x)
<1>1. CASE s = <<x>>
  BY <1>1
<1>2. CASE s = <<>>
  BY <1>2
<1> QED
  BY <1>1, <1>2

\* Which records a request has, and why.
LEMMA RecordsShape ==
  ASSUME NEW c, NEW r
  PROVE  /\ ReplayRecords(c, r) \in
              Seq({ActorRecord(r), ClientRecord(r), ProofRecord(c, r)})
         /\ \A x \in RecordsOf(c, r) :
              \/ EffectiveExchangeMode(c, r) = "delegation" /\ x = ActorRecord(r)
              \/ HasClientAuth(r) /\ x = ClientRecord(r)
              \/ r.dpop # None /\ x = ProofRecord(c, r)
         /\ EffectiveExchangeMode(c, r) = "delegation" => ActorRecord(r) \in RecordsOf(c, r)
         /\ HasClientAuth(r) => ClientRecord(r) \in RecordsOf(c, r)
<1> DEFINE S == {ActorRecord(r), ClientRecord(r), ProofRecord(c, r)}
           s1 == When(EffectiveExchangeMode(c, r) = "delegation", ActorRecord(r))
           s2 == When(HasClientAuth(r), ClientRecord(r))
           s3 == When(r.dpop # None, ProofRecord(c, r))
           v == ReplayRecords(c, r)
<1>1. v = Joined(s1, s2, s3)
  BY DEF Joined, ReplayRecords, ActorRecord, ClientRecord, ProofRecord
<1>2. /\ s1 = <<ActorRecord(r)>> \/ s1 = <<>>
      /\ s2 = <<ClientRecord(r)>> \/ s2 = <<>>
      /\ s3 = <<ProofRecord(c, r)>> \/ s3 = <<>>
  BY DEF When
<1>3. /\ s1 = <<ActorRecord(r)>> <=> EffectiveExchangeMode(c, r) = "delegation"
      /\ s2 = <<ClientRecord(r)>> <=> HasClientAuth(r)
      /\ s3 = <<ProofRecord(c, r)>> <=> r.dpop # None
  <2>1. \A x : <<x>> # <<>>
    OBVIOUS
  <2> QED
    BY <2>1 DEF When
<1> HIDE DEF s1, s2, s3
<1>4. ActorRecord(r) \in S /\ ClientRecord(r) \in S /\ ProofRecord(c, r) \in S
  OBVIOUS
<1> HIDE DEF S
<1>5. /\ s1 \in Seq(S) /\ s2 \in Seq(S) /\ s3 \in Seq(S)
      /\ \A a \in DOMAIN s1 : s1 = <<ActorRecord(r)>> /\ s1[a] = ActorRecord(r)
      /\ \A a \in DOMAIN s2 : s2 = <<ClientRecord(r)>> /\ s2[a] = ClientRecord(r)
      /\ \A a \in DOMAIN s3 : s3 = <<ProofRecord(c, r)>> /\ s3[a] = ProofRecord(c, r)
  BY <1>2, <1>4, OneOrNone
<1> HIDE DEF v
<1>6. /\ v \in Seq(S)
      /\ \A i \in DOMAIN v :
           \/ \E a \in DOMAIN s1 : v[i] = s1[a]
           \/ \E a \in DOMAIN s2 : v[i] = s2[a]
           \/ \E a \in DOMAIN s3 : v[i] = s3[a]
      /\ \A a \in DOMAIN s1 : \E i \in DOMAIN v : v[i] = s1[a]
      /\ \A a \in DOMAIN s2 : \E i \in DOMAIN v : v[i] = s2[a]
  <2>1. s1 \in Seq(S) /\ s2 \in Seq(S) /\ s3 \in Seq(S)
    BY <1>5
  <2> QED
    BY <1>1, <2>1, ThreeLists
<1>7. \A x : x \in RecordsOf(c, r) <=> \E i \in DOMAIN v : v[i] = x
  BY DEF RecordsOf, v
<1>8. \A x : 1 \in DOMAIN <<x>>
  OBVIOUS
<1>9. ASSUME NEW x \in RecordsOf(c, r)
      PROVE  \/ EffectiveExchangeMode(c, r) = "delegation" /\ x = ActorRecord(r)
             \/ HasClientAuth(r) /\ x = ClientRecord(r)
             \/ r.dpop # None /\ x = ProofRecord(c, r)
  BY <1>3, <1>5, <1>6, <1>7
<1>10. EffectiveExchangeMode(c, r) = "delegation" => ActorRecord(r) \in RecordsOf(c, r)
  BY <1>3, <1>5, <1>6, <1>7, <1>8
<1>11. HasClientAuth(r) => ClientRecord(r) \in RecordsOf(c, r)
  BY <1>3, <1>5, <1>6, <1>7, <1>8
<1> QED
  BY <1>6, <1>9, <1>10, <1>11 DEF S, v

\* The records of a request of the batch carry integer expiries, once its client
\* is authenticated and its mode's gates have passed.
LEMMA RecordTimes ==
  ASSUME NEW b \in DOMAIN Batch, NEW c \in Batch[b].configs, NEW r \in Batch[b].requests,
         ClientPassed(c, r), ModePassed(c, r)
  PROVE  \A x \in RecordsOf(c, r) : x.exp \in Int
<1>1. EffectiveExchangeMode(c, r) = "delegation" => r.actor # None
  BY DelegationFacts
<1>2. HasClientAuth(r) => r.assertion \notin {None, Blank}
  BY ClientFacts
<1>3. /\ r.actor # None => r.actor.exp \in Int
      /\ r.assertion \notin {None, Blank} => r.assertion.exp \in Int
      /\ r.dpop # None => r.dpop.iat \in Int
      /\ c.leeway \in Int
  BY TokenExchangeAssumption
<1>4. EffectiveExchangeMode(c, r) = "delegation" => ActorRecord(r).exp \in Int
  BY <1>1, <1>3 DEF ActorRecord
<1>5. HasClientAuth(r) => ClientRecord(r).exp \in Int
  BY <1>2, <1>3 DEF ClientRecord
<1>6. r.dpop # None => ProofRecord(c, r).exp \in Int
  BY <1>3 DEF ProofRecord, ReplayExpiresAt
<1> QED
  BY <1>4, <1>5, <1>6, RecordsShape

\* A request that has passed its gates has a record of the caller's assertion
\* among its replay records, under the key of its mode.
LEMMA CallerRecorded ==
  ASSUME NEW b \in DOMAIN Batch, NEW c \in Batch[b].configs, NEW r \in Batch[b].requests,
         Approved(c, r)
  PROVE  /\ EffectiveExchangeMode(c, r) = "delegation" =>
              ActorRecord(r) \in RecordsOf(c, r) /\ r.actor.exp \in Int
         /\ EffectiveExchangeMode(c, r) # "delegation" =>
              ClientRecord(r) \in RecordsOf(c, r) /\ r.assertion.exp \in Int
         /\ Len(ReplayRecords(c, r)) >= 1
         /\ DOMAIN ReplayRecords(c, r) = 1 .. Len(ReplayRecords(c, r))
         /\ Len(ReplayRecords(c, r)) \in Nat
<1>1. EffectiveExchangeMode(c, r) \in {"delegation", "impersonation"}
  BY ModeValues, TokenExchangeAssumption
<1>2. EffectiveExchangeMode(c, r) = "impersonation" => HasClientAuth(r)
  BY ClientFacts DEF Approved
<1>3. \A x \in RecordsOf(c, r) : x.exp \in Int
  BY RecordTimes DEF Approved
<1>4. EffectiveExchangeMode(c, r) = "delegation" =>
        ActorRecord(r) \in RecordsOf(c, r) /\ r.actor.exp \in Int
  BY <1>3, RecordsShape DEF ActorRecord
<1>5. EffectiveExchangeMode(c, r) # "delegation" =>
        ClientRecord(r) \in RecordsOf(c, r) /\ r.assertion.exp \in Int
  BY <1>1, <1>2, <1>3, RecordsShape DEF ClientRecord
<1>6. /\ DOMAIN ReplayRecords(c, r) = 1 .. Len(ReplayRecords(c, r))
      /\ Len(ReplayRecords(c, r)) \in Nat
  BY RecordsShape, LenProperties
<1>7. \E i : i \in DOMAIN ReplayRecords(c, r)
  BY <1>4, <1>5 DEF RecordsOf
<1> QED
  BY <1>4, <1>5, <1>6, <1>7

-------------------------------------------------------------------------------
(***************************************************************************)
(* What the claims of a signed token say.                                  *)
(***************************************************************************)

LEMMA LeastOfThree ==
  ASSUME NEW a \in Int, NEW b \in Int, NEW d \in Int
  PROVE  LET m == Least({a, b, d})
         IN  m \in Int /\ m <= a /\ m <= b /\ m <= d
<1>1. \E x \in {a, b, d} : \A y \in {a, b, d} : x <= y
  <2>1. CASE a <= b /\ a <= d
    BY <2>1
  <2>2. CASE b <= a /\ b <= d
    BY <2>2
  <2>3. CASE d <= a /\ d <= b
    BY <2>3
  <2> QED
    BY <2>1, <2>2, <2>3
<1>2. /\ Least({a, b, d}) \in {a, b, d}
      /\ \A y \in {a, b, d} : Least({a, b, d}) <= y
  BY <1>1 DEF Least
<1> QED
  BY <1>2

\* The caller's assertion, as Caller has it.
CallerOf(c, r) ==
  IF EffectiveExchangeMode(c, r) = "delegation" THEN r.actor ELSE r.assertion

\* A token outlives neither the subject token nor the caller's assertion.
LEMMA ClaimedExpiry ==
  ASSUME NEW b \in DOMAIN Batch, NEW c \in Batch[b].configs, NEW r \in Batch[b].requests,
         Approved(c, r), NEW now \in Nat
  PROVE  LET e == BuildScopedPayload(c, r, now).exp
         IN  e \in Int /\ e <= r.subject.exp /\ e <= CallerOf(c, r).exp
<1>1. r.subject.exp \in Int /\ now + c.scopedTtl \in Int
  BY TokenExchangeAssumption DEF Approved
<1>2. CallerOf(c, r).exp \in Int
  BY CallerRecorded DEF CallerOf
<1>3. BuildScopedPayload(c, r, now).exp =
        Least({now + c.scopedTtl, r.subject.exp, CallerOf(c, r).exp})
  BY DEF BuildScopedPayload, ScopedTokenExp, CallerOf
<1> QED
  BY <1>1, <1>2, <1>3, LeastOfThree

\* The scope stays within the target's policy and, where the bound is required,
\* within the subject's.
LEMMA ScopeWithin ==
  ASSUME NEW c, NEW r
  PROVE  /\ ResolvedScope(c, r) \subseteq c.targets[ResolvedTarget(r)].allowed
         /\ c.scopeBoundRequired /\ r.subject.scopes # {} =>
              ResolvedScope(c, r) \subseteq r.subject.scopes
BY DEF ResolvedScope, Downscope

\* The act chain of a delegation: the actor in front of the prior actors.
LEMMA ActChain ==
  ASSUME NEW x, NEW act \in Seq(STRING)
  PROVE  /\ <<x>> \o act # <<>>
         /\ (<<x>> \o act)[1] = x
         /\ Tail(<<x>> \o act) = act
         /\ Len(<<x>> \o act) = Len(act) + 1
<1> DEFINE S == STRING \cup {x}
           u == <<x>> \o act
<1>1. <<x>> \in Seq(S) /\ Len(<<x>>) = 1 /\ <<x>>[1] = x
  OBVIOUS
<1>2. act \in Seq(S)
  OBVIOUS
<1>3. Len(act) \in Nat /\ DOMAIN act = 1 .. Len(act)
  BY LenProperties
<1> HIDE DEF S
<1>4. /\ u \in Seq(S) /\ Len(u) = Len(<<x>>) + Len(act)
      /\ \A i \in 1 .. Len(<<x>>) + Len(act) :
           u[i] = IF i <= Len(<<x>>) THEN <<x>>[i] ELSE act[i - Len(<<x>>)]
  BY <1>1, <1>2, ConcatProperties
<1> HIDE DEF u
<1>5. Len(u) = Len(act) + 1 /\ u[1] = x
  BY <1>1, <1>3, <1>4
<1>6. u # <<>>
  BY <1>3, <1>5
<1>7. /\ Tail(u) \in Seq(S) /\ Len(Tail(u)) = Len(u) - 1
      /\ \A i \in 1 .. Len(Tail(u)) : Tail(u)[i] = u[i + 1]
  BY <1>4, <1>6, HeadTailProperties
<1>8. \A i \in 1 .. Len(act) : Tail(u)[i] = act[i]
  BY <1>1, <1>3, <1>4, <1>5, <1>7
<1>9. Tail(u) = act
  BY <1>2, <1>3, <1>5, <1>7, <1>8, SeqEqual
<1> QED
  BY <1>5, <1>6, <1>9 DEF u

-------------------------------------------------------------------------------
(***************************************************************************)
(* What the inductive invariant says of the tokens signed.                 *)
(***************************************************************************)

LEMMA CallerIsCallerOf == \A r : Caller(r) = CallerOf(config, r)
BY DEF Caller, CallerOf

\* A token that was signed for an approved request, taken apart.
LEMMA TokenFacts ==
  ASSUME ExchangeInv, NEW i \in DOMAIN minted
  PROVE  /\ minted[i].r \in Batch[batch].requests
         /\ Approved(config, minted[i].r)
         /\ minted[i].at \in Int
         /\ \E now \in Nat : /\ now <= minted[i].at
                             /\ minted[i].claims = BuildScopedPayload(config, minted[i].r, now)
BY DEF ExchangeInv, MintedOK, TokenOK, Requests

LEMMA InvGivesTypes == ASSUME ExchangeInv PROVE TypeOK
BY DEF ExchangeInv, ThreadsOK, FlightOK, StoreOK, TypeOK, PCs, Requests

LEMMA InvGivesSingleUse == ASSUME ExchangeInv PROVE SingleUseWhileRecorded
<1> SUFFICES ASSUME NEW i \in DOMAIN minted, NEW j \in DOMAIN minted, i < j,
                    NEW a \in DOMAIN ReplayRecords(config, minted[i].r),
                    NEW b \in DOMAIN ReplayRecords(config, minted[j].r),
                    ReplayRecords(config, minted[i].r)[a].key =
                      ReplayRecords(config, minted[j].r)[b].key
             PROVE  \/ minted[j].at > ReplayRecords(config, minted[i].r)[a].exp
                    \/ minted[j].at > ReplayRecords(config, minted[j].r)[b].exp
  BY DEF SingleUseWhileRecorded
<1> DEFINE x == ReplayRecords(config, minted[i].r)[a]
           y == ReplayRecords(config, minted[j].r)[b]
<1>1. x \in RecordsOf(config, minted[i].r) /\ y \in RecordsOf(config, minted[j].r)
  BY DEF RecordsOf
<1>2. Apart(x, y, minted[j].at)
  BY <1>1 DEF ExchangeInv, AllApart
<1>3. x.key = y.key
  OBVIOUS
<1>4. /\ minted[i].r \in Batch[batch].requests /\ Approved(config, minted[i].r)
      /\ minted[j].r \in Batch[batch].requests /\ Approved(config, minted[j].r)
      /\ minted[j].at \in Int
  BY TokenFacts
<1>5. batch \in DOMAIN Batch /\ config \in Batch[batch].configs
  BY DEF ExchangeInv
<1>6. x.exp \in Int /\ y.exp \in Int
  BY <1>1, <1>4, <1>5, RecordTimes DEF Approved
<1> HIDE DEF x, y
<1>7. minted[j].at > x.exp \/ minted[j].at > y.exp
  BY <1>2, <1>3, <1>4, <1>6 DEF Apart
<1> QED
  BY <1>7 DEF x, y

\* The same assertion in the same mode has one record, and the token expires with
\* the assertion.
LEMMA InvGivesDeadToken == ASSUME ExchangeInv PROVE ReuseYieldsDeadToken
<1> SUFFICES ASSUME NEW i \in DOMAIN minted, NEW j \in DOMAIN minted, i < j,
                    Caller(minted[i].r) = Caller(minted[j].r),
                    EffectiveExchangeMode(config, minted[i].r) =
                      EffectiveExchangeMode(config, minted[j].r)
             PROVE  minted[j].claims.exp < minted[j].at
  BY DEF ReuseYieldsDeadToken
<1>1. PICK p : p = minted[i].r
  OBVIOUS
<1>2. PICK q : q = minted[j].r
  OBVIOUS
<1>3. batch \in DOMAIN Batch /\ config \in Batch[batch].configs
  BY DEF ExchangeInv
<1>4. /\ p \in Batch[batch].requests /\ Approved(config, p)
      /\ q \in Batch[batch].requests /\ Approved(config, q)
      /\ minted[j].at \in Int
  BY <1>1, <1>2, TokenFacts
<1>5. PICK now \in Nat : minted[j].claims = BuildScopedPayload(config, q, now)
  BY <1>2, TokenFacts
<1>6. minted[j].claims.exp \in Int /\ minted[j].claims.exp <= CallerOf(config, q).exp
  BY <1>3, <1>4, <1>5, ClaimedExpiry
<1>7. \A x \in RecordsOf(config, p), y \in RecordsOf(config, q) : Apart(x, y, minted[j].at)
  BY <1>1, <1>2 DEF ExchangeInv, AllApart
<1>8. CallerOf(config, p) = CallerOf(config, q)
  BY <1>1, <1>2, CallerIsCallerOf
<1>9. CASE EffectiveExchangeMode(config, q) = "delegation"
  <2>1. p.actor = q.actor /\ q.actor.exp \in Int
    BY <1>1, <1>2, <1>3, <1>4, <1>8, <1>9, CallerRecorded DEF CallerOf
  <2>2. ActorRecord(p) \in RecordsOf(config, p) /\ ActorRecord(q) \in RecordsOf(config, q)
    BY <1>1, <1>2, <1>3, <1>4, <1>9, CallerRecorded
  <2>3. ActorRecord(p) = ActorRecord(q) /\ ActorRecord(q).exp = q.actor.exp
    BY <2>1 DEF ActorRecord, ActorKey
  <2>4. q.actor.exp < minted[j].at
    BY <1>7, <2>2, <2>3 DEF Apart
  <2> QED
    BY <1>4, <1>6, <1>9, <2>1, <2>4 DEF CallerOf
<1>10. CASE EffectiveExchangeMode(config, q) # "delegation"
  <2>1. p.assertion = q.assertion /\ q.assertion.exp \in Int
    BY <1>1, <1>2, <1>3, <1>4, <1>8, <1>10, CallerRecorded DEF CallerOf
  <2>2. ClientRecord(p) \in RecordsOf(config, p) /\ ClientRecord(q) \in RecordsOf(config, q)
    BY <1>1, <1>2, <1>3, <1>4, <1>10, CallerRecorded
  <2>3. ClientRecord(p) = ClientRecord(q) /\ ClientRecord(q).exp = q.assertion.exp
    BY <2>1 DEF ClientRecord, ClientKey
  <2>4. q.assertion.exp < minted[j].at
    BY <1>7, <2>2, <2>3 DEF Apart
  <2> QED
    BY <1>4, <1>6, <1>10, <2>1, <2>4 DEF CallerOf
<1> QED
  BY <1>9, <1>10

LEMMA InvGivesWithinGrant == ASSUME ExchangeInv PROVE MintedWithinGrant
<1> SUFFICES ASSUME NEW i \in DOMAIN minted, NEW r, r = minted[i].r,
                    NEW k, k = minted[i].claims
             PROVE  /\ k.exp <= r.subject.exp
                    /\ k.exp <= Caller(r).exp
                    /\ k.iat <= minted[i].at
                    /\ k.scope # {} /\ k.scope \subseteq config.targets[k.aud].allowed
                    /\ config.scopeBoundRequired /\ r.subject.scopes # {} =>
                         k.scope \subseteq r.subject.scopes
                    /\ k.clientId \in Caller(r).kid
                    /\ \A other \in (config.actorIds \cup config.clientIds) \cap Caller(r).kid :
                         <<k.clientId, other>> \notin config.extends
                    /\ k.act # <<>> =>
                         /\ r.subject.mayAct # None =>
                              /\ k.act[1] = r.subject.mayAct.sub
                              /\ r.subject.mayAct.iss \in {None, r.actor.iss}
                         /\ k.act[1] = k.clientId /\ k.clientId \in config.actorIds
                         /\ Tail(k.act) = r.subject.act
                         /\ Len(k.act) <= MaxActDepth + 1
                    /\ k.act = <<>> =>
                         /\ k.clientId \in DOMAIN config.impersonation
                         /\ Allows(config.impersonation[k.clientId].subjects, k.sub)
                         /\ Allows(config.impersonation[k.clientId].targets, k.aud)
                         /\ r.actor = None
                         /\ config.mode = "both" => ~r.emptyActor
                    /\ config.targets[k.aud].pqcRequired => config.alg \in PqcAlgs
  BY DEF MintedWithinGrant
<1>1. batch \in DOMAIN Batch /\ config \in Batch[batch].configs
  BY DEF ExchangeInv
<1>2. r \in Batch[batch].requests /\ Approved(config, r)
  BY TokenFacts
<1>3. PICK now \in Nat : now <= minted[i].at /\ k = BuildScopedPayload(config, r, now)
  BY TokenFacts
<1>4. /\ k.sub = r.subject.sub /\ k.aud = ResolvedTarget(r)
      /\ k.scope = ResolvedScope(config, r) /\ k.iat = now
  BY <1>3 DEF BuildScopedPayload
<1>5. k.exp <= r.subject.exp /\ k.exp <= Caller(r).exp
  BY <1>1, <1>2, <1>3, ClaimedExpiry, CallerIsCallerOf
<1>6. k.scope # {} /\ k.scope \subseteq config.targets[k.aud].allowed
  BY <1>2, <1>4, SubjectFacts, ScopeWithin DEF Approved
<1>7. config.scopeBoundRequired /\ r.subject.scopes # {} =>
        k.scope \subseteq r.subject.scopes
  BY <1>4, ScopeWithin
<1>8. EffectiveExchangeMode(config, r) \in {"delegation", "impersonation"}
  BY <1>1, ModeValues, TokenExchangeAssumption
<1>9. SigningDecisionForTarget(config, ResolvedTarget(r)) = "ok"
  BY <1>2, DelegationFacts, ImpersonationFacts DEF Approved
<1>10. config.targets[k.aud].pqcRequired => config.alg \in PqcAlgs
  BY <1>4, <1>9 DEF SigningDecisionForTarget
<1>11. CASE EffectiveExchangeMode(config, r) = "delegation"
  <2>1. k.clientId = r.actor.sub /\ k.act = <<r.actor.sub>> \o r.subject.act
    BY <1>3, <1>11 DEF BuildScopedPayload
  <2>2. /\ r.actor.sub \in config.actorIds
        /\ KidBelongsToClaimedIdentity(config, r.actor)
        /\ GateMayAct(r.subject.mayAct, r.actor) = "ok"
    BY <1>2, <1>11, DelegationFacts DEF Approved
  <2>3. r.subject.mayAct # None =>
          r.subject.mayAct.sub = r.actor.sub /\ r.subject.mayAct.iss \in {None, r.actor.iss}
    BY <2>2 DEF GateMayAct
  <2>4. r.subject.act # Malformed /\ ~(Len(r.subject.act) > MaxActDepth)
    BY <1>2, <1>11, ActFacts DEF Approved
  <2>5. r.subject.act \in Seq(STRING)
    BY <1>1, <1>2, <2>4, TokenExchangeAssumption DEF Approved
  <2>6. Len(r.subject.act) \in Nat
    BY <2>5, LenProperties
  <2>7. /\ k.act # <<>> /\ k.act[1] = r.actor.sub /\ Tail(k.act) = r.subject.act
        /\ Len(k.act) = Len(r.subject.act) + 1
    BY <2>1, <2>5, ActChain
  <2>8. Len(k.act) <= MaxActDepth + 1
    BY <2>4, <2>6, <2>7 DEF MaxActDepth
  <2>9. /\ k.clientId \in Caller(r).kid
        /\ \A other \in (config.actorIds \cup config.clientIds) \cap Caller(r).kid :
             <<k.clientId, other>> \notin config.extends
    BY <1>11, <2>1, <2>2 DEF Caller, KidBelongsToClaimedIdentity
  <2> QED
    BY <1>3, <1>4, <1>5, <1>6, <1>7, <1>10, <2>1, <2>2, <2>3, <2>7, <2>8, <2>9
<1>12. CASE EffectiveExchangeMode(config, r) = "impersonation"
  <2>1. k.clientId = r.assertion.sub /\ k.act = <<>>
    BY <1>3, <1>12 DEF BuildScopedPayload
  <2>2. /\ k.clientId \in DOMAIN config.impersonation
        /\ Allows(config.impersonation[k.clientId].subjects, k.sub)
        /\ Allows(config.impersonation[k.clientId].targets, k.aud)
    BY <1>2, <1>4, <1>12, <2>1, ImpersonationFacts DEF Approved
  <2>3. r.actor = None
    BY <1>2, <1>12, ClientFacts DEF Approved
  <2>4. config.mode = "both" => ~r.emptyActor
    BY <1>12 DEF EffectiveExchangeMode
  <2>5. KidBelongsToClaimedIdentity(config, r.assertion)
    BY <1>2, <1>12, ClientFacts DEF Approved
  <2>6. /\ k.clientId \in Caller(r).kid
        /\ \A other \in (config.actorIds \cup config.clientIds) \cap Caller(r).kid :
             <<k.clientId, other>> \notin config.extends
    BY <1>12, <2>1, <2>5 DEF Caller, KidBelongsToClaimedIdentity
  <2> QED
    BY <1>3, <1>4, <1>5, <1>6, <1>7, <1>10, <2>1, <2>2, <2>3, <2>4, <2>6
<1> QED
  BY <1>8, <1>11, <1>12

-------------------------------------------------------------------------------
(***************************************************************************)
(* The inductive step.                                                     *)
(***************************************************************************)
ThreadStates == [pc : PCs, r : Requests \cup {None}, now : Nat, i : Nat]

\* What is known of a request in flight stays so while the setup is fixed and
\* only more requests pass.
LEMMA FlightStays ==
  ASSUME NEW c, NEW x, FlightOK(c, x), UNCHANGED setup, passed \subseteq passed'
  PROVE  FlightOK(c, x)'
BY DEF FlightOK, Requests, setup

\* The records a request in flight has written are records of it, with integer
\* expiries.
LEMMA WrittenTimes ==
  ASSUME ExchangeInv, NEW t \in Thread
  PROVE  \A x \in Written(config, thread[t]) :
           x \in RecordsOf(config, thread[t].r) /\ x.exp \in Int
<1>1. batch \in DOMAIN Batch /\ config \in Batch[batch].configs /\ FlightOK(config, thread[t])
  BY DEF ExchangeInv, ThreadsOK
<1>2. CASE thread[t].pc \in {"record", "sign"}
  <2>1. /\ thread[t].r \in Batch[batch].requests
        /\ ClientPassed(config, thread[t].r) /\ ModePassed(config, thread[t].r)
    BY <1>1, <1>2 DEF FlightOK, Requests
  <2>2. \A x \in RecordsOf(config, thread[t].r) : x.exp \in Int
    BY <1>1, <2>1, RecordTimes
  <2> QED
    BY <1>2, <2>2 DEF Written, RecordsOf
<1> QED
  BY <1>2 DEF Written

LEMMA MintedTimes ==
  ASSUME ExchangeInv, NEW i \in DOMAIN minted
  PROVE  \A x \in RecordsOf(config, minted[i].r) : x.exp \in Int
<1>1. batch \in DOMAIN Batch /\ config \in Batch[batch].configs
  BY DEF ExchangeInv
<1> QED
  BY <1>1, TokenFacts, RecordTimes DEF Approved

\* One request moves on, or ends, without a new record or token; the store may be
\* swept of entries that have expired.
LEMMA MoveInv ==
  ASSUME ExchangeInv, NEW t \in Thread, NEW x \in ThreadStates,
         thread' = [thread EXCEPT ![t] = x], x.now <= clock, FlightOK(config, x)',
         Written(config, x) \subseteq Written(config, thread[t]),
         seen' \subseteq seen, \A e \in seen : e \in seen' \/ e.exp < clock,
         Cardinality(seen') <= MaxSeen, calls' \in 0 .. SweepEvery - 1,
         passed \subseteq passed', UNCHANGED <<setup, clock, minted>>
  PROVE  ExchangeInv'
<1>1. batch' = batch /\ config' = config /\ clock' = clock /\ minted' = minted
  BY DEF setup
<1>2. /\ batch \in DOMAIN Batch /\ config \in Batch[batch].configs
      /\ clock \in 0 .. MaxTime
  BY DEF ExchangeInv
<1>3. \A u \in Thread : thread'[u] = IF u = t THEN x ELSE thread[u]
  BY DEF ExchangeInv, ThreadsOK
<1>4. ThreadsOK'
  <2>1. thread' \in [Thread -> ThreadStates]
    BY DEF ExchangeInv, ThreadsOK, ThreadStates
  <2>2. ThreadStates' = ThreadStates
    BY <1>1 DEF ThreadStates, Requests
  <2>3. \A u \in Thread : thread'[u].now <= clock'
    BY <1>1, <1>3 DEF ExchangeInv, ThreadsOK
  <2>4. \A u \in Thread : FlightOK(config, thread[u])
    BY DEF ExchangeInv, ThreadsOK
  <2>5. \A u \in Thread : FlightOK(config, thread[u])'
    <3>1. ASSUME NEW u \in Thread, u # t PROVE FlightOK(config, thread[u])'
      <4>1. PICK c, y : c = config /\ y = thread[u]
        OBVIOUS
      <4>2. FlightOK(c, y)'
        BY <2>4, <4>1, FlightStays
      <4>3. config' = c /\ thread'[u] = y
        BY <1>1, <1>3, <3>1, <4>1
      <4> QED
        BY <4>2, <4>3
    <3>2. FlightOK(config, thread[t])'
      BY <1>3
    <3> QED
      BY <3>1, <3>2
  <2> QED
    BY <2>1, <2>2, <2>3, <2>5 DEF ThreadsOK, ThreadStates
<1>5. StoreOK'
  <2>1. IsFiniteSet(seen')
    BY FS_Subset DEF ExchangeInv, StoreOK
  <2> QED
    BY <2>1 DEF ExchangeInv, StoreOK
<1>6. MintedOK'
  <2>1. \A m : TokenOK(config, m)' <=> TokenOK(config, m)
    BY <1>1 DEF TokenOK, Requests
  <2>2. Tokens' = Tokens
    BY <1>1 DEF Tokens, Requests
  <2> QED
    BY <1>1, <2>1, <2>2 DEF ExchangeInv, MintedOK
<1>7. BurnedOnlyAfterGates'
  BY <1>1 DEF ExchangeInv, BurnedOnlyAfterGates
<1>8. \A y : Held(y) => Held(y)'
  <2> SUFFICES ASSUME NEW y, y \in seen
               PROVE  Held(y)'
    BY <1>1 DEF Held
  <2> DEFINE e == y
  <2>1. e \in seen' \/ e.exp < clock
    OBVIOUS
  <2> QED
    BY <1>1, <2>1 DEF Held
<1>9. \A u \in Thread : Written(config, thread[u])' \subseteq Written(config, thread[u])
  BY <1>1, <1>3
<1>10. \A i \in DOMAIN minted : RecordsOf(config, minted[i].r)' = RecordsOf(config, minted[i].r)
  BY <1>1
<1>11. AllHeld'
  BY <1>1, <1>8, <1>9, <1>10 DEF ExchangeInv, AllHeld
<1>12. AllApart'
  BY <1>1, <1>9, <1>10 DEF ExchangeInv, AllApart
<1> QED
  BY <1>1, <1>2, <1>4, <1>5, <1>6, <1>7, <1>11, <1>12 DEF ExchangeInv

LEMMA IdleState ==
  ASSUME ExchangeInv
  PROVE  /\ Idle \in ThreadStates /\ Idle.now <= clock /\ Idle.pc = "idle"
         /\ FlightOK(config, Idle)'
         /\ Written(config, Idle) = {}
<1>1. clock \in Nat
  BY TokenExchangeAssumption DEF ExchangeInv
<1>2. Idle \in ThreadStates /\ Idle.now <= clock /\ Idle.pc = "idle"
  BY <1>1 DEF Idle, ThreadStates, PCs
<1> QED
  BY <1>2 DEF FlightOK, Written

\* A request is refused: its thread is free again, the store may be swept.
LEMMA RefuseInv ==
  ASSUME ExchangeInv, NEW t \in Thread, Answered(t),
         seen' \subseteq seen, \A e \in seen : e \in seen' \/ e.exp < clock,
         Cardinality(seen') <= MaxSeen, calls' \in 0 .. SweepEvery - 1,
         passed' = passed, UNCHANGED <<setup, clock, minted>>
  PROVE  ExchangeInv'
<1>1. thread' = [thread EXCEPT ![t] = Idle]
  BY DEF Answered
<1>2. /\ Idle \in ThreadStates /\ Idle.now <= clock /\ FlightOK(config, Idle)'
      /\ Written(config, Idle) \subseteq Written(config, thread[t])
  BY IdleState
<1> QED
  BY <1>1, <1>2, MoveInv

\* The store is left alone.
LEMMA StoreKept ==
  ASSUME ExchangeInv, UNCHANGED store
  PROVE  /\ seen' \subseteq seen /\ (\A e \in seen : e \in seen' \/ e.exp < clock)
         /\ Cardinality(seen') <= MaxSeen /\ calls' \in 0 .. SweepEvery - 1
BY DEF ExchangeInv, StoreOK, store

\* The fields of a thread, and what an update of its program counter is.
LEMMA ThreadFields ==
  ASSUME ExchangeInv, NEW t \in Thread
  PROVE  /\ thread[t] \in ThreadStates /\ thread[t].now <= clock
         /\ FlightOK(config, thread[t])
         /\ \A pc \in PCs :
              LET x == [thread[t] EXCEPT !.pc = pc]
              IN  /\ x \in ThreadStates /\ x.pc = pc /\ x.r = thread[t].r
                  /\ x.now = thread[t].now /\ x.i = thread[t].i
                  /\ [thread EXCEPT ![t].pc = pc] = [thread EXCEPT ![t] = x]
BY DEF ExchangeInv, ThreadsOK, ThreadStates

\* A request passes a gate before its last one.
LEMMA GotoInv ==
  ASSUME ExchangeInv, NEW t \in Thread, thread[t].pc \in {"client", "dpop", "subject", "mode"},
         NEW pc \in {"dpop", "subject", "mode", "now"}, Goto(t, pc),
         ClientPassed(config, thread[t].r),
         pc \in {"mode", "now"} => SubjectPassed(config, thread[t].r),
         pc = "now" => ModePassed(config, thread[t].r),
         UNCHANGED <<setup, clock, store, passed, minted>>
  PROVE  ExchangeInv'
<1>1. PICK x : x = [thread[t] EXCEPT !.pc = pc]
  OBVIOUS
<1>2. pc \in PCs
  BY DEF PCs
<1>3. /\ x \in ThreadStates /\ x.pc = pc /\ x.r = thread[t].r
      /\ x.now = thread[t].now /\ x.i = thread[t].i
      /\ thread' = [thread EXCEPT ![t] = x]
  BY <1>1, <1>2, ThreadFields DEF Goto
<1>4. x.now <= clock
  BY <1>3, ThreadFields
<1>5. FlightOK(config, x)'
  <2>1. thread[t].r \in Requests /\ thread[t].r.subject # None
    BY ThreadFields DEF FlightOK
  <2>2. config' = config /\ Requests' = Requests
    BY DEF setup, Requests
  <2> QED
    BY <1>3, <2>1, <2>2 DEF FlightOK
<1>6. Written(config, x) \subseteq Written(config, thread[t])
  BY <1>3 DEF Written
<1> QED
  BY <1>3, <1>4, <1>5, <1>6, StoreKept, MoveInv

LEMMA GateInv ==
  ASSUME ExchangeInv, NEW t \in Thread, thread[t].pc \in {"client", "dpop", "subject", "mode"},
         NEW outcome, NEW pc \in {"dpop", "subject", "mode", "now"}, Gate(t, outcome, pc),
         outcome = "ok" =>
           /\ ClientPassed(config, thread[t].r)
           /\ pc \in {"mode", "now"} => SubjectPassed(config, thread[t].r)
           /\ pc = "now" => ModePassed(config, thread[t].r),
         UNCHANGED <<setup, clock, store, passed, minted>>
  PROVE  ExchangeInv'
<1>1. CASE outcome = "ok" /\ Goto(t, pc)
  BY <1>1, GotoInv
<1>2. CASE Answered(t)
  BY <1>2, StoreKept, RefuseInv
<1> QED
  BY <1>1, <1>2 DEF Gate

-------------------------------------------------------------------------------
LEMMA ReceiveInv ==
  ASSUME ExchangeInv, NEW t \in Thread, NEW r \in Batch[batch].requests, Receive(t, r)
  PROVE  ExchangeInv'
<1> DEFINE outcome == Then(ParseTokenForm(r), ValidateRequestParams(r))
<1>1. UNCHANGED <<setup, clock, store, passed, minted>>
  BY DEF Receive
<1>2. CASE outcome # "ok" /\ Answered(t)
  BY <1>1, <1>2, StoreKept, RefuseInv
<1>3. CASE /\ outcome = "ok"
           /\ thread' = [thread EXCEPT ![t] = [Idle EXCEPT !.pc = "client", !.r = r]]
  <2>1. PICK x : x = [Idle EXCEPT !.pc = "client", !.r = r]
    OBVIOUS
  <2>2. clock \in Nat
    BY TokenExchangeAssumption DEF ExchangeInv
  <2>3. x \in ThreadStates /\ x.pc = "client" /\ x.r = r /\ x.now = 0
    BY <2>1 DEF Idle, ThreadStates, PCs, Requests
  <2>4. r.subject # None
    BY <1>3, HasSubject
  <2>5. FlightOK(config, x)'
    BY <1>1, <2>3, <2>4 DEF FlightOK, Requests, setup
  <2>6. Written(config, x) \subseteq Written(config, thread[t])
    BY <2>3 DEF Written
  <2>7. x.now <= clock /\ thread' = [thread EXCEPT ![t] = x]
    BY <1>3, <2>1, <2>2, <2>3
  <2> QED
    BY <1>1, <2>3, <2>5, <2>6, <2>7, StoreKept, MoveInv
<1> QED
  BY <1>2, <1>3 DEF Receive

\* The gates of token_inner, one after the other.
LEMMA GatesInv ==
  ASSUME ExchangeInv, NEW t \in Thread,
         \/ AuthenticateClient(t) \/ ValidateDpop(t) \/ VerifySubject(t)
         \/ ExchangeDelegation(t) \/ ExchangeImpersonation(t)
  PROVE  ExchangeInv'
<1>1. clock \in Int /\ FlightOK(config, thread[t])
  BY ThreadFields, TokenExchangeAssumption DEF ExchangeInv
<1>2. CASE AuthenticateClient(t)
  <2>1. AuthenticateClientIfPresent(config, thread[t].r, clock) = "ok" =>
          ClientPassed(config, thread[t].r)
    BY <1>1 DEF ClientPassed
  <2> QED
    BY <1>2, <2>1, GateInv DEF AuthenticateClient
<1>3. CASE ValidateDpop(t)
  <2>1. ClientPassed(config, thread[t].r)
    BY <1>1, <1>3 DEF FlightOK, ValidateDpop
  <2> QED
    BY <1>3, <2>1, GateInv DEF ValidateDpop
<1>4. CASE VerifySubject(t)
  <2>1. ClientPassed(config, thread[t].r)
    BY <1>1, <1>4 DEF FlightOK, VerifySubject
  <2>2. SubjectGates(config, thread[t].r, clock) = "ok" => SubjectPassed(config, thread[t].r)
    BY <1>1 DEF SubjectPassed
  <2> QED
    BY <1>4, <2>1, <2>2, GateInv DEF VerifySubject
<1>5. CASE ExchangeDelegation(t)
  <2>1. ClientPassed(config, thread[t].r) /\ SubjectPassed(config, thread[t].r)
    BY <1>1, <1>5 DEF FlightOK, ExchangeDelegation
  <2>2. DelegationGates(config, thread[t].r, clock) = "ok" => ModePassed(config, thread[t].r)
    BY <1>1, <1>5 DEF ModePassed, ExchangeDelegation
  <2> QED
    BY <1>5, <2>1, <2>2, GateInv DEF ExchangeDelegation
<1>6. CASE ExchangeImpersonation(t)
  <2>1. ClientPassed(config, thread[t].r) /\ SubjectPassed(config, thread[t].r)
    BY <1>1, <1>6 DEF FlightOK, ExchangeImpersonation
  <2>2. ImpersonationGates(config, thread[t].r) = "ok" => ModePassed(config, thread[t].r)
    BY <1>1, <1>6 DEF ModePassed, ExchangeImpersonation
  <2> QED
    BY <1>6, <2>1, <2>2, GateInv DEF ExchangeImpersonation
<1> QED
  BY <1>2, <1>3, <1>4, <1>5, <1>6

\* The last gates, and the clock reading that goes with the records and the
\* token: a request that is approved has at least one record to write.
LEMMA ReadNowInv ==
  ASSUME ExchangeInv, NEW t \in Thread, ReadNow(t)
  PROVE  ExchangeInv'
<1> DEFINE r == thread[t].r
           outcome == IF EffectiveExchangeMode(config, r) = "delegation" THEN ActGates(r) ELSE "ok"
<1>1. thread[t].pc = "now" /\ UNCHANGED <<setup, clock, store, minted>>
  BY DEF ReadNow
<1>2. CASE Answered(t) /\ UNCHANGED passed
  BY <1>1, <1>2, StoreKept, RefuseInv
<1>3. CASE /\ outcome = "ok" /\ passed' = passed \cup {r}
           /\ thread' = [thread EXCEPT ![t].pc = "record", ![t].now = clock, ![t].i = 1]
  <2>0. thread \in [Thread -> ThreadStates]
    BY DEF ExchangeInv, ThreadsOK, ThreadStates
  <2>1. /\ r \in Requests /\ r.subject # None /\ ClientPassed(config, r)
        /\ SubjectPassed(config, r) /\ ModePassed(config, r)
    BY <1>1, ThreadFields DEF FlightOK
  <2>2. ActPassed(config, r)
    BY <1>3 DEF ActPassed
  <2>3. Approved(config, r)
    BY <2>1, <2>2 DEF Approved
  <2>4. 1 \in DOMAIN ReplayRecords(config, r)
    BY <2>1, <2>3, CallerRecorded DEF ExchangeInv, Requests
  <2>5. clock \in Nat
    BY TokenExchangeAssumption DEF ExchangeInv
  <2>6. PICK x : x = [thread[t] EXCEPT !.pc = "record", !.now = clock, !.i = 1]
    OBVIOUS
  <2>7. x \in ThreadStates /\ x.pc = "record" /\ x.r = r /\ x.now = clock /\ x.i = 1
    BY <2>0, <2>5, <2>6 DEF ThreadStates, PCs
  <2>8. thread' = [thread EXCEPT ![t] = x]
    BY <1>3, <2>6, <2>0 DEF ThreadStates
  <2>9. config' = config /\ Requests' = Requests /\ r \in passed'
    BY <1>1, <1>3 DEF setup, Requests
  <2>10. FlightOK(config, x)'
    <3>1. PICK q : q = r
      OBVIOUS
    <3> QED
      BY <2>1, <2>2, <2>4, <2>7, <2>9, <3>1 DEF FlightOK
  <2>11. Written(config, x) \subseteq Written(config, thread[t])
    <3>1. ReplayRecords(config, r) \in
            Seq({ActorRecord(r), ClientRecord(r), ProofRecord(config, r)})
      BY RecordsShape
    <3>2. \A b \in DOMAIN ReplayRecords(config, r) : ~(b < 1)
      BY <3>1, LenProperties
    <3> QED
      BY <2>7, <3>2 DEF Written
  <2>12. x.now <= clock /\ passed \subseteq passed'
    BY <1>3, <2>5, <2>7 DEF ExchangeInv
  <2> QED
    BY <1>1, <2>7, <2>8, <2>10, <2>11, <2>12, StoreKept, MoveInv
<1> QED
  BY <1>2, <1>3 DEF ReadNow

\* What the sweeps leave, seen from the endpoint: only entries that have expired
\* at some thread's clock reading are gone.
LEMMA SweepLeaves ==
  ASSUME ExchangeInv, NEW t \in Thread,
         NEW left, left = Swept(seen, calls, thread[t].now)
  PROVE  /\ left \subseteq seen
         /\ \A e \in seen : e \in left \/ e.exp < clock
         /\ Cardinality(left) <= MaxSeen
         /\ CountCall(calls) \in 0 .. SweepEvery - 1
<1>1. thread[t].now \in Nat /\ thread[t].now <= clock /\ clock \in Nat
  BY ThreadFields, TokenExchangeAssumption DEF ExchangeInv, ThreadStates
<1>2. /\ IsFiniteSet(seen) /\ Cardinality(seen) <= MaxSeen
      /\ calls \in 0 .. SweepEvery - 1 /\ \A e \in seen : e.exp \in Int
  BY DEF ExchangeInv, StoreOK
<1>3. left \subseteq seen /\ \A e \in seen : e.exp >= thread[t].now => e \in left
  BY SweptKeeps
<1>4. Cardinality(left) <= MaxSeen
  BY <1>2, RoomForOne
<1>5. CountCall(calls) \in 0 .. SweepEvery - 1
  BY <1>2, CountCallInRange
<1> QED
  BY <1>1, <1>2, <1>3, <1>4, <1>5

LEMMA RefusedRecordInv ==
  ASSUME ExchangeInv, NEW t \in Thread, RecordReplayed(t) \/ RecordFull(t)
  PROVE  ExchangeInv'
<1>1. CASE RecordReplayed(t)
  BY <1>1, StoreKept, RefuseInv DEF RecordReplayed
<1>2. CASE RecordFull(t)
  <2>1. /\ seen' = Swept(seen, calls, thread[t].now) /\ calls' = CountCall(calls)
        /\ Answered(t) /\ UNCHANGED <<setup, clock, passed, minted>>
    BY <1>2 DEF RecordFull
  <2>2. /\ seen' \subseteq seen /\ (\A e \in seen : e \in seen' \/ e.exp < clock)
        /\ Cardinality(seen') <= MaxSeen /\ calls' \in 0 .. SweepEvery - 1
    BY <2>1, SweepLeaves
  <2> QED
    BY <2>1, <2>2, RefuseInv
<1> QED
  BY <1>1, <1>2

\* A record is written: its key was not in the store, so of the other requests
\* and tokens that have a record with that key, theirs has expired.
LEMMA RecordInv ==
  ASSUME ExchangeInv, NEW t \in Thread, Record(t)
  PROVE  ExchangeInv'
<1>1. PICK c, r, i : c = config /\ r = thread[t].r /\ i = thread[t].i
  OBVIOUS
<1>2. PICK left : left = Swept(seen, calls, thread[t].now)
  OBVIOUS
<1>3. PICK p : p = ReplayRecords(c, r)[i]
  OBVIOUS
<1>4. PICK ne : ne = p
  OBVIOUS
<1>5. p = Pending(t)
  BY <1>1, <1>3 DEF Pending
<1>6. /\ thread[t].pc = "record" /\ ~Contains(seen, p.key) /\ ~IsFull(left)
      /\ seen' = left \cup {ne} /\ calls' = CountCall(calls)
      /\ UNCHANGED <<setup, clock, passed, minted>>
  BY <1>1, <1>2, <1>4, <1>5 DEF Record
<1>7. /\ batch' = batch /\ config' = config /\ clock' = clock /\ minted' = minted
      /\ batch \in DOMAIN Batch /\ config \in Batch[batch].configs
      /\ clock \in 0 .. MaxTime /\ clock \in Nat
  BY <1>6, TokenExchangeAssumption DEF setup, ExchangeInv
<1>8. /\ thread \in [Thread -> ThreadStates]
      /\ \A u \in Thread : thread[u].now <= clock /\ FlightOK(config, thread[u])
  BY DEF ExchangeInv, ThreadsOK, ThreadStates
<1>9. /\ r \in Batch[batch].requests /\ Approved(c, r) /\ r \in passed
      /\ i \in DOMAIN ReplayRecords(c, r) /\ i \in Nat
  BY <1>1, <1>6, <1>8 DEF FlightOK, Requests, Approved, ThreadStates
<1>10. /\ DOMAIN ReplayRecords(c, r) = 1 .. Len(ReplayRecords(c, r))
       /\ Len(ReplayRecords(c, r)) \in Nat
  BY <1>1, <1>7, <1>9, CallerRecorded
<1>11. p \in RecordsOf(c, r) /\ p.exp \in Int
  <2>1. p \in RecordsOf(c, r)
    BY <1>3, <1>9 DEF RecordsOf
  <2> QED
    BY <1>1, <1>7, <1>9, <2>1, RecordTimes DEF Approved
<1>12. /\ left \subseteq seen
       /\ \A e \in seen : e \in left \/ e.exp < clock
       /\ calls' \in 0 .. SweepEvery - 1
  BY <1>2, <1>6, SweepLeaves
<1>13. PICK x : x = [thread[t] EXCEPT !.i = i + 1,
                       !.pc = IF i = Len(ReplayRecords(c, r)) THEN "sign" ELSE "record"]
  OBVIOUS
<1>14. /\ x \in ThreadStates /\ x.r = r /\ x.now = thread[t].now /\ x.i = i + 1
       /\ x.pc = IF i = Len(ReplayRecords(c, r)) THEN "sign" ELSE "record"
  <2>1. PICK label : label = IF i = Len(ReplayRecords(c, r)) THEN "sign" ELSE "record"
    OBVIOUS
  <2>2. label \in PCs
    BY <2>1 DEF PCs
  <2>3. x = [thread[t] EXCEPT !.i = i + 1, !.pc = label]
    BY <1>13, <2>1
  <2>4. x \in ThreadStates /\ x.r = thread[t].r /\ x.now = thread[t].now
        /\ x.i = i + 1 /\ x.pc = label
    <3>1. thread[t] \in ThreadStates /\ i + 1 \in Nat
      BY <1>8, <1>9
    <3> QED
      BY <2>2, <2>3, <3>1 DEF ThreadStates
  <2> QED
    BY <1>1, <2>1, <2>4
<1>15. thread' = [thread EXCEPT ![t] = x]
  BY <1>1, <1>8, <1>13 DEF Record, ThreadStates
<1>16. \A u \in Thread : thread'[u] = IF u = t THEN x ELSE thread[u]
  BY <1>8, <1>15
<1>17. Written(c, x) \subseteq Written(c, thread[t]) \cup {p}
  <2>1. \A b \in DOMAIN ReplayRecords(c, r) : b < i + 1 => b < i \/ b = i
    BY <1>9, <1>10
  <2>2. ASSUME NEW y \in Written(c, x) PROVE y \in Written(c, thread[t]) \cup {p}
    <3>1. PICK b \in DOMAIN ReplayRecords(c, r) : b < i + 1 /\ y = ReplayRecords(c, r)[b]
      BY <1>14, <2>2 DEF Written
    <3>2. CASE b = i
      BY <1>3, <3>1, <3>2
    <3>3. CASE b < i
      BY <1>1, <1>6, <3>1, <3>3 DEF Written
    <3> QED
      BY <2>1, <3>1, <3>2, <3>3
  <2> QED
    BY <2>2
<1>18. ThreadsOK'
  <2>1. thread' \in [Thread -> ThreadStates]
    BY <1>8, <1>14, <1>15
  <2>2. ThreadStates' = ThreadStates
    BY <1>7 DEF ThreadStates, Requests
  <2>3. \A u \in Thread : thread'[u].now <= clock'
    BY <1>7, <1>8, <1>14, <1>16
  <2>4. FlightOK(c, x)'
    <3>1. Requests' = Requests /\ passed' = passed /\ r \in Requests
      BY <1>6, <1>7, <1>9 DEF Requests
    <3>2. CASE i = Len(ReplayRecords(c, r))
      <4>1. x.pc = "sign" /\ x.i > Len(ReplayRecords(c, r))
        BY <1>9, <1>14, <3>2
      <4> QED
        BY <1>9, <1>14, <3>1, <4>1 DEF FlightOK, Approved
    <3>3. CASE i # Len(ReplayRecords(c, r))
      <4>1. i + 1 \in DOMAIN ReplayRecords(c, r)
        <5>1. i \in 1 .. Len(ReplayRecords(c, r)) /\ Len(ReplayRecords(c, r)) \in Nat
          BY <1>9, <1>10
        <5>2. i + 1 \in 1 .. Len(ReplayRecords(c, r))
          BY <3>3, <5>1
        <5> QED
          BY <1>10, <5>2
      <4>2. x.pc = "record" /\ x.i \in DOMAIN ReplayRecords(c, r)
        BY <1>14, <3>3, <4>1
      <4> QED
        BY <1>9, <1>14, <3>1, <4>2 DEF FlightOK, Approved
    <3> QED
      BY <3>2, <3>3
  <2>5. ASSUME NEW u \in Thread PROVE FlightOK(config, thread[u])'
    <3>1. CASE u = t
      BY <1>1, <1>7, <1>16, <2>4, <3>1
    <3>2. CASE u # t
      <4>1. PICK y : y = thread[u]
        OBVIOUS
      <4>2. FlightOK(c, y)'
        BY <1>1, <1>6, <1>8, <4>1, FlightStays
      <4> QED
        BY <1>1, <1>7, <1>16, <3>2, <4>1, <4>2
    <3> QED
      BY <3>1, <3>2
  <2> QED
    BY <2>1, <2>2, <2>3, <2>5 DEF ThreadsOK, ThreadStates
<1>19. StoreOK'
  <2>1. IsFiniteSet(seen') /\ Cardinality(seen') <= MaxSeen
    BY <1>2, <1>6, RoomForOne DEF ExchangeInv, StoreOK
  <2>2. ne.exp \in Int
    BY <1>4, <1>11
  <2>3. \A e \in seen' : e.exp \in Int
    BY <1>6, <1>12, <2>2 DEF ExchangeInv, StoreOK
  <2> QED
    BY <1>12, <2>1, <2>3 DEF StoreOK
<1>20. MintedOK'
  <2>1. \A m : TokenOK(config, m)' <=> TokenOK(config, m)
    BY <1>7 DEF TokenOK, Requests
  <2>2. Tokens' = Tokens
    BY <1>7 DEF Tokens, Requests
  <2> QED
    BY <1>6, <1>7, <2>1, <2>2 DEF ExchangeInv, MintedOK
<1>21. BurnedOnlyAfterGates'
  <2>1. ne.key = ReplayRecords(c, r)[i].key
    BY <1>3, <1>4
  <2>2. \A e \in seen' : e \in seen \/ e = ne
    BY <1>6, <1>12
  <2> QED
    BY <1>1, <1>6, <1>7, <1>9, <2>1, <2>2 DEF ExchangeInv, BurnedOnlyAfterGates
<1>22. \A y : Held(y) => Held(y)'
  <2> SUFFICES ASSUME NEW y, y \in seen
               PROVE  Held(y)'
    BY <1>7 DEF Held
  <2> DEFINE e == y
  <2>1. e \in seen' \/ e.exp < clock
    BY <1>6, <1>12
  <2> QED
    BY <1>7, <2>1 DEF Held
<1>23. Held(p)'
  BY <1>4, <1>6 DEF Held
<1>24. \A y : Held(y) /\ y.key = p.key => y.exp < clock
  <2> SUFFICES ASSUME NEW y, y.key = p.key PROVE y \notin seen
    BY DEF Held
  <2> DEFINE e == y
  <2>1. e.key = p.key
    OBVIOUS
  <2> QED
    BY <1>6, <2>1 DEF Contains
<1>25. /\ \A u \in Thread : u # t => Written(config, thread[u])' = Written(c, thread[u])
       /\ Written(config, thread[t])' = Written(c, x)
       /\ \A j \in DOMAIN minted :
            RecordsOf(config, minted[j].r)' = RecordsOf(c, minted[j].r)
  BY <1>1, <1>7, <1>16
<1>26. /\ \A u \in Thread : \A y \in Written(c, thread[u]) : Held(y)
       /\ \A j \in DOMAIN minted : \A y \in RecordsOf(c, minted[j].r) : Held(y)
  BY <1>1 DEF ExchangeInv, AllHeld
<1>27. AllHeld'
  BY <1>7, <1>17, <1>22, <1>23, <1>25, <1>26 DEF AllHeld
<1>28. \A y : Held(y) => Apart(p, y, clock) /\ Apart(y, p, clock)
  BY <1>24 DEF Apart
<1>29. ASSUME NEW u \in Thread, NEW v \in Thread, u # v,
              NEW y \in Written(config, thread[u])', NEW z \in Written(config, thread[v])'
       PROVE  Apart(y, z, clock)
  <2>1. CASE u # t /\ v # t
    BY <1>1, <1>25, <1>29, <2>1 DEF ExchangeInv, AllApart
  <2>2. CASE u = t
    BY <1>1, <1>17, <1>25, <1>26, <1>28, <1>29, <2>2 DEF ExchangeInv, AllApart
  <2>3. CASE v = t
    BY <1>1, <1>17, <1>25, <1>26, <1>28, <1>29, <2>3 DEF ExchangeInv, AllApart
  <2> QED
    BY <2>1, <2>2, <2>3
<1>30. ASSUME NEW u \in Thread, NEW j \in DOMAIN minted,
              NEW y \in Written(config, thread[u])', NEW z \in RecordsOf(config, minted[j].r)'
       PROVE  Apart(y, z, clock)
  <2>1. CASE u # t
    BY <1>1, <1>25, <1>30, <2>1 DEF ExchangeInv, AllApart
  <2>2. CASE u = t
    BY <1>1, <1>17, <1>25, <1>26, <1>28, <1>30, <2>2 DEF ExchangeInv, AllApart
  <2> QED
    BY <2>1, <2>2
<1>31. AllApart'
  BY <1>1, <1>7, <1>25, <1>29, <1>30 DEF ExchangeInv, AllApart
<1> QED
  BY <1>7, <1>18, <1>19, <1>20, <1>21, <1>27, <1>31 DEF ExchangeInv

\* A token is signed: the records its request has written become the token's.
LEMMA SignInv ==
  ASSUME ExchangeInv, NEW t \in Thread, Sign(t)
  PROVE  ExchangeInv'
<1>1. PICK c, r : c = config /\ r = thread[t].r
  OBVIOUS
<1>2. PICK m : m = [r |-> r, at |-> clock,
                    claims |-> BuildScopedPayload(c, r, thread[t].now)]
  OBVIOUS
<1>3. /\ thread[t].pc = "sign" /\ minted' = Append(minted, m) /\ Answered(t)
      /\ UNCHANGED <<setup, clock, store, passed>>
  BY <1>1, <1>2 DEF Sign
<1>4. /\ batch' = batch /\ config' = config /\ clock' = clock /\ seen' = seen /\ calls' = calls
      /\ batch \in DOMAIN Batch /\ config \in Batch[batch].configs
      /\ clock \in 0 .. MaxTime /\ clock \in Nat
  BY <1>3, TokenExchangeAssumption DEF setup, store, ExchangeInv
<1>5. /\ thread \in [Thread -> ThreadStates]
      /\ \A u \in Thread : thread[u].now <= clock /\ FlightOK(config, thread[u])
  BY DEF ExchangeInv, ThreadsOK, ThreadStates
<1>6. /\ r \in Requests /\ Approved(c, r) /\ r \in passed
      /\ thread[t].i > Len(ReplayRecords(c, r)) /\ thread[t].i \in Nat /\ thread[t].now \in Nat
  BY <1>1, <1>3, <1>5 DEF FlightOK, Approved, ThreadStates
<1>7. PICK x : x = Idle
  OBVIOUS
<1>8. /\ x \in ThreadStates /\ x.now <= clock /\ FlightOK(config, x)'
      /\ Written(config, x) = {}
  BY <1>7, IdleState
<1>9. thread' = [thread EXCEPT ![t] = x]
  BY <1>3, <1>7 DEF Answered
<1>10. \A u \in Thread : thread'[u] = IF u = t THEN x ELSE thread[u]
  BY <1>5, <1>9
<1>11. Written(c, thread[t]) = RecordsOf(c, r)
  <2>1. /\ DOMAIN ReplayRecords(c, r) = 1 .. Len(ReplayRecords(c, r))
        /\ Len(ReplayRecords(c, r)) \in Nat
    BY <1>1, <1>4, <1>6, CallerRecorded DEF Requests
  <2>2. \A b \in DOMAIN ReplayRecords(c, r) : b < thread[t].i
    BY <1>6, <2>1
  <2> QED
    BY <1>1, <1>3, <2>2 DEF Written, RecordsOf
<1>12. ThreadsOK'
  <2>1. thread' \in [Thread -> ThreadStates]
    BY <1>5, <1>8, <1>9
  <2>2. ThreadStates' = ThreadStates
    BY <1>4 DEF ThreadStates, Requests
  <2>3. \A u \in Thread : thread'[u].now <= clock'
    BY <1>4, <1>5, <1>8, <1>10
  <2>5. ASSUME NEW u \in Thread PROVE FlightOK(config, thread[u])'
    <3>1. CASE u = t
      BY <1>8, <1>10, <3>1
    <3>2. CASE u # t
      <4>1. PICK y : y = thread[u]
        OBVIOUS
      <4>2. FlightOK(c, y)'
        BY <1>1, <1>3, <1>5, <4>1, FlightStays
      <4> QED
        BY <1>1, <1>4, <1>10, <3>2, <4>1, <4>2
    <3> QED
      BY <3>1, <3>2
  <2> QED
    BY <2>1, <2>2, <2>3, <2>5 DEF ThreadsOK, ThreadStates
<1>13. StoreOK' /\ BurnedOnlyAfterGates'
  BY <1>3, <1>4 DEF ExchangeInv, StoreOK, BurnedOnlyAfterGates
<1>15. m.r = r /\ m.at = clock /\ m.claims = BuildScopedPayload(c, r, thread[t].now)
  BY <1>2
<1>16. m \in Tokens
  BY <1>1, <1>2, <1>4, <1>6 DEF Tokens
<1>17. /\ minted \in Seq(Tokens) /\ Len(minted) \in Nat /\ DOMAIN minted = 1 .. Len(minted)
       /\ minted' \in Seq(Tokens) /\ DOMAIN minted' = 1 .. Len(minted) + 1
       /\ Len(minted') = Len(minted) + 1
       /\ \A i \in 1 .. Len(minted) : minted'[i] = minted[i]
       /\ minted'[Len(minted) + 1] = m
  <2>1. minted \in Seq(Tokens)
    BY DEF ExchangeInv, MintedOK
  <2>2. Len(minted) \in Nat /\ DOMAIN minted = 1 .. Len(minted)
    BY <2>1, LenProperties
  <2>3. /\ minted' \in Seq(Tokens) /\ Len(minted') = Len(minted) + 1
        /\ \A i \in 1 .. Len(minted) : minted'[i] = minted[i]
        /\ minted'[Len(minted) + 1] = m
    BY <1>3, <1>16, <2>1, AppendProperties
  <2>4. DOMAIN minted' = 1 .. Len(minted')
    BY <2>3, LenProperties
  <2> QED
    BY <2>1, <2>2, <2>3, <2>4
<1>18. MintedOK'
  <2>1. \A k : TokenOK(config, k)' <=> TokenOK(config, k)
    BY <1>4 DEF TokenOK, Requests
  <2>2. Tokens' = Tokens
    BY <1>4 DEF Tokens, Requests
  <2>3. TokenOK(config, m)
    <3>1. m.at \in Int /\ thread[t].now <= m.at
      BY <1>4, <1>5, <1>15
    <3> QED
      BY <1>1, <1>6, <1>15, <3>1 DEF TokenOK
  <2>4. \A i \in DOMAIN minted' : TokenOK(config, minted'[i])
    BY <1>17, <2>3 DEF ExchangeInv, MintedOK
  <2> QED
    BY <1>4, <1>17, <2>1, <2>2, <2>4 DEF MintedOK
<1>19. PICK n : n = Len(minted)
  OBVIOUS
<1>20. /\ \A u \in Thread : u # t => Written(config, thread[u])' = Written(c, thread[u])
       /\ Written(config, thread[t])' = {}
  <2>1. Written(c, x) = {}
    BY <1>1, <1>8
  <2> QED
    BY <1>1, <1>4, <1>10, <2>1
<1>21. /\ DOMAIN minted = 1 .. n /\ (DOMAIN minted)' = 1 .. n + 1 /\ n \in Nat
       /\ \A i \in 1 .. n : /\ RecordsOf(config, minted[i].r)' = RecordsOf(c, minted[i].r)
                            /\ minted'[i].at = minted[i].at
       /\ RecordsOf(config, minted[n + 1].r)' = RecordsOf(c, r)
       /\ minted'[n + 1].at = clock
  BY <1>1, <1>4, <1>15, <1>17, <1>19
<1>22. \A y : Held(y)' <=> Held(y)
  BY <1>4 DEF Held
<1>23. /\ \A u \in Thread : \A y \in Written(c, thread[u]) : Held(y)
       /\ \A j \in 1 .. n : \A y \in RecordsOf(c, minted[j].r) : Held(y)
  BY <1>1, <1>21 DEF ExchangeInv, AllHeld
<1>24. \A j \in 1 .. n + 1 : j \in 1 .. n \/ j = n + 1
  BY <1>21
<1>25. AllHeld'
  <2>1. \A u \in Thread : \A y \in Written(config, thread[u])' : Held(y)'
    BY <1>20, <1>22, <1>23
  <2>2. ASSUME NEW j \in 1 .. n + 1 PROVE \A y \in RecordsOf(config, minted[j].r)' : Held(y)'
    <3>1. CASE j \in 1 .. n
      BY <1>21, <1>22, <1>23, <3>1
    <3>2. CASE j = n + 1
      BY <1>11, <1>21, <1>22, <1>23, <3>2
    <3> QED
      BY <1>24, <3>1, <3>2
  <2> QED
    BY <1>21, <2>1, <2>2 DEF AllHeld
<1>26. \A y, z, k : Apart(y, z, k) => Apart(z, y, k)
  BY DEF Apart
<1>27. /\ \A u, v \in Thread : u # v =>
            \A y \in Written(c, thread[u]), z \in Written(c, thread[v]) : Apart(y, z, clock)
       /\ \A u \in Thread, j \in 1 .. n :
            \A y \in Written(c, thread[u]), z \in RecordsOf(c, minted[j].r) : Apart(y, z, clock)
       /\ \A j, k \in 1 .. n : j < k =>
            \A y \in RecordsOf(c, minted[j].r), z \in RecordsOf(c, minted[k].r) :
              Apart(y, z, minted[k].at)
  BY <1>1, <1>21 DEF ExchangeInv, AllApart
<1>28. ASSUME NEW u \in Thread, NEW j \in 1 .. n + 1,
              NEW y \in Written(config, thread[u])', NEW z \in RecordsOf(config, minted[j].r)'
       PROVE  Apart(y, z, clock)
  <2>1. u # t /\ y \in Written(c, thread[u])
    BY <1>20
  <2>2. CASE j \in 1 .. n
    BY <1>21, <1>27, <2>1, <2>2
  <2>3. CASE j = n + 1
    <3>1. z \in Written(c, thread[t])
      BY <1>11, <1>21, <2>3
    <3> QED
      BY <1>27, <2>1, <3>1
  <2> QED
    BY <1>24, <2>2, <2>3
<1>29. ASSUME NEW j \in 1 .. n + 1, NEW k \in 1 .. n + 1, j < k,
              NEW y \in RecordsOf(config, minted[j].r)', NEW z \in RecordsOf(config, minted[k].r)'
       PROVE  Apart(y, z, minted'[k].at)
  <2>1. j \in 1 .. n
    BY <1>21, <1>29
  <2>2. CASE k \in 1 .. n
    BY <1>21, <1>27, <1>29, <2>1, <2>2
  <2>3. CASE k = n + 1
    <3>1. z \in Written(c, thread[t]) /\ y \in RecordsOf(c, minted[j].r)
      BY <1>11, <1>21, <2>1, <2>3
    <3>2. Apart(z, y, clock)
      BY <1>27, <2>1, <3>1
    <3> QED
      BY <1>21, <1>26, <2>3, <3>2
  <2> QED
    BY <1>24, <2>2, <2>3
<1>30. \A u, v \in Thread : u # v =>
         \A y \in Written(config, thread[u])', z \in Written(config, thread[v])' :
           Apart(y, z, clock)
  BY <1>20, <1>27
<1>31. AllApart'
  BY <1>4, <1>21, <1>28, <1>29, <1>30 DEF AllApart
<1> QED
  BY <1>4, <1>12, <1>13, <1>18, <1>25, <1>31 DEF ExchangeInv

LEMMA SignFailsInv ==
  ASSUME ExchangeInv, NEW t \in Thread, SignFails(t)
  PROVE  ExchangeInv'
BY StoreKept, RefuseInv DEF SignFails

\* Time passes: what was held or apart stays so, as expiries are numbers.
LEMMA TickInv ==
  ASSUME ExchangeInv, Tick
  PROVE  ExchangeInv'
<1>1. /\ batch' = batch /\ config' = config /\ clock' = clock + 1 /\ thread' = thread
      /\ seen' = seen /\ calls' = calls /\ passed' = passed
      /\ minted' = minted
  BY DEF Tick, setup, store
<1>2. /\ batch \in DOMAIN Batch /\ config \in Batch[batch].configs
      /\ clock \in Nat /\ clock' \in 0 .. MaxTime
  BY <1>1, TokenExchangeAssumption DEF ExchangeInv, Tick
<1>3. ThreadsOK'
  <2>1. \A t \in Thread : thread[t].now <= clock'
    BY <1>1, <1>2, ThreadFields DEF ThreadStates
  <2>2. \A c, x : FlightOK(c, x)' <=> FlightOK(c, x)
    BY <1>1 DEF FlightOK, Requests
  <2> QED
    BY <1>1, <2>1, <2>2 DEF ExchangeInv, ThreadsOK, Requests
<1>4. StoreOK' /\ BurnedOnlyAfterGates'
  BY <1>1 DEF ExchangeInv, StoreOK, BurnedOnlyAfterGates
<1>5. MintedOK'
  <2>1. \A m : TokenOK(config, m)' <=> TokenOK(config, m)
    BY <1>1 DEF TokenOK, Requests
  <2>2. Tokens' = Tokens
    BY <1>1 DEF Tokens, Requests
  <2> QED
    BY <1>1, <2>1, <2>2 DEF ExchangeInv, MintedOK
<1>6. \A x : x.exp \in Int /\ x.exp < clock => x.exp < clock'
  <2> SUFFICES ASSUME NEW n \in Int, n < clock PROVE n < clock + 1
    BY <1>1
  <2> QED
    BY <1>2
<1>7. \A x : x.exp \in Int /\ Held(x) => Held(x)'
  BY <1>1, <1>6 DEF Held
<1>8. \A x, y : x.exp \in Int /\ y.exp \in Int /\ Apart(x, y, clock) => Apart(x, y, clock')
  BY <1>6 DEF Apart
<1>9. /\ \A t \in Thread : \A x \in Written(config, thread[t]) : x.exp \in Int
      /\ \A i \in DOMAIN minted : \A x \in RecordsOf(config, minted[i].r) : x.exp \in Int
  BY WrittenTimes, MintedTimes
<1>10. /\ \A t \in Thread : Written(config, thread[t])' = Written(config, thread[t])
       /\ \A i \in DOMAIN minted : RecordsOf(config, minted[i].r)' = RecordsOf(config, minted[i].r)
  BY <1>1
<1>11. AllHeld'
  BY <1>1, <1>7, <1>9, <1>10 DEF ExchangeInv, AllHeld
<1>12. AllApart'
  BY <1>1, <1>8, <1>9, <1>10 DEF ExchangeInv, AllApart
<1> QED
  BY <1>1, <1>2, <1>3, <1>4, <1>5, <1>11, <1>12 DEF ExchangeInv

\* A fresh process, at start and after a restart.
Fresh ==
  /\ batch \in DOMAIN Batch /\ config \in Batch[batch].configs /\ clock \in 0 .. MaxTime
  /\ thread = [t \in Thread |-> Idle] /\ seen = {} /\ calls = 0
  /\ minted = <<>>

LEMMA FreshInv == Fresh => ExchangeInv
<1> SUFFICES ASSUME Fresh PROVE ExchangeInv
  OBVIOUS
<1> USE DEF Fresh
<1>1. clock \in Nat
  BY TokenExchangeAssumption
<1>2. Idle \in ThreadStates /\ Idle.now <= clock /\ Idle.pc = "idle"
  BY <1>1 DEF Idle, ThreadStates, PCs
<1>3. \A t \in Thread : thread[t] = Idle
  OBVIOUS
<1>4. ThreadsOK
  <2>1. FlightOK(config, Idle)
    BY <1>2 DEF FlightOK
  <2>2. thread \in [Thread -> ThreadStates]
    BY <1>2
  <2> QED
    BY <1>2, <1>3, <2>1, <2>2 DEF ThreadsOK, ThreadStates
<1>5. StoreOK
  <2>1. IsFiniteSet(seen) /\ Cardinality(seen) = 0
    BY FS_EmptySet
  <2> QED
    BY <2>1, ReplayTableAssumption DEF StoreOK
<1>6. MintedOK
  BY DEF MintedOK
<1>8. Written(config, Idle) = {}
  BY <1>2 DEF Written
<1>9. BurnedOnlyAfterGates /\ AllHeld /\ AllApart
  BY <1>3, <1>8 DEF BurnedOnlyAfterGates, AllHeld, AllApart
<1> QED
  BY <1>4, <1>5, <1>6, <1>9 DEF ExchangeInv

LEMMA RestartInv ==
  ASSUME ExchangeInv, Restart
  PROVE  ExchangeInv'
<1>1. Fresh'
  BY DEF ExchangeInv, Restart, setup, Fresh
<1> QED
  BY <1>1, FreshInv, PTL

LEMMA InitInv == Init => ExchangeInv
<1>1. 0 \in 0 .. MaxTime
  BY TokenExchangeAssumption
<1> QED
  BY <1>1, FreshInv DEF Init, Fresh

LEMMA NextInv == ExchangeInv /\ [Next]_vars => ExchangeInv'
<1> SUFFICES ASSUME ExchangeInv, [Next]_vars PROVE ExchangeInv'
  OBVIOUS
<1>1. CASE UNCHANGED vars
  BY <1>1 DEF vars, ExchangeInv, ThreadsOK, FlightOK, StoreOK, MintedOK, TokenOK, Tokens,
              Requests, BurnedOnlyAfterGates, AllHeld, AllApart, Held
<1>2. CASE Tick
  BY <1>2, TickInv
<1>3. ASSUME NEW t \in Thread, NEW r \in Batch[batch].requests, Receive(t, r)
      PROVE  ExchangeInv'
  BY <1>3, ReceiveInv
<1>4. ASSUME NEW t \in Thread, Serve(t) PROVE ExchangeInv'
  BY <1>4, GatesInv, ReadNowInv, RefusedRecordInv, RecordInv, SignInv, SignFailsInv DEF Serve
<1>5. CASE Restart
  BY <1>5, RestartInv
<1> QED
  BY <1>1, <1>2, <1>3, <1>4, <1>5 DEF Next

-------------------------------------------------------------------------------
(***************************************************************************)
(* The theorems.                                                           *)
(***************************************************************************)

\* The inductive invariant holds of the token endpoint: what every request in
\* flight has passed, which records it has written, and that a record stays in
\* the store until it has expired.
THEOREM ExchangeInvHolds == Spec => []ExchangeInv
<1>1. Init => ExchangeInv
  BY InitInv
<1>2. ExchangeInv /\ [Next]_vars => ExchangeInv'
  BY NextInv
<1> QED
  BY <1>1, <1>2, PTL DEF Spec

\* The program counters, the bound of the replay store and the clock readings.
THEOREM ExchangeTypesHold == Spec => []TypeOK
<1>1. ExchangeInv => TypeOK
  BY InvGivesTypes
<1> QED
  BY <1>1, ExchangeInvHolds, PTL

\* Only a request that passed every gate burns a credential.
THEOREM ExchangeBurnedOnlyAfterGates == Spec => []BurnedOnlyAfterGates
<1>1. ExchangeInv => BurnedOnlyAfterGates
  BY DEF ExchangeInv
<1> QED
  BY <1>1, ExchangeInvHolds, PTL

\* Two tokens whose requests share a replay key: the second was signed after one
\* of the two records had expired, however the threads' clock readings, writes
\* and sweeps interleave.
THEOREM ExchangeSingleUse == Spec => []SingleUseWhileRecorded
<1>1. ExchangeInv => SingleUseWhileRecorded
  BY InvGivesSingleUse
<1> QED
  BY <1>1, ExchangeInvHolds, PTL

\* A caller's assertion that is used again in the same role yields a token that
\* has expired before it is signed.
THEOREM ExchangeReuseYieldsDeadToken == Spec => []ReuseYieldsDeadToken
<1>1. ExchangeInv => ReuseYieldsDeadToken
  BY InvGivesDeadToken
<1> QED
  BY <1>1, ExchangeInvHolds, PTL

\* Every token is within what its subject token, its caller's assertion and the
\* configuration grant.
THEOREM ExchangeMintedWithinGrant == Spec => []MintedWithinGrant
<1>1. ExchangeInv => MintedWithinGrant
  BY InvGivesWithinGrant
<1> QED
  BY <1>1, ExchangeInvHolds, PTL
===============================================================================
