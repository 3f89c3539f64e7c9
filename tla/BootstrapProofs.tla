---------------------------- MODULE BootstrapProofs ----------------------------
(***************************************************************************)
(* Proofs about start-up, for every environment, every content of the      *)
(* files and of the identity provider, and every number of processes and   *)
(* changes.                                                                *)
(***************************************************************************)
EXTENDS Bootstrap, SequenceTheorems, TLAPS

-------------------------------------------------------------------------------
(***************************************************************************)
(* The order of the steps.                                                 *)
(***************************************************************************)

StepSet ==
  {"config", "addr", "inbound", "provider", "check", "read", "discover", "fetch",
   "replay", "bind"} \X (Role \cup {"config", "dir", "port"})

Occurs(s, a) == \E i \in 1 .. Len(s) : s[i] = a

\* Every b comes after some a, and no a comes after a b.
Needs(s, a, b) ==
  /\ \A i \in 1 .. Len(s) : s[i] = b => \E j \in 1 .. (i - 1) : s[j] = a
  /\ \A i, j \in 1 .. Len(s) : s[i] = b /\ s[j] = a => j < i

LEMMA CatOccurs ==
  ASSUME NEW s \in Seq(StepSet), NEW t \in Seq(StepSet), NEW a
  PROVE  Occurs(s \o t, a) <=> Occurs(s, a) \/ Occurs(t, a)
<1>1. /\ s \o t \in Seq(StepSet)
      /\ Len(s \o t) = Len(s) + Len(t)
      /\ \A i \in 1 .. Len(s) + Len(t) :
           (s \o t)[i] = IF i <= Len(s) THEN s[i] ELSE t[i - Len(s)]
      /\ Len(s) \in Nat /\ Len(t) \in Nat
  BY ConcatProperties, LenProperties
<1>2. ASSUME Occurs(s \o t, a)  PROVE  Occurs(s, a) \/ Occurs(t, a)
  <2>1. PICK i \in 1 .. Len(s) + Len(t) : (s \o t)[i] = a
    BY <1>1, <1>2 DEF Occurs
  <2>2. CASE i <= Len(s)
    BY <1>1, <2>1, <2>2 DEF Occurs
  <2>3. CASE ~(i <= Len(s))
    <3>1. i - Len(s) \in 1 .. Len(t) /\ t[i - Len(s)] = a
      BY <1>1, <2>1, <2>3
    <3> QED
      BY <3>1 DEF Occurs
  <2> QED
    BY <2>2, <2>3
<1>3. ASSUME Occurs(s, a)  PROVE  Occurs(s \o t, a)
  <2>1. PICK i \in 1 .. Len(s) : s[i] = a
    BY <1>3 DEF Occurs
  <2>2. i \in 1 .. Len(s) + Len(t) /\ (s \o t)[i] = a
    BY <1>1, <2>1
  <2> QED
    BY <1>1, <2>2 DEF Occurs
<1>4. ASSUME Occurs(t, a)  PROVE  Occurs(s \o t, a)
  <2>1. PICK i \in 1 .. Len(t) : t[i] = a
    BY <1>4 DEF Occurs
  <2>2. i + Len(s) \in 1 .. Len(s) + Len(t) /\ (s \o t)[i + Len(s)] = a
    BY <1>1, <2>1
  <2> QED
    BY <1>1, <2>2 DEF Occurs
<1> QED
  BY <1>2, <1>3, <1>4

LEMMA CatNeeds ==
  ASSUME NEW s \in Seq(StepSet), NEW t \in Seq(StepSet), NEW a, NEW b,
         Needs(s, a, b),
         Needs(t, a, b) \/ Occurs(s, a),
         ~Occurs(t, a) \/ (Needs(t, a, b) /\ ~Occurs(s, b))
  PROVE  Needs(s \o t, a, b)
<1>1. /\ s \o t \in Seq(StepSet)
      /\ Len(s \o t) = Len(s) + Len(t)
      /\ \A i \in 1 .. Len(s) + Len(t) :
           (s \o t)[i] = IF i <= Len(s) THEN s[i] ELSE t[i - Len(s)]
      /\ Len(s) \in Nat /\ Len(t) \in Nat
  BY ConcatProperties, LenProperties
<1>2. ASSUME NEW i \in 1 .. Len(s) + Len(t), (s \o t)[i] = b
      PROVE  \E j \in 1 .. (i - 1) : (s \o t)[j] = a
  <2>1. CASE i <= Len(s)
    <3>1. PICK j \in 1 .. (i - 1) : s[j] = a
      BY <1>1, <1>2, <2>1 DEF Needs
    <3>2. (s \o t)[j] = a
      BY <1>1, <1>2, <2>1, <3>1
    <3> QED
      BY <3>1, <3>2
  <2>2. CASE ~(i <= Len(s)) /\ Occurs(s, a)
    <3>1. PICK j \in 1 .. Len(s) : s[j] = a
      BY <2>2 DEF Occurs
    <3>2. j \in 1 .. (i - 1) /\ (s \o t)[j] = a
      BY <1>1, <1>2, <2>2, <3>1
    <3> QED
      BY <3>2
  <2>3. CASE ~(i <= Len(s)) /\ Needs(t, a, b)
    <3>1. i - Len(s) \in 1 .. Len(t) /\ t[i - Len(s)] = b
      BY <1>1, <1>2, <2>3
    <3>2. PICK j \in 1 .. (i - Len(s) - 1) : t[j] = a
      BY <2>3, <3>1 DEF Needs
    <3>3. j + Len(s) \in 1 .. (i - 1) /\ (s \o t)[j + Len(s)] = a
      BY <1>1, <1>2, <2>3, <3>1, <3>2
    <3> QED
      BY <3>3
  <2> QED
    BY <2>1, <2>2, <2>3
<1>3. ASSUME NEW i \in 1 .. Len(s) + Len(t), NEW j \in 1 .. Len(s) + Len(t),
             (s \o t)[i] = b, (s \o t)[j] = a
      PROVE  j < i
  <2>1. CASE i <= Len(s) /\ j <= Len(s)
    BY <1>1, <1>3, <2>1 DEF Needs
  <2>2. CASE ~(i <= Len(s)) /\ j <= Len(s)
    BY <1>1, <1>3, <2>2
  <2>3. CASE ~(j <= Len(s))
    <3>1. j - Len(s) \in 1 .. Len(t) /\ t[j - Len(s)] = a
      BY <1>1, <1>3, <2>3
    <3>2. Needs(t, a, b) /\ ~Occurs(s, b)
      BY <3>1 DEF Occurs
    <3>3. ~(i <= Len(s))
      BY <1>1, <1>3, <3>2 DEF Occurs
    <3>4. i - Len(s) \in 1 .. Len(t) /\ t[i - Len(s)] = b
      BY <1>1, <1>3, <3>3
    <3>5. j - Len(s) < i - Len(s)
      BY <3>1, <3>2, <3>4 DEF Needs
    <3> QED
      BY <1>1, <3>5
  <2> QED
    BY <1>1, <2>1, <2>2, <2>3
<1> QED
  BY <1>1, <1>2, <1>3 DEF Needs

\* A part in which b does not occur puts nothing out of order.
LEMMA PartNeeds ==
  ASSUME NEW t, NEW a, NEW b, ~Occurs(t, b)
  PROVE  Needs(t, a, b)
BY DEF Needs, Occurs

LEMMA CatKeeps ==
  ASSUME NEW s \in Seq(StepSet), NEW t \in Seq(StepSet), NEW a, NEW b,
         Needs(s, a, b), ~Occurs(t, a), ~Occurs(t, b)
  PROVE  Needs(s \o t, a, b)
<1>1. Needs(t, a, b)
  BY PartNeeds
<1> QED
  BY <1>1, CatNeeds

LEMMA OneOccurs ==
  ASSUME NEW x, NEW a
  PROVE  Occurs(<<x>>, a) <=> a = x
BY DEF Occurs

LEMMA TwoOccurs ==
  ASSUME NEW x, NEW y, NEW a
  PROVE  Occurs(<<x, y>>, a) <=> a = x \/ a = y
<1>1. Len(<<x, y>>) = 2 /\ <<x, y>>[1] = x /\ <<x, y>>[2] = y
  OBVIOUS
<1>2. 1 .. 2 = {1, 2}
  OBVIOUS
<1> QED
  BY <1>1, <1>2 DEF Occurs

LEMMA NoneOccurs == \A a : ~Occurs(<<>>, a)
BY DEF Occurs

LEMMA LoadOccurs ==
  ASSUME NEW role \in Role, NEW a
  PROVE  /\ Load(role) \in Seq(StepSet)
         /\ Occurs(Load(role), a) <=> a \in {"check", "read"} \X {role}
<1>1. <<"check", role>> \in StepSet /\ <<"read", role>> \in StepSet
  BY DEF StepSet
<1>2. Load(role) \in Seq(StepSet)
  BY <1>1 DEF Load
<1>3. Occurs(Load(role), a) <=> a = <<"check", role>> \/ a = <<"read", role>>
  BY TwoOccurs DEF Load
<1> QED
  BY <1>2, <1>3

LEMMA LoadAbsent ==
  /\ \A x : x \notin {"check", "read"} =>
       \A role \in Role : \A y : ~Occurs(Load(role), <<x, y>>)
  /\ \A x, y : \A role \in Role : y # role => ~Occurs(Load(role), <<x, y>>)
  /\ {"actor", "client"} \subseteq Role
<1>1. ASSUME NEW x, NEW y, NEW role \in Role, Occurs(Load(role), <<x, y>>)
      PROVE  x \in {"check", "read"} /\ y = role
  <2>1. <<x, y>> \in {"check", "read"} \X {role}
    BY <1>1, LoadOccurs
  <2> QED
    BY <2>1
<1> QED
  BY <1>1 DEF Role

ExtraSteps(e) == IF "extra" \in e.named THEN Load("extra") ELSE <<>>

ConfigSteps == << <<"config", "config">>, <<"addr", "config">> >>

InboundSteps == << <<"inbound", "config">>, <<"provider", "config">> >>

FetchStep == << <<"fetch", "idp">> >>

ReplayStep == << <<"replay", "dir">> >>

BindSteps(p) == IF p \in Server THEN << <<"bind", "port">> >> ELSE <<>>

\* The parts of the list, with what occurs in each.
LEMMA PartsOccur ==
  ASSUME NEW e, NEW a
  PROVE  /\ ConfigSteps \in Seq(StepSet)
         /\ Occurs(ConfigSteps, a)
              <=> a \in {"config", "addr"} \X {"config"}
         /\ InboundSteps \in Seq(StepSet)
         /\ Occurs(InboundSteps, a)
              <=> a \in {"inbound", "provider"} \X {"config"}
         /\ SignerSteps(e) \in Seq(StepSet)
         /\ Occurs(SignerSteps(e), a) <=>
              a \in {"check", "read"} \X
                (IF e.provider = "mock-external" THEN {"public", "mockKey"} ELSE {"key"})
         /\ ExtraSteps(e) \in Seq(StepSet)
         /\ Occurs(ExtraSteps(e), a) <=>
              "extra" \in e.named /\ a \in {"check", "read"} \X {"extra"}
         /\ SubjectSteps(e) \in Seq(StepSet)
         /\ Occurs(SubjectSteps(e), a) <=>
              \/ "idp" \in e.named /\ a \in {"check", "read"} \X {"idp"}
              \/ "idp" \notin e.named /\ a = <<"fetch", "idp">>
              \/ "idp" \notin e.named /\ e.idpUri = "unset" /\ a = <<"discover", "idp">>
         /\ ReplayStep \in Seq(StepSet)
         /\ Occurs(ReplayStep, a) <=> a = <<"replay", "dir">>
<1>1. /\ <<"config", "config">> \in StepSet /\ <<"addr", "config">> \in StepSet
      /\ <<"inbound", "config">> \in StepSet /\ <<"provider", "config">> \in StepSet
      /\ <<"discover", "idp">> \in StepSet /\ <<"fetch", "idp">> \in StepSet
      /\ <<"replay", "dir">> \in StepSet /\ <<"bind", "port">> \in StepSet
  BY DEF StepSet, Role
<1>2. /\ ConfigSteps \in Seq(StepSet)
      /\ InboundSteps \in Seq(StepSet)
      /\ ReplayStep \in Seq(StepSet)
      /\ << <<"discover", "idp">> >> \in Seq(StepSet)
      /\ FetchStep \in Seq(StepSet)
      /\ << <<"bind", "port">> >> \in Seq(StepSet)
      /\ <<>> \in Seq(StepSet)
  BY <1>1 DEF ConfigSteps, InboundSteps, FetchStep, ReplayStep
<1>3. Occurs(ConfigSteps, a)
        <=> a \in {"config", "addr"} \X {"config"}
  <2>1. Occurs(ConfigSteps, a)
          <=> a = <<"config", "config">> \/ a = <<"addr", "config">>
    BY TwoOccurs DEF ConfigSteps
  <2> QED
    BY <2>1
<1>4. Occurs(InboundSteps, a)
        <=> a \in {"inbound", "provider"} \X {"config"}
  <2>1. Occurs(InboundSteps, a)
          <=> a = <<"inbound", "config">> \/ a = <<"provider", "config">>
    BY TwoOccurs DEF InboundSteps
  <2> QED
    BY <2>1
<1>5. /\ SignerSteps(e) \in Seq(StepSet)
      /\ Occurs(SignerSteps(e), a) <=>
           a \in {"check", "read"} \X
             (IF e.provider = "mock-external" THEN {"public", "mockKey"} ELSE {"key"})
  <2>1. {"public", "mockKey", "key"} \subseteq Role
    BY DEF Role
  <2>2. CASE e.provider = "mock-external"
    <3>1. SignerSteps(e) = Load("public") \o Load("mockKey")
      BY <2>2 DEF SignerSteps
    <3>2. /\ Load("public") \in Seq(StepSet) /\ Load("mockKey") \in Seq(StepSet)
          /\ Occurs(Load("public"), a) <=> a \in {"check", "read"} \X {"public"}
          /\ Occurs(Load("mockKey"), a) <=> a \in {"check", "read"} \X {"mockKey"}
      BY <2>1, LoadOccurs
    <3>3. SignerSteps(e) \in Seq(StepSet)
      BY <3>1, <3>2, ConcatProperties
    <3>4. Occurs(SignerSteps(e), a) <=> Occurs(Load("public"), a) \/ Occurs(Load("mockKey"), a)
      BY <3>1, <3>2, CatOccurs
    <3> QED
      BY <2>2, <3>2, <3>3, <3>4
  <2>3. CASE e.provider # "mock-external"
    BY <2>1, <2>3, LoadOccurs DEF SignerSteps
  <2> QED
    BY <2>2, <2>3
<1>6. /\ ExtraSteps(e) \in Seq(StepSet)
      /\ Occurs(ExtraSteps(e), a) <=>
           "extra" \in e.named /\ a \in {"check", "read"} \X {"extra"}
  <2>1. "extra" \in Role
    BY DEF Role
  <2> QED
    BY <1>2, <2>1, LoadOccurs, NoneOccurs DEF ExtraSteps
<1>7. /\ SubjectSteps(e) \in Seq(StepSet)
      /\ Occurs(SubjectSteps(e), a) <=>
           \/ "idp" \in e.named /\ a \in {"check", "read"} \X {"idp"}
           \/ "idp" \notin e.named /\ a = <<"fetch", "idp">>
           \/ "idp" \notin e.named /\ e.idpUri = "unset" /\ a = <<"discover", "idp">>
  <2>1. CASE "idp" \in e.named
    <3>1. "idp" \in Role
      BY DEF Role
    <3> QED
      BY <2>1, <3>1, LoadOccurs DEF SubjectSteps
  <2>2. CASE "idp" \notin e.named
    <3> DEFINE d == IF e.idpUri = "unset" THEN << <<"discover", "idp">> >> ELSE <<>>
    <3>1. d \in Seq(StepSet)
      BY <1>2
    <3>2. Occurs(d, a) <=> e.idpUri = "unset" /\ a = <<"discover", "idp">>
      BY OneOccurs, NoneOccurs
    <3>3. SubjectSteps(e) = d \o FetchStep
      BY <2>2 DEF SubjectSteps, FetchStep
    <3> HIDE DEF d
    <3>4. SubjectSteps(e) \in Seq(StepSet)
      BY <1>2, <3>1, <3>3, ConcatProperties
    <3>5. Occurs(SubjectSteps(e), a) <=> Occurs(d, a) \/ Occurs(FetchStep, a)
      BY <1>2, <3>1, <3>3, CatOccurs
    <3>6. Occurs(FetchStep, a) <=> a = <<"fetch", "idp">>
      BY OneOccurs DEF FetchStep
    <3> QED
      BY <2>2, <3>2, <3>4, <3>5, <3>6
  <2> QED
    BY <2>1, <2>2
<1>8. Occurs(ReplayStep, a) <=> a = <<"replay", "dir">>
  BY OneOccurs DEF ReplayStep
<1> QED
  BY <1>2, <1>3, <1>4, <1>5, <1>6, <1>7, <1>8

LEMMA BindOccurs ==
  ASSUME NEW p, NEW a
  PROVE  /\ BindSteps(p) \in Seq(StepSet)
         /\ Occurs(BindSteps(p), a) <=> p \in Server /\ a = <<"bind", "port">>
<1>1. << <<"bind", "port">> >> \in Seq(StepSet) /\ <<>> \in Seq(StepSet)
  BY DEF StepSet, Role
<1> QED
  BY <1>1, OneOccurs, NoneOccurs DEF BindSteps

-------------------------------------------------------------------------------
\* The list, step by step.
Part1(e) == InboundSteps \o SignerSteps(e)

Part2(e) == Part1(e) \o ExtraSteps(e)

Part3(e) == Part2(e) \o SubjectSteps(e)

Part4(e) == Part3(e) \o Load("actor")

Part5(e) == Part4(e) \o Load("client")

Common(e) == ConfigSteps \o BuildState(e)

LEMMA BuildParts == \A e : BuildState(e) = Part5(e) \o ReplayStep
BY DEF BuildState, Part1, Part2, Part3, Part4, Part5, InboundSteps, ExtraSteps, ReplayStep

LEMMA StepsParts == \A p, e : Steps(p, e) = Common(e) \o BindSteps(p)
BY DEF Common, Steps, ConfigSteps, BindSteps

\* What occurs in the list that serve and bootstrap-check have in common.
Required(e) ==
  ({"config", "addr", "inbound", "provider"} \X {"config"})
    \cup ({"check", "read"} \X
            ({"actor", "client"}
               \cup (IF e.provider = "mock-external" THEN {"public", "mockKey"} ELSE {"key"})
               \cup (IF "extra" \in e.named THEN {"extra"} ELSE {})
               \cup (IF "idp" \in e.named THEN {"idp"} ELSE {})))
    \cup (IF "idp" \in e.named THEN {} ELSE { <<"fetch", "idp">> })
    \cup (IF "idp" \notin e.named /\ e.idpUri = "unset" THEN { <<"discover", "idp">> } ELSE {})
    \cup { <<"replay", "dir">> }

LEMMA PartsTyped ==
  ASSUME NEW e
  PROVE  /\ Part1(e) \in Seq(StepSet) /\ Part2(e) \in Seq(StepSet)
         /\ Part3(e) \in Seq(StepSet) /\ Part4(e) \in Seq(StepSet)
         /\ Part5(e) \in Seq(StepSet) /\ BuildState(e) \in Seq(StepSet)
         /\ Common(e) \in Seq(StepSet)
         /\ Load("actor") \in Seq(StepSet) /\ Load("client") \in Seq(StepSet)
<1>1. Load("actor") \in Seq(StepSet) /\ Load("client") \in Seq(StepSet)
  BY LoadOccurs DEF Role
<1>2. Part1(e) \in Seq(StepSet)
  BY PartsOccur, ConcatProperties DEF Part1
<1>3. Part2(e) \in Seq(StepSet)
  BY <1>2, PartsOccur, ConcatProperties DEF Part2
<1>4. Part3(e) \in Seq(StepSet)
  BY <1>3, PartsOccur, ConcatProperties DEF Part3
<1>5. Part4(e) \in Seq(StepSet)
  BY <1>1, <1>4, ConcatProperties DEF Part4
<1>6. Part5(e) \in Seq(StepSet)
  BY <1>1, <1>5, ConcatProperties DEF Part5
<1>7. BuildState(e) \in Seq(StepSet)
  BY <1>6, BuildParts, PartsOccur, ConcatProperties
<1>8. Common(e) \in Seq(StepSet)
  BY <1>7, PartsOccur, ConcatProperties DEF Common
<1> QED
  BY <1>1, <1>2, <1>3, <1>4, <1>5, <1>6, <1>7, <1>8

LEMMA CommonOccurs ==
  ASSUME NEW e, NEW a
  PROVE  Occurs(Common(e), a) <=> a \in Required(e)
<1>1. Occurs(Part1(e), a) <=>
        \/ Occurs(InboundSteps, a)
        \/ Occurs(SignerSteps(e), a)
  BY PartsOccur, CatOccurs DEF Part1
<1>2. Occurs(Part2(e), a) <=> Occurs(Part1(e), a) \/ Occurs(ExtraSteps(e), a)
  BY PartsTyped, PartsOccur, CatOccurs DEF Part2
<1>3. Occurs(Part3(e), a) <=> Occurs(Part2(e), a) \/ Occurs(SubjectSteps(e), a)
  BY PartsTyped, PartsOccur, CatOccurs DEF Part3
<1>4. Occurs(Part4(e), a) <=> Occurs(Part3(e), a) \/ Occurs(Load("actor"), a)
  BY PartsTyped, CatOccurs DEF Part4
<1>5. Occurs(Part5(e), a) <=> Occurs(Part4(e), a) \/ Occurs(Load("client"), a)
  BY PartsTyped, CatOccurs DEF Part5
<1>6. Occurs(BuildState(e), a) <=>
        Occurs(Part5(e), a) \/ Occurs(ReplayStep, a)
  BY PartsTyped, PartsOccur, BuildParts, CatOccurs
<1>7. Occurs(Common(e), a) <=>
        \/ Occurs(ConfigSteps, a)
        \/ Occurs(BuildState(e), a)
  BY PartsTyped, PartsOccur, CatOccurs DEF Common
<1>8. /\ Occurs(Load("actor"), a) <=> a \in {"check", "read"} \X {"actor"}
      /\ Occurs(Load("client"), a) <=> a \in {"check", "read"} \X {"client"}
  BY LoadOccurs DEF Role
<1>9. Occurs(Common(e), a) <=>
        \/ a \in {"config", "addr"} \X {"config"}
        \/ a \in {"inbound", "provider"} \X {"config"}
        \/ a \in {"check", "read"} \X
             (IF e.provider = "mock-external" THEN {"public", "mockKey"} ELSE {"key"})
        \/ "extra" \in e.named /\ a \in {"check", "read"} \X {"extra"}
        \/ "idp" \in e.named /\ a \in {"check", "read"} \X {"idp"}
        \/ "idp" \notin e.named /\ a = <<"fetch", "idp">>
        \/ "idp" \notin e.named /\ e.idpUri = "unset" /\ a = <<"discover", "idp">>
        \/ a \in {"check", "read"} \X {"actor"}
        \/ a \in {"check", "read"} \X {"client"}
        \/ a = <<"replay", "dir">>
  BY <1>1, <1>2, <1>3, <1>4, <1>5, <1>6, <1>7, <1>8, PartsOccur
<1> QED
  BY <1>9 DEF Required

\* The keys of an external signer are read in this order.
LEMMA PublicBeforePrivate ==
  ASSUME NEW e
  PROVE  Needs(Common(e), <<"read", "public">>, <<"read", "mockKey">>)
<1> DEFINE a == <<"read", "public">>
           b == <<"read", "mockKey">>
<1>1. /\ ConfigSteps \in Seq(StepSet)
      /\ ~Occurs(ConfigSteps, b)
      /\ InboundSteps \in Seq(StepSet)
      /\ ~Occurs(InboundSteps, b)
      /\ ExtraSteps(e) \in Seq(StepSet) /\ SubjectSteps(e) \in Seq(StepSet)
      /\ ~Occurs(ExtraSteps(e), b) /\ ~Occurs(SubjectSteps(e), b)
      /\ ReplayStep \in Seq(StepSet) /\ ~Occurs(ReplayStep, b)
      /\ ~Occurs(Load("actor"), b) /\ ~Occurs(Load("client"), b)
  <2>1. \A x \in {"actor", "client"} : ~Occurs(Load(x), b)
    BY LoadAbsent
  <2> HIDE DEF b
  <2>2. /\ Occurs(ConfigSteps, b) <=> b \in {"config", "addr"} \X {"config"}
        /\ Occurs(InboundSteps, b) <=> b \in {"inbound", "provider"} \X {"config"}
    BY PartsOccur
  <2> QED
    BY <2>1, <2>2, PartsOccur DEF b
<1>2. /\ ~Occurs(ExtraSteps(e), a) /\ ~Occurs(SubjectSteps(e), a) /\ ~Occurs(ReplayStep, a)
      /\ ~Occurs(Load("actor"), a) /\ ~Occurs(Load("client"), a)
  <2>1. \A x \in {"actor", "client"} : ~Occurs(Load(x), a)
    BY LoadAbsent
  <2> HIDE DEF a
  <2>2. /\ Occurs(ConfigSteps, a) <=> a \in {"config", "addr"} \X {"config"}
        /\ Occurs(InboundSteps, a) <=> a \in {"inbound", "provider"} \X {"config"}
    BY PartsOccur
  <2> QED
    BY <2>1, <2>2, PartsOccur DEF a
<1>3. Needs(SignerSteps(e), a, b) /\ SignerSteps(e) \in Seq(StepSet)
  <2>1. SignerSteps(e) \in Seq(StepSet)
    BY PartsOccur
  <2>2. CASE e.provider = "mock-external"
    <3>1. SignerSteps(e) = Load("public") \o Load("mockKey")
      BY <2>2 DEF SignerSteps
    <3>2. /\ Load("public") \in Seq(StepSet) /\ Load("mockKey") \in Seq(StepSet)
          /\ Occurs(Load("public"), a) /\ ~Occurs(Load("public"), b)
          /\ ~Occurs(Load("mockKey"), a)
      BY LoadOccurs DEF Role
    <3>3. Needs(Load("public"), a, b)
      BY <3>2, PartNeeds
    <3> HIDE DEF a, b
    <3> QED
      BY <2>1, <3>1, <3>2, <3>3, CatNeeds
  <2>3. CASE e.provider # "mock-external"
    <3>1. ~Occurs(SignerSteps(e), b)
      BY <2>3, PartsOccur
    <3> QED
      BY <2>1, <3>1, PartNeeds
  <2> QED
    BY <2>2, <2>3
<1> HIDE DEF a, b
<1>4. Needs(Part1(e), a, b)
  BY <1>1, <1>3, PartNeeds, CatNeeds DEF Part1
<1>5. Needs(Part2(e), a, b)
  BY <1>1, <1>2, <1>4, PartsTyped, CatKeeps DEF Part2
<1>6. Needs(Part3(e), a, b)
  BY <1>1, <1>2, <1>5, PartsTyped, CatKeeps DEF Part3
<1>7. Needs(Part4(e), a, b)
  BY <1>1, <1>2, <1>6, PartsTyped, CatKeeps DEF Part4
<1>8. Needs(Part5(e), a, b)
  BY <1>1, <1>2, <1>7, PartsTyped, CatKeeps DEF Part5
<1>9. Needs(BuildState(e), a, b)
  BY <1>1, <1>2, <1>8, PartsTyped, CatKeeps, BuildParts
<1>10. Needs(Common(e), a, b)
  BY <1>1, <1>9, PartsTyped, PartNeeds, CatNeeds DEF Common
<1> QED
  BY <1>10 DEF a, b

\* Without a configured URI the keys are fetched after a discovery.
LEMMA DiscoverBeforeFetch ==
  ASSUME NEW e, e.idpUri = "unset"
  PROVE  Needs(Common(e), <<"discover", "idp">>, <<"fetch", "idp">>)
<1> DEFINE a == <<"discover", "idp">>
           b == <<"fetch", "idp">>
<1>1. /\ ConfigSteps \in Seq(StepSet)
      /\ ~Occurs(ConfigSteps, b)
      /\ InboundSteps \in Seq(StepSet)
      /\ ~Occurs(InboundSteps, b)
      /\ SignerSteps(e) \in Seq(StepSet) /\ ExtraSteps(e) \in Seq(StepSet)
      /\ ~Occurs(SignerSteps(e), b) /\ ~Occurs(ExtraSteps(e), b)
      /\ ReplayStep \in Seq(StepSet) /\ ~Occurs(ReplayStep, b)
      /\ ~Occurs(Load("actor"), b) /\ ~Occurs(Load("client"), b)
  <2>1. \A x \in {"actor", "client"} : ~Occurs(Load(x), b)
    BY LoadAbsent
  <2> HIDE DEF b
  <2>2. /\ Occurs(ConfigSteps, b) <=> b \in {"config", "addr"} \X {"config"}
        /\ Occurs(InboundSteps, b) <=> b \in {"inbound", "provider"} \X {"config"}
    BY PartsOccur
  <2> QED
    BY <2>1, <2>2, PartsOccur DEF b
<1>2. /\ ~Occurs(ReplayStep, a) /\ ~Occurs(Load("actor"), a) /\ ~Occurs(Load("client"), a)
      /\ ~Occurs(SignerSteps(e), a) /\ ~Occurs(ExtraSteps(e), a)
  <2>1. \A x \in {"actor", "client"} : ~Occurs(Load(x), a)
    BY LoadAbsent
  <2> HIDE DEF a
  <2>2. /\ Occurs(ConfigSteps, a) <=> a \in {"config", "addr"} \X {"config"}
        /\ Occurs(InboundSteps, a) <=> a \in {"inbound", "provider"} \X {"config"}
    BY PartsOccur
  <2> QED
    BY <2>1, <2>2, PartsOccur DEF a
<1>3. Needs(SubjectSteps(e), a, b) /\ SubjectSteps(e) \in Seq(StepSet)
  <2>1. SubjectSteps(e) \in Seq(StepSet)
    BY PartsOccur
  <2>2. CASE "idp" \notin e.named
    <3>1. SubjectSteps(e) = <<a>> \o FetchStep
      BY <2>2 DEF SubjectSteps, FetchStep
    <3>2. <<a>> \in Seq(StepSet) /\ FetchStep \in Seq(StepSet)
      BY DEF StepSet, Role, FetchStep
    <3>3. Occurs(<<a>>, a) /\ ~Occurs(<<a>>, b) /\ ~Occurs(FetchStep, a)
      BY OneOccurs DEF FetchStep
    <3>4. Needs(<<a>>, a, b)
      BY <3>3, PartNeeds
    <3>5. PICK t : t = <<a>>
      OBVIOUS
    <3> HIDE DEF a, b
    <3> QED
      BY <2>1, <3>1, <3>2, <3>3, <3>4, <3>5, CatNeeds
  <2>3. CASE "idp" \in e.named
    <3>1. ~Occurs(SubjectSteps(e), b)
      BY <2>3, PartsOccur
    <3> QED
      BY <2>1, <3>1, PartNeeds
  <2> QED
    BY <2>2, <2>3
<1> HIDE DEF a, b
<1>4. ~Occurs(Part2(e), b) /\ ~Occurs(Part2(e), a)
  <2>1. ASSUME NEW c, ~Occurs(InboundSteps, c), ~Occurs(SignerSteps(e), c),
               ~Occurs(ExtraSteps(e), c)
        PROVE  ~Occurs(Part2(e), c)
    <3>1. ~Occurs(Part1(e), c)
      BY <2>1, PartsOccur, CatOccurs DEF Part1
    <3> QED
      BY <2>1, <3>1, PartsTyped, PartsOccur, CatOccurs DEF Part2
  <2>2. ~Occurs(InboundSteps, a)
    <3>1. Occurs(InboundSteps, a) <=> a \in {"inbound", "provider"} \X {"config"}
      BY PartsOccur
    <3>2. a \notin {"inbound", "provider"} \X {"config"}
      BY DEF a
    <3> QED
      BY <3>1, <3>2
  <2> QED
    BY <1>1, <1>2, <2>1, <2>2
<1>5. Needs(Part2(e), a, b)
  BY <1>4, PartNeeds
<1>6. Needs(Part3(e), a, b)
  BY <1>3, <1>4, <1>5, PartsTyped, CatNeeds DEF Part3
<1>7. Needs(Part4(e), a, b)
  BY <1>1, <1>2, <1>6, PartsTyped, CatKeeps DEF Part4
<1>8. Needs(Part5(e), a, b)
  BY <1>1, <1>2, <1>7, PartsTyped, CatKeeps DEF Part5
<1>9. Needs(BuildState(e), a, b)
  BY <1>1, <1>2, <1>8, PartsTyped, CatKeeps, BuildParts
<1>10. Needs(Common(e), a, b)
  BY <1>1, <1>9, PartsTyped, PartNeeds, CatNeeds DEF Common
<1> QED
  BY <1>10 DEF a, b

LEMMA StepsFacts ==
  ASSUME NEW p, NEW e
  PROVE  /\ Steps(p, e) \in Seq(StepSet)
         /\ Steps(p, e) # <<>>
         /\ \A a : Occurs(Steps(p, e), a) <=>
              a \in Required(e) \/ (p \in Server /\ a = <<"bind", "port">>)
         /\ Needs(Steps(p, e), <<"read", "public">>, <<"read", "mockKey">>)
         /\ e.idpUri = "unset" => Needs(Steps(p, e), <<"discover", "idp">>, <<"fetch", "idp">>)
<1>1. /\ Steps(p, e) = Common(e) \o BindSteps(p)
      /\ Common(e) \in Seq(StepSet) /\ BindSteps(p) \in Seq(StepSet)
  BY StepsParts, PartsTyped, BindOccurs
<1>2. Steps(p, e) \in Seq(StepSet)
  BY <1>1, ConcatProperties
<1>3. ASSUME NEW a
      PROVE  Occurs(Steps(p, e), a) <=>
               a \in Required(e) \/ (p \in Server /\ a = <<"bind", "port">>)
  BY <1>1, CatOccurs, CommonOccurs, BindOccurs
<1>4. Steps(p, e) # <<>>
  <2>1. <<"config", "config">> \in Required(e)
    BY DEF Required
  <2>2. Occurs(Steps(p, e), <<"config", "config">>)
    BY <1>3, <2>1
  <2> QED
    BY <2>2, NoneOccurs
<1>5. \A a : a # <<"bind", "port">> => ~Occurs(BindSteps(p), a)
  BY BindOccurs
<1>6. Needs(Steps(p, e), <<"read", "public">>, <<"read", "mockKey">>)
  <2>1. PICK a, b : a = <<"read", "public">> /\ b = <<"read", "mockKey">>
    OBVIOUS
  <2>2. ~Occurs(BindSteps(p), a) /\ ~Occurs(BindSteps(p), b)
    BY <1>5, <2>1
  <2>3. Needs(Common(e), a, b)
    BY <2>1, PublicBeforePrivate
  <2>4. Needs(Steps(p, e), a, b)
    BY <1>1, <2>2, <2>3, CatKeeps
  <2> QED
    BY <2>1, <2>4
<1>7. ASSUME e.idpUri = "unset"
      PROVE  Needs(Steps(p, e), <<"discover", "idp">>, <<"fetch", "idp">>)
  <2>1. PICK a, b : a = <<"discover", "idp">> /\ b = <<"fetch", "idp">>
    OBVIOUS
  <2>2. ~Occurs(BindSteps(p), a) /\ ~Occurs(BindSteps(p), b)
    BY <1>5, <2>1
  <2>3. Needs(Common(e), a, b)
    BY <1>7, <2>1, DiscoverBeforeFetch
  <2>4. Needs(Steps(p, e), a, b)
    BY <1>1, <2>2, <2>3, CatKeeps
  <2> QED
    BY <2>1, <2>4
<1> QED
  BY <1>2, <1>3, <1>4, <1>6, <1>7

-------------------------------------------------------------------------------
(***************************************************************************)
(* The inductive invariant.  Its parts speak of one process x (a value of  *)
(* proc[p]) and of the settings, files and identity provider as values.    *)
(***************************************************************************)

\* How many steps are behind x, and which.
Behind(p, x, e) == Len(Steps(p, e)) - Len(x.todo)

Passed(p, x, e) == {Steps(p, e)[i] : i \in 1 .. Behind(p, x, e)}

\* What x has left is the end of the list.
OnTrack(p, x, e) ==
  /\ x.todo \in Seq(StepSet)
  /\ Len(x.todo) <= Len(Steps(p, e))
  /\ \A i \in 1 .. Len(x.todo) : x.todo[i] = Steps(p, e)[Behind(p, x, e) + i]

LEMMA Progress ==
  ASSUME NEW p, NEW e, NEW x, NEW y, OnTrack(p, x, e), x.todo # <<>>,
         y.todo = Tail(x.todo)
  PROVE  /\ OnTrack(p, y, e)
         /\ \A a : a \in Passed(p, y, e) <=> a \in Passed(p, x, e) \/ a = Head(x.todo)
         /\ Behind(p, x, e) + 1 \in 1 .. Len(Steps(p, e))
         /\ Head(x.todo) = Steps(p, e)[Behind(p, x, e) + 1]
         /\ Len(x.todo) = 1 <=> y.todo = <<>>
         /\ Len(x.todo) \in Nat \ {0}
<1> DEFINE S == Steps(p, e)
           n == Behind(p, x, e)
<1>1. S \in Seq(StepSet) /\ Len(S) \in Nat
  BY StepsFacts, LenProperties
<1>2. /\ x.todo \in Seq(StepSet) /\ Len(x.todo) <= Len(S)
      /\ \A i \in 1 .. Len(x.todo) : x.todo[i] = S[n + i]
  BY DEF OnTrack
<1>3. /\ Len(x.todo) \in Nat \ {0} /\ Head(x.todo) = x.todo[1]
      /\ y.todo \in Seq(StepSet) /\ Len(y.todo) = Len(x.todo) - 1
      /\ \A i \in 1 .. Len(y.todo) : y.todo[i] = x.todo[i + 1]
  BY <1>2, EmptySeq, LenProperties, HeadTailProperties
<1>4. n = Len(S) - Len(x.todo) /\ n \in Nat /\ Behind(p, y, e) = n + 1
  <2>1. n = Len(S) - Len(x.todo) /\ Behind(p, y, e) = Len(S) - Len(y.todo)
    BY DEF Behind
  <2>2. PICK l \in Nat, m \in Nat : l = Len(S) /\ m = Len(x.todo)
    BY <1>1, <1>3
  <2>3. m <= l /\ Len(y.todo) = m - 1
    BY <1>2, <1>3, <2>2
  <2>4. l - (m - 1) = (l - m) + 1 /\ l - m \in Nat
    BY <2>2, <2>3
  <2> QED
    BY <2>1, <2>2, <2>3, <2>4
<1> HIDE DEF S, n
<1>5. n + 1 \in 1 .. Len(S) /\ Head(x.todo) = S[n + 1]
  <2>1. 1 \in 1 .. Len(x.todo)
    BY <1>3
  <2>2. n + 1 \in 1 .. Len(S)
    BY <1>1, <1>3, <1>4
  <2> QED
    BY <1>2, <1>3, <2>1, <2>2
<1>6. OnTrack(p, y, e)
  <2>1. ASSUME NEW i \in 1 .. Len(y.todo)  PROVE  y.todo[i] = S[(n + 1) + i]
    <3>1. i + 1 \in 1 .. Len(x.todo)
      BY <1>3
    <3>2. x.todo[i + 1] = S[n + (i + 1)]
      BY <1>2, <3>1
    <3>3. n + (i + 1) = (n + 1) + i
      BY <1>4
    <3> QED
      BY <1>3, <3>2, <3>3
  <2>2. Len(y.todo) <= Len(S)
    BY <1>1, <1>2, <1>3
  <2> QED
    BY <1>3, <1>4, <2>1, <2>2 DEF OnTrack, S
<1>7. Passed(p, y, e) = Passed(p, x, e) \cup {Head(x.todo)}
  <2>1. Passed(p, y, e) = {S[i] : i \in 1 .. n + 1} /\ Passed(p, x, e) = {S[i] : i \in 1 .. n}
    BY <1>4 DEF Passed, S, n
  <2>2. 1 .. n + 1 = (1 .. n) \cup {n + 1}
    <3>1. PICK m \in Nat : m = n
      BY <1>4
    <3>2. 1 .. (m + 1) = (1 .. m) \cup {m + 1}
      OBVIOUS
    <3> QED
      BY <3>1, <3>2
  <2> QED
    BY <1>5, <2>1, <2>2
<1>8. Len(x.todo) = 1 <=> y.todo = <<>>
  <2>1. y.todo = <<>> => Len(y.todo) = 0
    BY EmptySeq
  <2>2. Len(y.todo) = 0 => y.todo = <<>>
    BY <1>3, EmptySeq
  <2> QED
    BY <1>3, <2>1, <2>2
<1> QED
  <2>1. \A a : a \in Passed(p, y, e) <=> a \in Passed(p, x, e) \/ a = Head(x.todo)
    BY <1>7
  <2> QED
    BY <1>3, <1>5, <1>6, <1>8, <2>1 DEF S, n

LEMMA PassedNext ==
  ASSUME NEW p, NEW e, NEW x, NEW y, NEW d, OnTrack(p, x, e), x.todo # <<>>,
         y.todo = Tail(x.todo), d = Passed(p, x, e) \cup {Head(x.todo)}
  PROVE  Passed(p, y, e) = d
<1>1. \A a : a \in Passed(p, y, e) <=> a \in Passed(p, x, e) \/ a = Head(x.todo)
  BY Progress
<1> QED
  BY <1>1

\* What comes before the step at hand, and what does not.
LEMMA AtHand ==
  ASSUME NEW p, NEW e, NEW x, OnTrack(p, x, e), x.todo # <<>>
  PROVE  LET h == Head(x.todo)
             done == Passed(p, x, e)
         IN  /\ h \in Required(e) \/ (p \in Server /\ h = <<"bind", "port">>)
             /\ done \subseteq Required(e) \cup { <<"bind", "port">> }
             /\ h = <<"read", "mockKey">> => <<"read", "public">> \in done
             /\ h = <<"read", "public">> => <<"read", "mockKey">> \notin done
             /\ h = <<"fetch", "idp">> =>
                  (e.idpUri = "unset" <=> <<"discover", "idp">> \in done)
<1> DEFINE S == Steps(p, e)
           n == Behind(p, x, e)
           h == Head(x.todo)
           done == Passed(p, x, e)
<1>1. S \in Seq(StepSet) /\ Len(S) \in Nat
  BY StepsFacts, LenProperties
<1>2. n + 1 \in 1 .. Len(S) /\ h = S[n + 1] /\ n \in Nat
  <2>1. PICK y : y = [todo |-> Tail(x.todo)]
    OBVIOUS
  <2>2. y.todo = Tail(x.todo)
    BY <2>1
  <2>3. n + 1 \in 1 .. Len(S) /\ h = S[n + 1]
    BY <2>2, Progress
  <2>4. x.todo \in Seq(StepSet) /\ Len(x.todo) <= Len(S)
    BY DEF OnTrack
  <2>5. Len(x.todo) \in Nat
    BY <2>4, LenProperties
  <2>6. n \in Nat
    BY <1>1, <2>4, <2>5 DEF Behind
  <2> QED
    BY <2>3, <2>6
<1>3. \A a : a \in done <=> \E i \in 1 .. n : S[i] = a
  BY DEF Passed
<1>4. /\ \A a : Occurs(S, a) <=> a \in Required(e) \/ (p \in Server /\ a = <<"bind", "port">>)
      /\ Needs(S, <<"read", "public">>, <<"read", "mockKey">>)
      /\ e.idpUri = "unset" => Needs(S, <<"discover", "idp">>, <<"fetch", "idp">>)
  BY StepsFacts
<1> HIDE DEF S, n, h, done
<1>5. Occurs(S, h) /\ \A a \in done : Occurs(S, a)
  BY <1>1, <1>2, <1>3 DEF Occurs
<1>6. ASSUME NEW a, NEW b, Needs(S, a, b)
      PROVE  /\ h = b => a \in done
             /\ h = a => b \notin done
  <2>1. ASSUME h = b  PROVE  a \in done
    <3>1. PICK j \in 1 .. ((n + 1) - 1) : S[j] = a
      BY <1>2, <1>6, <2>1 DEF Needs
    <3> QED
      BY <1>2, <1>3, <3>1
  <2>2. ASSUME h = a, b \in done  PROVE  FALSE
    <3>1. PICK i \in 1 .. n : S[i] = b
      BY <1>3, <2>2
    <3>2. i \in 1 .. Len(S)
      BY <1>1, <1>2
    <3>3. n + 1 < i
      BY <1>2, <1>6, <2>2, <3>1, <3>2 DEF Needs
    <3> QED
      BY <1>2, <3>3
  <2> QED
    BY <2>1, <2>2
<1>7. /\ h = <<"read", "mockKey">> => <<"read", "public">> \in done
      /\ h = <<"read", "public">> => <<"read", "mockKey">> \notin done
  BY <1>4, <1>6
<1>8. h = <<"fetch", "idp">> => (e.idpUri = "unset" <=> <<"discover", "idp">> \in done)
  <2>1. e.idpUri = "unset" /\ h = <<"fetch", "idp">> => <<"discover", "idp">> \in done
    BY <1>4, <1>6
  <2>2. PICK a : a = <<"discover", "idp">>
    OBVIOUS
  <2>3. ASSUME a \in done  PROVE  e.idpUri = "unset"
    <3>1. a \in Required(e) \/ a = <<"bind", "port">>
      BY <1>4, <1>5, <2>3
    <3> QED
      BY <2>2, <3>1 DEF Required
  <2> QED
    BY <2>1, <2>2, <2>3
<1>9. h \in Required(e) \/ (p \in Server /\ h = <<"bind", "port">>)
  BY <1>4, <1>5
<1>10. done \subseteq Required(e) \cup { <<"bind", "port">> }
  BY <1>4, <1>5
<1> QED
  BY <1>7, <1>8, <1>9, <1>10 DEF h, done

-------------------------------------------------------------------------------
\* Conditions of the steps.
AddrOk(e) ==
  /\ e.addr # "invalid"
  /\ e.issuer # "http" \/ e.addr = "loopback" \/ Bool(e.insecureBind, FALSE)

InboundOk(e) == InboundAlgs(e) \cap PqcAlgs # {} => e.pqcBuild

ProviderOk(e) ==
  \/ e.provider = "file"
  \/ /\ e.provider = "mock-external"
     /\ Selection(e) = "RS256"
     /\ {"public", "mockKey"} \subseteq e.named

CheckOk(e, role, file) == ~file.present \/ ~file.writable \/ Override(e, role)

ReadOk(e, role, loaded, file) == file.present /\ Accepted(e, role, loaded, file.content)

DiscoverOk(id) == id.up /\ id.issuer = "configured"

FetchOk(uri, id) == uri = "https" /\ id.up

\* What the files hold, as far as a later step looks at what was loaded.
Contents(fs) == [r \in Role |-> fs[r].content]

\* Whether step a succeeds when nothing changes: this no longer depends on the
\* process that takes it.
Succeeds(e, fs, id, blocked, a) ==
  CASE a[1] = "config" -> ConfigParses(e, fs["policy"])
    [] a[1] = "addr" -> AddrOk(e)
    [] a[1] = "inbound" -> InboundOk(e)
    [] a[1] = "provider" -> ProviderOk(e)
    [] a[1] = "check" -> CheckOk(e, a[2], fs[Path(e, a[2])])
    [] a[1] = "read" -> ReadOk(e, a[2], Contents(fs), fs[Path(e, a[2])])
    [] a[1] = "discover" -> DiscoverOk(id)
    [] a[1] = "fetch" -> FetchOk(IF e.idpUri = "unset" THEN id.jwksUri ELSE e.idpUri, id)
    [] a[1] = "replay" -> (e.replay = "file" => ~blocked)
    [] a[1] = "bind" -> TRUE

\* What a step that looks at the settings alone has established.
SettingsOk(e, a) ==
  /\ a = <<"config", "config">> => InboundAlgsParse(e)
  /\ a = <<"inbound", "config">> => InboundOk(e)
  /\ a = <<"provider", "config">> => ProviderOk(e)

\* What x has established by the steps in done, whatever changes.
Kept(e, x, done) ==
  /\ \A a \in done : SettingsOk(e, a)
  /\ \A r \in {"key", "public", "mockKey"} :
       <<"read", r>> \in done => Accepted(e, r, x.loaded, x.loaded[r])

\* And what it holds, as long as nothing changes.
Current(e, fs, id, blocked, x, done) ==
  /\ \A a \in done : Succeeds(e, fs, id, blocked, a)
  /\ x.uri = IF <<"discover", "idp">> \in done THEN id.jwksUri ELSE e.idpUri
  /\ <<"config", "config">> \in done => x.targets = TargetPolicy(e, fs["policy"])
  /\ \A r \in Role :
       x.loaded[r] = IF <<"read", r>> \in done THEN fs[Path(e, r)].content
                     ELSE IF r = "idp" /\ <<"fetch", "idp">> \in done
                     THEN [form |-> "jwks", keys |-> id.keys]
                     ELSE Nothing

\* A process that failed did so at the first step that does not succeed, or
\* because the port was taken.
FailedAt(p, e, fs, id, blocked, at) ==
  \E k \in 1 .. Len(Steps(p, e)) :
    /\ at = Steps(p, e)[k][1]
    /\ \A j \in 1 .. (k - 1) : Succeeds(e, fs, id, blocked, Steps(p, e)[j])
    /\ at # "bind" => ~Succeeds(e, fs, id, blocked, Steps(p, e)[k])

Shape(x) ==
  /\ x = [pc |-> x.pc, todo |-> x.todo, since |-> x.since, at |-> x.at, uri |-> x.uri,
          targets |-> x.targets, loaded |-> x.loaded]
  /\ x.loaded = [r \in Role |-> x.loaded[r]]

ProcOK(p, x, e) ==
  /\ Shape(x)
  /\ x.pc \in {"idle", "running", "done", "failed"}
  /\ x.pc = "running" <=> x.todo # <<>>
  /\ x.pc \in {"idle", "failed"} => \A r \in Role : x.loaded[r] = Nothing
  /\ x.pc \in {"running", "done"} => OnTrack(p, x, e) /\ Kept(e, x, Passed(p, x, e))

QuietOK(p, x, e, fs, id, blocked) ==
  /\ x.pc \in {"running", "done"} => Current(e, fs, id, blocked, x, Passed(p, x, e))
  /\ x.pc = "failed" => FailedAt(p, e, fs, id, blocked, x.at)

\* The inductive invariant.
BootInv ==
  /\ env \in Environments
  /\ DOMAIN files = File
  /\ dir \in {"absent", "directory", "blocked"}
  /\ edits \in 0 .. MaxEdits
  /\ proc = [p \in Process |-> proc[p]]
  /\ \A p \in Process :
       /\ proc[p].since \in 0 .. edits
       /\ ProcOK(p, proc[p], env)
       /\ Undisturbed(p) => QuietOK(p, proc[p], env, files, idp, dir = "blocked")

-------------------------------------------------------------------------------
\* A process that moves on, with its new values in y.
Continues(x, y) ==
  /\ Shape(y) /\ y.pc = x.pc /\ y.todo = x.todo /\ y.since = x.since /\ y.at = x.at

LEMMA AdvanceFields ==
  ASSUME NEW y, Shape(y)
  PROVE  /\ Shape(Advance(y))
         /\ Advance(y).todo = Tail(y.todo)
         /\ Advance(y).pc = IF Len(y.todo) = 1 THEN "done" ELSE "running"
         /\ Advance(y).since = y.since /\ Advance(y).uri = y.uri
         /\ Advance(y).targets = y.targets /\ Advance(y).loaded = y.loaded
<1>1. PICK a, b, c, d, f, g, l :
        /\ y = [pc |-> a, todo |-> b, since |-> c, at |-> d, uri |-> f, targets |-> g, loaded |-> l]
        /\ l = [r \in Role |-> l[r]]
  BY DEF Shape
<1>2. PICK v, t : v = (IF Len(y.todo) = 1 THEN "done" ELSE "running") /\ t = Tail(y.todo)
  OBVIOUS
<1>3. Advance(y) = [y EXCEPT !.todo = t, !.pc = v]
  BY <1>1, <1>2 DEF Advance
<1>4. Advance(y) = [pc |-> v, todo |-> t, since |-> c, at |-> d, uri |-> f, targets |-> g,
                    loaded |-> l]
  BY <1>1, <1>3
<1> QED
  BY <1>1, <1>2, <1>4 DEF Shape

LEMMA IdleFields ==
  /\ Shape(Idle) /\ Idle.pc = "idle" /\ Idle.todo = <<>> /\ Idle.since = 0
  /\ \A r \in Role : Idle.loaded[r] = Nothing
BY DEF Idle, Shape

LEMMA RefuseFields ==
  ASSUME NEW x
  PROVE  /\ Shape(Refuse(x))
         /\ Refuse(x).pc = "failed" /\ Refuse(x).todo = <<>>
         /\ Refuse(x).since = x.since /\ Refuse(x).at = Head(x.todo)[1]
         /\ \A r \in Role : Refuse(x).loaded[r] = Nothing
<1>1. PICK n, a : n = x.since /\ a = Head(x.todo)[1]
  OBVIOUS
<1>2. PICK l : l = [r \in Role |-> Nothing]
  OBVIOUS
<1>3. PICK i : i = Idle
  OBVIOUS
<1>4. i = [pc |-> "idle", todo |-> <<>>, since |-> 0, at |-> "none", uri |-> "unset",
            targets |-> "empty", loaded |-> l]
  BY <1>2, <1>3 DEF Idle
<1>5. Refuse(x) = [i EXCEPT !.pc = "failed", !.since = n, !.at = a]
  BY <1>1, <1>3 DEF Refuse
<1>6. Refuse(x) = [pc |-> "failed", todo |-> <<>>, since |-> n, at |-> a, uri |-> "unset",
                   targets |-> "empty", loaded |-> l]
  BY <1>4, <1>5
<1>7. l = [r \in Role |-> l[r]] /\ \A r \in Role : l[r] = Nothing
  BY <1>2
<1> QED
  BY <1>1, <1>6, <1>7 DEF Shape

\* A process that has just begun, with n changes made so far.
Started(s, n, u) == [Idle EXCEPT !.pc = "running", !.since = n, !.todo = s, !.uri = u]

LEMMA BeginFields ==
  ASSUME NEW s, NEW n, NEW u
  PROVE  LET x == Started(s, n, u)
         IN  /\ Shape(x) /\ x.pc = "running" /\ x.since = n /\ x.todo = s /\ x.uri = u
             /\ \A r \in Role : x.loaded[r] = Nothing
<1>1. PICK l : l = [r \in Role |-> Nothing]
  OBVIOUS
<1>2. PICK i : i = Idle
  OBVIOUS
<1>3. i = [pc |-> "idle", todo |-> <<>>, since |-> 0, at |-> "none", uri |-> "unset",
           targets |-> "empty", loaded |-> l]
  BY <1>1, <1>2 DEF Idle
<1>4. PICK x : x = Started(s, n, u)
  OBVIOUS
<1>5. x = [i EXCEPT !.pc = "running", !.since = n, !.todo = s, !.uri = u]
  BY <1>2, <1>4 DEF Started
<1>6. x = [pc |-> "running", todo |-> s, since |-> n, at |-> "none", uri |-> u,
           targets |-> "empty", loaded |-> l]
  BY <1>3, <1>5
<1>7. l = [r \in Role |-> l[r]] /\ \A r \in Role : l[r] = Nothing
  BY <1>1
<1>8. Shape(x) /\ x.pc = "running" /\ x.since = n /\ x.todo = s /\ x.uri = u /\ x.loaded = l
  BY <1>6, <1>7 DEF Shape
<1> QED
  BY <1>4, <1>7, <1>8

\* A step that succeeds.
LEMMA AdvanceOK ==
  ASSUME NEW p, NEW e, NEW x, NEW y, NEW d, ProcOK(p, x, e), x.pc = "running", Continues(x, y),
         d = Passed(p, x, e) \cup {Head(x.todo)}, Kept(e, y, d)
  PROVE  ProcOK(p, Advance(y), e) /\ Advance(y).since = x.since
<1>1. PICK z : z = Advance(y)
  OBVIOUS
<1>2. /\ Shape(z) /\ z.todo = Tail(x.todo) /\ z.since = x.since /\ z.loaded = y.loaded
      /\ z.pc = IF Len(x.todo) = 1 THEN "done" ELSE "running"
  BY <1>1, AdvanceFields DEF Continues
<1>3. OnTrack(p, x, e) /\ x.todo # <<>>
  BY DEF ProcOK
<1>4. OnTrack(p, z, e) /\ Passed(p, z, e) = d
  <2>1. OnTrack(p, z, e) /\ z.todo = Tail(x.todo)
    BY <1>2, <1>3, Progress
  <2>2. Passed(p, z, e) = d
    BY <1>3, <2>1, PassedNext
  <2> QED
    BY <2>1, <2>2
<1>5. Len(x.todo) = 1 <=> z.todo = <<>>
  BY <1>2, <1>3, Progress
<1>6. Kept(e, z, Passed(p, z, e))
  BY <1>2, <1>4 DEF Kept
<1> QED
  BY <1>1, <1>2, <1>4, <1>5, <1>6 DEF ProcOK

LEMMA AdvanceQuiet ==
  ASSUME NEW p, NEW e, NEW x, NEW y, NEW d, NEW fs, NEW id, NEW blocked,
         ProcOK(p, x, e), x.pc = "running", Continues(x, y),
         d = Passed(p, x, e) \cup {Head(x.todo)}, Current(e, fs, id, blocked, y, d)
  PROVE  QuietOK(p, Advance(y), e, fs, id, blocked)
<1>1. PICK z : z = Advance(y)
  OBVIOUS
<1>2. /\ z.todo = Tail(x.todo) /\ z.loaded = y.loaded /\ z.uri = y.uri /\ z.targets = y.targets
      /\ z.pc # "failed"
  BY <1>1, AdvanceFields DEF Continues
<1>3. OnTrack(p, x, e) /\ x.todo # <<>>
  BY DEF ProcOK
<1>4. Passed(p, z, e) = d
  BY <1>2, <1>3, PassedNext
<1>5. Current(e, fs, id, blocked, z, Passed(p, z, e))
  BY <1>2, <1>4 DEF Current
<1> QED
  BY <1>1, <1>2, <1>5 DEF QuietOK

\* A step that fails.
LEMMA RefuseOK ==
  ASSUME NEW p, NEW e, NEW x
  PROVE  ProcOK(p, Refuse(x), e) /\ Refuse(x).since = x.since
<1>1. PICK z : z = Refuse(x)
  OBVIOUS
<1>2. /\ Shape(z) /\ z.pc = "failed" /\ z.todo = <<>> /\ z.since = x.since
      /\ \A r \in Role : z.loaded[r] = Nothing
  BY <1>1, RefuseFields
<1> QED
  BY <1>1, <1>2 DEF ProcOK

LEMMA RefuseQuiet ==
  ASSUME NEW p, NEW e, NEW x, NEW fs, NEW id, NEW blocked,
         ProcOK(p, x, e), x.pc = "running", QuietOK(p, x, e, fs, id, blocked),
         Head(x.todo)[1] = "bind" \/ ~Succeeds(e, fs, id, blocked, Head(x.todo))
  PROVE  QuietOK(p, Refuse(x), e, fs, id, blocked)
<1>1. PICK z : z = Refuse(x)
  OBVIOUS
<1>2. z.pc = "failed" /\ z.at = Head(x.todo)[1]
  BY <1>1, RefuseFields
<1>3. OnTrack(p, x, e) /\ x.todo # <<>>
  BY DEF ProcOK
<1>4. PICK y : y = [todo |-> Tail(x.todo)]
  OBVIOUS
<1>5. PICK k : k = Behind(p, x, e) + 1
  OBVIOUS
<1>6. k \in 1 .. Len(Steps(p, e)) /\ Head(x.todo) = Steps(p, e)[k]
  <2>1. y.todo = Tail(x.todo)
    BY <1>4
  <2> QED
    BY <1>3, <1>5, <2>1, Progress
<1>7. \A j \in 1 .. (k - 1) : Succeeds(e, fs, id, blocked, Steps(p, e)[j])
  <2>1. Behind(p, x, e) \in Int
    <3>1. x.todo \in Seq(StepSet) /\ Steps(p, e) \in Seq(StepSet)
      BY <1>3, StepsFacts DEF OnTrack
    <3> QED
      BY <3>1, LenProperties DEF Behind
  <2>2. 1 .. (k - 1) = 1 .. Behind(p, x, e)
    BY <1>5, <2>1
  <2>3. \A j \in 1 .. (k - 1) : Steps(p, e)[j] \in Passed(p, x, e)
    BY <2>2 DEF Passed
  <2>4. \A a \in Passed(p, x, e) : Succeeds(e, fs, id, blocked, a)
    BY DEF QuietOK, Current
  <2> QED
    BY <2>3, <2>4
<1>8. FailedAt(p, e, fs, id, blocked, z.at)
  BY <1>2, <1>6, <1>7 DEF FailedAt
<1> QED
  BY <1>1, <1>2, <1>8 DEF QuietOK

LEMMA BeginOK ==
  ASSUME NEW p, NEW e, NEW x, NEW fs, NEW id, NEW blocked,
         Shape(x), x.pc = "running", x.todo = Steps(p, e), x.uri = e.idpUri,
         \A r \in Role : x.loaded[r] = Nothing
  PROVE  ProcOK(p, x, e) /\ QuietOK(p, x, e, fs, id, blocked)
<1>1. Steps(p, e) \in Seq(StepSet) /\ Steps(p, e) # <<>> /\ Len(Steps(p, e)) \in Nat
  BY StepsFacts, LenProperties
<1>2. Behind(p, x, e) = 0
  BY <1>1 DEF Behind
<1>3. OnTrack(p, x, e)
  BY <1>1, <1>2 DEF OnTrack
<1>4. Passed(p, x, e) = {}
  BY <1>2 DEF Passed
<1>5. Kept(e, x, Passed(p, x, e)) /\ Current(e, fs, id, blocked, x, Passed(p, x, e))
  BY <1>4 DEF Kept, Current
<1> QED
  BY <1>1, <1>3, <1>5 DEF ProcOK, QuietOK

-------------------------------------------------------------------------------
(***************************************************************************)
(* What one step adds.                                                     *)
(***************************************************************************)

LEMMA AcceptedSame ==
  ASSUME NEW e, NEW k, NEW l, NEW c, NEW r \in Role,
         r = "mockKey" => k["public"] = l["public"]
  PROVE  Accepted(e, r, k, c) <=> Accepted(e, r, l, c)
BY DEF Accepted, Role

LEMMA RequiredSteps ==
  ASSUME NEW e, NEW a, a \in Required(e) \/ a = <<"bind", "port">>
  PROVE  /\ a[1] = "config" => a = <<"config", "config">>
         /\ a[1] = "provider" => a = <<"provider", "config">>
         /\ a[1] = "discover" => a = <<"discover", "idp">>
         /\ a[1] = "fetch" => a = <<"fetch", "idp">> /\ "idp" \notin e.named
         /\ a[1] \in {"check", "read"} => a = <<a[1], a[2]>> /\ a[2] \in Role
         /\ a = <<"read", "idp">> => "idp" \in e.named
         /\ a[1] \in {"config", "addr", "inbound", "provider", "check", "read", "discover",
                      "fetch", "replay", "bind"}
BY DEF Required, Role

LEMMA SettingsHold ==
  ASSUME NEW e, NEW fs, NEW id, NEW b, NEW a, Succeeds(e, fs, id, b, a)
  PROVE  SettingsOk(e, a)
<1>1. a = <<"config", "config">> => InboundAlgsParse(e)
  BY DEF Succeeds, ConfigParses
<1>2. a = <<"inbound", "config">> => InboundOk(e)
  BY DEF Succeeds
<1>3. a = <<"provider", "config">> => ProviderOk(e)
  BY DEF Succeeds
<1> QED
  BY <1>1, <1>2, <1>3 DEF SettingsOk

LEMMA KeptStep ==
  ASSUME NEW e, NEW x, NEW y, NEW done, NEW d, NEW h,
         Kept(e, x, done), d = done \cup {h}, h[1] # "read",
         SettingsOk(e, h),
         \A r \in {"key", "public", "mockKey"} : y.loaded[r] = x.loaded[r]
  PROVE  Kept(e, y, d)
<1>1. \A r : <<"read", r>> \in d => <<"read", r>> \in done
  OBVIOUS
<1>2. \A a \in d : SettingsOk(e, a)
  BY DEF Kept
<1>3. ASSUME NEW r \in {"key", "public", "mockKey"}, <<"read", r>> \in d
      PROVE  Accepted(e, r, y.loaded, y.loaded[r])
  <2>1. Accepted(e, r, x.loaded, x.loaded[r])
    BY <1>1, <1>3 DEF Kept
  <2>2. r \in Role /\ y.loaded["public"] = x.loaded["public"] /\ y.loaded[r] = x.loaded[r]
    BY DEF Role
  <2>3. PICK k, l, c : k = x.loaded /\ l = y.loaded /\ c = x.loaded[r]
    OBVIOUS
  <2>4. Accepted(e, r, k, c) <=> Accepted(e, r, l, c)
    BY <2>2, <2>3, AcceptedSame
  <2> QED
    BY <2>1, <2>2, <2>3, <2>4
<1> QED
  BY <1>2, <1>3 DEF Kept

LEMMA KeptRead ==
  ASSUME NEW e, NEW x, NEW y, NEW done, NEW d, NEW r \in Role, NEW c,
         Kept(e, x, done), d = done \cup { <<"read", r>> },
         \A q \in Role : y.loaded[q] = IF q = r THEN c ELSE x.loaded[q],
         Accepted(e, r, x.loaded, c),
         r = "public" => <<"read", "mockKey">> \notin done
  PROVE  Kept(e, y, d)
<1>1. \A a \in d : SettingsOk(e, a)
  <2>1. SettingsOk(e, <<"read", r>>)
    BY DEF SettingsOk
  <2> QED
    BY <2>1 DEF Kept
<1>2. PICK k, l : k = x.loaded /\ l = y.loaded
  OBVIOUS
<1>3. \A q \in Role : l[q] = IF q = r THEN c ELSE k[q]
  BY <1>2
<1>4. ASSUME NEW q \in {"key", "public", "mockKey"}, <<"read", q>> \in d
      PROVE  Accepted(e, q, l, l[q])
  <2>1. q \in Role /\ "public" \in Role
    BY DEF Role
  <2>2. CASE q = r
    <3>1. q = "mockKey" => k["public"] = l["public"]
      BY <1>3, <2>1, <2>2
    <3>2. Accepted(e, q, k, c) <=> Accepted(e, q, l, c)
      BY <2>1, <3>1, AcceptedSame
    <3> QED
      BY <1>2, <1>3, <2>1, <2>2, <3>2
  <2>3. CASE q # r
    <3>1. <<"read", q>> \in done
      BY <1>4, <2>3
    <3>2. Accepted(e, q, k, k[q]) /\ l[q] = k[q]
      BY <1>2, <1>3, <2>1, <2>3, <3>1 DEF Kept
    <3>3. q = "mockKey" => k["public"] = l["public"]
      BY <1>3, <2>1, <3>1
    <3>4. PICK v : v = k[q]
      OBVIOUS
    <3>5. Accepted(e, q, k, v) <=> Accepted(e, q, l, v)
      BY <2>1, <3>3, AcceptedSame
    <3> QED
      BY <3>2, <3>4, <3>5
  <2> QED
    BY <2>2, <2>3
<1> QED
  BY <1>1, <1>2, <1>4 DEF Kept

LEMMA CurrentStep ==
  ASSUME NEW e, NEW fs, NEW id, NEW blocked, NEW x, NEW y, NEW done, NEW d, NEW h,
         Current(e, fs, id, blocked, x, done), d = done \cup {h},
         Succeeds(e, fs, id, blocked, h),
         h[1] \notin {"read", "discover", "fetch"},
         y.uri = x.uri, y.loaded = x.loaded,
         y.targets = IF h[1] = "config" THEN TargetPolicy(e, fs["policy"]) ELSE x.targets
  PROVE  Current(e, fs, id, blocked, y, d)
<1>1. /\ \A r : <<"read", r>> \in d <=> <<"read", r>> \in done
      /\ <<"discover", "idp">> \in d <=> <<"discover", "idp">> \in done
      /\ <<"fetch", "idp">> \in d <=> <<"fetch", "idp">> \in done
  OBVIOUS
<1>2. \A a \in d : Succeeds(e, fs, id, blocked, a)
  BY DEF Current
<1>3. <<"config", "config">> \in d => y.targets = TargetPolicy(e, fs["policy"])
  <2>1. CASE h[1] = "config"
    BY <2>1
  <2>2. CASE h[1] # "config"
    BY <2>2 DEF Current
  <2> QED
    BY <2>1, <2>2
<1>4. y.uri = IF <<"discover", "idp">> \in d THEN id.jwksUri ELSE e.idpUri
  BY <1>1 DEF Current
<1>5. \A r \in Role :
        y.loaded[r] = IF <<"read", r>> \in d THEN fs[Path(e, r)].content
                      ELSE IF r = "idp" /\ <<"fetch", "idp">> \in d
                      THEN [form |-> "jwks", keys |-> id.keys]
                      ELSE Nothing
  BY <1>1 DEF Current
<1> QED
  BY <1>2, <1>3, <1>4, <1>5 DEF Current

LEMMA CurrentRead ==
  ASSUME NEW e, NEW fs, NEW id, NEW blocked, NEW x, NEW y, NEW done, NEW d, NEW r \in Role,
         Current(e, fs, id, blocked, x, done), d = done \cup { <<"read", r>> },
         Succeeds(e, fs, id, blocked, <<"read", r>>),
         x.loaded = [q \in Role |-> x.loaded[q]],
         y.uri = x.uri, y.targets = x.targets,
         y.loaded = [x.loaded EXCEPT ![r] = fs[Path(e, r)].content]
  PROVE  Current(e, fs, id, blocked, y, d)
<1>1. /\ \A q : <<"read", q>> \in d <=> <<"read", q>> \in done \/ q = r
      /\ <<"discover", "idp">> \in d <=> <<"discover", "idp">> \in done
      /\ <<"fetch", "idp">> \in d <=> <<"fetch", "idp">> \in done
      /\ <<"config", "config">> \in d <=> <<"config", "config">> \in done
  OBVIOUS
<1>2. \A a \in d : Succeeds(e, fs, id, blocked, a)
  BY DEF Current
<1>3. <<"config", "config">> \in d => y.targets = TargetPolicy(e, fs["policy"])
  BY <1>1 DEF Current
<1>4. y.uri = IF <<"discover", "idp">> \in d THEN id.jwksUri ELSE e.idpUri
  BY <1>1 DEF Current
<1>5. PICK c : c = fs[Path(e, r)].content
  OBVIOUS
<1>6. \A q \in Role : y.loaded[q] = IF q = r THEN c ELSE x.loaded[q]
  BY <1>5
<1>7. ASSUME NEW q \in Role
      PROVE  y.loaded[q] = IF <<"read", q>> \in d THEN fs[Path(e, q)].content
                           ELSE IF q = "idp" /\ <<"fetch", "idp">> \in d
                           THEN [form |-> "jwks", keys |-> id.keys]
                           ELSE Nothing
  <2>1. CASE q = r
    BY <1>1, <1>5, <1>6, <2>1
  <2>2. CASE q # r
    BY <1>1, <1>6, <2>2 DEF Current
  <2> QED
    BY <2>1, <2>2
<1> QED
  BY <1>2, <1>3, <1>4, <1>7 DEF Current

LEMMA CurrentDiscover ==
  ASSUME NEW e, NEW fs, NEW id, NEW blocked, NEW x, NEW y, NEW done, NEW d,
         Current(e, fs, id, blocked, x, done), d = done \cup { <<"discover", "idp">> },
         Succeeds(e, fs, id, blocked, <<"discover", "idp">>),
         y.uri = id.jwksUri, y.targets = x.targets, y.loaded = x.loaded
  PROVE  Current(e, fs, id, blocked, y, d)
<1>1. /\ \A q : <<"read", q>> \in d <=> <<"read", q>> \in done
      /\ <<"discover", "idp">> \in d
      /\ <<"fetch", "idp">> \in d <=> <<"fetch", "idp">> \in done
      /\ <<"config", "config">> \in d <=> <<"config", "config">> \in done
  OBVIOUS
<1>2. \A a \in d : Succeeds(e, fs, id, blocked, a)
  BY DEF Current
<1>3. <<"config", "config">> \in d => y.targets = TargetPolicy(e, fs["policy"])
  BY <1>1 DEF Current
<1>4. \A r \in Role :
        y.loaded[r] = IF <<"read", r>> \in d THEN fs[Path(e, r)].content
                      ELSE IF r = "idp" /\ <<"fetch", "idp">> \in d
                      THEN [form |-> "jwks", keys |-> id.keys]
                      ELSE Nothing
  BY <1>1 DEF Current
<1> QED
  BY <1>1, <1>2, <1>3, <1>4 DEF Current

LEMMA CurrentFetch ==
  ASSUME NEW e, NEW fs, NEW id, NEW blocked, NEW x, NEW y, NEW done, NEW d,
         Current(e, fs, id, blocked, x, done), d = done \cup { <<"fetch", "idp">> },
         Succeeds(e, fs, id, blocked, <<"fetch", "idp">>),
         <<"read", "idp">> \notin done,
         x.loaded = [q \in Role |-> x.loaded[q]],
         y.uri = x.uri, y.targets = x.targets,
         y.loaded = [x.loaded EXCEPT !["idp"] = [form |-> "jwks", keys |-> id.keys]]
  PROVE  Current(e, fs, id, blocked, y, d)
<1>1. /\ \A q : <<"read", q>> \in d <=> <<"read", q>> \in done
      /\ <<"discover", "idp">> \in d <=> <<"discover", "idp">> \in done
      /\ <<"fetch", "idp">> \in d
      /\ <<"config", "config">> \in d <=> <<"config", "config">> \in done
  OBVIOUS
<1>2. \A a \in d : Succeeds(e, fs, id, blocked, a)
  BY DEF Current
<1>3. <<"config", "config">> \in d => y.targets = TargetPolicy(e, fs["policy"])
  BY <1>1 DEF Current
<1>4. y.uri = IF <<"discover", "idp">> \in d THEN id.jwksUri ELSE e.idpUri
  BY <1>1 DEF Current
<1>5. PICK c : c = [form |-> "jwks", keys |-> id.keys]
  OBVIOUS
<1>6. \A q \in Role : y.loaded[q] = IF q = "idp" THEN c ELSE x.loaded[q]
  BY <1>5
<1>7. ASSUME NEW q \in Role
      PROVE  y.loaded[q] = IF <<"read", q>> \in d THEN fs[Path(e, q)].content
                           ELSE IF q = "idp" /\ <<"fetch", "idp">> \in d THEN c
                           ELSE Nothing
  <2>1. CASE q = "idp"
    BY <1>1, <1>6, <2>1
  <2>2. CASE q # "idp"
    BY <1>1, <1>6, <2>2 DEF Current
  <2> QED
    BY <2>1, <2>2
<1> QED
  BY <1>2, <1>3, <1>4, <1>5, <1>7 DEF Current

\* What a step of p sees agrees with Succeeds.
LEMMA ReadAgrees ==
  ASSUME NEW e, NEW fs, NEW id, NEW blocked, NEW x, NEW done, NEW r \in Role,
         Current(e, fs, id, blocked, x, done),
         r = "mockKey" => <<"read", "public">> \in done
  PROVE  ReadOk(e, r, x.loaded, fs[Path(e, r)]) <=> Succeeds(e, fs, id, blocked, <<"read", r>>)
<1>1. PICK k, l, f : k = x.loaded /\ l = Contents(fs) /\ f = fs[Path(e, r)]
  OBVIOUS
<1>2. Succeeds(e, fs, id, blocked, <<"read", r>>) <=> ReadOk(e, r, l, f)
  BY <1>1 DEF Succeeds
<1>3. r = "mockKey" => k["public"] = l["public"]
  <2>1. "public" \in Role /\ Path(e, "public") = "public"
    BY DEF Role, Path
  <2>2. l["public"] = fs["public"].content
    BY <1>1, <2>1 DEF Contents
  <2>3. r = "mockKey" => k["public"] = fs[Path(e, "public")].content
    BY <1>1, <2>1 DEF Current
  <2> QED
    BY <2>1, <2>2, <2>3
<1>4. PICK c : c = f.content
  OBVIOUS
<1>5. Accepted(e, r, k, c) <=> Accepted(e, r, l, c)
  BY <1>3, AcceptedSame
<1>6. ReadOk(e, r, k, f) <=> ReadOk(e, r, l, f)
  BY <1>4, <1>5 DEF ReadOk
<1> QED
  BY <1>1, <1>2, <1>6

LEMMA FetchAgrees ==
  ASSUME NEW e, NEW fs, NEW id, NEW blocked, NEW x, NEW done,
         Current(e, fs, id, blocked, x, done),
         e.idpUri = "unset" <=> <<"discover", "idp">> \in done
  PROVE  FetchOk(x.uri, id) <=> Succeeds(e, fs, id, blocked, <<"fetch", "idp">>)
<1>1. PICK u : u = IF e.idpUri = "unset" THEN id.jwksUri ELSE e.idpUri
  OBVIOUS
<1>2. x.uri = u
  BY <1>1 DEF Current
<1>3. Succeeds(e, fs, id, blocked, <<"fetch", "idp">>) <=> FetchOk(u, id)
  BY <1>1 DEF Succeeds
<1> QED
  BY <1>2, <1>3

-------------------------------------------------------------------------------
(***************************************************************************)
(* The steps preserve the invariant.                                       *)
(***************************************************************************)

\* One process changes.
LEMMA ProcStep ==
  ASSUME BootInv, NEW p \in Process, NEW z,
         proc' = [proc EXCEPT ![p] = z],
         env' = env, files' = files, idp' = idp, edits' = edits,
         dir' \in {"absent", "directory", "blocked"},
         (dir' = "blocked") = (dir = "blocked"),
         z.since \in 0 .. edits, ProcOK(p, z, env),
         z.since = edits => QuietOK(p, z, env, files, idp, dir = "blocked")
  PROVE  BootInv'
<1>1. PICK e, fs, id, b, n, t : /\ e = env /\ fs = files /\ id = idp /\ b = (dir = "blocked")
                                /\ n = edits /\ t = proc
  OBVIOUS
<1>2. PICK u : u = [t EXCEPT ![p] = z]
  OBVIOUS
<1>3. /\ t = [q \in Process |-> t[q]]
      /\ \A q \in Process :
           /\ t[q].since \in 0 .. n
           /\ ProcOK(q, t[q], e)
           /\ t[q].since = n => QuietOK(q, t[q], e, fs, id, b)
  BY <1>1 DEF BootInv, Undisturbed
<1>4. u = [q \in Process |-> u[q]] /\ \A q \in Process : u[q] = IF q = p THEN z ELSE t[q]
  BY <1>2, <1>3
<1>5. \A q \in Process :
        /\ u[q].since \in 0 .. n
        /\ ProcOK(q, u[q], e)
        /\ u[q].since = n => QuietOK(q, u[q], e, fs, id, b)
  <2> TAKE q \in Process
  <2>1. CASE q = p
    BY <1>1, <1>4, <2>1
  <2>2. CASE q # p
    BY <1>3, <1>4, <2>2
  <2> QED
    BY <2>1, <2>2
<1>6. /\ env' = e /\ files' = fs /\ idp' = id /\ (dir' = "blocked") = b /\ edits' = n
      /\ proc' = u
  BY <1>1, <1>2
<1>7. env' \in Environments /\ DOMAIN files' = File /\ edits' \in 0 .. MaxEdits
  BY DEF BootInv
<1> QED
  BY <1>4, <1>5, <1>6, <1>7 DEF BootInv, Undisturbed

\* A step of a running process that succeeds, or fails.
LEMMA Forward ==
  ASSUME BootInv, NEW p \in Process, NEW y, NEW d,
         proc' = [proc EXCEPT ![p] = Advance(y)],
         env' = env, files' = files, idp' = idp, edits' = edits,
         dir' \in {"absent", "directory", "blocked"},
         (dir' = "blocked") = (dir = "blocked"),
         proc[p].pc = "running", Continues(proc[p], y),
         d = Passed(p, proc[p], env) \cup {Head(proc[p].todo)},
         Kept(env, y, d),
         Undisturbed(p) => Current(env, files, idp, dir = "blocked", y, d)
  PROVE  BootInv'
<1>1. PICK e, fs, id, b, x, z : /\ e = env /\ fs = files /\ id = idp /\ b = (dir = "blocked")
                                /\ x = proc[p] /\ z = Advance(y)
  OBVIOUS
<1>2. ProcOK(p, x, e) /\ x.since \in 0 .. edits
  BY <1>1 DEF BootInv
<1>3. x.pc = "running" /\ Continues(x, y) /\ d = Passed(p, x, e) \cup {Head(x.todo)} /\ Kept(e, y, d)
  BY <1>1
<1>4. ProcOK(p, z, e) /\ z.since = x.since
  BY <1>1, <1>2, <1>3, AdvanceOK
<1>5. ASSUME z.since = edits  PROVE  QuietOK(p, z, e, fs, id, b)
  <2>1. Current(e, fs, id, b, y, d)
    BY <1>1, <1>4, <1>5 DEF Undisturbed
  <2> QED
    BY <1>1, <1>2, <1>3, <2>1, AdvanceQuiet
<1>6. proc' = [proc EXCEPT ![p] = z]
  BY <1>1
<1> QED
  BY <1>1, <1>2, <1>4, <1>5, <1>6, ProcStep

LEMMA Refused ==
  ASSUME BootInv, NEW p \in Process,
         proc' = [proc EXCEPT ![p] = Refuse(proc[p])],
         env' = env, files' = files, idp' = idp, edits' = edits,
         dir' \in {"absent", "directory", "blocked"},
         (dir' = "blocked") = (dir = "blocked"),
         proc[p].pc = "running",
         Undisturbed(p) =>
           \/ Head(proc[p].todo)[1] = "bind"
           \/ ~Succeeds(env, files, idp, dir = "blocked", Head(proc[p].todo))
  PROVE  BootInv'
<1>1. PICK e, fs, id, b, x, z : /\ e = env /\ fs = files /\ id = idp /\ b = (dir = "blocked")
                                /\ x = proc[p] /\ z = Refuse(x)
  OBVIOUS
<1>2. /\ ProcOK(p, x, e) /\ x.since \in 0 .. edits /\ x.pc = "running"
      /\ x.since = edits => QuietOK(p, x, e, fs, id, b)
      /\ x.since = edits => Head(x.todo)[1] = "bind" \/ ~Succeeds(e, fs, id, b, Head(x.todo))
  BY <1>1 DEF BootInv, Undisturbed
<1>3. ProcOK(p, z, e) /\ z.since = x.since
  BY <1>1, RefuseOK
<1>4. z.since = edits => QuietOK(p, z, e, fs, id, b)
  BY <1>1, <1>2, <1>3, RefuseQuiet
<1>5. proc' = [proc EXCEPT ![p] = z]
  BY <1>1
<1> QED
  BY <1>1, <1>2, <1>3, <1>4, <1>5, ProcStep

\* What is known of a process at step h with the steps in done behind it.
LEMMA Running ==
  ASSUME BootInv, NEW p \in Process, proc[p].pc = "running",
         NEW x, NEW e, NEW h, NEW done,
         x = proc[p], e = env, h = Head(x.todo), done = Passed(p, x, e)
  PROVE  /\ Shape(x) /\ Continues(x, x)
         /\ h \in Required(e) \/ h = <<"bind", "port">>
         /\ \A a \in done : a \in Required(e) \/ a = <<"bind", "port">>
         /\ h = <<"read", "mockKey">> => <<"read", "public">> \in done
         /\ h = <<"read", "public">> => <<"read", "mockKey">> \notin done
         /\ h = <<"fetch", "idp">> => (e.idpUri = "unset" <=> <<"discover", "idp">> \in done)
         /\ Kept(e, x, done)
         /\ Undisturbed(p) => Current(e, files, idp, dir = "blocked", x, done)
<1>1. ProcOK(p, x, e)
  BY DEF BootInv
<1>2. Shape(x) /\ OnTrack(p, x, e) /\ x.todo # <<>> /\ Kept(e, x, done)
  BY <1>1 DEF ProcOK
<1>3. /\ h \in Required(e) \/ (p \in Server /\ h = <<"bind", "port">>)
      /\ done \subseteq Required(e) \cup { <<"bind", "port">> }
      /\ h = <<"read", "mockKey">> => <<"read", "public">> \in done
      /\ h = <<"read", "public">> => <<"read", "mockKey">> \notin done
      /\ h = <<"fetch", "idp">> => (e.idpUri = "unset" <=> <<"discover", "idp">> \in done)
  BY <1>2, AtHand
<1>4. Undisturbed(p) => Current(e, files, idp, dir = "blocked", x, done)
  BY DEF BootInv, QuietOK
<1>5. Continues(x, x)
  BY <1>2 DEF Continues
<1> QED
  BY <1>2, <1>3, <1>4, <1>5

\* The steps that load nothing.
LEMMA PlainStep ==
  ASSUME BootInv, NEW p \in Process, NEW ok, NEW y,
         env' = env, files' = files, idp' = idp, edits' = edits,
         dir' \in {"absent", "directory", "blocked"},
         (dir' = "blocked") = (dir = "blocked"),
         proc[p].pc = "running",
         ok \in BOOLEAN,
         proc' = [proc EXCEPT ![p] = IF ok THEN Advance(y) ELSE Refuse(proc[p])],
         Continues(proc[p], y), y.uri = proc[p].uri, y.loaded = proc[p].loaded,
         Head(proc[p].todo)[1] \notin {"read", "discover", "fetch"},
         y.targets = IF Head(proc[p].todo)[1] = "config" THEN TargetPolicy(env, files["policy"])
                     ELSE proc[p].targets,
         \/ ok <=> Succeeds(env, files, idp, dir = "blocked", Head(proc[p].todo))
         \/ Head(proc[p].todo)[1] = "bind"
  PROVE  BootInv'
<1>1. PICK e, fs, id, b, x, h : /\ e = env /\ fs = files /\ id = idp /\ b = (dir = "blocked")
                                /\ x = proc[p] /\ h = Head(x.todo)
  OBVIOUS
<1>2. PICK done : done = Passed(p, x, e)
  OBVIOUS
<1>3. /\ Kept(e, x, done)
      /\ Undisturbed(p) => Current(e, fs, id, b, x, done)
  BY <1>1, <1>2, Running
<1>4. CASE ok
  <2>1. PICK d : d = done \cup {h}
    OBVIOUS
  <2>2. Succeeds(e, fs, id, b, h)
    BY <1>1, <1>4 DEF Succeeds
  <2>3. Kept(e, y, d)
    <3>1. h[1] # "read" /\ SettingsOk(e, h)
      BY <1>1, <2>2, SettingsHold
    <3>2. \A r \in {"key", "public", "mockKey"} : y.loaded[r] = x.loaded[r]
      BY <1>1
    <3> QED
      BY <1>3, <2>1, <3>1, <3>2, KeptStep
  <2>4. Undisturbed(p) => Current(e, fs, id, b, y, d)
    BY <1>1, <1>3, <2>1, <2>2, CurrentStep
  <2>5. proc' = [proc EXCEPT ![p] = Advance(y)]
    BY <1>4
  <2> QED
    BY <1>1, <1>2, <2>1, <2>3, <2>4, <2>5, Forward
<1>5. CASE ~ok
  <2>1. proc' = [proc EXCEPT ![p] = Refuse(proc[p])]
    BY <1>5
  <2>2. Head(proc[p].todo)[1] = "bind"
          \/ ~Succeeds(env, files, idp, dir = "blocked", Head(proc[p].todo))
    BY <1>5
  <2> QED
    BY <2>1, <2>2, Refused
<1> QED
  BY <1>4, <1>5

LEMMA StepOfConfig ==
  ASSUME BootInv, NEW p \in Process, LoadConfig(p) \/ ParseBindAddr(p) \/ ValidateInboundAlgs(p)
                                      \/ SelectProvider(p)
  PROVE  BootInv'
<1>1. PICK x, h : x = proc[p] /\ h = Head(x.todo)
  OBVIOUS
<1>2. /\ x.pc = "running" /\ h[1] \in {"config", "addr", "inbound", "provider"}
      /\ env' = env /\ files' = files /\ idp' = idp /\ edits' = edits /\ dir' = dir
  BY <1>1 DEF LoadConfig, ParseBindAddr, ValidateInboundAlgs, SelectProvider, At, Resolve
<1>3. dir' \in {"absent", "directory", "blocked"} /\ (dir' = "blocked") = (dir = "blocked")
  BY <1>2 DEF BootInv
<1>4. Shape(x) /\ Continues(x, x)
  BY <1>1, <1>2, Running
<1>5. CASE LoadConfig(p)
  <2>1. PICK t, y : t = TargetPolicy(env, files["policy"]) /\ y = [x EXCEPT !.targets = t]
    OBVIOUS
  <2>2. PICK ok \in BOOLEAN : ok <=> ConfigParses(env, files["policy"])
    OBVIOUS
  <2>3. h[1] = "config" /\ (ok <=> Succeeds(env, files, idp, dir = "blocked", h))
    BY <1>1, <1>5, <2>2 DEF LoadConfig, At, Succeeds
  <2>4. proc' = [proc EXCEPT ![p] = IF ok THEN Advance(y) ELSE Refuse(proc[p])]
    BY <1>1, <1>5, <2>1, <2>2 DEF LoadConfig, Resolve
  <2>5. Continues(x, y) /\ y.uri = x.uri /\ y.loaded = x.loaded /\ y.targets = t
    BY <1>4, <2>1 DEF Continues, Shape
  <2> QED
    BY <1>1, <1>2, <1>3, <2>1, <2>3, <2>4, <2>5, PlainStep
<1>6. ASSUME NEW ok \in BOOLEAN, h[1] \in {"addr", "inbound", "provider"},
             ok <=> Succeeds(env, files, idp, dir = "blocked", h),
             proc' = [proc EXCEPT ![p] = IF ok THEN Advance(x) ELSE Refuse(proc[p])]
      PROVE  BootInv'
  BY <1>1, <1>2, <1>3, <1>4, <1>6, PlainStep
<1>7. CASE ParseBindAddr(p)
  <2>1. PICK ok \in BOOLEAN : ok <=> AddrOk(env)
    OBVIOUS
  <2>2. h[1] = "addr" /\ (ok <=> Succeeds(env, files, idp, dir = "blocked", h))
    BY <1>1, <1>7, <2>1 DEF ParseBindAddr, At, Succeeds
  <2>3. proc' = [proc EXCEPT ![p] = IF ok THEN Advance(x) ELSE Refuse(proc[p])]
    BY <1>1, <1>7, <2>1 DEF ParseBindAddr, Resolve, AddrOk
  <2> QED
    BY <1>6, <2>2, <2>3
<1>8. CASE ValidateInboundAlgs(p)
  <2>1. PICK ok \in BOOLEAN : ok <=> InboundOk(env)
    OBVIOUS
  <2>2. h[1] = "inbound" /\ (ok <=> Succeeds(env, files, idp, dir = "blocked", h))
    BY <1>1, <1>8, <2>1 DEF ValidateInboundAlgs, At, Succeeds
  <2>3. proc' = [proc EXCEPT ![p] = IF ok THEN Advance(x) ELSE Refuse(proc[p])]
    BY <1>1, <1>8, <2>1 DEF ValidateInboundAlgs, Resolve, InboundOk
  <2> QED
    BY <1>6, <2>2, <2>3
<1>9. CASE SelectProvider(p)
  <2>1. PICK ok \in BOOLEAN : ok <=> ProviderOk(env)
    OBVIOUS
  <2>2. h[1] = "provider" /\ (ok <=> Succeeds(env, files, idp, dir = "blocked", h))
    BY <1>1, <1>9, <2>1 DEF SelectProvider, At, Succeeds
  <2>3. proc' = [proc EXCEPT ![p] = IF ok THEN Advance(x) ELSE Refuse(proc[p])]
    BY <1>1, <1>9, <2>1 DEF SelectProvider, Resolve, ProviderOk
  <2> QED
    BY <1>6, <2>1, <2>2, <2>3
<1> QED
  BY <1>5, <1>7, <1>8, <1>9

LEMMA StepOfEnvironment ==
  ASSUME BootInv, NEW p \in Process, CheckFileMode(p) \/ BuildReplayPolicy(p) \/ Bind(p)
  PROVE  BootInv'
<1>1. PICK x, h : x = proc[p] /\ h = Head(x.todo)
  OBVIOUS
<1>2. /\ x.pc = "running" /\ h[1] \in {"check", "replay", "bind"}
      /\ env' = env /\ files' = files /\ idp' = idp /\ edits' = edits
  BY <1>1 DEF CheckFileMode, BuildReplayPolicy, Bind, At, Resolve
<1>3. dir' \in {"absent", "directory", "blocked"} /\ (dir' = "blocked") = (dir = "blocked")
  BY DEF BootInv, CheckFileMode, BuildReplayPolicy, Bind
<1>4. Shape(x) /\ Continues(x, x)
  BY <1>1, <1>2, Running
<1>5. ASSUME NEW ok \in BOOLEAN, h[1] = "bind" \/ (ok <=> Succeeds(env, files, idp, dir = "blocked", h)),
             proc' = [proc EXCEPT ![p] = IF ok THEN Advance(x) ELSE Refuse(proc[p])]
      PROVE  BootInv'
  BY <1>1, <1>2, <1>3, <1>4, <1>5, PlainStep
<1>6. CASE CheckFileMode(p)
  <2>1. PICK f, r : r = h[2] /\ f = files[Path(env, r)]
    OBVIOUS
  <2>2. PICK ok \in BOOLEAN : ok <=> CheckOk(env, r, f)
    OBVIOUS
  <2>3. ok <=> Succeeds(env, files, idp, dir = "blocked", h)
    BY <1>1, <1>6, <2>1, <2>2 DEF CheckFileMode, At, Succeeds
  <2>4. proc' = [proc EXCEPT ![p] = IF ok THEN Advance(x) ELSE Refuse(proc[p])]
    BY <1>1, <1>6, <2>1, <2>2 DEF CheckFileMode, Resolve, CheckOk, Subject
  <2> QED
    BY <1>5, <2>3, <2>4
<1>7. CASE BuildReplayPolicy(p)
  <2>1. PICK ok \in BOOLEAN : ok <=> (env.replay = "file" => dir # "blocked")
    OBVIOUS
  <2>2. ok <=> Succeeds(env, files, idp, dir = "blocked", h)
    BY <1>1, <1>7, <2>1 DEF BuildReplayPolicy, At, Succeeds
  <2>3. proc' = [proc EXCEPT ![p] = IF ok THEN Advance(x) ELSE Refuse(proc[p])]
    BY <1>1, <1>7, <2>1 DEF BuildReplayPolicy, Resolve
  <2> QED
    BY <1>5, <2>2, <2>3
<1>8. CASE Bind(p)
  <2>1. PICK ok \in BOOLEAN :
          proc' = [proc EXCEPT ![p] = IF ok THEN Advance(x) ELSE Refuse(proc[p])]
    BY <1>1, <1>8 DEF Bind, Resolve
  <2>2. h[1] = "bind"
    BY <1>1, <1>8 DEF Bind, At
  <2> QED
    BY <1>5, <2>1, <2>2
<1> QED
  BY <1>6, <1>7, <1>8

LEMMA StepOfRead ==
  ASSUME BootInv, NEW p \in Process, ReadFile(p)
  PROVE  BootInv'
<1>1. PICK x, e, h : x = proc[p] /\ e = env /\ h = Head(x.todo)
  OBVIOUS
<1>2. PICK done, d : done = Passed(p, x, e) /\ d = done \cup {h}
  OBVIOUS
<1>3. /\ proc[p].pc = "running" /\ h[1] = "read" /\ x.pc = "running"
      /\ env' = env /\ files' = files /\ idp' = idp /\ edits' = edits /\ dir' = dir
  BY <1>1 DEF ReadFile, At, Resolve
<1>4. dir' \in {"absent", "directory", "blocked"} /\ (dir' = "blocked") = (dir = "blocked")
  BY <1>3 DEF BootInv
<1>5. /\ Shape(x) /\ Continues(x, x) /\ Kept(e, x, done)
      /\ h \in Required(e) \/ h = <<"bind", "port">>
      /\ h = <<"read", "mockKey">> => <<"read", "public">> \in done
      /\ h = <<"read", "public">> => <<"read", "mockKey">> \notin done
      /\ Undisturbed(p) => Current(e, files, idp, dir = "blocked", x, done)
  BY <1>1, <1>2, <1>3, Running
<1>6. PICK r \in Role : h = <<"read", r>> /\ h[2] = r
  BY <1>3, <1>5, RequiredSteps
<1>7. PICK f, c, l, y : /\ f = files[Path(e, r)] /\ c = f.content
                        /\ l = [x.loaded EXCEPT ![r] = c] /\ y = [x EXCEPT !.loaded = l]
  OBVIOUS
<1>8. PICK ok \in BOOLEAN : ok <=> ReadOk(e, r, x.loaded, f)
  OBVIOUS
<1>9. proc' = [proc EXCEPT ![p] = IF ok THEN Advance(y) ELSE Refuse(proc[p])]
  <2>1. Subject(p) = r
    BY <1>1, <1>6 DEF Subject
  <2>2. y = [proc[p] EXCEPT !.loaded[r] = f.content]
    BY <1>1, <1>7
  <2> QED
    BY <1>1, <1>7, <1>8, <2>1, <2>2 DEF ReadFile, Resolve, ReadOk
<1>10. /\ Continues(x, y) /\ y.loaded = l /\ y.uri = x.uri /\ y.targets = x.targets
       /\ x.loaded = [q \in Role |-> x.loaded[q]]
  <2>1. x.loaded = [q \in Role |-> x.loaded[q]]
    BY <1>5 DEF Shape
  <2>2. PICK k : k = x.loaded
    OBVIOUS
  <2>3. l = [q \in Role |-> l[q]]
    BY <1>7, <2>1, <2>2
  <2>4. y.loaded = l /\ y.uri = x.uri /\ y.targets = x.targets /\ y.pc = x.pc
        /\ y.todo = x.todo /\ y.since = x.since /\ y.at = x.at
    BY <1>5, <1>7 DEF Shape
  <2>5. y = [pc |-> y.pc, todo |-> y.todo, since |-> y.since, at |-> y.at, uri |-> y.uri,
             targets |-> y.targets, loaded |-> y.loaded]
    BY <1>5, <1>7 DEF Shape
  <2> QED
    BY <2>1, <2>3, <2>4, <2>5 DEF Continues, Shape
<1>11. Undisturbed(p) => (ok <=> Succeeds(e, files, idp, dir = "blocked", h))
  BY <1>5, <1>6, <1>7, <1>8, ReadAgrees
<1>12. CASE ok
  <2>1. Accepted(e, r, x.loaded, c)
    BY <1>7, <1>8, <1>12 DEF ReadOk
  <2>2. Kept(e, y, d)
    <3>1. d = done \cup { <<"read", r>> }
      BY <1>2, <1>6
    <3>2. r = "public" => <<"read", "mockKey">> \notin done
      BY <1>5, <1>6
    <3>3. Kept(e, x, done) /\ \A q \in Role : y.loaded[q] = IF q = r THEN c ELSE x.loaded[q]
      BY <1>5, <1>7, <1>10
    <3> QED
      BY <2>1, <3>1, <3>2, <3>3, KeptRead
  <2>3. Undisturbed(p) => Current(e, files, idp, dir = "blocked", y, d)
    <3>1. PICK fs, id, b : fs = files /\ id = idp /\ b = (dir = "blocked")
      OBVIOUS
    <3>2. SUFFICES ASSUME Undisturbed(p)  PROVE  Current(e, fs, id, b, y, d)
      BY <3>1
    <3>3. Current(e, fs, id, b, x, done) /\ Succeeds(e, fs, id, b, <<"read", r>>)
      BY <1>5, <1>6, <1>11, <1>12, <3>1, <3>2
    <3>4. y.loaded = [x.loaded EXCEPT ![r] = fs[Path(e, r)].content]
      BY <1>7, <1>10, <3>1
    <3> QED
      BY <1>2, <1>6, <1>10, <3>3, <3>4, CurrentRead
  <2>4. proc' = [proc EXCEPT ![p] = Advance(y)]
    BY <1>9, <1>12
  <2> QED
    BY <1>1, <1>2, <1>3, <1>4, <1>10, <2>2, <2>3, <2>4, Forward
<1>13. CASE ~ok
  <2>1. proc' = [proc EXCEPT ![p] = Refuse(proc[p])]
    BY <1>9, <1>13
  <2>2. Undisturbed(p) => ~Succeeds(env, files, idp, dir = "blocked", Head(proc[p].todo))
    BY <1>1, <1>11, <1>13
  <2> QED
    BY <1>3, <1>4, <2>1, <2>2, Refused
<1> QED
  BY <1>12, <1>13

LEMMA StepOfDiscover ==
  ASSUME BootInv, NEW p \in Process, Discover(p)
  PROVE  BootInv'
<1>1. PICK x, e, h : x = proc[p] /\ e = env /\ h = Head(x.todo)
  OBVIOUS
<1>2. PICK done, d : done = Passed(p, x, e) /\ d = done \cup {h}
  OBVIOUS
<1>3. /\ proc[p].pc = "running" /\ h[1] = "discover" /\ x.pc = "running"
      /\ env' = env /\ files' = files /\ idp' = idp /\ edits' = edits /\ dir' = dir
  BY <1>1 DEF Discover, At, Resolve
<1>4. dir' \in {"absent", "directory", "blocked"} /\ (dir' = "blocked") = (dir = "blocked")
  BY <1>3 DEF BootInv
<1>5. /\ Shape(x) /\ Kept(e, x, done)
      /\ h \in Required(e) \/ h = <<"bind", "port">>
      /\ Undisturbed(p) => Current(e, files, idp, dir = "blocked", x, done)
  BY <1>1, <1>2, <1>3, Running
<1>6. h = <<"discover", "idp">>
  BY <1>3, <1>5, RequiredSteps
<1>7. PICK u, y : u = idp.jwksUri /\ y = [x EXCEPT !.uri = u]
  OBVIOUS
<1>8. PICK ok \in BOOLEAN : ok <=> DiscoverOk(idp)
  OBVIOUS
<1>9. proc' = [proc EXCEPT ![p] = IF ok THEN Advance(y) ELSE Refuse(proc[p])]
  BY <1>1, <1>7, <1>8 DEF Discover, Resolve, DiscoverOk
<1>10. Continues(x, y) /\ y.uri = u /\ y.targets = x.targets /\ y.loaded = x.loaded
  BY <1>5, <1>7 DEF Continues, Shape
<1>11. ok <=> Succeeds(e, files, idp, dir = "blocked", h)
  BY <1>3, <1>8 DEF Succeeds
<1>12. CASE ok
  <2>1. Kept(e, y, d)
    <3>1. SettingsOk(e, h)
      BY <1>6 DEF SettingsOk
    <3> QED
      BY <1>2, <1>5, <1>6, <1>10, <3>1, KeptStep
  <2>2. Undisturbed(p) => Current(e, files, idp, dir = "blocked", y, d)
    <3>1. PICK fs, id, b : fs = files /\ id = idp /\ b = (dir = "blocked")
      OBVIOUS
    <3>2. Succeeds(e, fs, id, b, <<"discover", "idp">>) /\ y.uri = id.jwksUri
      BY <1>6, <1>7, <1>10, <1>11, <1>12, <3>1
    <3> QED
      BY <1>2, <1>5, <1>6, <1>10, <3>1, <3>2, CurrentDiscover
  <2>3. proc' = [proc EXCEPT ![p] = Advance(y)]
    BY <1>9, <1>12
  <2> QED
    BY <1>1, <1>2, <1>3, <1>4, <1>10, <2>1, <2>2, <2>3, Forward
<1>13. CASE ~ok
  <2>1. proc' = [proc EXCEPT ![p] = Refuse(proc[p])]
    BY <1>9, <1>13
  <2>2. ~Succeeds(env, files, idp, dir = "blocked", Head(proc[p].todo))
    BY <1>1, <1>11, <1>13
  <2> QED
    BY <1>3, <1>4, <2>1, <2>2, Refused
<1> QED
  BY <1>12, <1>13

LEMMA StepOfFetch ==
  ASSUME BootInv, NEW p \in Process, FetchJwks(p)
  PROVE  BootInv'
<1>1. PICK x, e, h : x = proc[p] /\ e = env /\ h = Head(x.todo)
  OBVIOUS
<1>2. PICK done, d : done = Passed(p, x, e) /\ d = done \cup {h}
  OBVIOUS
<1>3. /\ proc[p].pc = "running" /\ h[1] = "fetch" /\ x.pc = "running"
      /\ env' = env /\ files' = files /\ idp' = idp /\ edits' = edits /\ dir' = dir
  BY <1>1 DEF FetchJwks, At, Resolve
<1>4. dir' \in {"absent", "directory", "blocked"} /\ (dir' = "blocked") = (dir = "blocked")
  BY <1>3 DEF BootInv
<1>5. /\ Shape(x) /\ Kept(e, x, done)
      /\ h \in Required(e) \/ h = <<"bind", "port">>
      /\ \A a \in done : a \in Required(e) \/ a = <<"bind", "port">>
      /\ h = <<"fetch", "idp">> => (e.idpUri = "unset" <=> <<"discover", "idp">> \in done)
      /\ Undisturbed(p) => Current(e, files, idp, dir = "blocked", x, done)
  BY <1>1, <1>2, <1>3, Running
<1>6. h = <<"fetch", "idp">> /\ <<"read", "idp">> \notin done
  <2>1. h = <<"fetch", "idp">> /\ "idp" \notin e.named
    BY <1>3, <1>5, RequiredSteps
  <2>2. PICK a : a = <<"read", "idp">>
    OBVIOUS
  <2>3. a \notin done
    BY <1>5, <2>1, <2>2, RequiredSteps
  <2> QED
    BY <2>1, <2>2, <2>3
<1>7. PICK c, l, y : /\ c = [form |-> "jwks", keys |-> idp.keys]
                     /\ l = [x.loaded EXCEPT !["idp"] = c] /\ y = [x EXCEPT !.loaded = l]
  OBVIOUS
<1>8. PICK ok \in BOOLEAN : ok <=> FetchOk(x.uri, idp)
  OBVIOUS
<1>9. proc' = [proc EXCEPT ![p] = IF ok THEN Advance(y) ELSE Refuse(proc[p])]
  <2>1. y = [proc[p] EXCEPT !.loaded["idp"] = c]
    BY <1>1, <1>7
  <2> QED
    BY <1>1, <1>7, <1>8, <2>1 DEF FetchJwks, Resolve, FetchOk
<1>10. /\ Continues(x, y) /\ y.loaded = l /\ y.uri = x.uri /\ y.targets = x.targets
       /\ x.loaded = [q \in Role |-> x.loaded[q]]
  <2>1. x.loaded = [q \in Role |-> x.loaded[q]]
    BY <1>5 DEF Shape
  <2>2. PICK k : k = x.loaded
    OBVIOUS
  <2>3. l = [q \in Role |-> l[q]]
    BY <1>7, <2>1, <2>2
  <2>4. y.loaded = l /\ y.uri = x.uri /\ y.targets = x.targets /\ y.pc = x.pc
        /\ y.todo = x.todo /\ y.since = x.since /\ y.at = x.at
    BY <1>5, <1>7 DEF Shape
  <2>5. y = [pc |-> y.pc, todo |-> y.todo, since |-> y.since, at |-> y.at, uri |-> y.uri,
             targets |-> y.targets, loaded |-> y.loaded]
    BY <1>5, <1>7 DEF Shape
  <2> QED
    BY <2>1, <2>3, <2>4, <2>5 DEF Continues, Shape
<1>11. Undisturbed(p) => (ok <=> Succeeds(e, files, idp, dir = "blocked", h))
  BY <1>5, <1>6, <1>8, FetchAgrees
<1>12. CASE ok
  <2>1. Kept(e, y, d)
    <3>1. \A r \in {"key", "public", "mockKey"} : y.loaded[r] = x.loaded[r]
      BY <1>7, <1>10 DEF Role
    <3>2. SettingsOk(e, h)
      BY <1>6 DEF SettingsOk
    <3> QED
      BY <1>2, <1>5, <1>6, <3>1, <3>2, KeptStep
  <2>2. Undisturbed(p) => Current(e, files, idp, dir = "blocked", y, d)
    <3>1. PICK fs, id, b : fs = files /\ id = idp /\ b = (dir = "blocked")
      OBVIOUS
    <3>2. SUFFICES ASSUME Undisturbed(p)  PROVE  Current(e, fs, id, b, y, d)
      BY <3>1
    <3>3. Current(e, fs, id, b, x, done) /\ Succeeds(e, fs, id, b, <<"fetch", "idp">>)
      BY <1>5, <1>6, <1>11, <1>12, <3>1, <3>2
    <3>4. y.loaded = [x.loaded EXCEPT !["idp"] = [form |-> "jwks", keys |-> id.keys]]
      BY <1>7, <1>10, <3>1
    <3> QED
      BY <1>2, <1>6, <1>10, <3>3, <3>4, CurrentFetch
  <2>3. proc' = [proc EXCEPT ![p] = Advance(y)]
    BY <1>9, <1>12
  <2> QED
    BY <1>1, <1>2, <1>3, <1>4, <1>10, <2>1, <2>2, <2>3, Forward
<1>13. CASE ~ok
  <2>1. proc' = [proc EXCEPT ![p] = Refuse(proc[p])]
    BY <1>9, <1>13
  <2>2. Undisturbed(p) => ~Succeeds(env, files, idp, dir = "blocked", Head(proc[p].todo))
    BY <1>1, <1>11, <1>13
  <2> QED
    BY <1>3, <1>4, <2>1, <2>2, Refused
<1> QED
  BY <1>12, <1>13

LEMMA StepOfBeginExit ==
  ASSUME BootInv, NEW p \in Process, Begin(p) \/ Exit(p)
  PROVE  BootInv'
<1>1. /\ env' = env /\ files' = files /\ idp' = idp /\ edits' = edits /\ dir' = dir
  BY DEF Begin, Exit
<1>2. /\ dir' \in {"absent", "directory", "blocked"} /\ (dir' = "blocked") = (dir = "blocked")
      /\ edits \in Nat
  BY <1>1, BootstrapAssumption DEF BootInv
<1>3. CASE Begin(p)
  <2>1. PICK e, s, n, u : e = env /\ s = Steps(p, e) /\ n = edits /\ u = e.idpUri
    OBVIOUS
  <2>2. PICK z : z = Started(s, n, u)
    OBVIOUS
  <2>3. /\ Shape(z) /\ z.pc = "running" /\ z.since = n /\ z.todo = s /\ z.uri = u
        /\ \A r \in Role : z.loaded[r] = Nothing
    BY <2>2, BeginFields
  <2>4. proc' = [proc EXCEPT ![p] = z]
    BY <1>3, <2>1, <2>2 DEF Begin, Started
  <2>5. \A fs, id, b : ProcOK(p, z, e) /\ QuietOK(p, z, e, fs, id, b)
    BY <2>1, <2>3, BeginOK
  <2>6. z.since \in 0 .. edits
    BY <1>2, <2>1, <2>3
  <2> QED
    BY <1>1, <1>2, <2>1, <2>4, <2>5, <2>6, ProcStep
<1>4. CASE Exit(p)
  <2>1. PICK z : z = Idle
    OBVIOUS
  <2>2. proc' = [proc EXCEPT ![p] = z]
    BY <1>4, <2>1 DEF Exit
  <2>3. /\ Shape(z) /\ z.pc = "idle" /\ z.since = 0 /\ z.todo = <<>>
        /\ \A r \in Role : z.loaded[r] = Nothing
    BY <2>1, IdleFields
  <2>4. ProcOK(p, z, env) /\ QuietOK(p, z, env, files, idp, dir = "blocked")
    BY <2>3 DEF ProcOK, QuietOK
  <2>5. z.since \in 0 .. edits
    BY <1>2, <2>3
  <2> QED
    BY <1>1, <1>2, <2>2, <2>4, <2>5, ProcStep
<1> QED
  BY <1>3, <1>4

\* A change of a file or of the identity provider disturbs every process.
LEMMA StepOfOperator ==
  ASSUME BootInv, (\E f \in File : ReplaceFile(f)) \/ ChangeIdp
  PROVE  BootInv'
<1>1. /\ env' = env /\ dir' = dir /\ proc' = proc /\ edits' = edits + 1 /\ edits < MaxEdits
      /\ DOMAIN files' = File
  BY DEF BootInv, ReplaceFile, ChangeIdp
<1>2. edits \in Nat /\ edits' \in 0 .. MaxEdits
  BY <1>1, BootstrapAssumption DEF BootInv
<1>3. \A p \in Process : proc[p].since \in 0 .. edits' /\ proc[p].since # edits'
  BY <1>1, <1>2 DEF BootInv
<1>4. \A p \in Process : ProcOK(p, proc'[p], env')
  BY <1>1 DEF BootInv
<1>5. env' \in Environments /\ dir' \in {"absent", "directory", "blocked"}
      /\ proc' = [p \in Process |-> proc'[p]]
  BY <1>1 DEF BootInv
<1>6. \A p \in Process : proc'[p].since \in 0 .. edits' /\ ~Undisturbed(p)'
  BY <1>1, <1>3 DEF Undisturbed
<1> QED
  BY <1>1, <1>2, <1>4, <1>5, <1>6 DEF BootInv

LEMMA InitInv == Init => BootInv
<1> SUFFICES ASSUME Init  PROVE  BootInv
  OBVIOUS
<1>1. /\ env \in Environments /\ DOMAIN files = File /\ edits = 0 /\ edits \in 0 .. MaxEdits
      /\ dir \in {"absent", "directory", "blocked"}
  BY BootstrapAssumption DEF Init
<1>2. PICK z : z = Idle
  OBVIOUS
<1>3. /\ Shape(z) /\ z.pc = "idle" /\ z.since = 0 /\ z.todo = <<>>
      /\ \A r \in Role : z.loaded[r] = Nothing
  BY <1>2, IdleFields
<1>4. \A p \in Process : ProcOK(p, z, env) /\ QuietOK(p, z, env, files, idp, dir = "blocked")
  BY <1>3 DEF ProcOK, QuietOK
<1>5. proc = [p \in Process |-> z]
  BY <1>2 DEF Init
<1>6. proc = [p \in Process |-> proc[p]] /\ \A p \in Process : proc[p] = z
  BY <1>5
<1>7. z.since \in 0 .. edits
  BY <1>1, <1>3
<1> QED
  BY <1>1, <1>4, <1>6, <1>7 DEF BootInv

LEMMA NextInv == BootInv /\ [Next]_vars => BootInv'
<1> SUFFICES ASSUME BootInv, [Next]_vars  PROVE  BootInv'
  OBVIOUS
<1>1. CASE Next
  <2>1. ASSUME NEW p \in Process, LocalStep(p)  PROVE  BootInv'
    BY <2>1, StepOfConfig, StepOfEnvironment, StepOfRead DEF LocalStep
  <2>2. ASSUME NEW p \in Process, Begin(p) \/ Exit(p)  PROVE  BootInv'
    BY <2>2, StepOfBeginExit
  <2>3. ASSUME NEW p \in Process, Discover(p) \/ FetchJwks(p)  PROVE  BootInv'
    BY <2>3, StepOfDiscover, StepOfFetch
  <2>4. CASE (\E f \in File : ReplaceFile(f)) \/ ChangeIdp
    BY <2>4, StepOfOperator
  <2> QED
    BY <1>1, <2>1, <2>2, <2>3, <2>4 DEF Next
<1>2. CASE UNCHANGED vars
  BY <1>2 DEF vars, BootInv, Undisturbed
<1> QED
  BY <1>1, <1>2

\* The inductive invariant holds of start-up (serve_from_env,
\* bootstrap_check_from_source): the steps behind a process have established what
\* they check, and as long as nothing changes they succeed for any process.
THEOREM BootInvHolds == Spec => []BootInv
BY InitInv, NextInv, PTL DEF Spec

\* Types: a process runs exactly while it has steps left, and one that is idle
\* or failed holds nothing it loaded.
THEOREM BootTypesHold == Spec => []TypeOK
<1>1. BootInv => TypeOK
  <2> SUFFICES ASSUME BootInv  PROVE  TypeOK
    OBVIOUS
  <2>1. ASSUME NEW p \in Process
        PROVE  /\ proc[p].pc \in {"idle", "running", "done", "failed"}
               /\ proc[p].since \in 0..edits
               /\ (proc[p].pc = "running") <=> (proc[p].todo # <<>>)
               /\ proc[p].pc \in {"idle", "failed"} => \A r \in Role : proc[p].loaded[r] = Nothing
    BY DEF BootInv, ProcOK
  <2> QED
    BY <2>1 DEF BootInv, TypeOK
<1> QED
  BY <1>1, BootInvHolds, PTL

-------------------------------------------------------------------------------
(***************************************************************************)
(* What a process that is done has established.                            *)
(***************************************************************************)

LEMMA DonePassed ==
  ASSUME NEW p, NEW e, NEW x, ProcOK(p, x, e), x.pc = "done"
  PROVE  \A a : a \in Passed(p, x, e) <=> Occurs(Steps(p, e), a)
<1>1. x.todo = <<>> /\ Steps(p, e) \in Seq(StepSet)
  BY StepsFacts DEF ProcOK
<1>2. Len(x.todo) = 0 /\ Len(Steps(p, e)) \in Nat
  BY <1>1, EmptySeq, LenProperties
<1>3. Behind(p, x, e) = Len(Steps(p, e))
  BY <1>2 DEF Behind
<1> QED
  BY <1>3 DEF Passed, Occurs

\* Facts of a server that is up, whatever was changed meanwhile.
LEMMA UpFacts ==
  ASSUME BootInv, NEW p \in Process, Up(p), NEW x, NEW e, x = proc[p], e = env
  PROVE  /\ InboundAlgsParse(e) /\ InboundOk(e) /\ ProviderOk(e)
         /\ e.provider # "mock-external" => SigningKeyAccepted(e, x.loaded["key"])
         /\ e.provider = "mock-external" =>
              /\ ExternalPublicKeys(e, x.loaded["public"]) # {}
              /\ ExternalSignerAccepted(e, x.loaded["public"], x.loaded["mockKey"])
         /\ \A a \in Required(e) : a \in Passed(p, x, e)
<1>1. ProcOK(p, x, e) /\ x.pc = "done"
  BY DEF BootInv, Up
<1>2. PICK done : done = Passed(p, x, e)
  OBVIOUS
<1>3. \A a \in Required(e) : a \in done
  <2>1. \A a : a \in done <=> Occurs(Steps(p, e), a)
    BY <1>1, <1>2, DonePassed
  <2> QED
    BY <2>1, StepsFacts
<1>4. Kept(e, x, done)
  BY <1>1, <1>2 DEF ProcOK
<1>5. InboundAlgsParse(e) /\ InboundOk(e) /\ ProviderOk(e)
  <2>1. { <<"config", "config">>, <<"inbound", "config">>, <<"provider", "config">> }
          \subseteq Required(e)
    BY DEF Required
  <2>2. \A a \in Required(e) : SettingsOk(e, a)
    BY <1>3, <1>4 DEF Kept
  <2> QED
    BY <2>1, <2>2 DEF SettingsOk
<1>6. ASSUME e.provider # "mock-external"  PROVE  SigningKeyAccepted(e, x.loaded["key"])
  <2>1. <<"read", "key">> \in Required(e)
    BY <1>6 DEF Required
  <2>2. Accepted(e, "key", x.loaded, x.loaded["key"])
    BY <1>3, <1>4, <2>1 DEF Kept
  <2> QED
    BY <2>2 DEF Accepted
<1>7. ASSUME e.provider = "mock-external"
      PROVE  /\ ExternalPublicKeys(e, x.loaded["public"]) # {}
             /\ ExternalSignerAccepted(e, x.loaded["public"], x.loaded["mockKey"])
  <2>1. <<"read", "public">> \in Required(e) /\ <<"read", "mockKey">> \in Required(e)
    BY <1>7 DEF Required
  <2>2. /\ Accepted(e, "public", x.loaded, x.loaded["public"])
        /\ Accepted(e, "mockKey", x.loaded, x.loaded["mockKey"])
    BY <1>3, <1>4, <2>1 DEF Kept
  <2> QED
    BY <2>2 DEF Accepted
<1> QED
  BY <1>2, <1>3, <1>5, <1>6, <1>7

\* A server that is up signs with the algorithm that was selected, for every
\* environment and key file (load_signer, BackendSelection).
THEOREM BootSignerAsSelected == Spec => []SignerAsSelected
<1>1. BootInv => SignerAsSelected
  <2> SUFFICES ASSUME BootInv, NEW p \in Process, Up(p)
               PROVE  Signer(env, proc[p].loaded).alg = Selection(env)
    BY DEF SignerAsSelected
  <2>1. PICK x, e : x = proc[p] /\ e = env
    OBVIOUS
  <2>2. /\ ProviderOk(e)
        /\ e.provider # "mock-external" => SigningKeyAccepted(e, x.loaded["key"])
        /\ e.provider = "mock-external" =>
             ExternalSignerAccepted(e, x.loaded["public"], x.loaded["mockKey"])
    BY <2>1, UpFacts
  <2>3. CASE e.provider = "mock-external"
    <3>1. Selection(e) = "RS256" /\ x.loaded["mockKey"].keys[1].alg = "RS256"
      BY <2>2, <2>3 DEF ProviderOk, ExternalSignerAccepted, RsaKeyAccepted
    <3> QED
      BY <2>1, <2>3, <3>1 DEF Signer
  <2>4. CASE e.provider # "mock-external"
    <3>1. e.provider = "file" /\ x.loaded["key"].keys[1].alg = Selection(e)
      BY <2>2, <2>4 DEF ProviderOk, SigningKeyAccepted, PqcKeyAccepted, RsaKeyAccepted
    <3> QED
      BY <2>1, <3>1 DEF Signer
  <2> QED
    BY <2>3, <2>4
<1> QED
  BY <1>1, BootInvHolds, PTL

\* The tokens of a server that is up verify under the key its /jwks gives for
\* their kid, whatever the files hold (published_jwks,
\* verify_external_signer_at_bootstrap).
THEOREM BootMintedVerifiable == Spec => []MintedVerifiable
<1>1. BootInv => MintedVerifiable
  <2> SUFFICES ASSUME BootInv, NEW p \in Process, Up(p)
               PROVE  {k \in Published(env, proc[p].loaded) :
                         k.kid = Signer(env, proc[p].loaded).kid}
                        = {Signer(env, proc[p].loaded)}
    BY DEF MintedVerifiable
  <2>1. PICK x, e, l, s, own :
          /\ x = proc[p] /\ e = env /\ l = x.loaded /\ s = Signer(e, l)
          /\ own = OwnPublicKeys(e, l)
    OBVIOUS
  <2>2. own = {s}
    <3>1. CASE e.provider = "file"
      BY <2>1, <3>1 DEF OwnPublicKeys
    <3>2. CASE e.provider # "file"
      <4>1. PICK pub, key : pub = l["public"] /\ key = l["mockKey"]
        OBVIOUS
      <4>2. /\ e.provider = "mock-external"
            /\ ExternalPublicKeys(e, pub) # {}
            /\ ExternalSignerAccepted(e, pub, key)
        BY <2>1, <3>2, <4>1, UpFacts DEF ProviderOk
      <4>3. s = [alg |-> "RS256", id |-> key.keys[1].id, kid |-> e.kid]
        BY <2>1, <3>2, <4>1, <4>2 DEF Signer, ExternalSignerAccepted, RsaKeyAccepted
      <4>4. \A k \in ExternalPublicKeys(e, pub) :
              [alg |-> k.alg, id |-> k.id, kid |-> k.kid] = s
        <5> TAKE k \in ExternalPublicKeys(e, pub)
        <5>1. k.alg = "RS256" /\ k.id = key.keys[1].id
          BY <4>2 DEF ExternalSignerAccepted
        <5>2. k.kid = e.kid
          BY DEF ExternalPublicKeys
        <5> QED
          BY <4>3, <5>1, <5>2
      <4>5. own = {[alg |-> k.alg, id |-> k.id, kid |-> k.kid] : k \in ExternalPublicKeys(e, pub)}
        BY <2>1, <3>2, <4>1 DEF OwnPublicKeys
      <4>6. PICK k0 : k0 \in ExternalPublicKeys(e, pub)
        BY <4>2
      <4>7. s \in own
        BY <4>4, <4>5, <4>6
      <4>8. \A o \in own : o = s
        BY <4>4, <4>5
      <4> QED
        BY <4>7, <4>8
    <3> QED
      BY <3>1, <3>2
  <2>3. PICK extra : Published(e, l) = own \cup {k \in extra : \A o \in own : o.kid # k.kid}
    BY <2>1 DEF Published
  <2>4. {k \in Published(e, l) : k.kid = s.kid} = {s}
    BY <2>2, <2>3
  <2> QED
    BY <2>1, <2>4
<1> QED
  BY <1>1, BootInvHolds, PTL

-------------------------------------------------------------------------------
(***************************************************************************)
(* What holds as long as nothing changes.                                  *)
(***************************************************************************)

\* A server whose start nothing disturbed uses no trusted file that is open to
\* others for writing without the override for its use (read_checked_file,
\* check_file_mode); the window between the check and the read is not covered.
THEOREM BootTrustedFilesProtected == Spec => []TrustedFilesProtected
<1>1. BootInv => TrustedFilesProtected
  <2> SUFFICES ASSUME BootInv, NEW p \in Process, Up(p), Undisturbed(p),
                      NEW role \in LoadedRoles(env)
               PROVE  /\ files[Path(env, role)].present
                      /\ files[Path(env, role)].writable =>
                           CASE role \in {"key", "mockKey"} -> env.insecureKey = "true"
                             [] role \in {"public", "extra", "idp"} -> env.insecureJwks = "true"
                             [] role = "actor" -> env.insecureActor = "true"
                             [] role = "client" ->
                                  \/ env.insecureClient = "true"
                                  \/ env.insecureClient = "unset" /\ env.insecureActor = "true"
    BY DEF TrustedFilesProtected
  <2>1. PICK x, e, fs, id, b, f :
          /\ x = proc[p] /\ e = env /\ fs = files /\ id = idp /\ b = (dir = "blocked")
          /\ f = fs[Path(e, role)]
    OBVIOUS
  <2>2. PICK done : done = Passed(p, x, e)
    OBVIOUS
  <2>3. ProviderOk(e) /\ \A a \in Required(e) : a \in done
    BY <2>1, <2>2, UpFacts
  <2>4. \A a \in done : Succeeds(e, fs, id, b, a)
    <3>1. QuietOK(p, x, e, fs, id, b) /\ x.pc = "done"
      BY <2>1 DEF BootInv, Up
    <3> QED
      BY <2>2, <3>1 DEF QuietOK, Current
  <2>5. role \in {"actor", "client", "extra", "idp", "key", "public", "mockKey"}
        /\ <<"check", role>> \in Required(e) /\ <<"read", role>> \in Required(e)
    BY <2>1, <2>3 DEF LoadedRoles, ProviderOk, Required
  <2>6. CheckOk(e, role, f) /\ f.present
    <3>1. PICK a, c : a = <<"check", role>> /\ c = <<"read", role>>
      OBVIOUS
    <3>2. Succeeds(e, fs, id, b, a) /\ Succeeds(e, fs, id, b, c)
      BY <2>3, <2>4, <2>5, <3>1
    <3>3. CheckOk(e, role, f) /\ ReadOk(e, role, Contents(fs), f)
      BY <2>1, <3>1, <3>2 DEF Succeeds
    <3> QED
      BY <3>3 DEF ReadOk
  <2>7. f.writable => Override(e, role)
    BY <2>6 DEF CheckOk
  <2>8. ASSUME Override(e, role)
        PROVE  CASE role \in {"key", "mockKey"} -> e.insecureKey = "true"
                 [] role \in {"public", "extra", "idp"} -> e.insecureJwks = "true"
                 [] role = "actor" -> e.insecureActor = "true"
                 [] role = "client" ->
                      \/ e.insecureClient = "true"
                      \/ e.insecureClient = "unset" /\ e.insecureActor = "true"
    <3>1. CASE role \in {"key", "mockKey"}
      BY <2>8, <3>1 DEF Override, Bool
    <3>2. CASE role \in {"public", "extra", "idp"}
      BY <2>8, <3>2 DEF Override, Bool
    <3>3. CASE role = "actor"
      BY <2>8, <3>3 DEF Override, Bool
    <3>4. CASE role = "client"
      BY <2>8, <3>4 DEF Override, Bool
    <3> QED
      BY <2>5, <3>1, <3>2, <3>3, <3>4
  <2> QED
    BY <2>1, <2>6, <2>7, <2>8
<1> QED
  BY <1>1, BootInvHolds, PTL

\* serve takes the steps of bootstrap-check and then binds its port.
LEMMA ListsAgree ==
  ASSUME NEW c \in Checker, NEW s \in Server, NEW e
  PROVE  /\ Len(Steps(c, e)) \in Nat
         /\ Len(Steps(s, e)) = Len(Steps(c, e)) + 1
         /\ Steps(s, e)[Len(Steps(c, e)) + 1] = <<"bind", "port">>
         /\ \A k \in 1 .. Len(Steps(c, e)) :
              Steps(s, e)[k] = Steps(c, e)[k] /\ Steps(c, e)[k][1] # "bind"
<1>1. PICK t, n : t = Common(e) /\ n = Len(t)
  OBVIOUS
<1>2. t \in Seq(StepSet) /\ n \in Nat
  BY <1>1, PartsTyped, LenProperties
<1>3. PICK u, v : u = << <<"bind", "port">> >> /\ v = <<>>
  OBVIOUS
<1>4. Steps(s, e) = t \o u /\ Steps(c, e) = t \o v
  BY <1>1, <1>3, StepsParts, BootstrapAssumption DEF BindSteps
<1>5. u \in Seq(StepSet) /\ v \in Seq(StepSet) /\ Len(u) = 1 /\ Len(v) = 0 /\ u[1] = <<"bind", "port">>
  <2>1. <<"bind", "port">> \in StepSet
    BY DEF StepSet
  <2> QED
    BY <1>3, <2>1
<1>6. /\ Len(t \o u) = n + 1 /\ Len(t \o v) = n
      /\ \A k \in 1 .. n + 1 : (t \o u)[k] = IF k <= n THEN t[k] ELSE u[k - n]
      /\ \A k \in 1 .. n : (t \o v)[k] = t[k]
  BY <1>1, <1>2, <1>5, ConcatProperties
<1>7. ASSUME NEW k \in 1 .. n  PROVE  t[k][1] # "bind"
  <2>1. PICK a : a = t[k]
    OBVIOUS
  <2>2. Occurs(t, a)
    BY <1>1, <2>1 DEF Occurs
  <2>3. a \in Required(e)
    BY <1>1, <2>2, CommonOccurs
  <2>4. a[1] # "bind"
    BY <2>3 DEF Required
  <2> QED
    BY <2>1, <2>4
<1>8. (t \o u)[n + 1] = <<"bind", "port">>
  <2>1. n + 1 \in 1 .. n + 1 /\ ~(n + 1 <= n) /\ (n + 1) - n = 1
    BY <1>2
  <2> QED
    BY <1>5, <1>6, <2>1
<1>9. \A k \in 1 .. n : (t \o u)[k] = t[k]
  BY <1>2, <1>6
<1> QED
  BY <1>2, <1>4, <1>6, <1>7, <1>8, <1>9

LEMMA DoneSucceeds ==
  ASSUME NEW p, NEW e, NEW x, NEW fs, NEW id, NEW b,
         ProcOK(p, x, e), QuietOK(p, x, e, fs, id, b), x.pc = "done"
  PROVE  /\ \A k \in 1 .. Len(Steps(p, e)) : Succeeds(e, fs, id, b, Steps(p, e)[k])
         /\ x.targets = TargetPolicy(e, fs["policy"])
         /\ \A r \in Role :
              x.loaded[r] = IF Occurs(Steps(p, e), <<"read", r>>) THEN fs[Path(e, r)].content
                            ELSE IF r = "idp" /\ Occurs(Steps(p, e), <<"fetch", "idp">>)
                            THEN [form |-> "jwks", keys |-> id.keys]
                            ELSE Nothing
<1>1. PICK done, t : done = Passed(p, x, e) /\ t = Steps(p, e)
  OBVIOUS
<1>2. \A a : a \in done <=> Occurs(t, a)
  BY <1>1, DonePassed
<1>3. Current(e, fs, id, b, x, done)
  BY <1>1 DEF QuietOK
<1>4. \A k \in 1 .. Len(t) : Succeeds(e, fs, id, b, t[k])
  <2> TAKE k \in 1 .. Len(t)
  <2>1. PICK a : a = t[k]
    OBVIOUS
  <2>2. a \in done
    BY <1>2, <2>1 DEF Occurs
  <2> QED
    BY <1>3, <2>1, <2>2 DEF Current
<1>5. x.targets = TargetPolicy(e, fs["policy"])
  <2>1. PICK a : a = <<"config", "config">>
    OBVIOUS
  <2>2. a \in Required(e)
    BY <2>1 DEF Required
  <2>3. a \in done
    BY <1>1, <1>2, <2>2, StepsFacts
  <2> QED
    BY <1>3, <2>1, <2>3 DEF Current
<1>6. \A r \in Role :
        x.loaded[r] = IF Occurs(t, <<"read", r>>) THEN fs[Path(e, r)].content
                      ELSE IF r = "idp" /\ Occurs(t, <<"fetch", "idp">>)
                      THEN [form |-> "jwks", keys |-> id.keys]
                      ELSE Nothing
  BY <1>2, <1>3 DEF Current
<1> QED
  BY <1>1, <1>4, <1>5, <1>6

\* bootstrap-check says what serve will do as long as nothing changes, whatever
\* the settings, the files and the identity provider's answers are
\* (bootstrap_check_from_source, serve_from_env).
THEOREM BootCheckPredictsServe == Spec => []CheckPredictsServe
<1>1. BootInv => CheckPredictsServe
  <2> SUFFICES ASSUME BootInv, NEW c \in Checker, NEW s \in Server,
                      Undisturbed(c), Undisturbed(s)
               PROVE  /\ proc[c].pc = "done" /\ proc[s].pc = "failed" => proc[s].at = "bind"
                      /\ proc[c].pc = "failed" => ~Up(s)
                      /\ proc[c].pc = "done" /\ Up(s) =>
                           /\ proc[s].loaded = proc[c].loaded
                           /\ proc[s].targets = proc[c].targets
                      /\ proc[c].pc = "failed" /\ proc[s].pc = "failed" =>
                           proc[s].at = proc[c].at
    BY DEF CheckPredictsServe
  <2>1. PICK x, y, e, fs, id, b :
          /\ x = proc[c] /\ y = proc[s] /\ e = env /\ fs = files /\ id = idp
          /\ b = (dir = "blocked")
    OBVIOUS
  <2>2. /\ ProcOK(c, x, e) /\ QuietOK(c, x, e, fs, id, b)
        /\ ProcOK(s, y, e) /\ QuietOK(s, y, e, fs, id, b)
    BY <2>1 DEF BootInv, Process
  <2>3. PICK t, u, n : t = Steps(c, e) /\ u = Steps(s, e) /\ n = Len(t)
    OBVIOUS
  <2>4. /\ n \in Nat /\ Len(u) = n + 1 /\ u[n + 1][1] = "bind"
        /\ \A k \in 1 .. n : u[k] = t[k] /\ t[k][1] # "bind"
    BY <2>3, ListsAgree
  <2>5. x.pc = "done" => \A k \in 1 .. n : Succeeds(e, fs, id, b, t[k])
    BY <2>2, <2>3, DoneSucceeds
  <2>6. y.pc = "done" => \A k \in 1 .. n : Succeeds(e, fs, id, b, t[k])
    <3>1. y.pc = "done" => \A k \in 1 .. Len(u) : Succeeds(e, fs, id, b, u[k])
      BY <2>2, <2>3, DoneSucceeds
    <3> QED
      BY <2>4, <3>1
  <2>7. ASSUME x.pc = "failed"
        PROVE  \E k \in 1 .. n : /\ x.at = t[k][1]
                                 /\ ~Succeeds(e, fs, id, b, t[k])
                                 /\ \A j \in 1 .. (k - 1) : Succeeds(e, fs, id, b, t[j])
    <3>1. FailedAt(c, e, fs, id, b, x.at)
      BY <2>2, <2>7 DEF QuietOK
    <3>2. PICK k \in 1 .. n : /\ x.at = t[k][1]
                              /\ \A j \in 1 .. (k - 1) : Succeeds(e, fs, id, b, t[j])
                              /\ x.at # "bind" => ~Succeeds(e, fs, id, b, t[k])
      BY <2>3, <3>1 DEF FailedAt
    <3> QED
      BY <2>4, <3>2
  <2>8. ASSUME y.pc = "failed"
        PROVE  \E k \in 1 .. n + 1 : /\ y.at = u[k][1]
                                     /\ y.at # "bind" => k \in 1 .. n /\ ~Succeeds(e, fs, id, b, t[k])
                                     /\ \A j \in 1 .. (k - 1) : Succeeds(e, fs, id, b, t[j])
    <3>1. FailedAt(s, e, fs, id, b, y.at)
      BY <2>2, <2>8 DEF QuietOK
    <3>2. PICK k \in 1 .. n + 1 : /\ y.at = u[k][1]
                                  /\ \A j \in 1 .. (k - 1) : Succeeds(e, fs, id, b, u[j])
                                  /\ y.at # "bind" => ~Succeeds(e, fs, id, b, u[k])
      BY <2>3, <2>4, <3>1 DEF FailedAt
    <3>3. \A j \in 1 .. (k - 1) : j \in 1 .. n
      BY <2>4, <3>2
    <3>4. \A j \in 1 .. (k - 1) : Succeeds(e, fs, id, b, t[j])
      BY <2>4, <3>2, <3>3
    <3>5. ASSUME y.at # "bind"  PROVE  k \in 1 .. n /\ ~Succeeds(e, fs, id, b, t[k])
      <4>1. k # n + 1
        BY <2>4, <3>2, <3>5
      <4>2. k \in 1 .. n
        BY <2>4, <4>1
      <4> QED
        BY <2>4, <3>2, <3>5, <4>2
    <3> QED
      BY <3>2, <3>4, <3>5
  <2>9. ASSUME x.pc = "done", y.pc = "failed"  PROVE  y.at = "bind"
    BY <2>5, <2>8, <2>9
  <2>10. ASSUME x.pc = "failed"  PROVE  y.pc # "done"
    BY <2>6, <2>7, <2>10
  <2>11. ASSUME x.pc = "done", y.pc = "done"
         PROVE  y.loaded = x.loaded /\ y.targets = x.targets
    <3>1. \A r : Occurs(t, <<"read", r>>) <=> Occurs(u, <<"read", r>>)
      <4> TAKE r
      <4>1. PICK a : a = <<"read", r>>
        OBVIOUS
      <4>2. a # <<"bind", "port">>
        BY <4>1
      <4>3. Occurs(t, a) <=> Occurs(u, a)
        BY <2>3, <4>2, StepsFacts
      <4> QED
        BY <4>1, <4>3
    <3>2. Occurs(t, <<"fetch", "idp">>) <=> Occurs(u, <<"fetch", "idp">>)
      <4>1. PICK a : a = <<"fetch", "idp">>
        OBVIOUS
      <4>2. a # <<"bind", "port">>
        BY <4>1
      <4>3. Occurs(t, a) <=> Occurs(u, a)
        BY <2>3, <4>2, StepsFacts
      <4> QED
        BY <4>1, <4>3
    <3>3. /\ x.targets = TargetPolicy(e, fs["policy"])
          /\ \A r \in Role :
               x.loaded[r] = IF Occurs(t, <<"read", r>>) THEN fs[Path(e, r)].content
                             ELSE IF r = "idp" /\ Occurs(t, <<"fetch", "idp">>)
                             THEN [form |-> "jwks", keys |-> id.keys]
                             ELSE Nothing
      <4>1. ProcOK(c, x, e) /\ QuietOK(c, x, e, fs, id, b) /\ x.pc = "done"
        BY <2>2, <2>11
      <4> QED
        BY <2>3, <4>1, DoneSucceeds
    <3>4. /\ y.targets = TargetPolicy(e, fs["policy"])
          /\ \A r \in Role :
               y.loaded[r] = IF Occurs(u, <<"read", r>>) THEN fs[Path(e, r)].content
                             ELSE IF r = "idp" /\ Occurs(u, <<"fetch", "idp">>)
                             THEN [form |-> "jwks", keys |-> id.keys]
                             ELSE Nothing
      <4>1. ProcOK(s, y, e) /\ QuietOK(s, y, e, fs, id, b) /\ y.pc = "done"
        BY <2>2, <2>11
      <4> QED
        BY <2>3, <4>1, DoneSucceeds
    <3>5. \A r \in Role : x.loaded[r] = y.loaded[r]
      BY <3>1, <3>2, <3>3, <3>4
    <3>6. x.loaded = [r \in Role |-> x.loaded[r]] /\ y.loaded = [r \in Role |-> y.loaded[r]]
      BY <2>2 DEF ProcOK, Shape
    <3> QED
      BY <3>3, <3>4, <3>5, <3>6
  <2>12. ASSUME x.pc = "failed", y.pc = "failed"  PROVE  y.at = x.at
    <3>1. PICK k \in 1 .. n : /\ x.at = t[k][1]
                              /\ ~Succeeds(e, fs, id, b, t[k])
                              /\ \A j \in 1 .. (k - 1) : Succeeds(e, fs, id, b, t[j])
      BY <2>7, <2>12
    <3>2. PICK m \in 1 .. n + 1 :
            /\ y.at = u[m][1]
            /\ y.at # "bind" => m \in 1 .. n /\ ~Succeeds(e, fs, id, b, t[m])
            /\ \A j \in 1 .. (m - 1) : Succeeds(e, fs, id, b, t[j])
      BY <2>8, <2>12
    <3>3. ~(k < m)
      BY <2>4, <3>1, <3>2
    <3>4. m \in 1 .. n /\ y.at = t[m][1] /\ y.at # "bind"
      BY <2>4, <3>1, <3>2, <3>3
    <3>5. ~(m < k)
      BY <2>4, <3>1, <3>2, <3>4
    <3>6. m = k
      BY <2>4, <3>3, <3>5
    <3> QED
      BY <3>1, <3>4, <3>6
  <2> QED
    BY <2>1, <2>9, <2>10, <2>11, <2>12 DEF Up
<1> QED
  BY <1>1, BootInvHolds, PTL

-------------------------------------------------------------------------------
(***************************************************************************)
(* Routing and discovery.  An issuer path is ordinary when its segments    *)
(* are literal and it does not lie below /.well-known, where the routes of *)
(* the issuer's path could shadow those of the metadata; validate_issuer   *)
(* does not ask for the latter.                                            *)
(***************************************************************************)

Ordinary(at) ==
  /\ \A i \in 1 .. Len(at) : at[i] \notin {Param, CatchAll}
  /\ at # <<>> => at[1] # ".well-known"

Names == {"token", "introspect", "revoke", "jwks"}

EndpointNames == Names \cup {"mcp"}

Below(b, name) == b \o <<name>>

MetadataUrl(b) == AuthorizationServer \o b

Wildcard == ProtectedResource \o <<CatchAll>>

\* The segments that the routes add to those of the issuer's path.
Literals ==
  {".well-known", "oauth-authorization-server", "oauth-protected-resource", "mcp",
   Param, CatchAll} \cup Names

Covers(S) == Literals \subseteq S

LEMMA CatSegments ==
  ASSUME NEW S, NEW a \in Seq(S), NEW b \in Seq(S), NEW q, q = a \o b
  PROVE  /\ q \in Seq(S) /\ Len(a) \in Nat /\ Len(b) \in Nat
         /\ Len(q) = Len(a) + Len(b)
         /\ \A i \in 1 .. Len(a) : q[i] = a[i]
         /\ \A i \in 1 .. Len(b) : q[Len(a) + i] = b[i]
<1>1. /\ q \in Seq(S) /\ Len(a) \in Nat /\ Len(b) \in Nat
      /\ Len(q) = Len(a) + Len(b)
      /\ \A i \in 1 .. Len(a) + Len(b) : q[i] = IF i <= Len(a) THEN a[i] ELSE b[i - Len(a)]
  BY ConcatProperties, LenProperties
<1> QED
  BY <1>1

\* A path followed by one or two segments, or below two of them.
LEMMA OneSegment ==
  ASSUME NEW S, NEW a \in Seq(S), NEW x \in S, NEW q, q = a \o <<x>>
  PROVE  /\ q \in Seq(S) /\ Len(a) \in Nat /\ Len(q) = Len(a) + 1
         /\ \A i \in 1 .. Len(a) : q[i] = a[i]
         /\ q[Len(a) + 1] = x
<1>1. PICK b : b = <<x>>
  OBVIOUS
<1>2. b \in Seq(S) /\ Len(b) = 1 /\ b[1] = x
  BY <1>1
<1>3. /\ q \in Seq(S) /\ Len(a) \in Nat /\ Len(q) = Len(a) + Len(b)
      /\ \A i \in 1 .. Len(a) : q[i] = a[i]
      /\ \A i \in 1 .. Len(b) : q[Len(a) + i] = b[i]
  BY <1>1, <1>2, CatSegments
<1> QED
  BY <1>2, <1>3

LEMMA TwoSegments ==
  ASSUME NEW S, NEW a \in Seq(S), NEW x \in S, NEW y \in S, NEW q, q = a \o <<x, y>>
  PROVE  /\ q \in Seq(S) /\ Len(a) \in Nat /\ Len(q) = Len(a) + 2
         /\ \A i \in 1 .. Len(a) : q[i] = a[i]
         /\ q[Len(a) + 1] = x /\ q[Len(a) + 2] = y
<1>1. PICK b : b = <<x, y>>
  OBVIOUS
<1>2. b \in Seq(S) /\ Len(b) = 2 /\ b[1] = x /\ b[2] = y
  BY <1>1
<1>3. /\ q \in Seq(S) /\ Len(a) \in Nat /\ Len(q) = Len(a) + Len(b)
      /\ \A i \in 1 .. Len(a) : q[i] = a[i]
      /\ \A i \in 1 .. Len(b) : q[Len(a) + i] = b[i]
  BY <1>1, <1>2, CatSegments
<1> QED
  BY <1>2, <1>3

LEMMA BelowTwoSegments ==
  ASSUME NEW S, NEW w \in S, NEW x \in S, NEW a \in Seq(S), NEW q, q = <<w, x>> \o a
  PROVE  /\ q \in Seq(S) /\ Len(a) \in Nat /\ Len(q) = Len(a) + 2
         /\ q[1] = w /\ q[2] = x
         /\ \A i \in 1 .. Len(a) : q[2 + i] = a[i]
<1>1. PICK b : b = <<w, x>>
  OBVIOUS
<1>2. b \in Seq(S) /\ Len(b) = 2 /\ b[1] = w /\ b[2] = x
  BY <1>1
<1>3. /\ q \in Seq(S) /\ Len(a) \in Nat /\ Len(q) = Len(b) + Len(a)
      /\ \A i \in 1 .. Len(b) : q[i] = b[i]
      /\ \A i \in 1 .. Len(a) : q[Len(b) + i] = a[i]
  BY <1>1, <1>2, CatSegments
<1> QED
  BY <1>2, <1>3

\* Nothing wins over a literal route, and no route over itself.
LEMMA LiteralUnbeaten ==
  ASSUME NEW S, NEW f \in Seq(S), \A i \in 1 .. Len(f) : f[i] \notin {Param, CatchAll},
         NEW g \in Seq(S)
  PROVE  ~Wins(g, f)
<1> SUFFICES ASSUME NEW i \in 1 .. Len(g), i <= Len(f), Looseness(g[i]) < Looseness(f[i])
             PROVE  FALSE
  BY DEF Wins
<1>1. i \in 1 .. Len(f)
  BY LenProperties
<1>2. Looseness(f[i]) = 0
  BY <1>1 DEF Looseness
<1>3. Looseness(g[i]) \in {0, 1, 2}
  BY DEF Looseness
<1> QED
  BY <1>2, <1>3

LEMMA SelfUnbeaten ==
  ASSUME NEW S, NEW g \in Seq(S)
  PROVE  ~Wins(g, g)
<1>1. \A x : Looseness(x) \in {0, 1, 2}
  BY DEF Looseness
<1>2. \A x : ~(Looseness(x) < Looseness(x))
  BY <1>1
<1> QED
  BY <1>2 DEF Wins

LEMMA LiteralMatches ==
  ASSUME NEW S, NEW f \in Seq(S), f # <<>>, \A i \in 1 .. Len(f) : f[i] \notin {Param, CatchAll}
  PROVE  Matches(f, f)
<1>1. Len(f) \in 1 .. Len(f)
  BY EmptySeq, LenProperties
<1> QED
  BY <1>1 DEF Matches

\* A route that matches agrees with the path in every literal segment.
LEMMA MatchSegments ==
  ASSUME NEW f, NEW path, Len(f) \in Nat \ {0}, Len(path) \in Nat, Matches(f, path)
  PROVE  /\ Len(path) >= Len(f)
         /\ f[Len(f)] # CatchAll => Len(path) = Len(f)
         /\ \A i \in 1 .. Len(f) : f[i] \notin {Param, CatchAll} => f[i] = path[i]
BY DEF Matches

\* One handler serves a path when all routes that match have it and one of
\* them is not beaten.
LEMMA SoleHandler ==
  ASSUME NEW at, NEW path, NEW h, NEW f \in Routes(at), Matches(f.path, path),
         \A g \in Routes(at) : Matches(g.path, path) => g.handler = h /\ ~Wins(g.path, f.path)
  PROVE  Handlers(at, path) = {h}
<1>1. PICK found : found = {r \in Routes(at) : Matches(r.path, path)}
  OBVIOUS
<1>2. f \in found /\ \A g \in found : g.handler = h /\ ~Wins(g.path, f.path)
  BY <1>1
<1>3. Handlers(at, path) = {r.handler : r \in {x \in found : \A g \in found : ~Wins(g.path, x.path)}}
  BY <1>1 DEF Handlers
<1> QED
  BY <1>2, <1>3

LEMMA OrdinaryBases ==
  ASSUME NEW S, NEW at \in Seq(S), Ordinary(at)
  PROVE  \A b \in {<<>>, at} : b \in Seq(S) /\ Ordinary(b)
<1>1. <<>> \in Seq(S) /\ Ordinary(<<>>)
  <2>1. <<>> \in Seq(S) /\ Len(<<>>) = 0
    BY EmptySeq
  <2> QED
    BY <2>1 DEF Ordinary
<1> QED
  BY <1>1

\* The routes, each below the root or below the issuer's path.
LEMMA RouteCases ==
  ASSUME NEW at, NEW r \in Routes(at)
  PROVE  \/ \E b \in {<<>>, at} :
              \/ \E name \in Names : r.path = Below(b, name) /\ r.handler = name
              \/ r.path = Below(b, "mcp")
              \/ r.path = b \o <<Param, "mcp">>
              \/ r.path = MetadataUrl(b) /\ r.handler = "metadata"
              \/ r.path = ResourceMetadataUrl(b) /\ r.handler = "resource"
         \/ r.path = Wildcard /\ r.handler = "resource"
<1>1. ASSUME NEW b, r \in Endpoints(b)
      PROVE  \/ \E name \in Names : r.path = Below(b, name) /\ r.handler = name
             \/ r.path = Below(b, "mcp")
             \/ r.path = b \o <<Param, "mcp">>
             \/ r.path = MetadataUrl(b) /\ r.handler = "metadata"
             \/ r.path = ResourceMetadataUrl(b) /\ r.handler = "resource"
  <2>1. \A q, x : r = Route(q, x) => r.path = q /\ r.handler = x
    BY DEF Route
  <2>2. \/ \E name \in Names : r = Route(b \o <<name>>, name)
        \/ r = Route(b \o <<"mcp">>, "challenge")
        \/ r = Route(b \o <<Param, "mcp">>, "challenge")
        \/ r = Route(MetadataUrl(b), "metadata")
        \/ r = Route(ResourceMetadataUrl(b), "resource")
    BY <1>1, Zenon DEF Endpoints, Names, MetadataUrl, ResourceMetadataUrl
  <2> QED
    BY <2>1, <2>2, Zenon DEF Below
<1>2. r \in Endpoints(<<>>) \/ r \in Endpoints(at)
        \/ r = Route(Wildcard, "resource")
  BY DEF Routes, Wildcard
<1>3. r = Route(Wildcard, "resource") =>
        r.path = Wildcard /\ r.handler = "resource"
  BY DEF Route
<1> QED
  BY <1>1, <1>2, <1>3

\* The routes for which there is a claim.
LEMMA RouteOf ==
  ASSUME NEW at
  PROVE  /\ \A name \in Names : Route(Below(at, name), name) \in Routes(at)
         /\ \A b \in {<<>>, at} : Route(MetadataUrl(b), "metadata") \in Routes(at)
         /\ \A b \in {<<>>, at} : Route(ResourceMetadataUrl(b), "resource") \in Routes(at)
         /\ Route(Wildcard, "resource") \in Routes(at)
BY DEF Routes, Endpoints, Names, Below, MetadataUrl, ResourceMetadataUrl, Wildcard

\* What the segments of an endpoint's route are: it is not below /.well-known,
\* or it is the parameter route of the root.
LEMMA EndpointSegments ==
  ASSUME NEW S, Covers(S), NEW b \in Seq(S), Ordinary(b), NEW name \in EndpointNames,
         NEW q, q = Below(b, name)
  PROVE  /\ q \in Seq(S) /\ Len(b) \in Nat /\ Len(q) = Len(b) + 1
         /\ q[Len(q)] = name
         /\ \A i \in 1 .. Len(b) : q[i] = b[i]
         /\ \A i \in 1 .. Len(q) : q[i] \notin {Param, CatchAll}
         /\ q[1] # ".well-known"
<1>1. Len(b) \in Nat /\ (b # <<>> => Len(b) > 0)
  BY EmptySeq, LenProperties
<1>2. name \in S /\ name \notin {Param, CatchAll, ".well-known"}
  BY DEF Covers, Literals, EndpointNames, Names, Param, CatchAll
<1>3. /\ q \in Seq(S) /\ Len(q) = Len(b) + 1
      /\ \A i \in 1 .. Len(b) : q[i] = b[i]
      /\ q[Len(b) + 1] = name
  BY <1>2, OneSegment DEF Below
<1>4. \A i \in 1 .. Len(q) : q[i] \notin {Param, CatchAll}
  BY <1>1, <1>2, <1>3 DEF Ordinary
<1>5. q[1] # ".well-known"
  <2>1. CASE b = <<>>
    <3>1. Len(b) = 0
      BY <2>1, EmptySeq
    <3> QED
      BY <1>2, <1>3, <3>1
  <2>2. CASE b # <<>>
    BY <1>1, <1>3, <2>2 DEF Ordinary
  <2> QED
    BY <2>1, <2>2
<1> QED
  BY <1>1, <1>3, <1>4, <1>5

LEMMA ParamSegments ==
  ASSUME NEW S, Covers(S), NEW b \in Seq(S), Ordinary(b), NEW q, q = b \o <<Param, "mcp">>
  PROVE  /\ q \in Seq(S) /\ Len(b) \in Nat /\ Len(q) = Len(b) + 2
         /\ q[Len(q)] = "mcp"
         /\ b # <<>> => q[1] \notin {".well-known", Param, CatchAll}
<1>1. Len(b) \in Nat /\ (b # <<>> => Len(b) > 0)
  BY EmptySeq, LenProperties
<1>2. Param \in S /\ "mcp" \in S
  BY DEF Covers, Literals
<1>3. /\ q \in Seq(S) /\ Len(q) = Len(b) + 2
      /\ \A i \in 1 .. Len(b) : q[i] = b[i]
      /\ q[Len(b) + 2] = "mcp"
  BY <1>2, TwoSegments
<1>4. b # <<>> => q[1] \notin {".well-known", Param, CatchAll}
  BY <1>1, <1>3 DEF Ordinary
<1> QED
  BY <1>1, <1>3, <1>4

LEMMA MetadataSegments ==
  ASSUME NEW S, Covers(S), NEW b \in Seq(S), NEW q, q = MetadataUrl(b)
  PROVE  /\ q \in Seq(S) /\ Len(b) \in Nat /\ Len(q) = Len(b) + 2
         /\ q[1] = ".well-known" /\ q[2] = "oauth-authorization-server"
         /\ \A i \in 1 .. Len(b) : q[2 + i] = b[i]
<1>1. {".well-known", "oauth-authorization-server"} \subseteq S
  BY DEF Covers, Literals
<1> QED
  BY <1>1, BelowTwoSegments DEF MetadataUrl, AuthorizationServer

LEMMA ResourceSegments ==
  ASSUME NEW S, Covers(S), NEW b \in Seq(S), NEW q, q = ResourceMetadataUrl(b)
  PROVE  /\ q \in Seq(S) /\ Len(b) \in Nat /\ Len(q) = Len(b) + 2
         /\ q[1] = ".well-known" /\ q[2] = "oauth-protected-resource"
         /\ \A i \in 1 .. Len(b) : q[2 + i] = b[i]
<1>1. {".well-known", "oauth-protected-resource"} \subseteq S
  BY DEF Covers, Literals
<1> QED
  BY <1>1, BelowTwoSegments DEF ResourceMetadataUrl, ProtectedResource

LEMMA CatchAllSegments ==
  ASSUME NEW S, Covers(S), NEW q, q = Wildcard
  PROVE  /\ q \in Seq(S) /\ Len(q) = 3
         /\ q[1] = ".well-known" /\ q[2] = "oauth-protected-resource" /\ q[3] = CatchAll
<1>1. PICK b : b = <<CatchAll>>
  OBVIOUS
<1>2. b \in Seq(S) /\ Len(b) = 1 /\ b[1] = CatchAll
  BY <1>1 DEF Covers, Literals
<1>3. /\ q \in Seq(S) /\ Len(b) \in Nat /\ Len(q) = Len(b) + 2
      /\ q[1] = ".well-known" /\ q[2] = "oauth-protected-resource"
      /\ \A i \in 1 .. Len(b) : q[2 + i] = b[i]
  <2>1. q = ResourceMetadataUrl(b)
    BY <1>1 DEF Wildcard, ResourceMetadataUrl
  <2> QED
    BY <1>2, <2>1, ResourceSegments
<1> QED
  BY <1>2, <1>3

\* The literal route of a path's metadata matches no other path's.
LEMMA LiteralResource ==
  ASSUME NEW S, Covers(S), NEW b \in Seq(S), Ordinary(b), NEW q, q = ResourceMetadataUrl(b),
         NEW path \in Seq(S), NEW url, Len(path) \in Nat, Len(url) = Len(path) + 2,
         \A i \in 1 .. Len(path) : url[2 + i] = path[i],
         Matches(q, url)
  PROVE  q \in Seq(S) /\ path = b
<1>1. /\ q \in Seq(S) /\ Len(b) \in Nat /\ Len(q) = Len(b) + 2
      /\ q[1] = ".well-known" /\ q[2] = "oauth-protected-resource"
      /\ \A i \in 1 .. Len(b) : q[2 + i] = b[i]
  BY ResourceSegments
<1>2. Len(q) \in Nat \ {0} /\ Len(q) \in 1 .. Len(q) /\ Len(url) \in Nat
  BY <1>1
<1>3. /\ q[Len(q)] # CatchAll => Len(url) = Len(q)
      /\ \A i \in 1 .. Len(q) : q[i] \notin {Param, CatchAll} => q[i] = url[i]
  BY <1>2, MatchSegments
<1>4. \A i \in 1 .. Len(b) : b[i] \notin {Param, CatchAll}
  BY DEF Ordinary
<1>5. q[Len(q)] # CatchAll
  <2>1. CASE Len(b) = 0
    <3>1. Len(q) = 2
      BY <1>1, <2>1
    <3> QED
      BY <1>1, <3>1 DEF CatchAll
  <2>2. CASE Len(b) # 0
    BY <1>1, <1>4, <2>2
  <2> QED
    BY <2>1, <2>2
<1>6. Len(path) = Len(b)
  BY <1>1, <1>3, <1>5
<1>7. \A i \in 1 .. Len(path) : path[i] = b[i]
  <2> TAKE i \in 1 .. Len(path)
  <2>1. 2 + i \in 1 .. Len(q) /\ q[2 + i] = b[i] /\ b[i] \notin {Param, CatchAll}
    BY <1>1, <1>4, <1>6
  <2>2. q[2 + i] = url[2 + i]
    BY <1>3, <2>1
  <2> QED
    BY <2>1, <2>2
<1> QED
  BY <1>1, <1>6, <1>7, SeqEqual

\* The protected resource metadata: of the routes that match its URL, all have
\* the one handler, and the wildcard is the only one for a path that is neither
\* the root nor the issuer's.
LEMMA ResourceRoutes ==
  ASSUME NEW S, Covers(S), NEW at \in Seq(S), Ordinary(at), NEW path \in Seq(S),
         NEW url, url = ResourceMetadataUrl(path),
         NEW r \in Routes(at), Matches(r.path, url)
  PROVE  /\ r.handler = "resource"
         /\ r.path \in Seq(S)
         /\ path = <<>> \/ path = at \/ r.path = Wildcard
<1>1. PICK q : q = r.path
  OBVIOUS
<1>2. /\ url \in Seq(S) /\ Len(path) \in Nat /\ Len(url) = Len(path) + 2
      /\ url[1] = ".well-known" /\ url[2] = "oauth-protected-resource"
      /\ \A i \in 1 .. Len(path) : url[2 + i] = path[i]
  BY ResourceSegments
<1>3. ASSUME Len(q) \in Nat \ {0}
      PROVE  /\ Len(url) >= Len(q)
             /\ q[Len(q)] # CatchAll => Len(url) = Len(q)
             /\ \A i \in 1 .. Len(q) : q[i] \notin {Param, CatchAll} => q[i] = url[i]
  <2>1. Matches(q, url) /\ Len(url) \in Nat
    BY <1>1, <1>2
  <2> QED
    BY <1>3, <2>1, MatchSegments
<1>4. Len(<<>>) = 0
  BY EmptySeq
<1>5. \A b \in {<<>>, at} : b \in Seq(S) /\ Ordinary(b)
  BY OrdinaryBases
<1>6. ASSUME NEW b \in {<<>>, at}, NEW name \in EndpointNames, q = Below(b, name)
      PROVE  FALSE
  <2>1. /\ q \in Seq(S) /\ Len(b) \in Nat /\ Len(q) = Len(b) + 1
        /\ q[Len(q)] = name
        /\ \A i \in 1 .. Len(b) : q[i] = b[i]
        /\ \A i \in 1 .. Len(q) : q[i] \notin {Param, CatchAll}
        /\ q[1] # ".well-known"
    <3>1. b \in Seq(S) /\ Ordinary(b)
      BY <1>5
    <3> QED
      BY <1>6, <3>1, EndpointSegments
  <2>2. Len(q) \in Nat \ {0} /\ 1 \in 1 .. Len(q)
    BY <2>1
  <2> QED
    BY <1>2, <1>3, <2>1, <2>2
<1>7. ASSUME NEW b \in {<<>>, at}, q = b \o <<Param, "mcp">>
      PROVE  FALSE
  <2>1. /\ q \in Seq(S) /\ Len(b) \in Nat /\ Len(q) = Len(b) + 2
        /\ q[Len(q)] = "mcp"
        /\ b # <<>> => q[1] \notin {".well-known", Param, CatchAll}
    <3>1. b \in Seq(S) /\ Ordinary(b)
      BY <1>5
    <3> QED
      BY <1>7, <3>1, ParamSegments
  <2>2. Len(q) \in Nat \ {0} /\ 1 \in 1 .. Len(q) /\ Len(q) \in 1 .. Len(q)
    BY <2>1
  <2>3. CASE b # <<>>
    BY <1>2, <1>3, <2>1, <2>2, <2>3
  <2>4. CASE b = <<>>
    <3>1. Len(q) = 2
      BY <1>4, <2>1, <2>4
    <3>2. q[2] = "mcp" /\ q[2] \notin {Param, CatchAll}
      BY <2>1, <3>1 DEF Param, CatchAll
    <3> QED
      BY <1>2, <1>3, <2>2, <3>1, <3>2
  <2> QED
    BY <2>3, <2>4
<1>8. ASSUME NEW b \in {<<>>, at}, q = MetadataUrl(b)
      PROVE  FALSE
  <2>1. /\ q \in Seq(S) /\ Len(b) \in Nat /\ Len(q) = Len(b) + 2
        /\ q[2] = "oauth-authorization-server"
    <3>1. b \in Seq(S)
      BY <1>5
    <3> QED
      BY <1>8, <3>1, MetadataSegments
  <2>2. Len(q) \in Nat \ {0} /\ 2 \in 1 .. Len(q)
    BY <2>1
  <2> QED
    BY <1>2, <1>3, <2>1, <2>2 DEF Param, CatchAll
<1>9. ASSUME NEW b \in {<<>>, at}, q = ResourceMetadataUrl(b)
      PROVE  q \in Seq(S) /\ path = b
  <2>1. b \in Seq(S) /\ Ordinary(b)
    BY <1>5
  <2>2. Matches(q, url)
    BY <1>1
  <2> QED
    BY <1>2, <1>9, <2>1, <2>2, LiteralResource
<1>10. ASSUME q = Wildcard  PROVE  q \in Seq(S)
  BY <1>10, CatchAllSegments
<1> QED
  BY <1>1, <1>6, <1>7, <1>8, <1>9, <1>10, RouteCases DEF EndpointNames

LEMMA ResourceFound ==
  ASSUME NEW S, Covers(S), NEW at \in Seq(S), Ordinary(at), NEW path \in Seq(S)
  PROVE  Handlers(at, ResourceMetadataUrl(path)) = {"resource"}
<1>1. PICK url : url = ResourceMetadataUrl(path)
  OBVIOUS
<1>2. /\ url \in Seq(S) /\ Len(path) \in Nat /\ Len(url) = Len(path) + 2
      /\ url[1] = ".well-known" /\ url[2] = "oauth-protected-resource"
      /\ \A i \in 1 .. Len(path) : url[2 + i] = path[i]
  BY <1>1, ResourceSegments
<1>3. Len(<<>>) = 0 /\ url # <<>>
  BY <1>2, EmptySeq
<1>4. CASE path \in {<<>>, at}
  <2>1. PICK f : f = Route(url, "resource")
    OBVIOUS
  <2>2. f \in Routes(at) /\ f.path = url
    BY <1>1, <1>4, <2>1, RouteOf DEF Route
  <2>3. \A i \in 1 .. Len(path) : path[i] \notin {Param, CatchAll}
    BY <1>3, <1>4 DEF Ordinary
  <2>4. \A i \in 1 .. Len(url) : url[i] \notin {Param, CatchAll}
    <3> TAKE i \in 1 .. Len(url)
    <3>1. CASE i \in {1, 2}
      BY <1>2, <3>1 DEF Param, CatchAll
    <3>2. CASE i \notin {1, 2}
      <4>1. i - 2 \in 1 .. Len(path) /\ url[2 + (i - 2)] = path[i - 2] /\ 2 + (i - 2) = i
        BY <1>2, <3>2
      <4> QED
        BY <2>3, <4>1
    <3> QED
      BY <3>1, <3>2
  <2>5. Matches(f.path, url)
    BY <1>2, <1>3, <2>2, <2>4, LiteralMatches
  <2>6. ASSUME NEW g \in Routes(at), Matches(g.path, url)
        PROVE  g.handler = "resource" /\ ~Wins(g.path, f.path)
    <3>1. g.handler = "resource" /\ g.path \in Seq(S)
      BY <1>1, <2>6, ResourceRoutes
    <3> QED
      BY <1>2, <2>2, <2>4, <3>1, LiteralUnbeaten
  <2> QED
    BY <1>1, <2>2, <2>5, <2>6, SoleHandler
<1>5. CASE path \notin {<<>>, at}
  <2>1. PICK f : f = Route(Wildcard, "resource")
    OBVIOUS
  <2>2. PICK w : w = Wildcard
    OBVIOUS
  <2>3. f \in Routes(at) /\ f.path = w
    BY <2>1, <2>2, RouteOf DEF Route
  <2>4. /\ w \in Seq(S) /\ Len(w) = 3
        /\ w[1] = ".well-known" /\ w[2] = "oauth-protected-resource" /\ w[3] = CatchAll
    BY <2>2, CatchAllSegments
  <2>5. Len(path) > 0
    BY <1>5, EmptySeq
  <2>6. Matches(w, url)
    BY <1>2, <2>4, <2>5 DEF Matches
  <2>7. ASSUME NEW g \in Routes(at), Matches(g.path, url)
        PROVE  g.handler = "resource" /\ ~Wins(g.path, f.path)
    <3>1. g.handler = "resource" /\ g.path = w
      <4>1. /\ g.handler = "resource"
            /\ g.path \in Seq(S)
            /\ path = <<>> \/ path = at \/ g.path = Wildcard
        BY <1>1, <2>7, ResourceRoutes
      <4> QED
        BY <1>5, <2>2, <4>1
    <3> QED
      BY <2>3, <2>4, <3>1, SelfUnbeaten
  <2> QED
    BY <1>1, <2>3, <2>6, <2>7, SoleHandler
<1> QED
  BY <1>4, <1>5

LEMMA ResourceNamed ==
  ASSUME NEW S, Covers(S), NEW path \in Seq(S)
  PROVE  ResourceIdentifier(ResourceMetadataUrl(path)) = path
<1>1. PICK url, pr : url = ResourceMetadataUrl(path) /\ pr = ProtectedResource
  OBVIOUS
<1>2. /\ url \in Seq(S) /\ Len(path) \in Nat /\ Len(url) = Len(path) + 2
      /\ url[1] = ".well-known" /\ url[2] = "oauth-protected-resource"
      /\ \A i \in 1 .. Len(path) : url[2 + i] = path[i]
  BY <1>1, ResourceSegments
<1>3. /\ pr \in Seq(S) /\ Len(pr) = 2
      /\ pr[1] = ".well-known" /\ pr[2] = "oauth-protected-resource"
  BY <1>1 DEF ProtectedResource, Covers, Literals
<1>4. \A i \in 1 .. Len(url) : url[i] \in S
  BY <1>2, ElementOfSeq
<1>5. SubSeq(url, 1, 2) = pr
  <2>1. PICK v : v = SubSeq(url, 1, 2)
    OBVIOUS
  <2>2. v \in Seq(S) /\ Len(v) = 2 /\ \A i \in 1 .. 2 : v[i] = url[i]
    BY <1>2, <1>4, <2>1, SubSeqProperties
  <2> QED
    BY <1>2, <1>3, <2>1, <2>2, SeqEqual
<1>6. SubSeq(url, 3, Len(url)) = path
  <2>1. PICK v : v = SubSeq(url, 3, Len(url))
    OBVIOUS
  <2>2. v \in Seq(S) /\ Len(v) = Len(path) /\ \A i \in 1 .. Len(v) : v[i] = url[2 + i]
    BY <1>2, <1>4, <2>1, SubSeqProperties
  <2> QED
    BY <1>2, <2>1, <2>2, SeqEqual
<1> QED
  BY <1>1, <1>3, <1>5, <1>6 DEF ResourceIdentifier

\* The authorization server metadata, and the endpoints it names: only literal
\* routes with the right handler match.
LEMMA MetadataRoutes ==
  ASSUME NEW S, Covers(S), NEW at \in Seq(S), Ordinary(at),
         NEW url, url = MetadataUrl(at),
         NEW r \in Routes(at), Matches(r.path, url)
  PROVE  r.handler = "metadata" /\ r.path \in Seq(S)
<1>1. PICK q : q = r.path
  OBVIOUS
<1>2. /\ Len(at) \in Nat /\ Len(url) = Len(at) + 2
      /\ url[1] = ".well-known" /\ url[2] = "oauth-authorization-server"
  BY MetadataSegments
<1>3. ASSUME Len(q) \in Nat \ {0}
      PROVE  \A i \in 1 .. Len(q) : q[i] \notin {Param, CatchAll} => q[i] = url[i]
  <2>1. Matches(q, url) /\ Len(url) \in Nat
    BY <1>1, <1>2
  <2> QED
    BY <1>3, <2>1, MatchSegments
<1>4. Len(<<>>) = 0
  BY EmptySeq
<1>5. \A b \in {<<>>, at} : b \in Seq(S) /\ Ordinary(b)
  BY OrdinaryBases
<1>6. ASSUME NEW b \in {<<>>, at}, NEW name \in EndpointNames, q = Below(b, name)
      PROVE  FALSE
  <2>1. /\ q \in Seq(S) /\ Len(b) \in Nat /\ Len(q) = Len(b) + 1
        /\ q[Len(q)] = name
        /\ \A i \in 1 .. Len(b) : q[i] = b[i]
        /\ \A i \in 1 .. Len(q) : q[i] \notin {Param, CatchAll}
        /\ q[1] # ".well-known"
    <3>1. b \in Seq(S) /\ Ordinary(b)
      BY <1>5
    <3> QED
      BY <1>6, <3>1, EndpointSegments
  <2>2. Len(q) \in Nat \ {0} /\ 1 \in 1 .. Len(q)
    BY <2>1
  <2> QED
    BY <1>2, <1>3, <2>1, <2>2
<1>7. ASSUME NEW b \in {<<>>, at}, q = b \o <<Param, "mcp">>
      PROVE  FALSE
  <2>1. /\ Len(b) \in Nat /\ Len(q) = Len(b) + 2
        /\ q[Len(q)] = "mcp"
        /\ b # <<>> => q[1] \notin {".well-known", Param, CatchAll}
    <3>1. b \in Seq(S) /\ Ordinary(b)
      BY <1>5
    <3> QED
      BY <1>7, <3>1, ParamSegments
  <2>2. Len(q) \in Nat \ {0} /\ 1 \in 1 .. Len(q) /\ Len(q) \in 1 .. Len(q)
    BY <2>1
  <2>3. CASE b # <<>>
    BY <1>2, <1>3, <2>1, <2>2, <2>3
  <2>4. CASE b = <<>>
    <3>1. Len(q) = 2
      BY <1>4, <2>1, <2>4
    <3>2. q[2] = "mcp" /\ q[2] \notin {Param, CatchAll}
      BY <2>1, <3>1 DEF Param, CatchAll
    <3> QED
      BY <1>2, <1>3, <2>2, <3>1, <3>2
  <2> QED
    BY <2>3, <2>4
<1>8. ASSUME NEW b \in {<<>>, at}, q = MetadataUrl(b)
      PROVE  q \in Seq(S)
  <2>1. b \in Seq(S)
    BY <1>5
  <2> QED
    BY <1>8, <2>1, MetadataSegments
<1>9. ASSUME Len(q) \in Nat, Len(q) >= 2, q[2] = "oauth-protected-resource"
      PROVE  FALSE
  <2>1. Len(q) \in Nat \ {0} /\ 2 \in 1 .. Len(q) /\ q[2] \notin {Param, CatchAll}
    BY <1>9 DEF Param, CatchAll
  <2> QED
    BY <1>2, <1>3, <1>9, <2>1
<1>10. ASSUME NEW b \in {<<>>, at}, q = ResourceMetadataUrl(b)
       PROVE  FALSE
  <2>1. b \in Seq(S)
    BY <1>5
  <2>2. Len(b) \in Nat /\ Len(q) = Len(b) + 2 /\ q[2] = "oauth-protected-resource"
    BY <1>10, <2>1, ResourceSegments
  <2> QED
    BY <1>9, <2>2
<1>11. ASSUME q = Wildcard  PROVE  FALSE
  <2>1. Len(q) = 3 /\ q[2] = "oauth-protected-resource"
    BY <1>11, CatchAllSegments
  <2> QED
    BY <1>9, <2>1
<1> QED
  BY <1>1, <1>6, <1>7, <1>8, <1>10, <1>11, RouteCases DEF EndpointNames

LEMMA MetadataFound ==
  ASSUME NEW S, Covers(S), NEW at \in Seq(S), Ordinary(at)
  PROVE  Handlers(at, MetadataUrl(at)) = {"metadata"}
<1>1. PICK url : url = MetadataUrl(at)
  OBVIOUS
<1>2. /\ url \in Seq(S) /\ Len(at) \in Nat /\ Len(url) = Len(at) + 2
      /\ url[1] = ".well-known" /\ url[2] = "oauth-authorization-server"
      /\ \A i \in 1 .. Len(at) : url[2 + i] = at[i]
  BY <1>1, MetadataSegments
<1>3. url # <<>>
  BY <1>2, EmptySeq
<1>4. PICK f : f = Route(url, "metadata")
  OBVIOUS
<1>5. f \in Routes(at) /\ f.path = url
  BY <1>1, <1>4, RouteOf DEF Route
<1>6. \A i \in 1 .. Len(url) : url[i] \notin {Param, CatchAll}
  <2> TAKE i \in 1 .. Len(url)
  <2>1. CASE i \in {1, 2}
    BY <1>2, <2>1 DEF Param, CatchAll
  <2>2. CASE i \notin {1, 2}
    <3>1. i - 2 \in 1 .. Len(at) /\ url[2 + (i - 2)] = at[i - 2] /\ 2 + (i - 2) = i
      BY <1>2, <2>2
    <3> QED
      BY <3>1 DEF Ordinary
  <2> QED
    BY <2>1, <2>2
<1>7. Matches(f.path, url)
  BY <1>2, <1>3, <1>5, <1>6, LiteralMatches
<1>8. ASSUME NEW g \in Routes(at), Matches(g.path, url)
      PROVE  g.handler = "metadata" /\ ~Wins(g.path, f.path)
  <2>1. g.handler = "metadata" /\ g.path \in Seq(S)
    BY <1>1, <1>8, MetadataRoutes
  <2> QED
    BY <1>2, <1>5, <1>6, <2>1, LiteralUnbeaten
<1> QED
  BY <1>1, <1>5, <1>7, <1>8, SoleHandler

LEMMA EndpointRoutes ==
  ASSUME NEW S, Covers(S), NEW at \in Seq(S), Ordinary(at), NEW n \in Names,
         NEW url, url = Below(at, n),
         NEW r \in Routes(at), Matches(r.path, url)
  PROVE  r.handler = n /\ r.path \in Seq(S)
<1>1. PICK q : q = r.path
  OBVIOUS
<1>2. /\ Len(at) \in Nat /\ Len(url) = Len(at) + 1
      /\ url[Len(url)] = n
      /\ url[1] # ".well-known"
  <2>1. n \in EndpointNames
    BY DEF EndpointNames
  <2> QED
    BY <2>1, EndpointSegments
<1>3. ASSUME Len(q) \in Nat \ {0}
      PROVE  /\ q[Len(q)] # CatchAll => Len(url) = Len(q)
             /\ \A i \in 1 .. Len(q) : q[i] \notin {Param, CatchAll} => q[i] = url[i]
  <2>1. Matches(q, url) /\ Len(url) \in Nat
    BY <1>1, <1>2
  <2> QED
    BY <1>3, <2>1, MatchSegments
<1>4. Len(<<>>) = 0 /\ (at # <<>> => Len(at) # 0) /\ n # "mcp"
  BY EmptySeq DEF Names
<1>5. \A b \in {<<>>, at} : b \in Seq(S) /\ Ordinary(b)
  BY OrdinaryBases
<1>6. ASSUME NEW b \in {<<>>, at}, NEW name \in EndpointNames, q = Below(b, name)
      PROVE  name = n /\ q \in Seq(S)
  <2>1. /\ q \in Seq(S) /\ Len(b) \in Nat /\ Len(q) = Len(b) + 1
        /\ q[Len(q)] = name
        /\ \A i \in 1 .. Len(b) : q[i] = b[i]
        /\ \A i \in 1 .. Len(q) : q[i] \notin {Param, CatchAll}
        /\ q[1] # ".well-known"
    <3>1. b \in Seq(S) /\ Ordinary(b)
      BY <1>5
    <3> QED
      BY <1>6, <3>1, EndpointSegments
  <2>2. Len(q) \in Nat \ {0} /\ Len(q) \in 1 .. Len(q)
    BY <2>1
  <2>3. Len(url) = Len(q) /\ q[Len(q)] = url[Len(q)]
    BY <1>3, <2>1, <2>2
  <2> QED
    BY <1>2, <2>1, <2>3
<1>7. ASSUME NEW b \in {<<>>, at}, q = b \o <<Param, "mcp">>
      PROVE  FALSE
  <2>1. /\ Len(b) \in Nat /\ Len(q) = Len(b) + 2
        /\ q[Len(q)] = "mcp"
    <3>1. b \in Seq(S) /\ Ordinary(b)
      BY <1>5
    <3> QED
      BY <1>7, <3>1, ParamSegments
  <2>2. Len(q) \in Nat \ {0} /\ Len(q) \in 1 .. Len(q) /\ q[Len(q)] \notin {Param, CatchAll}
    BY <2>1 DEF Param, CatchAll
  <2>3. Len(url) = Len(q) /\ q[Len(q)] = url[Len(q)]
    BY <1>3, <2>2
  <2> QED
    BY <1>2, <1>4, <2>1, <2>3
<1>8. ASSUME Len(q) \in Nat, Len(q) >= 2, q[1] = ".well-known"
      PROVE  FALSE
  <2>1. Len(q) \in Nat \ {0} /\ 1 \in 1 .. Len(q) /\ q[1] \notin {Param, CatchAll}
    BY <1>8 DEF Param, CatchAll
  <2> QED
    BY <1>2, <1>3, <1>8, <2>1
<1>9. ASSUME NEW b \in {<<>>, at}, q = MetadataUrl(b)
      PROVE  FALSE
  <2>1. b \in Seq(S)
    BY <1>5
  <2>2. Len(b) \in Nat /\ Len(q) = Len(b) + 2 /\ q[1] = ".well-known"
    BY <1>9, <2>1, MetadataSegments
  <2> QED
    BY <1>8, <2>2
<1>10. ASSUME NEW b \in {<<>>, at}, q = ResourceMetadataUrl(b)
       PROVE  FALSE
  <2>1. b \in Seq(S)
    BY <1>5
  <2>2. Len(b) \in Nat /\ Len(q) = Len(b) + 2 /\ q[1] = ".well-known"
    BY <1>10, <2>1, ResourceSegments
  <2> QED
    BY <1>8, <2>2
<1>11. ASSUME q = Wildcard  PROVE  FALSE
  <2>1. Len(q) = 3 /\ q[1] = ".well-known"
    BY <1>11, CatchAllSegments
  <2> QED
    BY <1>8, <2>1
<1>12. "mcp" \in EndpointNames /\ \A name \in Names : name \in EndpointNames
  BY DEF EndpointNames
<1> QED
  BY <1>1, <1>4, <1>6, <1>7, <1>9, <1>10, <1>11, <1>12, RouteCases

LEMMA EndpointFound ==
  ASSUME NEW S, Covers(S), NEW at \in Seq(S), Ordinary(at), NEW n \in Names
  PROVE  Handlers(at, Below(at, n)) = {n}
<1>1. PICK url : url = Below(at, n)
  OBVIOUS
<1>2. /\ url \in Seq(S) /\ Len(at) \in Nat /\ Len(url) = Len(at) + 1
      /\ \A i \in 1 .. Len(url) : url[i] \notin {Param, CatchAll}
  <2>1. n \in EndpointNames
    BY DEF EndpointNames
  <2> QED
    BY <1>1, <2>1, EndpointSegments
<1>3. url # <<>>
  BY <1>2, EmptySeq
<1>4. PICK f : f = Route(url, n)
  OBVIOUS
<1>5. f \in Routes(at) /\ f.path = url
  BY <1>1, <1>4, RouteOf DEF Route
<1>6. Matches(f.path, url)
  BY <1>2, <1>3, <1>5, LiteralMatches
<1>7. ASSUME NEW g \in Routes(at), Matches(g.path, url)
      PROVE  g.handler = n /\ ~Wins(g.path, f.path)
  <2>1. g.handler = n /\ g.path \in Seq(S)
    BY <1>1, <1>7, EndpointRoutes
  <2> QED
    BY <1>2, <1>5, <2>1, LiteralUnbeaten
<1> QED
  BY <1>1, <1>5, <1>6, <1>7, SoleHandler

\* Discovery closes for every ordinary issuer path.
LEMMA OrdinaryCloses ==
  ASSUME NEW Segment, Paths \subseteq Seq(Segment),
         NEW e \in Environments, e.issuerPath \in Seq(Segment), Ordinary(e.issuerPath)
  PROVE  e.issuerPath \in Closing
<1>1. PICK at, S : at = e.issuerPath /\ S = Segment \cup Literals
  OBVIOUS
<1>2. Covers(S) /\ Segment \subseteq S
  BY <1>1 DEF Covers
<1>3. at \in Seq(S) /\ Ordinary(at) /\ \A path \in Paths : path \in Seq(S)
  BY <1>1, <1>2, SeqMonotonic
<1>4. ASSUME NEW path \in Paths \cup {at}
      PROVE  /\ Handlers(at, ResourceMetadataUrl(path)) = {"resource"}
             /\ ResourceIdentifier(ResourceMetadataUrl(path)) = path
  <2>1. path \in Seq(S)
    BY <1>3
  <2> QED
    BY <1>2, <1>3, <2>1, ResourceFound, ResourceNamed
<1>5. Handlers(at, MetadataUrl(at)) = {"metadata"}
  BY <1>2, <1>3, MetadataFound
<1>6. ASSUME NEW r \in Advertised(at)  PROVE  Handlers(at, r.path) = {r.handler}
  <2>1. PICK n \in Names : r = Route(Below(at, n), n)
    BY DEF Advertised, Names, Below
  <2>2. r.path = Below(at, n) /\ r.handler = n
    BY <2>1 DEF Route
  <2> QED
    BY <1>2, <1>3, <2>2, EndpointFound
<1>7. at \in {x.issuerPath : x \in Environments}
  BY <1>1
<1> QED
  BY <1>1, <1>4, <1>5, <1>6, <1>7 DEF Closing, MetadataUrl

\* Discovery from a server that is up closes, for every issuer path that is
\* ordinary and every set of paths asked for: the challenge of a path leads to
\* the metadata of that resource, the issuer's metadata and the endpoints it
\* advertises reach their own handlers although wildcards overlap, and the
\* build verifies every algorithm it advertises (router, metadata,
\* protected_resource_challenge, validate_inbound_assertion_algorithms).
THEOREM BootDiscoveryCloses ==
  ASSUME NEW Segment, Paths \subseteq Seq(Segment),
         \A e \in Environments : e.issuerPath \in Seq(Segment) /\ Ordinary(e.issuerPath)
  PROVE  Spec => []DiscoveryCloses
<1>1. BootInv => DiscoveryCloses
  <2> SUFFICES ASSUME BootInv, NEW p \in Process, Up(p)
               PROVE  /\ env.issuerPath \in Closing
                      /\ \A alg \in InboundAlgs(env) :
                           alg = "RS256" \/ (alg \in PqcAlgs /\ env.pqcBuild)
    BY DEF DiscoveryCloses
  <2>1. PICK x, e : x = proc[p] /\ e = env
    OBVIOUS
  <2>2. InboundAlgsParse(e) /\ InboundOk(e)
    BY <2>1, UpFacts
  <2>3. e \in Environments
    BY <2>1 DEF BootInv
  <2>4. e.issuerPath \in Closing
    BY <2>3, OrdinaryCloses
  <2>5. \A alg \in InboundAlgs(e) : alg = "RS256" \/ (alg \in PqcAlgs /\ e.pqcBuild)
    BY <2>2 DEF InboundAlgsParse, InboundOk
  <2> QED
    BY <2>1, <2>4, <2>5
<1> QED
  BY <1>1, BootInvHolds, PTL
===============================================================================
