------------------------ MODULE ObservabilityProofs ------------------------
(***************************************************************************)
(* Proofs about Observability: whatever exists of the components is named  *)
(* in the annotation of the CR.                                            *)
(***************************************************************************)
EXTENDS Observability, TLAPS

(***************************************************************************)
(* Sequences.                                                              *)
(***************************************************************************)
\* The elements of a sequence.
LEMMA RangeType ==
    ASSUME NEW E, NEW s \in Seq(E)
    PROVE  Range(s) \subseteq E /\ (Range(s) = {} <=> s = << >>)
<1>1. \A i \in DOMAIN s : s[i] \in E
  OBVIOUS
<1>2. s # << >> => s[1] \in Range(s)
  BY DEF Range
<1> QED BY <1>1, <1>2 DEF Range

\* The elements of sequences that are written out.
LEMMA RangeOfTuples ==
    /\ Range(<< >>) = {}
    /\ \A a : Range(<<a>>) = {a}
    /\ \A a, b : Range(<<a, b>>) = {a, b}
    /\ \A a, b, c : Range(<<a, b, c>>) = {a, b, c}
<1>1. Range(<< >>) = {}
  BY DEF Range
<1>2. ASSUME NEW a PROVE Range(<<a>>) = {a}
  BY DEF Range
<1>3. ASSUME NEW a, NEW b PROVE Range(<<a, b>>) = {a, b}
  BY DEF Range
<1>4. ASSUME NEW a, NEW b, NEW c PROVE Range(<<a, b, c>>) = {a, b, c}
  BY DEF Range
<1> QED BY <1>1, <1>2, <1>3, <1>4

\* The elements of two sequences, one after the other.
LEMMA ConcatRange ==
    ASSUME NEW E, NEW s \in Seq(E), NEW t \in Seq(E)
    PROVE  s \o t \in Seq(E) /\ Range(s \o t) = Range(s) \cup Range(t)
<1>1. s \o t \in Seq(E)
  OBVIOUS
<1>2. Range(s \o t) \subseteq Range(s) \cup Range(t)
  BY DEF Range
<1>3. ASSUME NEW i \in DOMAIN s PROVE s[i] \in Range(s \o t)
  <2>1. i \in DOMAIN (s \o t) /\ (s \o t)[i] = s[i]
    OBVIOUS
  <2> QED BY <2>1 DEF Range
<1>4. ASSUME NEW i \in DOMAIN t PROVE t[i] \in Range(s \o t)
  <2>1. Len(s) + i \in DOMAIN (s \o t) /\ (s \o t)[Len(s) + i] = t[i]
    OBVIOUS
  <2> QED BY <2>1 DEF Range
<1> QED BY <1>1, <1>2, <1>3, <1>4 DEF Range

\* The first element and the others.
LEMMA TailRange ==
    ASSUME NEW E, NEW s \in Seq(E), s # << >>
    PROVE  /\ Head(s) \in E /\ Tail(s) \in Seq(E)
           /\ Range(s) = {Head(s)} \cup Range(Tail(s))
           /\ Len(s) = 1 <=> Tail(s) = << >>
<1>1. Head(s) \in E /\ Tail(s) \in Seq(E) /\ Head(s) = s[1] /\ Len(Tail(s)) = Len(s) - 1
  OBVIOUS
<1>2. \A i \in DOMAIN Tail(s) : i + 1 \in DOMAIN s /\ Tail(s)[i] = s[i + 1]
  OBVIOUS
<1>3. \A i \in DOMAIN s : i = 1 \/ (i - 1 \in DOMAIN Tail(s) /\ Tail(s)[i - 1] = s[i])
  OBVIOUS
<1>4. Range(s) = {Head(s)} \cup Range(Tail(s))
  <2>1. ASSUME NEW i \in DOMAIN s PROVE s[i] \in {Head(s)} \cup Range(Tail(s))
    BY <1>1, <1>3 DEF Range
  <2>2. ASSUME NEW i \in DOMAIN Tail(s) PROVE Tail(s)[i] \in Range(s)
    BY <1>2 DEF Range
  <2>3. Head(s) \in Range(s)
    BY <1>1 DEF Range
  <2> QED BY <2>1, <2>2, <2>3 DEF Range
<1>5. Len(s) = 1 <=> Tail(s) = << >>
  <2>1. \A t \in Seq(E) : t = << >> <=> Len(t) = 0
    OBVIOUS
  <2>2. Tail(s) = << >> <=> Len(Tail(s)) = 0
    BY <1>1, <2>1
  <2>3. Len(s) \in Nat
    OBVIOUS
  <2> QED BY <1>1, <2>2, <2>3
<1> QED BY <1>1, <1>4, <1>5

\* A function on the positions of a sequence.
LEMMA MapFacts ==
    ASSUME NEW D, NEW t \in Seq(D), NEW E, NEW ss, DOMAIN ss = DOMAIN t,
           ss = [i \in DOMAIN t |-> ss[i]], \A i \in DOMAIN t : ss[i] \in E
    PROVE  ss \in Seq(E) /\ Len(ss) = Len(t)
<1>1. Len(t) \in Nat /\ DOMAIN t = 1..Len(t)
  OBVIOUS
<1>2. ss \in [1..Len(t) -> E]
  BY <1>1
<1> QED BY <1>1, <1>2

\* FlattenSeq of at most three sequences.
LEMMA FlattenThree ==
    ASSUME NEW E, NEW ss \in Seq(Seq(E)), Len(ss) <= 3
    PROVE  \/ Len(ss) = 0 /\ DOMAIN ss = {} /\ FlattenSeq(ss) = << >>
           \/ Len(ss) = 1 /\ DOMAIN ss = {1} /\ FlattenSeq(ss) = ss[1]
           \/ Len(ss) = 2 /\ DOMAIN ss = {1, 2} /\ FlattenSeq(ss) = ss[1] \o ss[2]
           \/ Len(ss) = 3 /\ DOMAIN ss = {1, 2, 3} /\ FlattenSeq(ss) = (ss[1] \o ss[2]) \o ss[3]
<1> DEFINE N == Len(ss)
<1>0. N \in {0, 1, 2, 3} /\ DOMAIN ss = 1..N /\ \A i \in 1..N : ss[i] \in Seq(E)
  <2>1. Len(ss) \in Nat
    OBVIOUS
  <2>2. N \in {0, 1, 2, 3}
    <3>1. \A k \in Nat : k <= 3 => k \in {0, 1, 2, 3}
      OBVIOUS
    <3> QED BY <2>1, <3>1
  <2>3. DOMAIN ss = 1..N /\ \A i \in DOMAIN ss : ss[i] \in Seq(E)
    OBVIOUS
  <2> QED BY <2>2, <2>3
<1>1. CASE N = 0
  <2>1. FlattenSeq(ss) = << >>
    BY <1>1 DEF FlattenSeq
  <2> QED BY <1>0, <1>1, <2>1
<1>2. CASE N # 0
  <2> DEFINE Body(f) == [i \in 1..N |-> IF i = 1 THEN ss[i] ELSE f[i - 1] \o ss[i]]
             F == CHOOSE f : f = Body(f)
             G == [i \in 1..N |-> IF i = 1 THEN ss[1] ELSE IF i = 2 THEN ss[1] \o ss[2]
                                  ELSE ss[1] \o ss[2] \o ss[3]]
  <2>1. FlattenSeq(ss) = F[N]
    BY <1>2 DEF FlattenSeq
  <2>2. \A i \in 1..N : i = 1 \/ (i = 2 /\ i - 1 = 1) \/ (i = 3 /\ i - 1 = 2)
    BY <1>0
  <2>3. \A i \in 1..N : i # 1 => i - 1 \in 1..N
    BY <1>0
  <2> HIDE DEF N
  <2>4. G = Body(G)
    <3>1. ASSUME NEW i \in 1..N PROVE G[i] = IF i = 1 THEN ss[i] ELSE G[i - 1] \o ss[i]
      <4>1. CASE i = 1
        BY <4>1
      <4>2. CASE i = 2
        <5>1. i - 1 = 1 /\ 1 \in 1..N /\ i # 1
          BY <2>2, <2>3, <4>2
        <5>2. G[1] = ss[1] /\ G[i] = ss[1] \o ss[2]
          BY <4>2, <5>1
        <5> QED BY <4>2, <5>1, <5>2
      <4>3. CASE i = 3
        <5>1. i - 1 = 2 /\ 2 \in 1..N /\ i # 1 /\ i # 2
          BY <2>2, <2>3, <4>3
        <5>2. G[2] = ss[1] \o ss[2] /\ G[i] = (ss[1] \o ss[2]) \o ss[3]
          BY <4>3, <5>1
        <5> QED BY <4>3, <5>1, <5>2
      <4> QED BY <2>2, <4>1, <4>2, <4>3
    <3> QED BY <3>1
  <2>5. F = Body(F)
    BY <2>4
  <2> HIDE DEF F
  <2>6. /\ N = 1 => F[N] = ss[1]
        /\ N = 2 => F[N] = ss[1] \o ss[2]
        /\ N = 3 => F[N] = (ss[1] \o ss[2]) \o ss[3]
    <3>1. \A i \in 1..N : F[i] = IF i = 1 THEN ss[i] ELSE F[i - 1] \o ss[i]
      BY <2>5
    <3>2. N \in {1, 2, 3} /\ (1 \in 1..N) /\ (N >= 2 => 2 \in 1..N) /\ (N >= 3 => 3 \in 1..N)
      BY <1>0, <1>2 DEF N
    <3>3. F[1] = ss[1]
      BY <3>1, <3>2
    <3>4. ASSUME N >= 2 PROVE F[2] = ss[1] \o ss[2]
      <4>1. 2 \in 1..N /\ 2 # 1 /\ 2 - 1 = 1
        BY <3>2, <3>4
      <4>2. F[2] = F[2 - 1] \o ss[2]
        BY <3>1, <4>1
      <4> QED BY <3>3, <4>1, <4>2
    <3>5. ASSUME N >= 3 PROVE F[3] = (ss[1] \o ss[2]) \o ss[3]
      <4>1. 3 \in 1..N /\ 3 # 1 /\ 3 - 1 = 2
        BY <3>2, <3>5
      <4>2. F[3] = F[3 - 1] \o ss[3]
        BY <3>1, <4>1
      <4>3. N >= 2
        BY <3>2, <3>5
      <4> QED BY <3>4, <4>1, <4>2, <4>3
    <3>6. (N = 2 => N >= 2) /\ (N = 3 => N >= 3)
      OBVIOUS
    <3> QED BY <3>3, <3>4, <3>5, <3>6
  <2>7. (N = 1 => 1..N = {1}) /\ (N = 2 => 1..N = {1, 2}) /\ (N = 3 => 1..N = {1, 2, 3})
    <3>1. 1..1 = {1}
      OBVIOUS
    <3>2. 1..2 = {1, 2}
      OBVIOUS
    <3>3. 1..3 = {1, 2, 3}
      OBVIOUS
    <3> QED BY <3>1, <3>2, <3>3
  <2>8. N = 1 \/ N = 2 \/ N = 3
    BY <1>0, <1>2
  <2> QED BY <1>0, <2>1, <2>6, <2>7, <2>8 DEF N
<1> QED BY <1>1, <1>2

\* Its elements.
LEMMA FlattenRange ==
    ASSUME NEW E, NEW ss \in Seq(Seq(E)), Len(ss) <= 3
    PROVE  /\ FlattenSeq(ss) \in Seq(E)
           /\ Range(FlattenSeq(ss)) = UNION {Range(ss[i]) : i \in DOMAIN ss}
<1>1. \A i \in DOMAIN ss : ss[i] \in Seq(E)
  OBVIOUS
<1>2. \A s, t \in Seq(E) : s \o t \in Seq(E) /\ Range(s \o t) = Range(s) \cup Range(t)
  BY ConcatRange
<1>3. CASE DOMAIN ss = {} /\ FlattenSeq(ss) = << >>
  BY <1>3, RangeOfTuples
<1>4. CASE DOMAIN ss = {1} /\ FlattenSeq(ss) = ss[1]
  BY <1>1, <1>4
<1>5. CASE DOMAIN ss = {1, 2} /\ FlattenSeq(ss) = ss[1] \o ss[2]
  BY <1>1, <1>2, <1>5
<1>6. CASE DOMAIN ss = {1, 2, 3} /\ FlattenSeq(ss) = (ss[1] \o ss[2]) \o ss[3]
  <2> DEFINE t == ss[1] \o ss[2]
  <2>1. t \in Seq(E) /\ Range(t) = Range(ss[1]) \cup Range(ss[2])
    BY <1>1, <1>2, <1>6
  <2>2. FlattenSeq(ss) = t \o ss[3]
    BY <1>6
  <2> HIDE DEF t
  <2>3. FlattenSeq(ss) \in Seq(E) /\ Range(FlattenSeq(ss)) = Range(t) \cup Range(ss[3])
    BY <1>1, <1>2, <1>6, <2>1, <2>2
  <2> QED BY <1>6, <2>1, <2>3
<1> QED BY <1>3, <1>4, <1>5, <1>6, FlattenThree

\* Its length, when each of them has one element at most.
LEMMA FlattenShort ==
    ASSUME NEW E, NEW ss \in Seq(Seq(E)), Len(ss) <= 3, \A i \in DOMAIN ss : Len(ss[i]) <= 1
    PROVE  Len(FlattenSeq(ss)) <= 3
<1>1. \A i \in DOMAIN ss : ss[i] \in Seq(E) /\ Len(ss[i]) \in Nat
  OBVIOUS
<1>2. \A s, t \in Seq(E) : s \o t \in Seq(E) /\ Len(s \o t) = Len(s) + Len(t) /\ Len(s) \in Nat
  OBVIOUS
<1>3. CASE FlattenSeq(ss) = << >>
  BY <1>3
<1>4. CASE DOMAIN ss = {1} /\ FlattenSeq(ss) = ss[1]
  BY <1>1, <1>4
<1>5. CASE DOMAIN ss = {1, 2} /\ FlattenSeq(ss) = ss[1] \o ss[2]
  BY <1>1, <1>2, <1>5
<1>6. CASE DOMAIN ss = {1, 2, 3} /\ FlattenSeq(ss) = (ss[1] \o ss[2]) \o ss[3]
  <2> DEFINE t == ss[1] \o ss[2]
  <2>1. t \in Seq(E) /\ Len(t) = Len(ss[1]) + Len(ss[2])
    BY <1>1, <1>2, <1>6
  <2>2. FlattenSeq(ss) = t \o ss[3]
    BY <1>6
  <2> HIDE DEF t
  <2>3. Len(FlattenSeq(ss)) = Len(t) + Len(ss[3])
    BY <1>1, <1>2, <1>6, <2>1, <2>2
  <2> QED BY <1>1, <1>6, <2>1, <2>3
<1> QED BY <1>3, <1>4, <1>5, <1>6, FlattenThree

(***************************************************************************)
(* The inductive invariant.                                                *)
(***************************************************************************)
Removals == {"delete", "get+delete", "revoke"}
Puts == {"apply", "ssa", "issue"}

StepSet == [op : Removals \cup Puts, obj : Objects]
           \cup [op : {"save", "driver", "release"}, obj : {"cr"}]
           \cup [op : {"gate"}, obj : {"certManager"}]

\* The objects a plan removes.
Removed(steps) == {s.obj : s \in {x \in steps : x.op \in Removals}}

Saves(steps) == \E s \in steps : s.op = "save"

Applies(steps) == \E s \in steps : s.op \in Puts

\* The removals of a plan come before its save and everything else after it.
Ordered(p) ==
    \A i, j \in DOMAIN p : p[i].op = "save" =>
        /\ j < i => p[j].op \in Removals
        /\ j > i => p[j].op \notin Removals \cup {"save"}

\* Objects that are known to exist without anybody having given them up.
Kept == cluster \ (abandoned \cup {"certCRDs"})

PlanTypeOK == plan \in Seq(StepSet) /\ Ordered(plan)

\* What is put belongs to the copy of the CR; the copy is recorded by then.
PutsRecorded ==
    /\ \A s \in Range(plan) : s.op \in Puts => s.obj \in Desired(copy) \cup {"certCRDs"}
    /\ Applies(Range(plan)) /\ ~Saves(Range(plan)) => cr.prev = <<copy>>

\* The removals ahead of a save leave only what the copy will name.
SaveIsSafe == Saves(Range(plan)) => Kept \ Removed(Range(plan)) \subseteq Desired(copy)

ObsInv == TypeOK /\ PlanTypeOK /\ PutsRecorded /\ SaveIsSafe /\ ComponentsRecorded

(***************************************************************************)
(* The plans.                                                              *)
(***************************************************************************)
LEMMA ModuleFacts ==
    ASSUME NEW m \in Specs
    PROVE  /\ m.on \in BOOLEAN /\ m.comps \in Seq(Components) /\ Len(m.comps) <= 3
           /\ Range(m.comps) \subseteq Components
           /\ \A c : Contains(m.comps, c) <=> c \in Range(m.comps)
<1>1. m \in ModuleType
  BY ConstantsAssumption
<1>2. m.on \in BOOLEAN /\ m.comps \in UNION {[1..n -> Components] : n \in 0..3}
  BY <1>1 DEF ModuleType
<1>3. PICK n \in 0..3 : m.comps \in [1..n -> Components]
  BY <1>2
<1>4. m.comps \in Seq(Components) /\ Len(m.comps) <= 3
  BY <1>3
<1>5. Range(m.comps) \subseteq Components
  BY <1>4, RangeType
<1>6. \A c : Contains(m.comps, c) <=> c \in Range(m.comps)
  BY <1>4 DEF Contains, Range
<1> QED BY <1>2, <1>4, <1>5, <1>6

\* What a module asks for, by component.
LEMMA DesiredFacts ==
    ASSUME NEW m \in Specs
    PROVE  /\ \A o : o \in Desired(m) <=>
                  m.on /\ o \in Objects \ {"certCRDs"} /\ ComponentOf(o) \in Range(m.comps)
           /\ \A o \in CertComponents : ComponentOf(o) = o /\ o # "certCRDs" /\ o \in Objects
<1>1. \A o \in CertComponents : ComponentOf(o) = o /\ o # "certCRDs" /\ o \in Objects
  BY ConstantsAssumption DEF ComponentOf, Objects
<1>2. \A c : Contains(m.comps, c) <=> c \in Range(m.comps)
  BY ModuleFacts
<1>3. \A o : o \in Desired(m) <=>
          m.on /\ o \in Objects \ {"certCRDs"} /\ ComponentOf(o) \in Range(m.comps)
  BY <1>2 DEF Desired
<1> QED BY <1>1, <1>3

\* Single steps.
LEMMA StepFacts ==
    /\ \A op, obj : Step(op, obj).op = op /\ Step(op, obj).obj = obj
    /\ \A op \in Removals \cup Puts, obj \in Objects : Step(op, obj) \in StepSet
    /\ \A a \in StepSet : <<a>> \in Seq(StepSet)
    /\ \A a, b \in StepSet : <<a, b>> \in Seq(StepSet)
    /\ \A op \in Removals : \A obj, steps : Step(op, obj) \in steps => obj \in Removed(steps)
<1>1. \A op, obj : Step(op, obj).op = op /\ Step(op, obj).obj = obj
  BY DEF Step
<1>2. \A op \in Removals \cup Puts, obj \in Objects : Step(op, obj) \in StepSet
  BY DEF Step, StepSet
<1>3. \A op \in Removals : \A obj, steps : Step(op, obj) \in steps => obj \in Removed(steps)
  BY <1>1 DEF Removed
<1>4. \A a \in StepSet : <<a>> \in Seq(StepSet)
  OBVIOUS
<1>5. \A a, b \in StepSet : <<a, b>> \in Seq(StepSet)
  OBVIOUS
<1> QED BY <1>1, <1>2, <1>3, <1>4, <1>5

\* The steps of one component: removals of all its objects but the CRDs and
\* the certificate, or the application of objects of its own.
LEMMA ComponentSteps ==
    ASSUME NEW c \in Components
    PROVE  /\ ReconcileComponent(TRUE, c) \in Seq(StepSet)
           /\ \A s \in Range(ReconcileComponent(TRUE, c)) : s.op \in Removals
           /\ \A o \in Objects \ ({"certCRDs"} \cup CertComponents) : ComponentOf(o) = c =>
                  o \in Removed(Range(ReconcileComponent(TRUE, c)))
           /\ ReconcileComponent(FALSE, c) \in Seq(StepSet)
           /\ \A s \in Range(ReconcileComponent(FALSE, c)) :
                  s.op \in Puts /\ s.obj \in Objects /\ ComponentOf(s.obj) = c
<1>0. /\ {"delete", "get+delete"} \subseteq Removals /\ {"apply", "ssa"} \subseteq Puts
      /\ {"otel", "certCRDs", "certManager", "metricsObjs", "metricsDep"} \subseteq Objects
  BY DEF Removals, Puts, Objects
<1>1. CASE c = "otel-collector"
  <2>1. /\ ReconcileComponent(TRUE, c) = <<Step("delete", "otel")>>
        /\ ReconcileComponent(FALSE, c) = <<Step("apply", "otel")>>
    BY <1>1 DEF ReconcileComponent, OtelCollector
  <2>2. /\ Range(ReconcileComponent(TRUE, c)) = {Step("delete", "otel")}
        /\ Range(ReconcileComponent(FALSE, c)) = {Step("apply", "otel")}
    BY <2>1, RangeOfTuples
  <2>3. Step("delete", "otel") \in StepSet /\ Step("apply", "otel") \in StepSet
    BY <1>0, StepFacts
  <2>4. ReconcileComponent(TRUE, c) \in Seq(StepSet) /\ ReconcileComponent(FALSE, c) \in Seq(StepSet)
    BY <2>1, <2>3, StepFacts
  <2>5. \A o \in Objects \ ({"certCRDs"} \cup CertComponents) : ComponentOf(o) = c => o = "otel"
    BY <1>1 DEF Objects, ComponentOf
  <2>6. "otel" \in Removed(Range(ReconcileComponent(TRUE, c)))
    BY <1>0, <2>2, StepFacts
  <2>7. \A o \in {"otel"} : ComponentOf(o) = c
    BY <1>1 DEF ComponentOf
  <2>8. /\ \A s \in Range(ReconcileComponent(TRUE, c)) : s.op \in Removals
        /\ \A s \in Range(ReconcileComponent(FALSE, c)) :
               s.op \in Puts /\ s.obj \in {"otel"}
    <3>1. /\ "delete" \in Removals /\ "get+delete" \in Removals /\ "apply" \in Puts /\ "ssa" \in Puts
      BY <1>0
    <3>2. /\ Step("delete", "otel").op = "delete"
          /\ Step("apply", "otel").op = "apply" /\ Step("apply", "otel").obj = "otel"
      BY DEF Step
    <3> QED BY <2>2, <3>1, <3>2
  <2> QED BY <1>0, <2>4, <2>5, <2>6, <2>7, <2>8
<1>2. CASE c = "cert-manager"
  <2>1. /\ ReconcileComponent(TRUE, c) = <<Step("delete", "certManager")>>
        /\ ReconcileComponent(FALSE, c) = <<Step("apply", "certCRDs"), Step("apply", "certManager")>>
    BY <1>2 DEF ReconcileComponent, CommonCertManager
  <2>2. /\ Range(ReconcileComponent(TRUE, c)) = {Step("delete", "certManager")}
        /\ Range(ReconcileComponent(FALSE, c)) = {Step("apply", "certCRDs"), Step("apply", "certManager")}
    BY <2>1, RangeOfTuples
  <2>3. /\ Step("delete", "certManager") \in StepSet
        /\ Step("apply", "certCRDs") \in StepSet /\ Step("apply", "certManager") \in StepSet
    BY <1>0, StepFacts
  <2>4. ReconcileComponent(TRUE, c) \in Seq(StepSet) /\ ReconcileComponent(FALSE, c) \in Seq(StepSet)
    BY <2>1, <2>3, StepFacts
  <2>5. \A o \in Objects \ ({"certCRDs"} \cup CertComponents) : ComponentOf(o) = c => o = "certManager"
    BY <1>2 DEF Objects, ComponentOf
  <2>6. "certManager" \in Removed(Range(ReconcileComponent(TRUE, c)))
    BY <1>0, <2>2, StepFacts
  <2>7. \A o \in {"certCRDs", "certManager"} : ComponentOf(o) = c
    BY <1>2 DEF ComponentOf
  <2>8. /\ \A s \in Range(ReconcileComponent(TRUE, c)) : s.op \in Removals
        /\ \A s \in Range(ReconcileComponent(FALSE, c)) :
               s.op \in Puts /\ s.obj \in {"certCRDs", "certManager"}
    <3>1. /\ "delete" \in Removals /\ "get+delete" \in Removals /\ "apply" \in Puts /\ "ssa" \in Puts
      BY <1>0
    <3>2. /\ Step("delete", "certManager").op = "delete"
          /\ Step("apply", "certCRDs").op = "apply" /\ Step("apply", "certCRDs").obj = "certCRDs"
          /\ Step("apply", "certManager").op = "apply" /\ Step("apply", "certManager").obj = "certManager"
      BY DEF Step
    <3> QED BY <2>2, <3>1, <3>2
  <2> QED BY <1>0, <2>4, <2>5, <2>6, <2>7, <2>8
<1>3. CASE c = "metrics"
  <2>1. /\ ReconcileComponent(TRUE, c) = <<Step("delete", "metricsObjs"), Step("get+delete", "metricsDep")>>
        /\ ReconcileComponent(FALSE, c) = <<Step("apply", "metricsObjs"), Step("ssa", "metricsDep")>>
    BY <1>3 DEF ReconcileComponent, Metrics
  <2>2. /\ Range(ReconcileComponent(TRUE, c)) = {Step("delete", "metricsObjs"), Step("get+delete", "metricsDep")}
        /\ Range(ReconcileComponent(FALSE, c)) = {Step("apply", "metricsObjs"), Step("ssa", "metricsDep")}
    BY <2>1, RangeOfTuples
  <2>3. /\ Step("delete", "metricsObjs") \in StepSet /\ Step("get+delete", "metricsDep") \in StepSet
        /\ Step("apply", "metricsObjs") \in StepSet /\ Step("ssa", "metricsDep") \in StepSet
    BY <1>0, StepFacts
  <2>4. ReconcileComponent(TRUE, c) \in Seq(StepSet) /\ ReconcileComponent(FALSE, c) \in Seq(StepSet)
    BY <2>1, <2>3, StepFacts
  <2>5. \A o \in Objects \ ({"certCRDs"} \cup CertComponents) :
            ComponentOf(o) = c => o \in {"metricsObjs", "metricsDep"}
    BY <1>3 DEF Objects, ComponentOf
  <2>6. {"metricsObjs", "metricsDep"} \subseteq Removed(Range(ReconcileComponent(TRUE, c)))
    BY <1>0, <2>2, StepFacts
  <2>7. \A o \in {"metricsObjs", "metricsDep"} : ComponentOf(o) = c
    BY <1>3 DEF ComponentOf
  <2>8. /\ \A s \in Range(ReconcileComponent(TRUE, c)) : s.op \in Removals
        /\ \A s \in Range(ReconcileComponent(FALSE, c)) :
               s.op \in Puts /\ s.obj \in {"metricsObjs", "metricsDep"}
    <3>1. /\ "delete" \in Removals /\ "get+delete" \in Removals /\ "apply" \in Puts /\ "ssa" \in Puts
      BY <1>0
    <3>2. /\ Step("delete", "metricsObjs").op = "delete"
          /\ Step("get+delete", "metricsDep").op = "get+delete"
          /\ Step("apply", "metricsObjs").op = "apply" /\ Step("apply", "metricsObjs").obj = "metricsObjs"
          /\ Step("ssa", "metricsDep").op = "ssa" /\ Step("ssa", "metricsDep").obj = "metricsDep"
      BY DEF Step
    <3> QED BY <2>2, <3>1, <3>2
  <2> QED BY <1>0, <2>4, <2>5, <2>6, <2>7, <2>8
<1> QED BY <1>1, <1>2, <1>3 DEF Components

\* The certificates of the enabled components.
LEMMA CertificateSteps ==
    ASSUME NEW m \in Specs, NEW isDeleting \in BOOLEAN
    PROVE  /\ IssuerCertServiceObs(isDeleting, m) \in Seq(StepSet)
           /\ Range(IssuerCertServiceObs(isDeleting, m)) =
                  {Step(IF isDeleting THEN "revoke" ELSE "issue", c) :
                      c \in CertComponents \cap Range(m.comps)}
<1> DEFINE op == IF isDeleting THEN "revoke" ELSE "issue"
           ss == [i \in DOMAIN m.comps |->
                     When(m.comps[i] \in CertComponents, <<Step(op, m.comps[i])>>)]
<1>1. m.comps \in Seq(Components) /\ Len(m.comps) <= 3
  BY ModuleFacts
<1>2. \A c \in CertComponents : Step(op, c) \in StepSet
  <2>1. op \in Removals \cup Puts /\ CertComponents \subseteq Objects
    BY DEF Removals, Puts, Objects
  <2> QED BY <2>1, StepFacts
<1>3. ASSUME NEW i \in DOMAIN m.comps
      PROVE  /\ ss[i] \in Seq(StepSet)
             /\ Range(ss[i]) = IF m.comps[i] \in CertComponents THEN {Step(op, m.comps[i])} ELSE {}
  <2> HIDE DEF op
  <2>1. ss[i] = IF m.comps[i] \in CertComponents THEN <<Step(op, m.comps[i])>> ELSE << >>
    BY DEF When
  <2> HIDE DEF ss
  <2>2. m.comps[i] \in CertComponents => <<Step(op, m.comps[i])>> \in Seq(StepSet)
    BY <1>2, StepFacts
  <2>3. << >> \in Seq(StepSet)
    OBVIOUS
  <2> QED BY <2>1, <2>2, <2>3, RangeOfTuples
<1>4. IssuerCertServiceObs(isDeleting, m) = FlattenSeq(ss)
  BY DEF IssuerCertServiceObs
<1>5. ss \in Seq(Seq(StepSet)) /\ Len(ss) <= 3 /\ DOMAIN ss = DOMAIN m.comps
  <2>1. DOMAIN ss = DOMAIN m.comps /\ ss = [i \in DOMAIN m.comps |-> ss[i]]
    OBVIOUS
  <2> HIDE DEF ss
  <2>2. ss \in Seq(Seq(StepSet)) /\ Len(ss) = Len(m.comps)
    BY <1>1, <1>3, <2>1, MapFacts
  <2> QED BY <1>1, <2>1, <2>2
<1> HIDE DEF ss
<1>6. FlattenSeq(ss) \in Seq(StepSet) /\ Range(FlattenSeq(ss)) = UNION {Range(ss[i]) : i \in DOMAIN ss}
  BY <1>5, FlattenRange
<1> HIDE DEF op
<1>7. UNION {Range(ss[i]) : i \in DOMAIN ss} = {Step(op, c) : c \in CertComponents \cap Range(m.comps)}
  <2>1. Range(m.comps) = {m.comps[i] : i \in DOMAIN m.comps}
    BY DEF Range
  <2>2. \A i \in DOMAIN ss :
            Range(ss[i]) = IF m.comps[i] \in CertComponents THEN {Step(op, m.comps[i])} ELSE {}
    BY <1>3, <1>5
  <2>3. DOMAIN ss = DOMAIN m.comps
    BY <1>5
  <2>4. ASSUME NEW i \in DOMAIN ss, NEW s \in Range(ss[i])
        PROVE  s \in {Step(op, c) : c \in CertComponents \cap Range(m.comps)}
    <3>1. m.comps[i] \in CertComponents /\ s = Step(op, m.comps[i])
      BY <2>2
    <3>2. m.comps[i] \in Range(m.comps)
      BY <2>1, <2>3
    <3> QED BY <3>1, <3>2
  <2>5. ASSUME NEW c \in CertComponents \cap Range(m.comps)
        PROVE  \E i \in DOMAIN ss : Step(op, c) \in Range(ss[i])
    <3>1. PICK i \in DOMAIN m.comps : c = m.comps[i]
      BY <2>1
    <3>2. Range(ss[i]) = {Step(op, c)}
      BY <2>2, <2>3, <3>1
    <3> QED BY <2>3, <3>2
  <2> QED BY <2>4, <2>5
<1> QED BY <1>4, <1>6, <1>7 DEF op

\* The steps of a list of components.
LEMMA ComponentsSteps ==
    ASSUME NEW comps \in Seq(Components), Len(comps) <= 3, NEW isDeleting \in BOOLEAN, NEW steps,
           steps = FlattenSeq([i \in DOMAIN comps |-> ReconcileComponent(isDeleting, comps[i])])
    PROVE  /\ steps \in Seq(StepSet)
           /\ Range(steps) = UNION {Range(ReconcileComponent(isDeleting, c)) : c \in Range(comps)}
<1> DEFINE ss == [i \in DOMAIN comps |-> ReconcileComponent(isDeleting, comps[i])]
<1>1. \A i \in DOMAIN comps : ss[i] = ReconcileComponent(isDeleting, comps[i])
  OBVIOUS
<1>2. \A i \in DOMAIN comps : ss[i] \in Seq(StepSet)
  <2>1. \A i \in DOMAIN comps : comps[i] \in Components
    OBVIOUS
  <2>2. isDeleting = TRUE \/ isDeleting = FALSE
    OBVIOUS
  <2> QED BY <1>1, <2>1, <2>2, ComponentSteps
<1>3. DOMAIN ss = DOMAIN comps /\ ss = [i \in DOMAIN comps |-> ss[i]] /\ steps = FlattenSeq(ss)
  OBVIOUS
<1> HIDE DEF ss
<1>4. ss \in Seq(Seq(StepSet)) /\ Len(ss) = Len(comps)
  BY <1>2, <1>3, MapFacts
<1>5. steps \in Seq(StepSet) /\ Range(steps) = UNION {Range(ss[i]) : i \in DOMAIN ss}
  BY <1>3, <1>4, FlattenRange
<1>6. Range(comps) = {comps[i] : i \in DOMAIN comps}
  BY DEF Range
<1> QED BY <1>1, <1>3, <1>5, <1>6

\* The components to clean up.
LEMMA DroppedFacts ==
    ASSUME NEW old \in Specs, NEW m \in Specs
    PROVE  /\ DroppedComponents(old, m) \in Seq(Components) /\ Len(DroppedComponents(old, m)) <= 3
           /\ Range(DroppedComponents(old, m)) = Range(old.comps) \ Range(m.comps)
<1> DEFINE ss == [i \in DOMAIN old.comps |->
                     When(~Contains(m.comps, old.comps[i]), <<old.comps[i]>>)]
<1>1. old.comps \in Seq(Components) /\ Len(old.comps) <= 3
  BY ModuleFacts
<1>2. ASSUME NEW i \in DOMAIN old.comps
      PROVE  /\ ss[i] \in Seq(Components) /\ Len(ss[i]) <= 1
             /\ Range(ss[i]) = IF old.comps[i] \notin Range(m.comps) THEN {old.comps[i]} ELSE {}
  <2>1. ss[i] = IF old.comps[i] \notin Range(m.comps) THEN <<old.comps[i]>> ELSE << >>
    BY ModuleFacts DEF When
  <2>2. /\ <<old.comps[i]>> \in Seq(Components) /\ << >> \in Seq(Components)
        /\ Len(<<old.comps[i]>>) <= 1 /\ Len(<< >>) <= 1
    BY <1>1
  <2> HIDE DEF ss
  <2> QED BY <2>1, <2>2, RangeOfTuples
<1>3. DOMAIN ss = DOMAIN old.comps /\ ss = [i \in DOMAIN old.comps |-> ss[i]]
      /\ DroppedComponents(old, m) = FlattenSeq(ss)
  BY DEF DroppedComponents
<1> HIDE DEF ss
<1>4. ss \in Seq(Seq(Components)) /\ Len(ss) = Len(old.comps)
  BY <1>1, <1>2, <1>3, MapFacts
<1>5. /\ FlattenSeq(ss) \in Seq(Components)
      /\ Range(FlattenSeq(ss)) = UNION {Range(ss[i]) : i \in DOMAIN ss}
  BY <1>1, <1>4, FlattenRange
<1>6. Range(old.comps) = {old.comps[i] : i \in DOMAIN old.comps}
  BY DEF Range
<1>7. Range(FlattenSeq(ss)) = Range(old.comps) \ Range(m.comps)
  <2> DEFINE R(i) == IF old.comps[i] \notin Range(m.comps) THEN {old.comps[i]} ELSE {}
  <2>1. Range(FlattenSeq(ss)) = UNION {R(i) : i \in DOMAIN old.comps}
    <3>1. \A i \in DOMAIN ss : Range(ss[i]) = R(i)
      BY <1>2, <1>3
    <3> HIDE DEF R
    <3>2. {Range(ss[i]) : i \in DOMAIN ss} = {R(i) : i \in DOMAIN old.comps}
      BY <1>3, <3>1
    <3> QED BY <1>5, <3>2
  <2>2. UNION {R(i) : i \in DOMAIN old.comps} = Range(old.comps) \ Range(m.comps)
    BY <1>6
  <2> QED BY <2>1, <2>2
<1>8. Len(FlattenSeq(ss)) <= 3
  <2>1. \A i \in DOMAIN ss : Len(ss[i]) <= 1
    BY <1>2, <1>3
  <2> QED BY <1>1, <1>4, <2>1, FlattenShort
<1> QED BY <1>3, <1>5, <1>7, <1>8

\* reconcileObservability as a removal: the objects of the components, and
\* the certificates of all the components of the CR.
LEMMA RemovalSteps ==
    ASSUME NEW m \in Specs, NEW components \in Seq(Components), Len(components) <= 3, NEW comps,
           comps = IF components = << >> THEN m.comps ELSE components,
           NEW steps, steps = reconcileObservability(TRUE, m, components)
    PROVE  /\ steps \in Seq(StepSet) /\ \A s \in Range(steps) : s.op \in Removals
           /\ \A o \in Objects \ ({"certCRDs"} \cup CertComponents) :
                  ComponentOf(o) \in Range(comps) => o \in Removed(Range(steps))
           /\ CertComponents \cap Range(m.comps) \subseteq Removed(Range(steps))
<1> DEFINE a == FlattenSeq([i \in DOMAIN comps |-> ReconcileComponent(TRUE, comps[i])])
           b == When(~TRUE /\ Contains(m.comps, "cert-manager"), <<Step("gate", "certManager")>>)
           d == IssuerCertServiceObs(TRUE, m)
<1>c. \A s, t \in Seq(StepSet) : s \o t \in Seq(StepSet) /\ Range(s \o t) = Range(s) \cup Range(t)
  BY ConcatRange
<1>1. comps \in Seq(Components) /\ Len(comps) <= 3 /\ Range(comps) \subseteq Components
  BY ModuleFacts, RangeType
<1>2. /\ a \in Seq(StepSet)
      /\ Range(a) = UNION {Range(ReconcileComponent(TRUE, c)) : c \in Range(comps)}
  BY <1>1, ComponentsSteps
<1>3. b = << >>
  BY DEF When
<1>4. d \in Seq(StepSet) /\ Range(d) = {Step("revoke", c) : c \in CertComponents \cap Range(m.comps)}
  BY CertificateSteps
<1>5. steps = (a \o b) \o d
  BY DEF reconcileObservability
<1> HIDE DEF a, b, d
<1>6. a \o b = a
  BY <1>2, <1>3
<1>7. steps \in Seq(StepSet) /\ Range(steps) = Range(a) \cup Range(d)
  <2>1. a \o d \in Seq(StepSet) /\ Range(a \o d) = Range(a) \cup Range(d)
    BY <1>c, <1>2, <1>4
  <2>2. steps = a \o d
    BY <1>5, <1>6
  <2> QED BY <2>1, <2>2
<1>8. \A s \in Range(a) : s.op \in Removals
  BY <1>1, <1>2, ComponentSteps
<1>9. \A s \in Range(d) : s.op \in Removals
  BY <1>4 DEF Step, Removals
<1>10. ASSUME NEW o \in Objects \ ({"certCRDs"} \cup CertComponents), ComponentOf(o) \in Range(comps)
       PROVE  o \in Removed(Range(steps))
  <2>1. o \in Removed(Range(ReconcileComponent(TRUE, ComponentOf(o))))
    BY <1>1, <1>10, ComponentSteps
  <2>2. Range(ReconcileComponent(TRUE, ComponentOf(o))) \subseteq Range(steps)
    BY <1>2, <1>7, <1>10
  <2> QED BY <2>1, <2>2 DEF Removed
<1>11. ASSUME NEW c \in CertComponents \cap Range(m.comps) PROVE c \in Removed(Range(steps))
  <2>1. Step("revoke", c) \in Range(steps)
    BY <1>4, <1>7
  <2> QED BY <2>1, StepFacts DEF Removals
<1> QED BY <1>7, <1>8, <1>9, <1>10, <1>11

\* reconcileObservability when the module is deployed: what it applies belongs
\* to the components of the module.
LEMMA DeploySteps ==
    ASSUME NEW m \in Specs, m.on, NEW steps, steps = reconcileObservability(FALSE, m, << >>)
    PROVE  /\ steps \in Seq(StepSet)
           /\ \A s \in Range(steps) :
                  \/ s.op \in Puts /\ s.obj \in Desired(m) \cup {"certCRDs"}
                  \/ s.op = "gate"
<1> DEFINE a == FlattenSeq([i \in DOMAIN m.comps |-> ReconcileComponent(FALSE, m.comps[i])])
           b == When(~FALSE /\ Contains(m.comps, "cert-manager"), <<Step("gate", "certManager")>>)
           d == IssuerCertServiceObs(FALSE, m)
<1>c. \A s, t \in Seq(StepSet) : s \o t \in Seq(StepSet) /\ Range(s \o t) = Range(s) \cup Range(t)
  BY ConcatRange
<1>1. m.comps \in Seq(Components) /\ Len(m.comps) <= 3 /\ Range(m.comps) \subseteq Components
  BY ModuleFacts
<1>2. /\ a \in Seq(StepSet)
      /\ Range(a) = UNION {Range(ReconcileComponent(FALSE, c)) : c \in Range(m.comps)}
  BY <1>1, ComponentsSteps
<1>3. b \in Seq(StepSet) /\ \A s \in Range(b) : s.op = "gate"
  <2>1. Step("gate", "certManager") \in StepSet /\ Step("gate", "certManager").op = "gate"
    BY DEF Step, StepSet
  <2>2. /\ <<Step("gate", "certManager")>> \in Seq(StepSet)
        /\ Range(<<Step("gate", "certManager")>>) = {Step("gate", "certManager")}
    BY <2>1, StepFacts, RangeOfTuples
  <2>3. << >> \in Seq(StepSet) /\ Range(<< >>) = {}
    BY RangeOfTuples
  <2> QED BY <2>1, <2>2, <2>3 DEF When
<1>4. d \in Seq(StepSet) /\ Range(d) = {Step("issue", c) : c \in CertComponents \cap Range(m.comps)}
  BY CertificateSteps
<1>5. steps = (a \o b) \o d
  BY DEF reconcileObservability
<1> HIDE DEF a, b, d
<1>6. a \o b \in Seq(StepSet) /\ Range(a \o b) = Range(a) \cup Range(b)
  BY <1>c, <1>2, <1>3
<1>7. steps \in Seq(StepSet) /\ Range(steps) = Range(a \o b) \cup Range(d)
  BY <1>c, <1>4, <1>5, <1>6
<1>8. \A s \in Range(a) : s.op \in Puts /\ s.obj \in Desired(m) \cup {"certCRDs"}
  <2> SUFFICES ASSUME NEW c \in Range(m.comps), NEW s \in Range(ReconcileComponent(FALSE, c))
               PROVE  s.op \in Puts /\ s.obj \in Desired(m) \cup {"certCRDs"}
    BY <1>2
  <2>1. s.op \in Puts /\ s.obj \in Objects /\ ComponentOf(s.obj) = c
    BY <1>1, ComponentSteps
  <2> QED BY <2>1, DesiredFacts
<1>9. \A s \in Range(d) : s.op \in Puts /\ s.obj \in Desired(m)
  <2> SUFFICES ASSUME NEW c \in CertComponents \cap Range(m.comps)
               PROVE  Step("issue", c).op \in Puts /\ Step("issue", c).obj \in Desired(m)
    BY <1>4
  <2>1. c \in Desired(m)
    BY DesiredFacts
  <2>2. Step("issue", c).op = "issue" /\ Step("issue", c).obj = c
    BY DEF Step
  <2> QED BY <2>1, <2>2 DEF Puts
<1> QED BY <1>3, <1>6, <1>7, <1>8, <1>9

Composed(p, a, x, b, d) == p = ((a \o <<x>>) \o b) \o d

\* Removals, a save, and steps of other kinds.
LEMMA OrderedPlan ==
    ASSUME NEW a \in Seq(StepSet), NEW x \in StepSet, NEW b \in Seq(StepSet), NEW d \in Seq(StepSet),
           \A s \in Range(a) : s.op \in Removals, x.op = "save",
           \A s \in Range(b) \cup Range(d) : s.op \notin Removals \cup {"save"},
           NEW p, Composed(p, a, x, b, d)
    PROVE  /\ p \in Seq(StepSet) /\ Ordered(p)
           /\ Range(p) = Range(a) \cup {x} \cup Range(b) \cup Range(d)
<1> DEFINE q == a \o <<x>>
           r == q \o b
<1>c. \A s, t \in Seq(StepSet) : s \o t \in Seq(StepSet) /\ Range(s \o t) = Range(s) \cup Range(t)
  BY ConcatRange
<1>d. \A s, t \in Seq(StepSet) : \A i \in DOMAIN (s \o t) :
          \/ i \in 1..Len(s) /\ (s \o t)[i] = s[i]
          \/ i > Len(s) /\ (s \o t)[i] \in Range(t)
  BY DEF Range
<1>1. q \in Seq(StepSet) /\ Len(q) = Len(a) + 1 /\ Range(q) = Range(a) \cup {x}
      /\ q[Len(a) + 1] = x /\ \A i \in 1..Len(a) : q[i] = a[i]
  <2>1. <<x>> \in Seq(StepSet) /\ Range(<<x>>) = {x}
    BY RangeOfTuples
  <2>2. q \in Seq(StepSet) /\ Range(q) = Range(a) \cup Range(<<x>>)
    BY <1>c, <2>1
  <2>3. Len(q) = Len(a) + 1 /\ q[Len(a) + 1] = x /\ \A i \in 1..Len(a) : q[i] = a[i]
    OBVIOUS
  <2> QED BY <2>1, <2>2, <2>3
<1> HIDE DEF q
<1>2. r \in Seq(StepSet) /\ Range(r) = Range(q) \cup Range(b)
  BY <1>c, <1>1
<1>3. \A i \in DOMAIN r : (i \in 1..Len(q) /\ r[i] = q[i]) \/ (i > Len(q) /\ r[i] \in Range(b))
  BY <1>d, <1>1
<1>4. p = r \o d
  BY DEF q, Composed
<1>l. Len(q) <= Len(r) /\ Len(q) \in Nat /\ Len(r) \in Nat /\ DOMAIN r = 1..Len(r) /\ Len(a) \in Nat
  BY <1>1
<1> HIDE DEF r
<1>5. p \in Seq(StepSet) /\ Range(p) = Range(r) \cup Range(d)
  <2>1. r \o d \in Seq(StepSet) /\ Range(r \o d) = Range(r) \cup Range(d)
    BY <1>c, <1>2
  <2> QED BY <1>4, <2>1
<1>6. \A i \in DOMAIN p : (i \in 1..Len(r) /\ p[i] = r[i]) \/ (i > Len(r) /\ p[i] \in Range(d))
  BY <1>d, <1>2, <1>4
<1>7. \A i \in DOMAIN p : \/ i \in 1..Len(q) /\ p[i] = q[i]
                          \/ i > Len(q) /\ p[i] \in Range(b) \cup Range(d)
  <2> SUFFICES ASSUME NEW i \in DOMAIN p
               PROVE  \/ i \in 1..Len(q) /\ p[i] = q[i]
                      \/ i > Len(q) /\ p[i] \in Range(b) \cup Range(d)
    OBVIOUS
  <2>1. CASE i \in 1..Len(r) /\ p[i] = r[i]
    BY <1>3, <1>l, <2>1
  <2>2. CASE i > Len(r) /\ p[i] \in Range(d)
    <3>1. i \in Nat
      BY <1>5
    <3>2. i > Len(q)
      BY <1>l, <2>2, <3>1
    <3> QED BY <2>2, <3>2
  <2> QED BY <1>6, <2>1, <2>2
<1>8. \A i \in DOMAIN p : \/ i <= Len(a) /\ p[i].op \in Removals
                          \/ i = Len(a) + 1 /\ p[i].op = "save"
                          \/ i > Len(a) + 1 /\ p[i].op \notin Removals \cup {"save"}
  <2> SUFFICES ASSUME NEW i \in DOMAIN p
               PROVE  \/ i <= Len(a) /\ p[i].op \in Removals
                      \/ i = Len(a) + 1 /\ p[i].op = "save"
                      \/ i > Len(a) + 1 /\ p[i].op \notin Removals \cup {"save"}
    OBVIOUS
  <2>1. CASE i \in 1..Len(a)
    <3>1. i \in 1..Len(q) /\ ~(i > Len(q)) /\ i <= Len(a)
      BY <1>1, <1>l, <2>1
    <3>2. p[i] = a[i] /\ a[i] \in Range(a)
      BY <1>1, <1>7, <2>1, <3>1 DEF Range
    <3> QED BY <3>1, <3>2
  <2>2. CASE i = Len(a) + 1
    <3>1. i \in 1..Len(q) /\ ~(i > Len(q))
      BY <1>1, <1>l, <2>2
    <3> QED BY <1>1, <1>7, <2>2, <3>1
  <2>3. CASE i > Len(a) + 1
    <3>1. i \notin 1..Len(q)
      BY <1>1, <1>l, <2>3
    <3>2. p[i] \in Range(b) \cup Range(d)
      BY <1>7, <3>1
    <3> QED BY <2>3, <3>2
  <2>4. i \in Nat /\ i >= 1
    BY <1>5
  <2>5. i \in 1..Len(a) \/ i = Len(a) + 1 \/ i > Len(a) + 1
    <3> DEFINE n == Len(a)
    <3>1. n \in Nat
      BY <1>l
    <3> HIDE DEF n
    <3>2. i \in 1..n \/ i = n + 1 \/ i > n + 1
      BY <2>4, <3>1
    <3> QED BY <3>2 DEF n
  <2> QED BY <2>1, <2>2, <2>3, <2>5
<1>9. Ordered(p)
  <2> SUFFICES ASSUME NEW i \in DOMAIN p, NEW j \in DOMAIN p, p[i].op = "save"
               PROVE  (j < i => p[j].op \in Removals) /\ (j > i => p[j].op \notin Removals \cup {"save"})
    BY DEF Ordered
  <2>1. i = Len(a) + 1
    BY <1>8 DEF Removals
  <2>2. i \in Nat /\ j \in Nat
    BY <1>5
  <2>3. ASSUME j < i PROVE p[j].op \in Removals
    <3>1. ~(j = Len(a) + 1) /\ ~(j > Len(a) + 1)
      BY <1>l, <2>1, <2>2, <2>3
    <3> QED BY <1>8, <3>1
  <2>4. ASSUME j > i PROVE p[j].op \notin Removals \cup {"save"}
    <3>1. ~(j = Len(a) + 1) /\ ~(j <= Len(a))
      BY <1>l, <2>1, <2>2, <2>4
    <3> QED BY <1>8, <3>1
  <2> QED BY <2>3, <2>4
<1> QED BY <1>1, <1>2, <1>5, <1>9

\* What SyncCSM does with observability: the removals of the cleanup, the save,
\* and the application of what the module names.  The removals leave nothing
\* that the annotation named and the module does not.
LEMMA SyncFacts ==
    ASSUME NEW prev \in {<< >>} \cup {<<o>> : o \in Specs}, NEW m \in Specs,
           NEW p, p = SyncPlan(prev, m)
    PROVE  /\ p \in Seq(StepSet) /\ Ordered(p) /\ Saves(Range(p))
           /\ \A s \in Range(p) : s.op \in Puts => s.obj \in Desired(m) \cup {"certCRDs"}
           /\ prev # << >> => Desired(prev[1]) \ Removed(Range(p)) \subseteq Desired(m)
<1> DEFINE old == prev[1]
           dropped == DroppedComponents(prev[1], m)
           cleans == prev # << >> /\ prev[1].on /\ (~m.on \/ dropped # << >>)
           comps == IF m.on THEN dropped ELSE << >>
           a == When(cleans, reconcileObservability(TRUE, prev[1], comps))
           x == Step("save", "cr")
           y == Step("driver", "cr")
           d == When(m.on, reconcileObservability(FALSE, m, << >>))
<1>1. p = ((a \o <<x>>) \o <<y>>) \o d
  BY DEF SyncPlan, CleanupSteps
<1>2. x \in StepSet /\ y \in StepSet /\ x.op = "save" /\ y.op = "driver"
  BY DEF Step, StepSet
<1>3. /\ d \in Seq(StepSet)
      /\ \A s \in Range(d) : (s.op \in Puts /\ s.obj \in Desired(m) \cup {"certCRDs"}) \/ s.op = "gate"
  <2>1. CASE m.on
    BY <2>1, DeploySteps DEF When
  <2>2. CASE ~m.on
    <3>1. d = << >>
      BY <2>2 DEF When
    <3> HIDE DEF d
    <3> QED BY <3>1, RangeOfTuples
  <2> QED BY <2>1, <2>2
<1>4. prev # << >> => old \in Specs
  OBVIOUS
<1>5. cleans => /\ comps \in Seq(Components) /\ Len(comps) <= 3
                /\ Range(comps) = IF m.on THEN Range(old.comps) \ Range(m.comps) ELSE {}
                /\ comps = << >> <=> ~m.on
  <2>1. << >> \in Seq(Components) /\ Len(<< >>) <= 3 /\ Range(<< >>) = {}
    BY RangeOfTuples
  <2>2. cleans => dropped \in Seq(Components) /\ Len(dropped) <= 3
                  /\ Range(dropped) = Range(old.comps) \ Range(m.comps)
    BY <1>4, DroppedFacts
  <2> HIDE DEF dropped
  <2> QED BY <2>1, <2>2
<1> HIDE DEF comps
<1>6. cleans =>
        /\ a \in Seq(StepSet) /\ \A s \in Range(a) : s.op \in Removals
        /\ \A o \in Objects \ ({"certCRDs"} \cup CertComponents) :
               ComponentOf(o) \in Range(IF comps = << >> THEN old.comps ELSE comps)
               => o \in Removed(Range(a))
        /\ CertComponents \cap Range(old.comps) \subseteq Removed(Range(a))
  BY <1>4, <1>5, RemovalSteps DEF When
<1>7. ~cleans => a = << >>
  BY DEF When
<1> HIDE DEF a, x, y, d
<1>8. a \in Seq(StepSet) /\ \A s \in Range(a) : s.op \in Removals
  <2>1. << >> \in Seq(StepSet) /\ Range(<< >>) = {}
    BY RangeOfTuples
  <2> QED BY <1>6, <1>7, <2>1
<1>9. <<y>> \in Seq(StepSet) /\ Range(<<y>>) = {y}
  BY <1>2, RangeOfTuples
<1>10. \A s \in Range(<<y>>) \cup Range(d) : s.op \notin Removals \cup {"save"}
  BY <1>2, <1>3, <1>9 DEF Removals, Puts
<1>11. p \in Seq(StepSet) /\ Ordered(p) /\ Range(p) = Range(a) \cup {x} \cup Range(<<y>>) \cup Range(d)
  <2> DEFINE b == <<y>>
  <2>1. b \in Seq(StepSet) /\ (\A s \in Range(b) \cup Range(d) : s.op \notin Removals \cup {"save"})
    BY <1>9, <1>10
  <2>2. Composed(p, a, x, b, d)
    BY <1>1 DEF Composed
  <2> HIDE DEF b
  <2>3. p \in Seq(StepSet) /\ Ordered(p) /\ Range(p) = Range(a) \cup {x} \cup Range(b) \cup Range(d)
    <3>1. a \in Seq(StepSet) /\ x \in StepSet /\ b \in Seq(StepSet) /\ d \in Seq(StepSet) /\ x.op = "save"
      BY <1>2, <1>3, <1>8, <2>1
    <3>2. \A s \in Range(a) : s.op \in Removals
      BY <1>8
    <3>3. \A s \in Range(b) \cup Range(d) : s.op \notin Removals \cup {"save"}
      BY <2>1
    <3> QED BY <2>2, <3>1, <3>2, <3>3, OrderedPlan
  <2> QED BY <2>3 DEF b
<1>12. Saves(Range(p))
  BY <1>2, <1>11 DEF Saves
<1>13. \A s \in Range(p) : s.op \in Puts => s.obj \in Desired(m) \cup {"certCRDs"}
  BY <1>2, <1>3, <1>8, <1>9, <1>11 DEF Removals, Puts
<1>14. Removed(Range(a)) \subseteq Removed(Range(p))
  BY <1>11 DEF Removed
<1>15. ASSUME prev # << >>, NEW o \in Desired(old), o \notin Desired(m)
       PROVE  o \in Removed(Range(p))
  <2>1. old \in Specs /\ old.on /\ o \in Objects \ {"certCRDs"} /\ ComponentOf(o) \in Range(old.comps)
    BY <1>4, <1>15, DesiredFacts
  <2>2. ~m.on \/ ComponentOf(o) \notin Range(m.comps)
    BY <1>15, <2>1, DesiredFacts
  <2>3. m.on => dropped # << >>
    <3>1. m.on => Range(dropped) # {}
      BY <2>1, <2>2, DroppedFacts
    <3> HIDE DEF dropped
    <3> QED BY <3>1, RangeOfTuples
  <2>4. cleans
    BY <1>15, <2>1, <2>3
  <2>5. CASE o \in CertComponents
    BY <1>6, <1>14, <2>1, <2>4, <2>5, DesiredFacts
  <2>6. CASE o \notin CertComponents
    <3>1. ComponentOf(o) \in Range(IF comps = << >> THEN old.comps ELSE comps)
      BY <1>5, <2>1, <2>2, <2>4
    <3> QED BY <1>6, <1>14, <2>1, <2>4, <2>6, <3>1
  <2> QED BY <2>5, <2>6
<1> QED BY <1>11, <1>12, <1>13, <1>15

\* The deletion branch removes and releases; it records nothing.
LEMMA RemovalFacts ==
    ASSUME NEW m \in Specs, NEW p, p = RemovalPlan(m)
    PROVE  p \in Seq(StepSet) /\ \A s \in Range(p) : s.op \in Removals \cup {"release"}
<1> DEFINE a == When(m.on, reconcileObservability(TRUE, m, << >>))
           x == Step("release", "cr")
<1>1. p = a \o <<x>>
  BY DEF RemovalPlan
<1>2. x \in StepSet /\ x.op = "release"
  BY DEF Step, StepSet
<1>3. a \in Seq(StepSet) /\ \A s \in Range(a) : s.op \in Removals
  <2>1. CASE m.on
    <3>1. << >> \in Seq(Components) /\ Len(<< >>) <= 3
      OBVIOUS
    <3> QED BY <2>1, <3>1, RemovalSteps DEF When
  <2>2. CASE ~m.on
    <3>1. a = << >>
      BY <2>2 DEF When
    <3> HIDE DEF a
    <3> QED BY <3>1, RangeOfTuples
  <2> QED BY <2>1, <2>2
<1> HIDE DEF a, x
<1>4. <<x>> \in Seq(StepSet) /\ Range(<<x>>) = {x}
  BY <1>2, RangeOfTuples
<1>5. \A s, t \in Seq(StepSet) : s \o t \in Seq(StepSet) /\ Range(s \o t) = Range(s) \cup Range(t)
  BY ConcatRange
<1>6. a \o <<x>> \in Seq(StepSet) /\ Range(a \o <<x>>) = Range(a) \cup Range(<<x>>)
  BY <1>3, <1>4, <1>5
<1> QED BY <1>1, <1>2, <1>3, <1>4, <1>6

\* What is left of a plan after its first step.
LEMMA TailFacts ==
    ASSUME NEW p \in Seq(StepSet), p # << >>, Ordered(p)
    PROVE  /\ Head(p) \in StepSet /\ Tail(p) \in Seq(StepSet) /\ Ordered(Tail(p))
           /\ Range(p) = {Head(p)} \cup Range(Tail(p))
           /\ Head(p).op = "save" => \A s \in Range(Tail(p)) : s.op \notin Removals \cup {"save"}
           /\ Head(p).op \notin Removals \cup {"save"} => \A s \in Range(p) : s.op # "save"
<1>1. /\ Len(p) \in Nat /\ Len(p) >= 1 /\ DOMAIN p = 1..Len(p) /\ Head(p) = p[1] /\ 1 \in DOMAIN p
      /\ Head(p) \in StepSet /\ Tail(p) \in Seq(StepSet)
      /\ DOMAIN Tail(p) = 1..(Len(p) - 1)
      /\ \A i \in DOMAIN Tail(p) : Tail(p)[i] = p[i + 1] /\ i + 1 \in DOMAIN p /\ i \in Nat /\ i + 1 > 1
  OBVIOUS
<1>2. \A j \in DOMAIN p : j = 1 \/ (j > 1 /\ j - 1 \in DOMAIN Tail(p) /\ p[j] = Tail(p)[j - 1])
  BY <1>1
<1>3. Range(p) = {Head(p)} \cup Range(Tail(p))
  BY TailRange
<1>4. Ordered(Tail(p))
  <2> SUFFICES ASSUME NEW i \in DOMAIN Tail(p), NEW j \in DOMAIN Tail(p), Tail(p)[i].op = "save"
               PROVE  /\ j < i => Tail(p)[j].op \in Removals
                      /\ j > i => Tail(p)[j].op \notin Removals \cup {"save"}
    BY DEF Ordered
  <2>1. /\ i + 1 \in DOMAIN p /\ j + 1 \in DOMAIN p /\ p[i + 1].op = "save" /\ Tail(p)[j] = p[j + 1]
        /\ i \in Nat /\ j \in Nat
    BY <1>1
  <2>2. /\ j + 1 < i + 1 => p[j + 1].op \in Removals
        /\ j + 1 > i + 1 => p[j + 1].op \notin Removals \cup {"save"}
    BY <2>1 DEF Ordered
  <2>3. (j < i => j + 1 < i + 1) /\ (j > i => j + 1 > i + 1)
    BY <2>1
  <2> QED BY <2>1, <2>2, <2>3
<1>5. Head(p).op = "save" => \A s \in Range(Tail(p)) : s.op \notin Removals \cup {"save"}
  <2> SUFFICES ASSUME p[1].op = "save", NEW i \in DOMAIN Tail(p)
               PROVE  Tail(p)[i].op \notin Removals \cup {"save"}
    BY <1>1 DEF Range
  <2> QED BY <1>1 DEF Ordered
<1>6. Head(p).op \notin Removals \cup {"save"} => \A s \in Range(p) : s.op # "save"
  <2> SUFFICES ASSUME p[1].op \notin Removals \cup {"save"}, NEW i \in DOMAIN p, p[i].op = "save"
               PROVE  FALSE
    BY <1>1 DEF Range
  <2>1. i # 1 /\ 1 < i
    BY <1>1
  <2> QED BY <1>1, <2>1 DEF Ordered
<1> QED BY <1>1, <1>3, <1>4, <1>5, <1>6

(***************************************************************************)
(* The inductive invariant, as a predicate of the values it relates.       *)
(***************************************************************************)
PlanFine(p, c, prev, kept) ==
    /\ p \in Seq(StepSet) /\ Ordered(p)
    /\ \A s \in Range(p) : s.op \in Puts => s.obj \in Desired(c) \cup {"certCRDs"}
    /\ Applies(Range(p)) /\ ~Saves(Range(p)) => prev = <<c>>
    /\ Saves(Range(p)) => kept \ Removed(Range(p)) \subseteq Desired(c)

KeptFine(prev, kept) == kept \subseteq IF prev = << >> THEN {} ELSE Desired(prev[1])

\* The part of TypeOK that is not about the plan.
RestTypeOK ==
    /\ cr \in [exists : BOOLEAN, deleting : BOOLEAN, module : Specs,
               prev : {<< >>} \cup {<<m>> : m \in Specs}]
    /\ {queued, working, current, ready, seenReady} \subseteq BOOLEAN /\ copy \in Specs
    /\ cluster \subseteq Objects /\ abandoned \subseteq cluster
    /\ edits \in 0..MaxEdits /\ faults \in 0..MaxFaults

Fine == RestTypeOK /\ PlanFine(plan, copy, cr.prev, Kept) /\ KeptFine(cr.prev, Kept)

LEMMA PlanObjects ==
    ASSUME NEW p \in Seq(StepSet)
    PROVE  \A i \in DOMAIN p : p[i] \in StepSet /\ p[i].obj \in Objects \cup {"cr"}
<1>1. \A s \in StepSet : s.obj \in Objects \cup {"cr"}
  BY DEF StepSet, Objects
<1>2. \A i \in DOMAIN p : p[i] \in StepSet
  OBVIOUS
<1> QED BY <1>1, <1>2

LEMMA InvariantIsFine == ObsInv <=> Fine
<1>1. plan \in Seq(StepSet) => \A i \in DOMAIN plan : plan[i].obj \in Objects \cup {"cr"}
  BY PlanObjects
<1>2. PlanTypeOK /\ PutsRecorded /\ SaveIsSafe <=> PlanFine(plan, copy, cr.prev, Kept)
  BY DEF PlanTypeOK, PutsRecorded, SaveIsSafe, PlanFine
<1>3. ComponentsRecorded <=> KeptFine(cr.prev, Kept)
  BY DEF ComponentsRecorded, KeptFine, Kept
<1>4. PlanFine(plan, copy, cr.prev, Kept) => plan \in Seq(StepSet)
  BY DEF PlanFine
<1>5. TypeOK <=> RestTypeOK /\ \A i \in DOMAIN plan : plan[i].obj \in Objects \cup {"cr"}
  BY DEF TypeOK, RestTypeOK
<1> QED BY <1>1, <1>2, <1>3, <1>4, <1>5 DEF ObsInv, Fine

\* Plans without a save or an application, the empty one among them.
LEMMA NothingToRecord ==
    ASSUME NEW p \in Seq(StepSet), \A s \in Range(p) : s.op \notin Puts \cup {"save"},
           NEW c, NEW prev, NEW kept
    PROVE  PlanFine(p, c, prev, kept)
<1>1. Ordered(p)
  <2>1. \A i \in DOMAIN p : p[i].op # "save"
    BY DEF Range
  <2> QED BY <2>1 DEF Ordered
<1>2. ~Applies(Range(p)) /\ ~Saves(Range(p))
  BY DEF Applies, Saves
<1> QED BY <1>1, <1>2 DEF PlanFine

LEMMA EmptyPlan ==
    ASSUME NEW c, NEW prev, NEW kept
    PROVE  PlanFine(<< >>, c, prev, kept)
<1>1. << >> \in Seq(StepSet) /\ Range(<< >>) = {}
  BY RangeOfTuples
<1> DEFINE p == << >>
<1>2. p \in Seq(StepSet) /\ \A s \in Range(p) : s.op \notin Puts \cup {"save"}
  BY <1>1
<1> HIDE DEF p
<1>3. PlanFine(p, c, prev, kept)
  BY <1>2, NothingToRecord
<1> QED BY <1>3 DEF p

\* Fewer objects to account for.
LEMMA FewerKept ==
    ASSUME NEW p, NEW c, NEW prev, NEW kept, NEW k \in SUBSET kept
    PROVE  /\ PlanFine(p, c, prev, kept) => PlanFine(p, c, prev, k)
           /\ KeptFine(prev, kept) => KeptFine(prev, k)
<1>1. PlanFine(p, c, prev, kept) => PlanFine(p, c, prev, k)
  BY DEF PlanFine
<1>2. KeptFine(prev, kept) => KeptFine(prev, k)
  BY DEF KeptFine
<1> QED BY <1>1, <1>2

\* One step of a plan: a removal takes its object away, a save finds nothing
\* that the copy does not name, and after any other step the plan saves nothing.
LEMMA PlanStep ==
    ASSUME NEW p, p # << >>, NEW c, NEW prev, NEW kept, PlanFine(p, c, prev, kept)
    PROVE  /\ Head(p) \in StepSet
           /\ Head(p).op \in Removals =>
                  \A k : k \subseteq kept \ {Head(p).obj} => PlanFine(Tail(p), c, prev, k)
           /\ Head(p).op = "save" => /\ kept \subseteq Desired(c)
                                     /\ \A k : PlanFine(Tail(p), c, <<c>>, k)
           /\ Head(p).op \notin Removals \cup {"save"} => \A k : PlanFine(Tail(p), c, prev, k)
           /\ Head(p).op \in Puts => /\ Head(p).obj \in Desired(c) \cup {"certCRDs"}
                                     /\ prev = <<c>>
<1> DEFINE h == Head(p)
           t == Tail(p)
<1>1. p \in Seq(StepSet) /\ Ordered(p)
  BY DEF PlanFine
<1>2. /\ h \in StepSet /\ t \in Seq(StepSet) /\ Ordered(t) /\ Range(p) = {h} \cup Range(t)
      /\ h.op = "save" => \A s \in Range(t) : s.op \notin Removals \cup {"save"}
      /\ h.op \notin Removals \cup {"save"} => \A s \in Range(p) : s.op # "save"
  BY <1>1, TailFacts
<1> HIDE DEF h, t
<1>3. \A s \in Range(t) : s.op \in Puts => s.obj \in Desired(c) \cup {"certCRDs"}
  BY <1>2 DEF PlanFine
<1>4. "save" \notin Removals /\ \A o \in Puts : o \notin Removals \cup {"save"}
  BY DEF Puts, Removals
<1>5. Applies(Range(t)) => Applies(Range(p))
  BY <1>2 DEF Applies
<1>6. ASSUME h.op \in Removals, NEW k, k \subseteq kept \ {h.obj} PROVE PlanFine(t, c, prev, k)
  <2>1. Saves(Range(t)) <=> Saves(Range(p))
    BY <1>2, <1>4, <1>6 DEF Saves
  <2>2. Removed(Range(p)) = Removed(Range(t)) \cup {h.obj}
    BY <1>2, <1>6 DEF Removed
  <2>3. Saves(Range(t)) => k \ Removed(Range(t)) \subseteq Desired(c)
    BY <1>6, <2>1, <2>2 DEF PlanFine
  <2>4. Applies(Range(t)) /\ ~Saves(Range(t)) => prev = <<c>>
    BY <1>5, <2>1 DEF PlanFine
  <2> QED BY <1>2, <1>3, <2>3, <2>4 DEF PlanFine
<1>7. ASSUME h.op = "save" PROVE kept \subseteq Desired(c) /\ \A k : PlanFine(t, c, <<c>>, k)
  <2>1. Saves(Range(p)) /\ ~Saves(Range(t))
    BY <1>2, <1>7 DEF Saves
  <2>2. \A s \in Range(p) : s.op \notin Removals
    BY <1>2, <1>4, <1>7
  <2>3. Removed(Range(p)) = {}
    BY <2>2 DEF Removed
  <2>4. kept \subseteq Desired(c)
    BY <2>1, <2>3 DEF PlanFine
  <2>5. \A k : PlanFine(t, c, <<c>>, k)
    BY <1>2, <1>3, <2>1 DEF PlanFine
  <2> QED BY <2>4, <2>5
<1>8. ASSUME h.op \notin Removals \cup {"save"} PROVE \A k : PlanFine(t, c, prev, k)
  <2>1. ~Saves(Range(p)) /\ ~Saves(Range(t))
    BY <1>2, <1>8 DEF Saves
  <2>2. Applies(Range(t)) => prev = <<c>>
    BY <1>5, <2>1 DEF PlanFine
  <2> QED BY <1>2, <1>3, <2>1, <2>2 DEF PlanFine
<1>9. ASSUME h.op \in Puts PROVE h.obj \in Desired(c) \cup {"certCRDs"} /\ prev = <<c>>
  <2>1. h \in Range(p) /\ Applies(Range(p))
    BY <1>2, <1>9 DEF Applies
  <2>2. ~Saves(Range(p))
    BY <1>2, <1>4, <1>9 DEF Saves
  <2> QED BY <1>9, <2>1, <2>2 DEF PlanFine
<1> QED BY <1>2, <1>6, <1>7, <1>8, <1>9 DEF h, t

(***************************************************************************)
(* What the parts of the actions do.                                       *)
(***************************************************************************)
LEMMA Advance ==
    ASSUME Fine, plan # << >>, NextStep
    PROVE  plan' = Tail(plan) /\ copy' = copy /\ {queued', working', current'} \subseteq BOOLEAN
<1>1. plan \in Seq(StepSet) /\ {queued, working, current} \subseteq BOOLEAN
  BY DEF Fine, PlanFine, RestTypeOK
<1>2. Len(plan) = 1 => Tail(plan) = << >>
  BY <1>1, TailRange
<1> QED BY <1>1, <1>2 DEF NextStep, Return

LEMMA Returned ==
    ASSUME Return
    PROVE  plan' = << >> /\ copy' = copy /\ {working', current'} \subseteq BOOLEAN
BY DEF Return

LEMMA PutEffect ==
    ASSUME RestTypeOK, NEW o \in Objects, Put(o)
    PROVE  /\ Kept' \subseteq Kept \cup ({o} \ {"certCRDs"})
           /\ cluster' \subseteq Objects /\ abandoned' \subseteq cluster'
           /\ {ready', seenReady'} \subseteq BOOLEAN
BY DEF Put, Kept, RestTypeOK

LEMMA DropEffect ==
    ASSUME RestTypeOK, NEW o \in Objects, Drop(o)
    PROVE  /\ Kept' \subseteq Kept \ {o}
           /\ cluster' \subseteq Objects /\ abandoned' \subseteq cluster'
           /\ {ready', seenReady'} \subseteq BOOLEAN
<1>1. Kept' \subseteq Kept \ {o} /\ cluster' \subseteq Objects /\ abandoned' \subseteq cluster'
  BY DEF Drop, Kept, RestTypeOK
<1>2. {ready', seenReady'} \subseteq BOOLEAN
  BY DEF Drop, RestTypeOK
<1> QED BY <1>1, <1>2

LEMMA HeadObject ==
    ASSUME Fine, plan # << >>, Head(plan).op \in Removals \cup Puts
    PROVE  Head(plan).obj \in Objects
<1>1. Head(plan) \in StepSet
  BY PlanStep DEF Fine
<1>2. \A s \in StepSet : s.op \in Removals \cup Puts => s.obj \in Objects
  BY DEF StepSet, Removals, Puts
<1> QED BY <1>1, <1>2

LEMMA FaultCounted ==
    ASSUME RestTypeOK, Fault \/ UNCHANGED faults
    PROVE  faults' \in 0..MaxFaults
BY ConstantsAssumption DEF Fault, RestTypeOK

\* A put object is of the module that the annotation records.
LEMMA PutStep ==
    ASSUME Fine, plan # << >>, Head(plan).op \in Puts, Put(Head(plan).obj), cr' = cr
    PROVE  KeptFine(cr.prev', Kept')
<1> DEFINE o == Head(plan).obj
<1>1. o \in Desired(copy) \cup {"certCRDs"} /\ cr.prev = <<copy>>
  BY PlanStep DEF Fine
<1>2. Kept' \subseteq Kept \cup ({o} \ {"certCRDs"})
  BY HeadObject, PutEffect DEF Fine
<1>3. Kept \subseteq Desired(copy)
  BY <1>1 DEF Fine, KeptFine
<1>4. Kept' \subseteq Desired(copy)
  BY <1>1, <1>2, <1>3
<1> QED BY <1>1, <1>4 DEF KeptFine

(***************************************************************************)
(* Every step keeps the invariant.                                         *)
(***************************************************************************)
\* A reconcile that ends keeps what it leaves in the cluster accounted for.
LEMMA ReturnKeeps ==
    ASSUME Fine, Return, queued' \in BOOLEAN, cr' = cr, edits' = edits, Fault \/ UNCHANGED faults,
           \/ UNCHANGED <<cluster, ready, abandoned>> /\ seenReady' \in BOOLEAN
           \/ AtStep({"apply", "ssa"}) /\ Put(Head(plan).obj)
           \/ AtStep({"delete", "get+delete"}) /\ Drop(Head(plan).obj)
    PROVE  Fine'
<1>1. plan' = << >> /\ copy' = copy /\ {working', current'} \subseteq BOOLEAN
  BY Returned
<1>2. /\ cluster' \subseteq Objects /\ abandoned' \subseteq cluster'
      /\ {ready', seenReady'} \subseteq BOOLEAN /\ KeptFine(cr.prev', Kept')
  <2>1. CASE UNCHANGED <<cluster, ready, abandoned>> /\ seenReady' \in BOOLEAN
    BY <2>1 DEF Fine, RestTypeOK, Kept
  <2>2. CASE AtStep({"apply", "ssa"}) /\ Put(Head(plan).obj)
    <3>1. plan # << >> /\ Head(plan).op \in Puts
      BY <2>2 DEF AtStep, Puts
    <3> QED BY <2>2, <3>1, HeadObject, PutEffect, PutStep DEF Fine
  <2>3. CASE AtStep({"delete", "get+delete"}) /\ Drop(Head(plan).obj)
    <3>1. plan # << >> /\ Head(plan).op \in Removals
      BY <2>3 DEF AtStep, Removals
    <3>2. Head(plan).obj \in Objects
      BY <3>1, HeadObject
    <3>3. /\ Kept' \subseteq Kept /\ cluster' \subseteq Objects /\ abandoned' \subseteq cluster'
          /\ {ready', seenReady'} \subseteq BOOLEAN
      BY <2>3, <3>2, DropEffect DEF Fine
    <3> QED BY <3>3, FewerKept DEF Fine
  <2> QED BY <2>1, <2>2, <2>3
<1>3. faults' \in 0..MaxFaults
  BY FaultCounted DEF Fine
<1>4. RestTypeOK'
  BY <1>1, <1>2, <1>3 DEF Fine, RestTypeOK
<1>5. PlanFine(plan, copy, cr.prev, Kept)'
  BY <1>1, EmptyPlan
<1> QED BY <1>2, <1>4, <1>5 DEF Fine

\* A step of the plan that changes neither the objects nor the CR's record.
LEMMA OtherStepKeeps ==
    ASSUME Fine, plan # << >>, Head(plan).op \notin Removals \cup {"save"}, NextStep,
           \/ UNCHANGED <<cluster, ready, seenReady, abandoned>>
           \/ Head(plan).op \in Puts /\ Put(Head(plan).obj) /\ cr' = cr,
           cr' = cr \/ cr' = [cr EXCEPT !.exists = FALSE],
           edits' = edits, faults' = faults
    PROVE  Fine'
<1>1. plan' = Tail(plan) /\ copy' = copy /\ {queued', working', current'} \subseteq BOOLEAN
  BY Advance
<1>2. cr.prev' = cr.prev
  BY DEF Fine, RestTypeOK
<1>3. /\ cluster' \subseteq Objects /\ abandoned' \subseteq cluster'
      /\ {ready', seenReady'} \subseteq BOOLEAN /\ KeptFine(cr.prev', Kept')
  <2>1. CASE UNCHANGED <<cluster, ready, seenReady, abandoned>>
    BY <1>2, <2>1 DEF Fine, RestTypeOK, Kept
  <2>2. CASE Head(plan).op \in Puts /\ Put(Head(plan).obj) /\ cr' = cr
    BY <2>2, HeadObject, PutEffect, PutStep DEF Fine
  <2> QED BY <2>1, <2>2
<1>4. RestTypeOK'
  BY <1>1, <1>3 DEF Fine, RestTypeOK
<1>5. PlanFine(Tail(plan), copy, cr.prev, Kept')
  BY PlanStep DEF Fine
<1>6. PlanFine(plan, copy, cr.prev, Kept)'
  BY <1>1, <1>2, <1>5
<1> QED BY <1>3, <1>4, <1>6 DEF Fine

\* A step that removes an object, or passes over one.
LEMMA RemovalKeeps ==
    ASSUME Fine, plan # << >>, Head(plan).op \in Removals, NextStep, cr' = cr, edits' = edits,
           Fault \/ UNCHANGED faults,
           \/ Drop(Head(plan).obj)
           \/ /\ abandoned' = abandoned \cup ({Head(plan).obj} \cap cluster)
              /\ UNCHANGED <<cluster, ready, seenReady>>
    PROVE  Fine'
<1>1. plan' = Tail(plan) /\ copy' = copy /\ {queued', working', current'} \subseteq BOOLEAN
  BY Advance
<1>2. Head(plan).obj \in Objects
  BY HeadObject
<1>3. /\ Kept' \subseteq Kept \ {Head(plan).obj}
      /\ cluster' \subseteq Objects /\ abandoned' \subseteq cluster'
      /\ {ready', seenReady'} \subseteq BOOLEAN
  <2>1. CASE Drop(Head(plan).obj)
    BY <1>2, <2>1, DropEffect DEF Fine
  <2>2. CASE /\ abandoned' = abandoned \cup ({Head(plan).obj} \cap cluster)
             /\ UNCHANGED <<cluster, ready, seenReady>>
    BY <2>2 DEF Fine, RestTypeOK, Kept
  <2> QED BY <2>1, <2>2
<1>4. faults' \in 0..MaxFaults
  BY FaultCounted DEF Fine
<1>5. RestTypeOK'
  BY <1>1, <1>3, <1>4 DEF Fine, RestTypeOK
<1>6. PlanFine(Tail(plan), copy, cr.prev, Kept')
  BY <1>3, PlanStep DEF Fine
<1>7. KeptFine(cr.prev, Kept')
  BY <1>3, FewerKept DEF Fine
<1>8. PlanFine(plan, copy, cr.prev, Kept)' /\ KeptFine(cr.prev, Kept)'
  BY <1>1, <1>6, <1>7
<1> QED BY <1>5, <1>8 DEF Fine

\* A new reconcile: the annotation names all that exists, so the plan of
\* SyncCSM removes what the CR no longer names before it saves.
LEMMA ReconcileKeeps == Fine /\ Reconcile => Fine'
<1> SUFFICES ASSUME Fine, Reconcile PROVE Fine'
  OBVIOUS
<1>1. /\ cr.module \in Specs /\ cr.prev \in {<< >>} \cup {<<m>> : m \in Specs}
      /\ cr' = cr /\ copy' = cr.module
  BY DEF Fine, RestTypeOK, Reconcile
<1>2. RestTypeOK'
  BY DEF Fine, RestTypeOK, Reconcile
<1>3. Kept' \subseteq Kept
  BY DEF Reconcile, Kept
<1>4. KeptFine(cr.prev, Kept')
  BY <1>3, FewerKept DEF Fine
<1>5. PlanFine(plan', cr.module, cr.prev, Kept')
  <2>1. CASE cr.deleting
    <3>1. plan' = RemovalPlan(cr.module)
      BY <2>1 DEF Reconcile
    <3>2. plan' \in Seq(StepSet) /\ \A s \in Range(plan') : s.op \in Removals \cup {"release"}
      BY <1>1, <3>1, RemovalFacts
    <3>3. \A s \in Range(plan') : s.op \notin Puts \cup {"save"}
      BY <3>2 DEF Removals, Puts
    <3> QED BY <3>2, <3>3, NothingToRecord
  <2>2. CASE ~cr.deleting
    <3>1. plan' = SyncPlan(cr.prev, cr.module)
      BY <2>2 DEF Reconcile
    <3>2. /\ plan' \in Seq(StepSet) /\ Ordered(plan') /\ Saves(Range(plan'))
          /\ \A s \in Range(plan') : s.op \in Puts => s.obj \in Desired(cr.module) \cup {"certCRDs"}
          /\ cr.prev # << >> => Desired(cr.prev[1]) \ Removed(Range(plan')) \subseteq Desired(cr.module)
      BY <1>1, <3>1, SyncFacts
    <3>3. Kept' \ Removed(Range(plan')) \subseteq Desired(cr.module)
      BY <1>4, <3>2 DEF KeptFine
    <3> QED BY <3>2, <3>3 DEF PlanFine
  <2> QED BY <2>1, <2>2
<1> QED BY <1>1, <1>2, <1>4, <1>5 DEF Fine

\* The save: whatever still exists is named by the copy that becomes the record.
LEMMA SaveKeeps == Fine /\ SaveStep => Fine'
<1> SUFFICES ASSUME Fine, SaveStep PROVE Fine'
  OBVIOUS
<1>1. plan # << >> /\ Head(plan).op = "save"
  BY DEF SaveStep, AtStep
<1>2. CASE current
  <2>1. cr' = [cr EXCEPT !.prev = <<copy>>] /\ NextStep
    BY <1>2 DEF SaveStep
  <2>2. plan' = Tail(plan) /\ copy' = copy /\ {queued', working', current'} \subseteq BOOLEAN
    BY <1>1, <2>1, Advance
  <2>3. cr.prev' = <<copy>> /\ Kept' = Kept /\ copy \in Specs
    BY <2>1 DEF Fine, RestTypeOK, SaveStep, Kept
  <2>4. RestTypeOK'
    BY <2>1, <2>2 DEF Fine, RestTypeOK, SaveStep
  <2>5. Kept \subseteq Desired(copy) /\ PlanFine(Tail(plan), copy, <<copy>>, Kept)
    BY <1>1, PlanStep DEF Fine
  <2>6. KeptFine(<<copy>>, Kept)
    BY <2>5 DEF KeptFine
  <2>7. PlanFine(plan, copy, cr.prev, Kept)' /\ KeptFine(cr.prev, Kept)'
    BY <2>2, <2>3, <2>5, <2>6
  <2> QED BY <2>4, <2>7 DEF Fine
<1>3. CASE ~current
  <2>1. seenReady' \in BOOLEAN
    BY DEF Fine, RestTypeOK, SaveStep
  <2> QED BY <1>3, <2>1, ReturnKeeps DEF SaveStep, ReturnError
<1> QED BY <1>2, <1>3

\* Steps of the user and of the cluster that touch no object.
LEMMA OutsideKeeps ==
    ASSUME Fine, EditCR \/ WebhookUp \/ WebhookDown \/ CacheSync \/ UNCHANGED vars
    PROVE  Fine'
<1>1. UNCHANGED <<plan, copy, cluster, abandoned>> /\ cr.prev' = cr.prev
  BY DEF Fine, RestTypeOK, EditCR, WebhookUp, WebhookDown, CacheSync, vars
<1>2. Kept' = Kept
  BY <1>1 DEF Kept
<1>3. PlanFine(plan, copy, cr.prev, Kept)' /\ KeptFine(cr.prev, Kept)'
  BY <1>1, <1>2 DEF Fine
<1>4. RestTypeOK'
  <2>1. CASE EditCR
    <3>1. cr' \in [exists : BOOLEAN, deleting : BOOLEAN, module : Specs,
                    prev : {<< >>} \cup {<<m>> : m \in Specs}]
      <4> DEFINE P == {<< >>} \cup {<<m>> : m \in Specs}
      <4>1. cr \in [exists : BOOLEAN, deleting : BOOLEAN, module : Specs, prev : P]
        BY DEF Fine, RestTypeOK
      <4> HIDE DEF P
      <4>2. cr' \in [exists : BOOLEAN, deleting : BOOLEAN, module : Specs, prev : P]
        BY <2>1, <4>1 DEF EditCR
      <4> QED BY <4>2 DEF P
    <3>2. edits' \in 0..MaxEdits
      BY <2>1, ConstantsAssumption DEF Fine, RestTypeOK, EditCR
    <3> QED BY <2>1, <3>1, <3>2 DEF Fine, RestTypeOK, EditCR
  <2>2. CASE WebhookUp
    BY <2>2 DEF Fine, RestTypeOK, WebhookUp
  <2>3. CASE WebhookDown
    BY <2>3, FaultCounted DEF Fine, RestTypeOK, WebhookDown
  <2>4. CASE CacheSync
    BY <2>4 DEF Fine, RestTypeOK, CacheSync
  <2>5. CASE UNCHANGED vars
    BY <2>5 DEF Fine, RestTypeOK, vars
  <2> QED BY <2>1, <2>2, <2>3, <2>4, <2>5
<1> QED BY <1>3, <1>4 DEF Fine

LEMMA NextKeeps == Fine /\ [Next]_vars => Fine'
<1> SUFFICES ASSUME Fine, [Next]_vars PROVE Fine'
  OBVIOUS
<1>s. seenReady \in BOOLEAN /\ ready \in BOOLEAN /\ queued \in BOOLEAN /\ cr.exists \in BOOLEAN
  BY DEF Fine, RestTypeOK
<1>1. CASE EditCR \/ WebhookUp \/ WebhookDown \/ CacheSync \/ UNCHANGED vars
  BY <1>1, OutsideKeeps
<1>2. CASE Reconcile
  BY <1>2, ReconcileKeeps
<1>3. CASE ApplyStep
  <2>1. plan # << >> /\ Head(plan).op \in Puts /\ Head(plan).op \notin Removals \cup {"save"}
    BY <1>3 DEF ApplyStep, AtStep, Puts, Removals
  <2> QED BY <1>3, <2>1, OtherStepKeeps DEF ApplyStep
<1>4. CASE DeleteStep
  <2>1. plan # << >> /\ Head(plan).op \in Removals
    BY <1>4 DEF DeleteStep, AtStep, Removals
  <2> QED BY <1>4, <2>1, RemovalKeeps DEF DeleteStep
<1>5. CASE DriverStep
  <2>1. plan # << >> /\ Head(plan).op \notin Removals \cup {"save"}
    BY <1>5 DEF DriverStep, AtStep, Removals
  <2> QED BY <1>5, <2>1, OtherStepKeeps DEF DriverStep
<1>6. CASE GateStep
  <2>1. plan # << >> /\ Head(plan).op \notin Removals \cup {"save"}
    BY <1>6 DEF GateStep, AtStep, Removals
  <2>2. CASE seenReady
    BY <1>6, <2>1, <2>2, OtherStepKeeps DEF GateStep
  <2>3. CASE ~seenReady
    BY <1>s, <1>6, <2>3, ReturnKeeps DEF GateStep, ReturnError
  <2> QED BY <2>2, <2>3
<1>7. CASE IssueStep
  <2>1. plan # << >> /\ Head(plan).op \in Puts /\ Head(plan).op \notin Removals \cup {"save"}
    BY <1>7 DEF IssueStep, AtStep, Puts, Removals
  <2>2. CASE Accepts
    BY <1>7, <2>1, <2>2, OtherStepKeeps DEF IssueStep, NoFault
  <2>3. CASE ~Accepts
    BY <1>s, <1>7, <2>3, ReturnKeeps DEF IssueStep, NoFault, ReturnError
  <2> QED BY <2>2, <2>3
<1>8. CASE RevokeStep
  <2>1. plan # << >> /\ Head(plan).op \in Removals
    BY <1>8 DEF RevokeStep, AtStep, Removals
  <2>2. CASE CRDs
    BY <1>8, <2>1, <2>2, RemovalKeeps DEF RevokeStep, NoFault
  <2>3. CASE ~CRDs
    BY <1>s, <1>8, <2>3, ReturnKeeps DEF RevokeStep, NoFault, ReturnError
  <2> QED BY <2>2, <2>3
<1>9. CASE SaveStep
  BY <1>9, SaveKeeps
<1>10. CASE ReleaseStep
  <2>1. plan # << >> /\ Head(plan).op \notin Removals \cup {"save"}
    BY <1>10 DEF ReleaseStep, AtStep, Removals
  <2>2. CASE current
    BY <1>10, <2>1, <2>2, OtherStepKeeps DEF ReleaseStep
  <2>3. CASE ~current
    BY <1>s, <1>10, <2>3, ReturnKeeps DEF ReleaseStep, ReturnError
  <2> QED BY <2>2, <2>3
<1>11. CASE GetFailureLogged
  <2>1. plan # << >> /\ Head(plan).op \in Removals
    BY <1>11 DEF GetFailureLogged, AtStep, Removals
  <2> QED BY <1>11, <2>1, RemovalKeeps DEF GetFailureLogged
<1>12. CASE StepFails
  BY <1>s, <1>12, ReturnKeeps DEF StepFails, ReturnError
<1>13. CASE Restart
  BY <1>s, <1>13, ReturnKeeps DEF Restart
<1> QED
  BY <1>1, <1>2, <1>3, <1>4, <1>5, <1>6, <1>7, <1>8, <1>9, <1>10, <1>11, <1>12, <1>13
  DEF Next, Worker

LEMMA InitFine == Init => Fine
<1> SUFFICES ASSUME Init PROVE Fine
  OBVIOUS
<1>1. RestTypeOK
  <2>1. cr \in [exists : BOOLEAN, deleting : BOOLEAN, module : Specs,
                prev : {<< >>} \cup {<<m>> : m \in Specs}] /\ cr.module \in Specs
    BY DEF Init
  <2>2. 0 \in 0..MaxEdits /\ 0 \in 0..MaxFaults
    BY ConstantsAssumption
  <2>3. {queued, working, current, ready, seenReady} \subseteq BOOLEAN /\ copy \in Specs
    BY <2>1 DEF Init
  <2> QED BY <2>1, <2>2, <2>3 DEF Init, RestTypeOK
<1>2. plan = << >> /\ Kept = {}
  BY DEF Init, Kept
<1>3. PlanFine(plan, copy, cr.prev, Kept)
  BY <1>2, EmptyPlan
<1> QED BY <1>1, <1>2, <1>3 DEF Fine, KeptFine

(***************************************************************************)
(* The theorems.                                                           *)
(***************************************************************************)
\* The invariant holds of every reachable state: a plan removes before it
\* saves and saves before it applies (SyncCSM calls oldStandAloneModuleCleanup
\* first), what it applies belongs to the CR it saved, and its removals cover
\* all that the new record will not name.
THEOREM ObservabilityInvariance == Spec => []ObsInv
<1>1. Init => ObsInv
  BY InitFine, InvariantIsFine
<1>2. ObsInv /\ [Next]_vars => ObsInv'
  <2>1. ObsInv /\ [Next]_vars => Fine'
    BY NextKeeps, InvariantIsFine
  <2>2. Fine' => ObsInv'
    BY InvariantIsFine, PTL
  <2> QED BY <2>1, <2>2
<1> QED BY <1>1, <1>2, PTL DEF Spec

\* Type correctness of the observability component.
THEOREM TypeCorrect == Spec => []TypeOK
BY ObservabilityInvariance, PTL DEF ObsInv

\* The annotation names every object of observability that exists and was not
\* passed over by a removal, whatever the components, the certificates, the
\* edits and the failures: it is all that oldStandAloneModuleCleanup looks at
\* when a component is dropped.
THEOREM AnnotationNamesAll == Spec => []ComponentsRecorded
BY ObservabilityInvariance, PTL DEF ObsInv

=============================================================================
