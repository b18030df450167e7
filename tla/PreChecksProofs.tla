-------------------------- MODULE PreChecksProofs --------------------------
(***************************************************************************)
(* Proofs about PreChecks: the loops over the arrays of a PowerFlex Secret *)
(* and over the modules of a CR, by induction over their length, and what  *)
(* a reconcile that passes the checks has established.                     *)
(***************************************************************************)
EXTENDS PreChecks, TLAPS

(***************************************************************************)
(* Induction and recursion, as facts about sets and functions.             *)
(***************************************************************************)
Order == INSTANCE WellFoundedInduction

\* Induction over the natural numbers.
LEMMA NatSetInduction ==
    ASSUME NEW S, 0 \in S, \A n \in Nat : n \in S => n + 1 \in S
    PROVE  Nat \subseteq S
<1> DEFINE T == Nat \ S
           R == Order!OpToRel(<, Nat)
<1> SUFFICES ASSUME T # {} PROVE FALSE
  OBVIOUS
<1>1. Order!IsWellFoundedOn(R, Nat)
  BY Order!NatLessThanWellFounded
<1> HIDE DEF R
<1>2. PICK n \in T : \A m \in T : ~(<<m, n>> \in R)
  BY <1>1, Order!WFMin
<1>3. n # 0 /\ n - 1 \in Nat
  OBVIOUS
<1>4. n - 1 \in T
  BY <1>3
<1>5. <<n - 1, n>> \in R
  BY <1>3 DEF R, Order!OpToRel
<1> QED BY <1>2, <1>4, <1>5


\* f is defined at a, and then from its value before.
Iterates(f, St, base, a, N, g) ==
    f \in [a..N -> St] /\ f[a] = base /\ \A n \in a..N : n # a => f[n] = g[<<n, f[n - 1]>>]

\* There is such a function.
LEMMA StepFunction ==
    ASSUME NEW St, NEW base \in St, NEW a \in Nat, NEW N \in Nat, a <= N,
           NEW g \in [(a..N) \X St -> St]
    PROVE  \E f : Iterates(f, St, base, a, N, g)
<1> DEFINE Is(f, k) == /\ f \in [a..(a + k) -> St] /\ f[a] = base
                       /\ \A n \in (a + 1)..(a + k) : f[n] = g[<<n, f[n - 1]>>]
           S == {k \in Nat : a + k <= N => \E f : Is(f, k)}
<1>1. 0 \in S
  <2>1. Is([n \in a..(a + 0) |-> base], 0)
    OBVIOUS
  <2> QED BY <2>1
<1>2. ASSUME NEW k \in Nat, k \in S PROVE k + 1 \in S
  <2> SUFFICES ASSUME a + (k + 1) <= N PROVE \E f : Is(f, k + 1)
    OBVIOUS
  <2>1. PICK f : Is(f, k)
    BY <1>2
  <2> DEFINE b == a + (k + 1)
             h == [n \in a..b |-> IF n = b THEN g[<<b, f[b - 1]>>] ELSE f[n]]
  <2>2. b \in (a + 1)..N /\ b \in a..N /\ b - 1 = a + k /\ b - 1 \in a..(a + k)
    OBVIOUS
  <2>3. f[b - 1] \in St
    BY <2>1, <2>2
  <2>4. g[<<b, f[b - 1]>>] \in St
    BY <2>2, <2>3
  <2>5. \A n \in a..b : n # b => n \in a..(a + k)
    BY <2>2
  <2>6. h \in [a..b -> St]
    BY <2>1, <2>4, <2>5
  <2>7. h[a] = base
    BY <2>1, <2>2
  <2>8. ASSUME NEW n \in (a + 1)..b PROVE h[n] = g[<<n, h[n - 1]>>]
    <3>1. n - 1 \in a..b /\ n - 1 # b /\ n \in a..b
      BY <2>2
    <3>2. h[n - 1] = f[n - 1]
      BY <3>1
    <3>3. CASE n = b
      BY <3>1, <3>2, <3>3
    <3>4. CASE n # b
      <4>1. n \in (a + 1)..(a + k)
        BY <2>2, <3>4
      <4> QED BY <2>1, <3>1, <3>2, <3>4, <4>1
    <3> QED BY <3>3, <3>4
  <2>9. Is(h, k + 1)
    BY <2>6, <2>7, <2>8
  <2> QED BY <2>9
<1>3. N - a \in S
  <2> HIDE DEF S
  <2>1. Nat \subseteq S
    BY <1>1, <1>2, NatSetInduction
  <2> QED BY <2>1
<1>4. PICK f : Is(f, N - a)
  BY <1>3
<1>5. a + (N - a) = N
  OBVIOUS
<1>6. f \in [a..N -> St] /\ f[a] = base /\ \A n \in (a + 1)..N : f[n] = g[<<n, f[n - 1]>>]
  BY <1>4, <1>5
<1>7. \A n \in a..N : n # a => n \in (a + 1)..N
  OBVIOUS
<1> QED BY <1>6, <1>7 DEF Iterates

(***************************************************************************)
(* Sequences.                                                              *)
(***************************************************************************)
\* The elements of a sequence.
LEMMA RangeType ==
    ASSUME NEW E, NEW s \in Seq(E)
    PROVE  Range(s) \subseteq E /\ (Range(s) = {} <=> s = << >>)
<1>1. \A i \in DOMAIN s : s[i] \in E
  OBVIOUS
<1>2. s # << >> => s[1] \in Range(s)
  BY DEF Range
<1> QED BY <1>1, <1>2 DEF Range

\* The elements of sequences that are written out.
LEMMA RangeOfTuples ==
    /\ Range(<< >>) = {}
    /\ \A a : Range(<<a>>) = {a}
    /\ \A a, b : Range(<<a, b>>) = {a, b}
    /\ \A a, b, c : Range(<<a, b, c>>) = {a, b, c}
<1>1. Range(<< >>) = {}
  BY DEF Range
<1>2. ASSUME NEW a PROVE Range(<<a>>) = {a}
  BY DEF Range
<1>3. ASSUME NEW a, NEW b PROVE Range(<<a, b>>) = {a, b}
  BY DEF Range
<1>4. ASSUME NEW a, NEW b, NEW c PROVE Range(<<a, b, c>>) = {a, b, c}
  BY DEF Range
<1> QED BY <1>1, <1>2, <1>3, <1>4

\* The elements of two sequences, one after the other.
LEMMA ConcatRange ==
    ASSUME NEW E, NEW s \in Seq(E), NEW t \in Seq(E)
    PROVE  s \o t \in Seq(E) /\ Range(s \o t) = Range(s) \cup Range(t)
<1>1. s \o t \in Seq(E)
  OBVIOUS
<1>2. Range(s \o t) \subseteq Range(s) \cup Range(t)
  BY DEF Range
<1>3. ASSUME NEW i \in DOMAIN s PROVE s[i] \in Range(s \o t)
  <2>1. i \in DOMAIN (s \o t) /\ (s \o t)[i] = s[i]
    OBVIOUS
  <2> QED BY <2>1 DEF Range
<1>4. ASSUME NEW i \in DOMAIN t PROVE t[i] \in Range(s \o t)
  <2>1. Len(s) + i \in DOMAIN (s \o t) /\ (s \o t)[Len(s) + i] = t[i]
    OBVIOUS
  <2> QED BY <2>1 DEF Range
<1> QED BY <1>1, <1>2, <1>3, <1>4 DEF Range

\* The first element and the others.
LEMMA TailRange ==
    ASSUME NEW E, NEW s \in Seq(E), s # << >>
    PROVE  /\ Head(s) \in E /\ Tail(s) \in Seq(E)
           /\ Range(s) = {Head(s)} \cup Range(Tail(s))
           /\ Len(s) = 1 <=> Tail(s) = << >>
<1>1. Head(s) \in E /\ Tail(s) \in Seq(E) /\ Head(s) = s[1] /\ Len(Tail(s)) = Len(s) - 1
  OBVIOUS
<1>2. \A i \in DOMAIN Tail(s) : i + 1 \in DOMAIN s /\ Tail(s)[i] = s[i + 1]
  OBVIOUS
<1>3. \A i \in DOMAIN s : i = 1 \/ (i - 1 \in DOMAIN Tail(s) /\ Tail(s)[i - 1] = s[i])
  OBVIOUS
<1>4. Range(s) = {Head(s)} \cup Range(Tail(s))
  <2>1. ASSUME NEW i \in DOMAIN s PROVE s[i] \in {Head(s)} \cup Range(Tail(s))
    BY <1>1, <1>3 DEF Range
  <2>2. ASSUME NEW i \in DOMAIN Tail(s) PROVE Tail(s)[i] \in Range(s)
    BY <1>2 DEF Range
  <2>3. Head(s) \in Range(s)
    BY <1>1 DEF Range
  <2> QED BY <2>1, <2>2, <2>3 DEF Range
<1>5. Len(s) = 1 <=> Tail(s) = << >>
  <2>1. \A t \in Seq(E) : t = << >> <=> Len(t) = 0
    OBVIOUS
  <2>2. Tail(s) = << >> <=> Len(Tail(s)) = 0
    BY <1>1, <2>1
  <2>3. Len(s) \in Nat
    OBVIOUS
  <2> QED BY <1>1, <2>2, <2>3
<1> QED BY <1>1, <1>4, <1>5

\* FlattenSeq, whose definition is recursive.
LEMMA FlattenRange ==
    ASSUME NEW E, NEW ss \in Seq(Seq(E))
    PROVE  /\ FlattenSeq(ss) \in Seq(E)
           /\ \A i \in DOMAIN ss : Range(ss[i]) \subseteq Range(FlattenSeq(ss))
<1>1. CASE Len(ss) = 0
  BY <1>1 DEF FlattenSeq
<1>2. CASE Len(ss) # 0
  <2> DEFINE N == Len(ss)
             Body(f) == [i \in 1..N |-> IF i = 1 THEN ss[i] ELSE f[i - 1] \o ss[i]]
             F == CHOOSE f : f = Body(f)
  <2>0. N \in Nat /\ 1 <= N /\ ss[1] \in Seq(E) /\ \A i \in 1..N : ss[i] \in Seq(E)
    BY <1>2
  <2>1. FlattenSeq(ss) = F[N]
    BY <1>2 DEF FlattenSeq
  <2> DEFINE g == [p \in (1..N) \X Seq(E) |-> p[2] \o ss[p[1]]]
  <2>2. g \in [(1..N) \X Seq(E) -> Seq(E)]
    <3>1. \A q \in (1..N) \X Seq(E) : q[2] \in Seq(E) /\ ss[q[1]] \in Seq(E)
      BY <2>0
    <3>2. \A q \in (1..N) \X Seq(E) : q[2] \o ss[q[1]] \in Seq(E)
      BY <3>1, ConcatRange
    <3> QED BY <3>2
  <2>3. \A k \in 1..N, t \in Seq(E) : g[<<k, t>>] = t \o ss[k]
    OBVIOUS
  <2> HIDE DEF g, N
  <2>f. PICK f : Iterates(f, Seq(E), ss[1], 1, N, g)
    BY <2>0, <2>2, StepFunction
  <2>4. f \in [1..N -> Seq(E)] /\ f[1] = ss[1]
        /\ \A n \in 1..N : n # 1 => f[n] = g[<<n, f[n - 1]>>]
    BY <2>f DEF Iterates
  <2>5. f = Body(f)
    <3>1. \A n \in 1..N : n # 1 => n - 1 \in 1..N
      BY <2>0
    <3>2. \A n \in 1..N : n # 1 => g[<<n, f[n - 1]>>] = f[n - 1] \o ss[n]
      BY <2>3, <2>4, <3>1
    <3>3. \A n \in 1..N : f[n] = IF n = 1 THEN ss[n] ELSE f[n - 1] \o ss[n]
      BY <2>4, <3>2
    <3> QED BY <2>4, <3>3
  <2>6. F = Body(F)
    BY <2>5
  <2> HIDE DEF F
  <2> DEFINE Q == {n \in Nat : n + 1 <= N =>
                      /\ F[n + 1] \in Seq(E)
                      /\ \A i \in 1..(n + 1) : Range(ss[i]) \subseteq Range(F[n + 1])}
  <2>7. 0 \in Q
    <3>1. F[1] = ss[1]
      BY <2>0, <2>6
    <3> QED BY <2>0, <3>1
  <2>8. ASSUME NEW n \in Nat, n \in Q PROVE n + 1 \in Q
    <3> SUFFICES ASSUME (n + 1) + 1 <= N
                 PROVE  /\ F[(n + 1) + 1] \in Seq(E)
                        /\ \A i \in 1..((n + 1) + 1) : Range(ss[i]) \subseteq Range(F[(n + 1) + 1])
      OBVIOUS
    <3>1. (n + 1) + 1 \in 1..N /\ (n + 1) + 1 # 1 /\ ((n + 1) + 1) - 1 = n + 1 /\ n + 1 <= N
      BY <2>0
    <3>2. F[(n + 1) + 1] = F[n + 1] \o ss[(n + 1) + 1]
      BY <2>6, <3>1
    <3>3. F[n + 1] \in Seq(E) /\ ss[(n + 1) + 1] \in Seq(E)
      BY <2>0, <2>8, <3>1
    <3>4. /\ F[(n + 1) + 1] \in Seq(E)
          /\ Range(F[(n + 1) + 1]) = Range(F[n + 1]) \cup Range(ss[(n + 1) + 1])
      BY <3>2, <3>3, ConcatRange
    <3>5. \A i \in 1..((n + 1) + 1) : i = (n + 1) + 1 \/ i \in 1..(n + 1)
      OBVIOUS
    <3> QED BY <2>8, <3>1, <3>4, <3>5
  <2>9. N - 1 \in Q
    <3> HIDE DEF Q
    <3>1. Nat \subseteq Q
      BY <2>7, <2>8, NatSetInduction
    <3> QED BY <2>0, <3>1
  <2>10. (N - 1) + 1 = N
    BY <2>0
  <2>11. F[N] \in Seq(E) /\ \A i \in 1..N : Range(ss[i]) \subseteq Range(F[N])
    BY <2>0, <2>9, <2>10
  <2>12. DOMAIN ss = 1..N
    BY DEF N
  <2> QED BY <2>1, <2>11, <2>12
<1> QED BY <1>1, <1>2

\* The last position of a kind.
LEMMA MaxIn ==
    ASSUME NEW n \in Nat, NEW T \in SUBSET (1..n), T # {}
    PROVE  Max(T) \in T
<1> DEFINE S == {k \in Nat : \A U \in SUBSET (1..k) : U # {} => \E x \in U : \A y \in U : x >= y}
<1>1. 0 \in S
  <2>1. 1..0 = {}
    OBVIOUS
  <2> QED BY <2>1
<1>2. ASSUME NEW k \in Nat, k \in S PROVE k + 1 \in S
  <2> SUFFICES ASSUME NEW U \in SUBSET (1..(k + 1)), U # {}
               PROVE  \E x \in U : \A y \in U : x >= y
    OBVIOUS
  <2>1. CASE k + 1 \in U
    <3>1. \A y \in U : k + 1 >= y
      OBVIOUS
    <3> QED BY <2>1, <3>1
  <2>2. CASE k + 1 \notin U
    <3>1. U \in SUBSET (1..k)
      BY <2>2
    <3> QED BY <1>2, <3>1
  <2> QED BY <2>1, <2>2
<1>3. n \in S
  <2> HIDE DEF S
  <2> QED BY <1>1, <1>2, NatSetInduction
<1>4. \E x \in T : \A y \in T : x >= y
  BY <1>3
<1> QED BY <1>4 DEF Max

\* What IsSuffix says of the elements.
LEMMA SuffixPointwise ==
    ASSUME NEW E, NEW s \in Seq(E), NEW t \in Seq(E)
    PROVE  IsSuffix(s, t) <=> /\ Len(s) <= Len(t)
                              /\ \A i \in 1..Len(s) : s[i] = t[(Len(t) - Len(s)) + i]
<1> DEFINE m == Len(s)
           n == Len(t)
           rs == Reverse(s)
           rt == Reverse(t)
<1>0. m \in Nat /\ n \in Nat /\ DOMAIN s = 1..m /\ DOMAIN t = 1..n
  OBVIOUS
<1>1. rs \in Seq(E) /\ Len(rs) = m /\ \A i \in 1..m : rs[i] = s[(m - i) + 1]
  <2>1. \A i \in 1..m : s[(m - i) + 1] \in E
    OBVIOUS
  <2> QED BY <2>1 DEF Reverse
<1>2. rt \in Seq(E) /\ Len(rt) = n /\ \A i \in 1..n : rt[i] = t[(n - i) + 1]
  <2>1. \A i \in 1..n : t[(n - i) + 1] \in E
    OBVIOUS
  <2> QED BY <2>1 DEF Reverse
<1>3. IsSuffix(s, t) <=> m <= n /\ SubSeq(rs, 1, m) = SubSeq(rt, 1, m)
  BY <1>1, <1>2 DEF IsSuffix, IsPrefix
<1> HIDE DEF m, n, rs, rt
<1>4. ASSUME m <= n
      PROVE  SubSeq(rs, 1, m) = SubSeq(rt, 1, m) <=> \A i \in 1..m : rs[i] = rt[i]
  <2>1. \A i \in 1..m : i \in 1..n
    BY <1>0, <1>4
  <2>2. SubSeq(rs, 1, m) = [i \in 1..m |-> rs[i]]
    BY <1>0, <1>1
  <2>3. SubSeq(rt, 1, m) = [i \in 1..m |-> rt[i]]
    BY <1>0, <1>2, <1>4
  <2> QED BY <2>2, <2>3
<1>5. ASSUME m <= n
      PROVE  (\A i \in 1..m : rs[i] = rt[i]) <=> \A i \in 1..m : s[i] = t[(n - m) + i]
  <2>1. \A i \in 1..m : i \in 1..n /\ (m - i) + 1 \in 1..m /\ (m - ((m - i) + 1)) + 1 = i
                        /\ (n - ((m - i) + 1)) + 1 = (n - m) + i
                        /\ (n - m) + ((m - i) + 1) = (n - i) + 1
    BY <1>0, <1>5
  <2>2. ASSUME \A i \in 1..m : rs[i] = rt[i], NEW i \in 1..m PROVE s[i] = t[(n - m) + i]
    <3>1. rs[(m - i) + 1] = rt[(m - i) + 1]
      BY <2>1, <2>2
    <3>2. (m - i) + 1 \in 1..m /\ (m - i) + 1 \in 1..n
      BY <2>1
    <3>3. rs[(m - i) + 1] = s[(m - ((m - i) + 1)) + 1] /\ rt[(m - i) + 1] = t[(n - ((m - i) + 1)) + 1]
      BY <1>1, <1>2, <3>2
    <3> QED BY <2>1, <3>1, <3>3
  <2>3. ASSUME \A i \in 1..m : s[i] = t[(n - m) + i], NEW i \in 1..m PROVE rs[i] = rt[i]
    <3>1. rs[i] = s[(m - i) + 1] /\ rt[i] = t[(n - i) + 1]
      BY <1>1, <1>2, <2>1
    <3>2. s[(m - i) + 1] = t[(n - m) + ((m - i) + 1)]
      BY <2>1, <2>3
    <3> QED BY <2>1, <3>1, <3>2
  <2> QED BY <2>2, <2>3
<1> QED BY <1>3, <1>4, <1>5 DEF m, n

\* A sequence and what is left of it.
LEMMA SuffixFacts ==
    ASSUME NEW E, NEW t \in Seq(E)
    PROVE  /\ IsSuffix(t, t)
           /\ \A s \in Seq(E) : IsSuffix(s, t) =>
                  /\ Range(s) \subseteq Range(t)
                  /\ s # << >> => IsSuffix(Tail(s), t)
<1>1. IsSuffix(t, t)
  <2>1. Len(t) \in Nat
    OBVIOUS
  <2>2. \A i \in 1..Len(t) : t[i] = t[(Len(t) - Len(t)) + i]
    BY <2>1
  <2> QED BY <2>1, <2>2, SuffixPointwise
<1>2. ASSUME NEW s \in Seq(E), IsSuffix(s, t)
      PROVE  Range(s) \subseteq Range(t) /\ (s # << >> => IsSuffix(Tail(s), t))
  <2> DEFINE k == Len(t) - Len(s)
  <2>1. Len(s) <= Len(t) /\ \A i \in 1..Len(s) : s[i] = t[(Len(t) - Len(s)) + i]
    BY <1>2, SuffixPointwise
  <2>2. Len(s) \in Nat /\ Len(t) \in Nat /\ DOMAIN s = 1..Len(s) /\ DOMAIN t = 1..Len(t)
    OBVIOUS
  <2>3. Range(s) \subseteq Range(t)
    <3>1. ASSUME NEW i \in 1..Len(s) PROVE s[i] \in Range(t)
      <4>1. (Len(t) - Len(s)) + i \in 1..Len(t)
        BY <2>1, <2>2
      <4> QED BY <2>1, <2>2, <4>1 DEF Range
    <3> QED BY <2>2, <3>1 DEF Range
  <2>4. ASSUME s # << >> PROVE IsSuffix(Tail(s), t)
    <3>1. /\ Tail(s) \in Seq(E) /\ Len(Tail(s)) = Len(s) - 1
          /\ \A i \in 1..(Len(s) - 1) : Tail(s)[i] = s[i + 1]
      BY <2>4
    <3>2. Len(Tail(s)) <= Len(t)
      BY <2>1, <2>2, <3>1
    <3>3. ASSUME NEW i \in 1..(Len(s) - 1)
          PROVE  Tail(s)[i] = t[(Len(t) - (Len(s) - 1)) + i]
      <4>1. i + 1 \in 1..Len(s) /\ (Len(t) - Len(s)) + (i + 1) = (Len(t) - (Len(s) - 1)) + i
        BY <2>2
      <4>2. s[i + 1] = t[(Len(t) - Len(s)) + (i + 1)]
        BY <2>1, <4>1
      <4> QED BY <3>1, <4>1, <4>2
    <3>4. \A i \in 1..Len(Tail(s)) : Tail(s)[i] = t[(Len(t) - Len(Tail(s))) + i]
      BY <3>1, <3>3
    <3> QED BY <3>1, <3>2, <3>4, SuffixPointwise
  <2> QED BY <2>3, <2>4
<1>3. \A s \in Seq(E) : IsSuffix(s, t) =>
           Range(s) \subseteq Range(t) /\ (s # << >> => IsSuffix(Tail(s), t))
  BY <1>2
<1> QED BY <1>1, <1>3

(***************************************************************************)
(* The loop of GetMDMFromSecret.                                           *)
(***************************************************************************)
ScanType == [ok : BOOLEAN, seen : SUBSET STRING, defaults : Nat]

\* What the loop has established after the first n arrays.
ArraysSeen(arrays, n, s) ==
    /\ s \in ScanType
    /\ s.ok =>
         /\ s.defaults <= 1
         /\ \A i \in 1..n : arrays[i].id \in s.seen /\ (arrays[i].default => s.defaults = 1)
         /\ \A i, j \in 1..n : i # j =>
                arrays[i].id # arrays[j].id /\ ~(arrays[i].default /\ arrays[j].default)

LEMMA ArrayStepSeen ==
    ASSUME NEW arrays \in Seq(ArrayType), NEW n \in Nat, n + 1 <= Len(arrays), NEW s,
           ArraysSeen(arrays, n, s)
    PROVE  ArraysSeen(arrays, n + 1, ArrayStep(s, arrays[n + 1]))
<1> DEFINE a == arrays[n + 1]
           d == s.defaults + (IF a.default THEN 1 ELSE 0)
           t == ArrayStep(s, a)
<1>0. a \in ArrayType /\ n + 1 \in DOMAIN arrays
  OBVIOUS
<1>1. /\ s \in ScanType /\ s.ok \in BOOLEAN /\ s.seen \in SUBSET STRING /\ s.defaults \in Nat
      /\ a.id \in STRING /\ a.ok \in BOOLEAN /\ a.default \in BOOLEAN
  BY <1>0 DEF ArraysSeen, ScanType, ArrayType
<1>2. t = [ok |-> s.ok /\ a.ok /\ a.id \notin s.seen \cup {""} /\ d <= 1,
           seen |-> s.seen \cup {a.id}, defaults |-> d]
  BY DEF ArrayStep
<1>3. d \in Nat
  BY <1>1
<1> HIDE DEF t, d, a
<1>4. t \in ScanType
  BY <1>1, <1>2, <1>3 DEF ScanType
<1>5. ASSUME t.ok
      PROVE  /\ t.defaults <= 1
             /\ \A i \in 1..(n + 1) : arrays[i].id \in t.seen /\ (arrays[i].default => t.defaults = 1)
             /\ \A i, j \in 1..(n + 1) : i # j =>
                    arrays[i].id # arrays[j].id /\ ~(arrays[i].default /\ arrays[j].default)
  <2>1. /\ s.ok /\ a.id \notin s.seen /\ d <= 1 /\ t.defaults = d /\ t.seen = s.seen \cup {a.id}
    BY <1>2, <1>5
  <2>2. /\ s.defaults <= 1
        /\ \A i \in 1..n : arrays[i].id \in s.seen /\ (arrays[i].default => s.defaults = 1)
        /\ \A i, j \in 1..n : i # j =>
                arrays[i].id # arrays[j].id /\ ~(arrays[i].default /\ arrays[j].default)
    BY <2>1 DEF ArraysSeen
  <2>3. (a.default => d = 1 /\ s.defaults = 0) /\ (~a.default => d = s.defaults)
    BY <1>1, <2>1 DEF d
  <2>4. \A i \in 1..(n + 1) : i = n + 1 \/ i \in 1..n
    OBVIOUS
  <2>5. \A i \in 1..n : /\ arrays[i].id # a.id /\ ~(arrays[i].default /\ a.default)
                        /\ arrays[i].default => d = 1
    BY <2>1, <2>2, <2>3
  <2>6. ASSUME NEW i \in 1..(n + 1)
        PROVE  arrays[i].id \in t.seen /\ (arrays[i].default => t.defaults = 1)
    <3>1. CASE i = n + 1
      BY <3>1, <2>1, <2>3 DEF a
    <3>2. CASE i \in 1..n
      BY <3>2, <2>1, <2>2, <2>5
    <3> QED BY <2>4, <3>1, <3>2
  <2>7. ASSUME NEW i \in 1..(n + 1), NEW j \in 1..(n + 1), i # j
        PROVE  arrays[i].id # arrays[j].id /\ ~(arrays[i].default /\ arrays[j].default)
    <3>1. CASE i = n + 1
      <4>1. j \in 1..n
        BY <2>4, <2>7, <3>1
      <4> QED BY <2>5, <3>1, <4>1 DEF a
    <3>2. CASE j = n + 1
      <4>1. i \in 1..n
        BY <2>4, <2>7, <3>2
      <4> QED BY <2>5, <3>2, <4>1 DEF a
    <3>3. CASE i \in 1..n /\ j \in 1..n
      BY <2>2, <2>7, <3>3
    <3> QED BY <2>4, <3>1, <3>2, <3>3
  <2> QED BY <2>1, <2>6, <2>7
<1>6. ArraysSeen(arrays, n + 1, t)
  BY <1>4, <1>5 DEF ArraysSeen
<1> QED BY <1>6 DEF t, a

\* The arrays GetMDMFromSecret accepts have different names, and at most one
\* of them is the default.
LEMMA ArraysAcceptedMeans ==
    ASSUME NEW c, c # << >> => c[1] \in Seq(ArrayType), ArraysAccepted(c)
    PROVE  /\ c # << >>
           /\ \A i, j \in DOMAIN c[1] : i # j =>
                  c[1][i].id # c[1][j].id /\ ~(c[1][i].default /\ c[1][j].default)
<1> DEFINE arrays == c[1]
           N == Len(arrays)
           base == [ok |-> TRUE, seen |-> {}, defaults |-> 0]
           Body(f) == [n \in 0..N |-> IF n = 0 THEN base ELSE ArrayStep(f[n - 1], arrays[n])]
           F == CHOOSE f : f = Body(f)
<1>1. c # << >> /\ F[N].ok
  BY DEF ArraysAccepted
<1>2. arrays \in Seq(ArrayType) /\ N \in Nat /\ DOMAIN arrays = 1..N
  BY <1>1
<1>3. base \in ScanType
  BY DEF ScanType
<1> DEFINE g == [p \in (0..N) \X ScanType |->
                    IF p[1] = 0 THEN base ELSE ArrayStep(p[2], arrays[p[1]])]
<1> HIDE DEF arrays, N, base
<1>4. g \in [(0..N) \X ScanType -> ScanType]
  <2>1. ASSUME NEW k \in 1..N, NEW t \in ScanType PROVE ArrayStep(t, arrays[k]) \in ScanType
    <3>1. arrays[k] \in ArrayType
      BY <1>2
    <3>2. t.seen \cup {arrays[k].id} \in SUBSET STRING
      BY <3>1 DEF ScanType, ArrayType
    <3>3. t.defaults + (IF arrays[k].default THEN 1 ELSE 0) \in Nat
      BY DEF ScanType
    <3> QED BY <3>2, <3>3 DEF ArrayStep, ScanType
  <2>2. \A k \in 0..N : k = 0 \/ k \in 1..N
    BY <1>2
  <2> QED BY <1>3, <2>1, <2>2
<1>5. \A k \in 1..N, t \in ScanType : g[<<k, t>>] = ArrayStep(t, arrays[k])
  BY <1>2
<1> HIDE DEF g
<1>6. PICK f : Iterates(f, ScanType, base, 0, N, g)
  <2>1. 0 \in Nat /\ 0 <= N
    BY <1>2
  <2> QED BY <1>2, <1>3, <1>4, <2>1, StepFunction, Zenon
<1>7. f = Body(f)
  <2>1. /\ f \in [0..N -> ScanType] /\ f[0] = base
        /\ \A n \in 0..N : n # 0 => f[n] = g[<<n, f[n - 1]>>]
    BY <1>6 DEF Iterates
  <2>2. \A n \in 0..N : n # 0 => n \in 1..N /\ n - 1 \in 0..N
    BY <1>2
  <2>3. \A n \in 0..N : n # 0 => f[n] = ArrayStep(f[n - 1], arrays[n])
    BY <1>5, <2>1, <2>2
  <2> QED BY <2>1, <2>3
<1>8. F = Body(F)
  BY <1>7
<1> HIDE DEF F
<1> DEFINE Q == {n \in Nat : n <= N => ArraysSeen(arrays, n, F[n])}
<1>9. 0 \in Q
  <2>1. F[0] = base
    BY <1>2, <1>8
  <2>2. ArraysSeen(arrays, 0, base)
    <3>1. 1..0 = {}
      OBVIOUS
    <3> QED BY <1>3, <3>1 DEF ArraysSeen, base
  <2> QED BY <2>1, <2>2
<1>10. ASSUME NEW n \in Nat, n \in Q PROVE n + 1 \in Q
  <2> SUFFICES ASSUME n + 1 <= N PROVE ArraysSeen(arrays, n + 1, F[n + 1])
    OBVIOUS
  <2>1. n + 1 \in 0..N /\ n + 1 # 0 /\ (n + 1) - 1 = n /\ n <= N
    BY <1>2
  <2>2. F[n + 1] = ArrayStep(F[n], arrays[n + 1])
    BY <1>8, <2>1
  <2>3. ArraysSeen(arrays, n, F[n])
    BY <1>10, <2>1
  <2> QED BY <1>2, <2>2, <2>3, ArrayStepSeen DEF N
<1>11. N \in Q
  <2> HIDE DEF Q
  <2> QED BY <1>2, <1>9, <1>10, NatSetInduction
<1>12. ArraysSeen(arrays, N, F[N])
  BY <1>2, <1>11
<1> QED BY <1>1, <1>2, <1>12 DEF ArraysSeen, arrays

(***************************************************************************)
(* The loop of ValidateZonesInSecret.                                      *)
(***************************************************************************)
ZoneScanType(arrays) ==
    [ok : BOOLEAN, labelKey : {arrays[i].key : i \in DOMAIN arrays} \cup {""}, zoned : Nat]

\* What the loop has established after the first n arrays.
ZonesSeen(arrays, n, s) ==
    /\ s \in ZoneScanType(arrays) /\ s.zoned <= n
    /\ s.ok =>
         /\ \A i \in 1..n :
                \/ arrays[i].key = "" /\ arrays[i].zone = ""
                \/ arrays[i].key # "" /\ arrays[i].key = s.labelKey /\ arrays[i].zone # ""
         /\ s.zoned = 0 => \A i \in 1..n : arrays[i].key = "" /\ arrays[i].zone = ""
         /\ s.zoned = n => \A i \in 1..n : arrays[i].key # ""

LEMMA ZoneStepSeen ==
    ASSUME NEW arrays \in Seq(ArrayType), NEW n \in Nat, n + 1 <= Len(arrays), NEW s,
           ZonesSeen(arrays, n, s)
    PROVE  ZonesSeen(arrays, n + 1, ZoneStep(s, arrays[n + 1]))
<1> DEFINE a == arrays[n + 1]
           t == ZoneStep(s, a)
<1>0. a \in ArrayType /\ n + 1 \in DOMAIN arrays
  OBVIOUS
<1>1. /\ s \in ZoneScanType(arrays) /\ s.ok \in BOOLEAN /\ s.zoned \in Nat
      /\ s.zoned <= n
      /\ a.key \in {arrays[i].key : i \in DOMAIN arrays}
  BY <1>0 DEF ZonesSeen, ZoneScanType
<1>2. \A i \in 1..(n + 1) : i = n + 1 \/ i \in 1..n
  OBVIOUS
<1>3. CASE a.key = "" /\ a.zone = ""
  <2>1. t = [s EXCEPT !.ok = @ /\ a.id # ""]
    BY <1>3 DEF ZoneStep
  <2> HIDE DEF t
  <2>2. t \in ZoneScanType(arrays) /\ (t.ok => s.ok) /\ t.labelKey = s.labelKey /\ t.zoned = s.zoned
    BY <1>1, <2>1 DEF ZoneScanType
  <2>3. t.zoned <= n + 1 /\ t.zoned # n + 1
    BY <1>1, <2>2
  <2>4. ASSUME t.ok, NEW i \in 1..(n + 1)
        PROVE  \/ arrays[i].key = "" /\ arrays[i].zone = ""
               \/ arrays[i].key # "" /\ arrays[i].key = t.labelKey /\ arrays[i].zone # ""
    <3>1. CASE i = n + 1
      BY <1>3, <3>1
    <3>2. CASE i \in 1..n
      BY <2>2, <2>4, <3>2 DEF ZonesSeen
    <3> QED BY <1>2, <3>1, <3>2
  <2>5. ASSUME t.ok, t.zoned = 0, NEW i \in 1..(n + 1)
        PROVE  arrays[i].key = "" /\ arrays[i].zone = ""
    <3>1. CASE i = n + 1
      BY <1>3, <3>1
    <3>2. CASE i \in 1..n
      BY <2>2, <2>5, <3>2 DEF ZonesSeen
    <3> QED BY <1>2, <3>1, <3>2
  <2>6. ZonesSeen(arrays, n + 1, t)
    BY <2>2, <2>3, <2>4, <2>5 DEF ZonesSeen
  <2> QED BY <2>6 DEF t
<1>4. CASE ~(a.key = "" /\ a.zone = "")
  <2>1. t = [ok |-> /\ s.ok /\ a.id # "" /\ a.key # ""
                    /\ s.labelKey \in {"", a.key} /\ a.zone # "",
             labelKey |-> IF s.labelKey = "" THEN a.key ELSE s.labelKey,
             zoned |-> s.zoned + 1]
    BY <1>4 DEF ZoneStep
  <2> HIDE DEF t
  <2>2. /\ t.ok => s.ok /\ a.key # "" /\ s.labelKey \in {"", a.key} /\ a.zone # ""
        /\ t.labelKey = (IF s.labelKey = "" THEN a.key ELSE s.labelKey)
        /\ t.zoned = s.zoned + 1
    BY <2>1
  <2>3. t.zoned \in Nat /\ t.zoned <= n + 1 /\ t.zoned # 0 /\ (t.zoned = n + 1 => s.zoned = n)
    <3>1. s.zoned \in Nat /\ s.zoned <= n
      BY <1>1
    <3>2. t.zoned = s.zoned + 1
      BY <2>2
    <3> QED BY <3>1, <3>2
  <2>7. t \in ZoneScanType(arrays)
    <3>1. s.labelKey \in {arrays[i].key : i \in DOMAIN arrays} \cup {""}
      BY <1>1 DEF ZoneScanType
    <3>2. s.zoned + 1 \in Nat
      BY <2>2, <2>3
    <3> QED BY <1>1, <2>1, <3>1, <3>2 DEF ZoneScanType
  <2>4. ASSUME t.ok, NEW i \in 1..(n + 1)
        PROVE  \/ arrays[i].key = "" /\ arrays[i].zone = ""
               \/ arrays[i].key # "" /\ arrays[i].key = t.labelKey /\ arrays[i].zone # ""
    <3>1. CASE i = n + 1
      BY <2>2, <2>4, <3>1
    <3>2. CASE i \in 1..n
      BY <2>2, <2>4, <3>2 DEF ZonesSeen
    <3> QED BY <1>2, <3>1, <3>2
  <2>5. ASSUME t.ok, t.zoned = n + 1, NEW i \in 1..(n + 1)
        PROVE  arrays[i].key # ""
    <3>1. CASE i = n + 1
      BY <2>2, <2>5, <3>1
    <3>2. CASE i \in 1..n
      BY <2>2, <2>3, <2>5, <3>2 DEF ZonesSeen
    <3> QED BY <1>2, <3>1, <3>2
  <2>6. ZonesSeen(arrays, n + 1, t)
    BY <2>3, <2>4, <2>5, <2>7 DEF ZonesSeen
  <2> QED BY <2>6 DEF t
<1> QED BY <1>3, <1>4

\* The arrays ValidateZonesInSecret accepts have no zone, or each one has a
\* zone, with the same label key.
LEMMA ZonesAcceptedMeans ==
    ASSUME NEW c, c # << >> => c[1] \in Seq(ArrayType), ZonesAccepted(c)
    PROVE  /\ c # << >>
           /\ \E key \in {c[1][i].key : i \in DOMAIN c[1]} \cup {""} :
                \A i \in DOMAIN c[1] : c[1][i].key = key /\ (c[1][i].zone = "" <=> key = "")
<1> DEFINE arrays == c[1]
           N == Len(arrays)
           base == [ok |-> TRUE, labelKey |-> "", zoned |-> 0]
           Body(f) == [n \in 0..N |-> IF n = 0 THEN base ELSE ZoneStep(f[n - 1], arrays[n])]
           F == CHOOSE f : f = Body(f)
<1>0. c # << >>
  BY DEF ZonesAccepted
<1>1. c # << >> /\ F[N].ok /\ F[N].zoned \in {0, N}
  BY DEF ZonesAccepted
<1>2. arrays \in Seq(ArrayType) /\ N \in Nat /\ DOMAIN arrays = 1..N
  BY <1>0
<1>3. base \in ZoneScanType(arrays)
  BY DEF ZoneScanType
<1> DEFINE g == [p \in (0..N) \X ZoneScanType(arrays) |->
                    IF p[1] = 0 THEN base ELSE ZoneStep(p[2], arrays[p[1]])]
<1> HIDE DEF arrays, N, base
<1>4. g \in [(0..N) \X ZoneScanType(arrays) -> ZoneScanType(arrays)]
  <2>1. ASSUME NEW k \in 1..N, NEW t \in ZoneScanType(arrays) PROVE ZoneStep(t, arrays[k]) \in ZoneScanType(arrays)
    <3>1. arrays[k].key \in {arrays[i].key : i \in DOMAIN arrays}
      BY <1>2
    <3>2. t.zoned \in Nat
      BY DEF ZoneScanType
    <3>3. t.zoned + 1 \in Nat
      BY <3>2
    <3> QED BY <3>1, <3>2, <3>3 DEF ZoneStep, ZoneScanType
  <2>2. \A k \in 0..N : k = 0 \/ k \in 1..N
    BY <1>2
  <2> QED BY <1>3, <2>1, <2>2
<1>5. \A k \in 1..N, t \in ZoneScanType(arrays) : g[<<k, t>>] = ZoneStep(t, arrays[k])
  BY <1>2
<1> HIDE DEF g
<1>6. PICK f : Iterates(f, ZoneScanType(arrays), base, 0, N, g)
  <2>1. 0 \in Nat /\ 0 <= N
    BY <1>2
  <2> QED BY <1>2, <1>3, <1>4, <2>1, StepFunction, Zenon
<1>7. f = Body(f)
  <2>1. /\ f \in [0..N -> ZoneScanType(arrays)] /\ f[0] = base
        /\ \A n \in 0..N : n # 0 => f[n] = g[<<n, f[n - 1]>>]
    BY <1>6 DEF Iterates
  <2>2. \A n \in 0..N : n # 0 => n \in 1..N /\ n - 1 \in 0..N
    BY <1>2
  <2>3. \A n \in 0..N : n # 0 => f[n] = ZoneStep(f[n - 1], arrays[n])
    BY <1>5, <2>1, <2>2
  <2> QED BY <2>1, <2>3
<1>8. F = Body(F)
  BY <1>7
<1> HIDE DEF F
<1> DEFINE Q == {n \in Nat : n <= N => ZonesSeen(arrays, n, F[n])}
<1>9. 0 \in Q
  <2>1. F[0] = base
    BY <1>2, <1>8
  <2>2. ZonesSeen(arrays, 0, base)
    <3>1. 1..0 = {}
      OBVIOUS
    <3> QED BY <1>3, <3>1 DEF ZonesSeen, ZoneScanType, base
  <2> QED BY <2>1, <2>2
<1>10. ASSUME NEW n \in Nat, n \in Q PROVE n + 1 \in Q
  <2> SUFFICES ASSUME n + 1 <= N PROVE ZonesSeen(arrays, n + 1, F[n + 1])
    OBVIOUS
  <2>1. n + 1 \in 0..N /\ n + 1 # 0 /\ (n + 1) - 1 = n /\ n <= N
    BY <1>2
  <2>2. F[n + 1] = ZoneStep(F[n], arrays[n + 1])
    BY <1>8, <2>1
  <2>3. ZonesSeen(arrays, n, F[n])
    BY <1>10, <2>1
  <2> QED BY <1>2, <2>2, <2>3, ZoneStepSeen DEF N
<1>11. N \in Q
  <2> HIDE DEF Q
  <2> QED BY <1>2, <1>9, <1>10, NatSetInduction
<1>12. ZonesSeen(arrays, N, F[N])
  BY <1>2, <1>11
<1>13. CASE F[N].zoned = 0
  <2>1. \A i \in 1..N : arrays[i].key = "" /\ arrays[i].zone = ""
    BY <1>1, <1>12, <1>13 DEF ZonesSeen
  <2> QED BY <1>1, <1>2, <2>1 DEF arrays
<1>14. CASE F[N].zoned # 0
  <2>1. F[N].zoned = N /\ N # 0
    BY <1>1, <1>14
  <2>2. \A i \in 1..N : arrays[i].key = F[N].labelKey /\ arrays[i].key # "" /\ arrays[i].zone # ""
    BY <1>1, <1>12, <2>1 DEF ZonesSeen
  <2>3. 1 \in 1..N
    BY <1>2, <2>1
  <2>4. F[N].labelKey \in {arrays[i].key : i \in DOMAIN arrays}
    BY <1>2, <2>2, <2>3
  <2> QED BY <1>1, <1>2, <2>2, <2>4 DEF arrays
<1> QED BY <1>13, <1>14

(***************************************************************************)
(* The checks of a CR.                                                     *)
(***************************************************************************)
NameSet == {Config, AuthSecret, MetricsTLS, Tokens, RootCertificate, ProxyTLS, ProxyConfig}
           \cup {Cert(i) : i \in Int}

CheckSet == [kind : {"get", "arrays", "zones", "upgrade"}, name : NameSet]

\* The variables of spec.driver.common.
LEMMA EnvsType ==
    ASSUME NEW r \in CRType
    PROVE  Envs(r) \in Seq(EnvType)
<1>1. r.common \in Seq(Seq(EnvType))
  BY DEF CRType
<1>2. r.common # << >> => r.common[1] \in Seq(EnvType)
  BY <1>1
<1> QED BY <1>2 DEF Envs

\* The loops over the variables return a number.
LEMMA LastOfType ==
    ASSUME NEW envs \in Seq(EnvType), NEW name, NEW default \in Int
    PROVE  LastOf(envs, name, default) \in Int
<1> DEFINE at == {i \in DOMAIN envs : envs[i].name = name}
<1>1. CASE at = {}
  BY <1>1 DEF LastOf
<1>2. CASE at # {}
  <2>1. Len(envs) \in Nat /\ at \in SUBSET (1..Len(envs))
    OBVIOUS
  <2>2. Max(at) \in at
    BY <1>2, <2>1, MaxIn
  <2>3. envs[Max(at)] \in EnvType
    BY <2>2
  <2>4. LastOf(envs, name, default) = envs[Max(at)].value
    BY <1>2 DEF LastOf
  <2> QED BY <2>3, <2>4 DEF EnvType
<1> QED BY <1>1, <1>2

LEMMA CertsType ==
    ASSUME NEW skip \in Int, NEW count \in Int
    PROVE  /\ Certs(skip, count) \in Seq(NameSet)
           /\ Range(Certs(skip, count)) = IF skip = 1 THEN {} ELSE {Cert(i - 1) : i \in 1..count}
<1>1. \A i \in 1..count : Cert(i - 1) \in NameSet
  BY DEF NameSet
<1>2. CASE skip = 1
  BY <1>2, RangeOfTuples DEF Certs
<1>3. CASE skip # 1
  <2> DEFINE s == [i \in 1..count |-> Cert(i - 1)]
  <2>1. Certs(skip, count) = s
    BY <1>3 DEF Certs
  <2>2. Range(s) = {Cert(i - 1) : i \in 1..count}
    BY DEF Range
  <2>3. s \in Seq(NameSet)
    <3>1. CASE count >= 0
      BY <1>1, <3>1
    <3>2. CASE count < 0
      <4>1. 1..count = 1..0
        BY <3>2
      <4>2. s \in [1..0 -> NameSet]
        BY <4>1
      <4> QED BY <4>2
    <3> QED BY <3>1, <3>2
  <2> QED BY <1>3, <2>1, <2>2, <2>3
<1> QED BY <1>2, <1>3

LEMMA GetsType ==
    ASSUME NEW names \in Seq(NameSet)
    PROVE  /\ Gets(names) \in Seq(CheckSet)
           /\ Range(Gets(names)) = {Check("get", n) : n \in Range(names)}
<1>1. \A i \in DOMAIN names : Check("get", names[i]) \in CheckSet
  BY DEF Check, CheckSet
<1>2. Gets(names) \in Seq(CheckSet)
  BY <1>1 DEF Gets
<1>3. Range(Gets(names)) = {Check("get", n) : n \in Range(names)}
  BY DEF Gets, Range
<1> QED BY <1>2, <1>3

\* The Secrets the checks of a driver look for.
LEMMA DriverPrecheckType ==
    ASSUME NEW r \in CRType
    PROVE  /\ DriverPrecheck(r) \in Seq(CheckSet)
           /\ r.type = "powerflex" => Check("arrays", Config) \in Range(DriverPrecheck(r))
<1>c. \A s, t \in Seq(NameSet) : s \o t \in Seq(NameSet)
  BY ConcatRange
<1>d. \A s, t \in Seq(CheckSet) : s \o t \in Seq(CheckSet) /\ Range(s \o t) = Range(s) \cup Range(t)
  BY ConcatRange
<1>1. /\ <<Config>> \in Seq(NameSet) /\ <<MetricsTLS>> \in Seq(NameSet)
      /\ <<Credentials(r)>> \in Seq(NameSet)
  BY DEF NameSet, Credentials
<1>2. \A name, default : default \in Int => LastOf(Envs(r), name, default) \in Int
  BY EnvsType, LastOfType
<1>3. \A i \in {0, 1} : Certs(LastOf(Envs(r), "skip", i), LastOf(Envs(r), "count", 1)) \in Seq(NameSet)
  <2>1. 1 \in Int /\ \A i \in {0, 1} : i \in Int
    OBVIOUS
  <2> QED BY <1>2, <2>1, CertsType, Zenon
<1>4. CASE r.type = "powerscale"
  <2>1. DriverPrecheck(r) = PrecheckPowerScale(r)
    BY <1>4 DEF DriverPrecheck
  <2>2. PrecheckPowerScale(r) \in Seq(CheckSet)
    BY <1>c, <1>1, <1>3, GetsType DEF PrecheckPowerScale
  <2> QED BY <1>4, <2>1, <2>2
<1>5. CASE r.type = "powerstore"
  <2>1. DriverPrecheck(r) = PrecheckPowerStore(r)
    BY <1>5 DEF DriverPrecheck
  <2>2. PrecheckPowerStore(r) \in Seq(CheckSet)
    BY <1>c, <1>1, <1>3, GetsType DEF PrecheckPowerStore
  <2> QED BY <1>5, <2>1, <2>2
<1>6. CASE r.type = "unity"
  <2>1. DriverPrecheck(r) = PrecheckUnity(r)
    BY <1>6 DEF DriverPrecheck
  <2>2. PrecheckUnity(r) \in Seq(CheckSet)
    BY <1>c, <1>1, <1>3, GetsType DEF PrecheckUnity
  <2> QED BY <1>6, <2>1, <2>2
<1>7. CASE r.type \in {"powermax", "cosi"}
  <2>1. DriverPrecheck(r) \in {PrecheckPowerMax(r), PrecheckCosi(r)}
    BY <1>7 DEF DriverPrecheck
  <2>2. PrecheckPowerMax(r) \in Seq(CheckSet) /\ PrecheckCosi(r) \in Seq(CheckSet)
    BY <1>1, GetsType DEF PrecheckPowerMax, PrecheckCosi
  <2> QED BY <1>7, <2>1, <2>2
<1>8. CASE r.type = "powerflex"
  <2>1. DriverPrecheck(r) = PrecheckPowerFlex(r)
    BY <1>8 DEF DriverPrecheck
  <2> DEFINE first == <<Check("arrays", Config)>>
             rest == IF r.metricsTLS THEN Gets(<<MetricsTLS>>) ELSE << >>
  <2>2. first \in Seq(CheckSet) /\ Check("arrays", Config) \in Range(first)
    <3>1. Check("arrays", Config) \in CheckSet
      BY DEF Check, CheckSet, NameSet
    <3> QED BY <3>1, RangeOfTuples
  <2>3. rest \in Seq(CheckSet)
    <3>1. Gets(<<MetricsTLS>>) \in Seq(CheckSet)
      BY <1>1, GetsType
    <3> QED BY <3>1
  <2>4. PrecheckPowerFlex(r) = first \o rest
    BY DEF PrecheckPowerFlex
  <2> HIDE DEF first, rest
  <2> QED BY <1>d, <2>1, <2>2, <2>3, <2>4
<1> QED BY <1>4, <1>5, <1>6, <1>7, <1>8 DEF CRType

\* Those the checks of a module look for.
LEMMA ModulePrecheckType ==
    ASSUME NEW r \in CRType, NEW m
    PROVE  ModulePrecheck(r, m) \in Seq(CheckSet)
<1>c. \A s, t \in Seq(NameSet) : s \o t \in Seq(NameSet)
  BY ConcatRange
<1>1. /\ <<Tokens>> \in Seq(NameSet) /\ <<RootCertificate>> \in Seq(NameSet)
      /\ <<ProxyTLS>> \in Seq(NameSet) /\ <<ProxyConfig>> \in Seq(NameSet)
      /\ << >> \in Seq(NameSet) /\ << >> \in Seq(CheckSet)
  BY DEF NameSet
<1>2. AuthorizationPrecheck(r) \in Seq(CheckSet)
  BY <1>c, <1>1, GetsType DEF AuthorizationPrecheck
<1>3. ReverseProxyPrecheck(r) \in Seq(CheckSet)
  BY <1>c, <1>1, GetsType DEF ReverseProxyPrecheck
<1>4. ReplicationPrecheck(r) \in Seq(CheckSet)
  BY <1>1, DriverPrecheckType DEF ReplicationPrecheck
<1> QED BY <1>1, <1>2, <1>3, <1>4 DEF ModulePrecheck

\* All the checks: of the driver, of PowerFlex's zones, of the version, and
\* of each module.
LEMMA ChecksType ==
    ASSUME NEW r \in CRType
    PROVE  /\ Checks(r) \in Seq(CheckSet)
           /\ Check("upgrade", Config) \in Range(Checks(r))
           /\ r.type = "powerflex" => {Check("arrays", Config), Check("zones", Config)}
                                        \subseteq Range(Checks(r))
           /\ Range(DriverPrecheck(r)) \subseteq Range(Checks(r))
           /\ \A m \in Range(r.modules) : Range(ModulePrecheck(r, m)) \subseteq Range(Checks(r))
<1> DEFINE d == DriverPrecheck(r)
           z == IF r.type = "powerflex" THEN <<Check("zones", Config)>> ELSE << >>
           u == <<Check("upgrade", Config)>>
           ss == [i \in DOMAIN r.modules |-> ModulePrecheck(r, r.modules[i])]
           f == FlattenSeq(ss)
<1>d. \A s, t \in Seq(CheckSet) : s \o t \in Seq(CheckSet) /\ Range(s \o t) = Range(s) \cup Range(t)
  BY ConcatRange
<1>0. Check("zones", Config) \in CheckSet /\ Check("upgrade", Config) \in CheckSet
  BY DEF Check, CheckSet, NameSet
<1>1. d \in Seq(CheckSet) /\ (r.type = "powerflex" => Check("arrays", Config) \in Range(d))
  BY DriverPrecheckType
<1>2. z \in Seq(CheckSet) /\ (r.type = "powerflex" => Check("zones", Config) \in Range(z))
  BY <1>0, RangeOfTuples
<1>3. u \in Seq(CheckSet) /\ Check("upgrade", Config) \in Range(u)
  BY <1>0, RangeOfTuples
<1>4. ss \in Seq(Seq(CheckSet)) /\ DOMAIN ss = DOMAIN r.modules
  <2>1. r.modules \in Seq(STRING)
    BY DEF CRType
  <2>2. \A i \in DOMAIN r.modules : ModulePrecheck(r, r.modules[i]) \in Seq(CheckSet)
    BY ModulePrecheckType
  <2> QED BY <2>1, <2>2
<1>5. f \in Seq(CheckSet) /\ \A i \in DOMAIN ss : Range(ss[i]) \subseteq Range(f)
  BY <1>4, FlattenRange
<1>6. \A m \in Range(r.modules) : Range(ModulePrecheck(r, m)) \subseteq Range(f)
  <2> SUFFICES ASSUME NEW i \in DOMAIN r.modules
               PROVE  Range(ModulePrecheck(r, r.modules[i])) \subseteq Range(f)
    BY DEF Range
  <2>1. ss[i] = ModulePrecheck(r, r.modules[i])
    OBVIOUS
  <2> HIDE DEF ss, f
  <2> QED BY <1>4, <1>5, <2>1
<1>7. Checks(r) = d \o z \o u \o f
  BY DEF Checks
<1> HIDE DEF d, z, u, f, ss
<1>8. /\ d \o z \in Seq(CheckSet) /\ Range(d \o z) = Range(d) \cup Range(z)
  BY <1>d, <1>1, <1>2
<1>9. /\ d \o z \o u \in Seq(CheckSet) /\ Range(d \o z \o u) = Range(d \o z) \cup Range(u)
  BY <1>d, <1>8, <1>3
<1>10. /\ Checks(r) \in Seq(CheckSet) /\ Range(Checks(r)) = Range(d \o z \o u) \cup Range(f)
  BY <1>d, <1>9, <1>5, <1>7
<1>11. Range(Checks(r)) = Range(d) \cup Range(z) \cup Range(u) \cup Range(f)
  BY <1>8, <1>9, <1>10
<1>12. Range(d) \subseteq Range(Checks(r)) /\ Range(f) \subseteq Range(Checks(r))
  BY <1>11
<1>13. Range(DriverPrecheck(r)) \subseteq Range(Checks(r))
  BY <1>12 DEF d
<1> QED BY <1>1, <1>2, <1>3, <1>6, <1>10, <1>11, <1>12, <1>13

(***************************************************************************)
(* The inductive invariant.                                                *)
(***************************************************************************)
\* What check c has established for the reconcile that has read r.
Established(r, c) ==
    /\ c.kind # "upgrade" => c.name \in r.found \cup r.unread
    /\ c.kind = "arrays" => ArraysAccepted(r.arrays)
    /\ c.kind = "zones" => ZonesAccepted(r.zones)

\* checkUpgrade's answer, which only this reconcile can make out of date.
UpgradeValid(w, recorded) == recorded = << >> \/ IsValidUpgrade(recorded[1], w.version)

ReadSet == [cr : CRs, found : SUBSET NameSet, unread : SUBSET NameSet,
            arrays : Contents, zones : Contents]

WorkSet == [version : Supported, todo : Seq(CheckSet), read : ReadSet]

\* A reconcile at work: every check that is not ahead of it is established,
\* and the version it has read is the CR's unless the CR was edited.
WorkerFine(w, stale, asked, recorded) ==
    /\ w \in WorkSet /\ ReadType(w.read) /\ IsSuffix(w.todo, Checks(w.read.cr))
    /\ ~stale => w.version = asked
    /\ \A c \in Range(Checks(w.read.cr)) \ Range(w.todo) :
           Established(w.read, c) /\ (c.kind = "upgrade" => UpgradeValid(w, recorded))

\* A deployed driver: every check of its CR was established.
DriverFine(d) ==
    /\ d \in ReadSet /\ ReadType(d)
    /\ \A c \in Range(Checks(d.cr)) : Established(d, c)

EnvTypeOK ==
    /\ TypeOK
    /\ cr \in CRs /\ edited \in BOOLEAN /\ secrets \subseteq Names(cr.type) /\ content \in Contents
    /\ changes \in 0..MaxChanges /\ faults \in 0..MaxFaults

WorkerInv == worker = << >> \/ \E w : worker = <<w>> /\ WorkerFine(w, edited, wanted, annotation)

DriverInv == driver = << >> \/ \E d : driver = <<d>> /\ DriverFine(d)

ChecksInv == EnvTypeOK /\ WorkerInv /\ DriverInv

\* The objects the checks look for are those a CR of the type may name.
LEMMA NamesFacts ==
    ASSUME NEW r \in CRs
    PROVE  /\ r \in CRType /\ NamesOf(r) \subseteq Names(r.type) /\ NamesOf(r) \subseteq NameSet
           /\ \A c \in Range(Checks(r)) : c \in CheckSet /\ (c.kind # "upgrade" => c.name \in NamesOf(r))
<1>1. r \in CRType
  BY ChecksAssumption
<1>2. Range(Checks(r)) \subseteq CheckSet
  BY <1>1, ChecksType, RangeType
<1>3. NamesOf(r) \subseteq NameSet
  BY <1>2 DEF NamesOf, CheckSet
<1>4. NamesOf(r) \subseteq Names(r.type)
  BY DEF Names
<1> QED BY <1>1, <1>2, <1>3, <1>4 DEF NamesOf

\* The first check, passed: what the reconcile knows then.
LEMMA CheckDone ==
    ASSUME NEW w, NEW x, NEW stale, NEW asked, NEW recorded,
           WorkerFine(w, stale, asked, recorded), w.todo # << >>, NEW c, c = Head(w.todo),
           x \in WorkSet, x.todo = Tail(w.todo), x.version = w.version, ReadType(x.read),
           x.read.cr = w.read.cr,
           w.read.found \cup w.read.unread \subseteq x.read.found \cup x.read.unread,
           ArraysAccepted(w.read.arrays) => ArraysAccepted(x.read.arrays),
           ZonesAccepted(w.read.zones) => ZonesAccepted(x.read.zones),
           Established(x.read, c), c.kind = "upgrade" => UpgradeValid(w, recorded)
    PROVE  WorkerFine(x, stale, asked, recorded)
<1>1. w.todo \in Seq(CheckSet) /\ w.read.cr \in CRs
  BY DEF WorkSet, WorkerFine, ReadSet
<1>2. Range(w.todo) = {c} \cup Range(x.todo)
  BY <1>1, TailRange
<1>3. UpgradeValid(w, recorded) <=> UpgradeValid(x, recorded)
  BY DEF UpgradeValid
<1>4. \A k : Established(w.read, k) => Established(x.read, k)
  BY DEF Established
<1>5. \A k \in Range(Checks(x.read.cr)) \ Range(x.todo) :
          k = c \/ k \in Range(Checks(w.read.cr)) \ Range(w.todo)
  BY <1>2
<1>6. \A k \in Range(Checks(x.read.cr)) \ Range(x.todo) :
          Established(x.read, k) /\ (k.kind = "upgrade" => UpgradeValid(x, recorded))
  BY <1>3, <1>4, <1>5 DEF WorkerFine
<1>7. IsSuffix(x.todo, Checks(x.read.cr))
  <2>1. Checks(w.read.cr) \in Seq(CheckSet)
    BY <1>1, NamesFacts, ChecksType
  <2>2. IsSuffix(w.todo, Checks(w.read.cr))
    BY DEF WorkerFine
  <2> QED BY <1>1, <2>1, <2>2, SuffixFacts
<1>8. ~stale => x.version = asked
  BY DEF WorkerFine
<1> QED BY <1>6, <1>7, <1>8 DEF WorkerFine

LEMMA ChecksInitInv == ChecksInit => ChecksInv
<1> SUFFICES ASSUME ChecksInit PROVE ChecksInv
  OBVIOUS
<1>1. TypeOK
  BY DEF ChecksInit, Init, TypeOK
<1>2. WorkerInv /\ DriverInv
  BY DEF ChecksInit, WorkerInv, DriverInv
<1>3. cr \in CRs /\ edited \in BOOLEAN
  BY DEF ChecksInit
<1>4. secrets \subseteq Names(cr.type)
  BY DEF ChecksInit
<1>5. content \in Contents
  BY ChecksAssumption DEF ChecksInit
<1>6. changes \in 0..MaxChanges /\ faults \in 0..MaxFaults
  BY ChecksAssumption DEF ChecksInit
<1> QED BY <1>1, <1>2, <1>3, <1>4, <1>5, <1>6 DEF ChecksInv, EnvTypeOK

\* What a reconcile knows does not change while others act: it may turn out
\* to have read an older CR.
LEMMA WorkerKept ==
    ASSUME WorkerInv, UNCHANGED <<worker, annotation>>,
           edited' = (worker # << >>) \/ UNCHANGED <<edited, wanted>>
    PROVE  WorkerInv'
<1>1. CASE worker = << >>
  BY <1>1 DEF WorkerInv
<1>2. ASSUME NEW w, worker = <<w>>, WorkerFine(w, edited, wanted, annotation)
      PROVE  WorkerInv'
  <2>1. edited' = TRUE \/ UNCHANGED <<edited, wanted>>
    BY <1>2
  <2>2. WorkerFine(w, edited', wanted', annotation)
    BY <1>2, <2>1 DEF WorkerFine
  <2> QED BY <1>2, <2>2 DEF WorkerInv
<1> QED BY <1>1, <1>2 DEF WorkerInv

\* A check that passes, or fails to read its object: Head(w.todo) of a
\* reconcile w, and what is left.
LEMMA HeadFacts ==
    ASSUME NEW w, NEW stale, NEW asked, NEW recorded, WorkerFine(w, stale, asked, recorded),
           w.todo # << >>
    PROVE  /\ Head(w.todo) \in CheckSet /\ Tail(w.todo) \in Seq(CheckSet)
           /\ Head(w.todo).kind # "upgrade" => Head(w.todo).name \in NamesOf(w.read.cr) \cap NameSet
<1>1. w.todo \in Seq(CheckSet) /\ w.read.cr \in CRs /\ IsSuffix(w.todo, Checks(w.read.cr))
  BY DEF WorkerFine, WorkSet, ReadSet
<1>2. Checks(w.read.cr) \in Seq(CheckSet)
  BY <1>1, NamesFacts, ChecksType
<1>3. Range(w.todo) \subseteq Range(Checks(w.read.cr))
  BY <1>1, <1>2, SuffixFacts
<1>4. /\ Head(w.todo) \in CheckSet /\ Tail(w.todo) \in Seq(CheckSet)
      /\ Head(w.todo) \in Range(w.todo)
  BY <1>1, TailRange
<1>5. Head(w.todo) \in Range(Checks(w.read.cr))
  BY <1>3, <1>4
<1> QED BY <1>1, <1>4, <1>5, NamesFacts

\* Changes of one field of what a reconcile has read.
LEMMA ReadExcept ==
    ASSUME NEW w \in WorkSet
    PROVE  /\ \A t \in Seq(CheckSet) :
                  /\ [w EXCEPT !.todo = t] \in WorkSet
                  /\ [w EXCEPT !.todo = t].todo = t
                  /\ [w EXCEPT !.todo = t].version = w.version
                  /\ [w EXCEPT !.todo = t].read = w.read
           /\ \A r \in ReadSet :
                  /\ [w EXCEPT !.read = r] \in WorkSet
                  /\ [w EXCEPT !.read = r].read = r
                  /\ [w EXCEPT !.read = r].version = w.version
                  /\ [w EXCEPT !.read = r].todo = w.todo
  BY DEF WorkSet

LEMMA RunCheckInv == EnvTypeOK /\ WorkerInv /\ RunCheck => WorkerInv'
<1> SUFFICES ASSUME EnvTypeOK, WorkerInv, RunCheck PROVE WorkerInv'
  OBVIOUS
<1>1. PICK w : worker = <<w>> /\ WorkerFine(w, edited, wanted, annotation)
  BY DEF RunCheck, Working, WorkerInv
<1>2. worker[1] = w /\ w.todo # << >>
  BY <1>1 DEF RunCheck, Working
<1> DEFINE c == Head(w.todo)
           x == [w EXCEPT !.todo = Tail(@),
                          !.read.found = IF c.kind = "upgrade" THEN @ ELSE @ \cup {c.name},
                          !.read.arrays = IF c.kind = "arrays" THEN content ELSE @,
                          !.read.zones = IF c.kind = "zones" THEN content ELSE @]
<1>3. worker' = IF ~Passes(w, c) THEN << >> ELSE <<x>>
  BY <1>2 DEF RunCheck
<1>4. UNCHANGED <<edited, wanted, annotation>>
  BY DEF RunCheck, vars
<1>5. CASE ~Passes(w, c)
  BY <1>3, <1>5 DEF WorkerInv
<1>6. CASE Passes(w, c)
  <2> USE <1>6
  <2>1. w \in WorkSet /\ w.read \in ReadSet /\ ReadType(w.read) /\ content \in Contents
    BY <1>1 DEF WorkerFine, WorkSet, EnvTypeOK
  <2>2. /\ c \in CheckSet /\ Tail(w.todo) \in Seq(CheckSet)
        /\ c.kind # "upgrade" => c.name \in NamesOf(w.read.cr) \cap NameSet
    BY <1>1, <1>2, HeadFacts
  <2> HIDE DEF c
  <2> DEFINE F == IF c.kind = "upgrade" THEN w.read.found ELSE w.read.found \cup {c.name}
             A == IF c.kind = "arrays" THEN content ELSE w.read.arrays
             Z == IF c.kind = "zones" THEN content ELSE w.read.zones
             y1 == [w EXCEPT !.todo = Tail(w.todo)]
             y2 == [y1 EXCEPT !.read.found = F]
             y3 == [y2 EXCEPT !.read.arrays = A]
             r2 == [w.read EXCEPT !.found = F]
             r3 == [r2 EXCEPT !.arrays = A]
             r4 == [r3 EXCEPT !.zones = Z]
  <2>a. x = [y3 EXCEPT !.read.zones = Z]
    OBVIOUS
  <2>b. F \in SUBSET NameSet /\ A \in Contents /\ Z \in Contents
    BY <2>1, <2>2 DEF ReadSet
  <2> HIDE DEF F, A, Z, x
  <2>c. r2 \in ReadSet /\ r3 \in ReadSet /\ r4 \in ReadSet
    BY <2>1, <2>b DEF ReadSet
  <2>d. /\ r4.cr = w.read.cr /\ r4.unread = w.read.unread /\ r4.found = F
        /\ r4.arrays = A /\ r4.zones = Z
    BY <2>1 DEF ReadSet
  <2>e. y1 \in WorkSet /\ y1.todo = Tail(w.todo) /\ y1.version = w.version /\ y1.read = w.read
    BY <2>1, <2>2, ReadExcept
  <2>f. y2 = [y1 EXCEPT !.read = r2]
    <3> HIDE DEF y1
    <3> QED BY <2>e
  <2>g. y2 \in WorkSet /\ y2.todo = Tail(w.todo) /\ y2.version = w.version /\ y2.read = r2
    <3> HIDE DEF y1, y2, r2
    <3> QED BY <2>c, <2>e, <2>f, ReadExcept
  <2>h. y3 = [y2 EXCEPT !.read = r3]
    <3> HIDE DEF y2, r2
    <3> QED BY <2>g
  <2>i. y3 \in WorkSet /\ y3.todo = Tail(w.todo) /\ y3.version = w.version /\ y3.read = r3
    <3> HIDE DEF y2, y3, r3
    <3> QED BY <2>c, <2>g, <2>h, ReadExcept
  <2>j. x = [y3 EXCEPT !.read = r4]
    <3> HIDE DEF y3, r3
    <3> QED BY <2>a, <2>i
  <2>3. x \in WorkSet /\ x.todo = Tail(w.todo) /\ x.version = w.version /\ x.read = r4
    <3> HIDE DEF y3, r4
    <3> QED BY <2>c, <2>i, <2>j, ReadExcept
  <2> HIDE DEF y1, y2, y3, r2, r3, r4
  <2>4. /\ x.read.cr = w.read.cr /\ x.read.unread = w.read.unread
        /\ x.read.found = (IF c.kind = "upgrade" THEN w.read.found ELSE w.read.found \cup {c.name})
        /\ x.read.arrays = (IF c.kind = "arrays" THEN content ELSE w.read.arrays)
        /\ x.read.zones = (IF c.kind = "zones" THEN content ELSE w.read.zones)
    BY <2>3, <2>d DEF F, A, Z
  <2>6. ReadType(x.read)
    BY <2>1, <2>2, <2>4 DEF ReadType
  <2>7. /\ c.kind = "upgrade" => UpgradeValid(w, annotation)
        /\ c.kind = "arrays" => ArraysAccepted(content)
        /\ c.kind = "zones" => ZonesAccepted(content)
    BY DEF Passes, UpgradeValid
  <2>8. Established(x.read, c)
    BY <2>4, <2>7 DEF Established
  <2>9. WorkerFine(x, edited, wanted, annotation)
    <3>1. /\ w.read.found \cup w.read.unread \subseteq x.read.found \cup x.read.unread
          /\ ArraysAccepted(w.read.arrays) => ArraysAccepted(x.read.arrays)
          /\ ZonesAccepted(w.read.zones) => ZonesAccepted(x.read.zones)
      BY <2>4, <2>7
    <3>2. c = Head(w.todo)
      BY DEF c
    <3> QED BY <1>1, <1>2, <2>3, <2>4, <2>6, <2>7, <2>8, <3>1, <3>2, CheckDone
  <2> QED BY <1>3, <1>4, <2>9 DEF WorkerInv
<1> QED BY <1>5, <1>6

LEMMA GetFailsInv == EnvTypeOK /\ WorkerInv /\ GetFails => WorkerInv'
<1> SUFFICES ASSUME EnvTypeOK, WorkerInv, GetFails PROVE WorkerInv'
  OBVIOUS
<1>1. PICK w : worker = <<w>> /\ WorkerFine(w, edited, wanted, annotation)
  BY DEF GetFails, Working, WorkerInv
<1>2. worker[1] = w /\ w.todo # << >>
  BY <1>1 DEF GetFails, Working
<1> DEFINE c == Head(w.todo)
           x == [w EXCEPT !.todo = Tail(@), !.read.unread = @ \cup {c.name}]
<1>3. c.kind # "upgrade" /\ worker' = IF c.kind # "get" THEN << >> ELSE <<x>>
  BY <1>2 DEF GetFails
<1>4. UNCHANGED <<edited, wanted, annotation>>
  BY DEF GetFails, vars
<1>5. CASE c.kind # "get"
  BY <1>3, <1>5 DEF WorkerInv
<1>6. CASE c.kind = "get"
  <2> USE <1>6
  <2>1. w \in WorkSet /\ w.read \in ReadSet /\ ReadType(w.read)
    BY <1>1 DEF WorkerFine, WorkSet
  <2>2. /\ c \in CheckSet /\ Tail(w.todo) \in Seq(CheckSet)
        /\ c.name \in NamesOf(w.read.cr) \cap NameSet
    BY <1>1, <1>2, <1>3, HeadFacts
  <2> HIDE DEF c
  <2> DEFINE y1 == [w EXCEPT !.todo = Tail(w.todo)]
             r2 == [w.read EXCEPT !.unread = w.read.unread \cup {c.name}]
  <2>a. x = [y1 EXCEPT !.read.unread = w.read.unread \cup {c.name}]
    OBVIOUS
  <2> HIDE DEF x
  <2>b. r2 \in ReadSet
    BY <2>1, <2>2 DEF ReadSet
  <2>c. y1 \in WorkSet /\ y1.todo = Tail(w.todo) /\ y1.version = w.version /\ y1.read = w.read
    BY <2>1, <2>2, ReadExcept
  <2>d. x = [y1 EXCEPT !.read = r2]
    <3> HIDE DEF y1
    <3> QED BY <2>a, <2>c
  <2>3. x \in WorkSet /\ x.todo = Tail(w.todo) /\ x.version = w.version /\ x.read = r2
    <3> HIDE DEF y1, r2
    <3> QED BY <2>b, <2>c, <2>d, ReadExcept
  <2>4. /\ x.read.cr = w.read.cr /\ x.read.unread = w.read.unread \cup {c.name}
        /\ x.read.found = w.read.found
        /\ x.read.arrays = w.read.arrays /\ x.read.zones = w.read.zones
    BY <2>1, <2>3 DEF ReadSet
  <2> HIDE DEF y1, r2
  <2>6. ReadType(x.read)
    BY <2>1, <2>2, <2>4 DEF ReadType
  <2>7. Established(x.read, c)
    BY <2>4 DEF Established
  <2>8. WorkerFine(x, edited, wanted, annotation)
    <3>1. w.read.found \cup w.read.unread \subseteq x.read.found \cup x.read.unread
      BY <2>4
    <3>2. c = Head(w.todo)
      BY DEF c
    <3> QED BY <1>1, <1>2, <1>3, <2>3, <2>4, <2>6, <2>7, <3>1, <3>2, CheckDone
  <2> QED BY <1>3, <1>4, <2>8 DEF WorkerInv
<1> QED BY <1>5, <1>6

\* The variables other than the reconcile and the driver.
LEMMA EnvKept == EnvTypeOK /\ [ChecksNext]_allVars /\ WorkerInv => EnvTypeOK'
<1> SUFFICES ASSUME EnvTypeOK, [ChecksNext]_allVars, WorkerInv PROVE EnvTypeOK'
  OBVIOUS
<1> USE DEF EnvTypeOK
<1>0. MaxChanges \in Nat /\ MaxFaults \in Nat
  BY ChecksAssumption
<1>1. CASE EditCR
  <2>1. TypeOK' /\ cr' \in CRs /\ cr'.type = cr.type
    BY <1>1 DEF EditCR, EditVersion, TypeOK, vars
  <2>2. edited' \in BOOLEAN /\ UNCHANGED <<secrets, content, faults>>
    BY <1>1 DEF EditCR
  <2>3. changes' \in 0..MaxChanges
    BY <1>0, <1>1 DEF EditCR, Change
  <2> QED BY <2>1, <2>2, <2>3
<1>2. CASE ChangeSecrets
  <2>1. TypeOK' /\ UNCHANGED <<cr, edited, faults>>
    BY <1>2 DEF ChangeSecrets, TypeOK, vars
  <2>2. secrets' \subseteq Names(cr.type)
    BY <1>2, NamesFacts DEF ChangeSecrets
  <2>3. content' \in Contents
    BY <1>2 DEF ChangeSecrets
  <2>4. changes' \in 0..MaxChanges
    BY <1>0, <1>2 DEF ChangeSecrets, Change
  <2> QED BY <2>1, <2>2, <2>3, <2>4
<1>3. CASE Start
  BY <1>3 DEF Start, TypeOK, vars
<1>4. CASE RunCheck
  BY <1>4 DEF RunCheck, TypeOK, vars
<1>5. CASE GetFails
  <2>1. TypeOK' /\ UNCHANGED <<cr, edited, secrets, content, changes>>
    BY <1>5 DEF GetFails, TypeOK, vars
  <2>2. faults' \in 0..MaxFaults
    BY <1>0, <1>5 DEF GetFails
  <2> QED BY <2>1, <2>2
<1>6. CASE Annotate
  <2>1. PICK w : worker = <<w>> /\ WorkerFine(w, edited, wanted, annotation)
    BY <1>6 DEF Annotate, Passed, WorkerInv
  <2>2. UNCHANGED <<wanted, cr, edited, secrets, content, changes, faults>>
    BY <1>6 DEF Annotate
  <2>3. edited => UNCHANGED <<annotation, previous>>
    BY <1>6 DEF Annotate
  <2>4. ~edited => /\ annotation' = <<w.version>> /\ previous' = annotation
                   /\ w.version = wanted
    BY <1>6, <2>1 DEF Annotate, WorkerFine
  <2>5. TypeOK'
    BY <2>2, <2>3, <2>4 DEF TypeOK
  <2> QED BY <2>2, <2>5
<1>7. CASE Sync
  BY <1>7 DEF Sync, TypeOK, vars
<1>8. CASE UNCHANGED allVars
  BY <1>8 DEF allVars, own, vars, TypeOK
<1> QED BY <1>1, <1>2, <1>3, <1>4, <1>5, <1>6, <1>7, <1>8 DEF ChecksNext

LEMMA StartInv == EnvTypeOK /\ Start => WorkerInv'
<1> SUFFICES ASSUME EnvTypeOK, Start PROVE WorkerInv'
  OBVIOUS
<1> DEFINE r == [cr |-> cr, found |-> {}, unread |-> {}, arrays |-> << >>, zones |-> << >>]
           w == [version |-> wanted, todo |-> Checks(cr), read |-> r]
<1>1. worker' = <<w>> /\ edited' = FALSE /\ wanted \in Supported /\ UNCHANGED <<wanted, annotation>>
  BY DEF Start, vars
<1>2. cr \in CRs /\ << >> \in Contents
  BY ChecksAssumption DEF EnvTypeOK
<1>3. cr \in CRType /\ Checks(cr) \in Seq(CheckSet)
  BY <1>2, NamesFacts, ChecksType
<1>4. r \in ReadSet /\ ReadType(r) /\ r.cr = cr
  BY <1>2 DEF ReadSet, ReadType
<1> HIDE DEF r
<1>5. w \in WorkSet /\ w.todo = Checks(cr) /\ w.read = r /\ w.version = wanted
  BY <1>1, <1>3, <1>4 DEF WorkSet
<1> HIDE DEF w
<1>6. IsSuffix(w.todo, Checks(w.read.cr))
  BY <1>3, <1>4, <1>5, SuffixFacts
<1>7. WorkerFine(w, edited', wanted', annotation')
  BY <1>1, <1>4, <1>5, <1>6 DEF WorkerFine
<1> QED BY <1>1, <1>7 DEF WorkerInv

LEMMA AnnotateInv == WorkerInv /\ Annotate => WorkerInv'
<1> SUFFICES ASSUME WorkerInv, Annotate PROVE WorkerInv'
  OBVIOUS
<1>1. PICK w : worker = <<w>> /\ WorkerFine(w, edited, wanted, annotation)
  BY DEF Annotate, Passed, WorkerInv
<1>2. UNCHANGED <<wanted, edited>>
  BY DEF Annotate
<1>3. CASE edited
  BY <1>3 DEF Annotate, WorkerInv
<1>4. CASE ~edited
  <2>1. worker' = worker /\ annotation' = <<w.version>>
    BY <1>1, <1>4 DEF Annotate
  <2>2. UpgradeValid(w, annotation')
    BY <2>1 DEF UpgradeValid, IsValidUpgrade
  <2>3. WorkerFine(w, edited', wanted', annotation')
    BY <1>1, <1>2, <2>2 DEF WorkerFine
  <2> QED BY <1>1, <2>1, <2>3 DEF WorkerInv
<1> QED BY <1>3, <1>4

\* The reconcile that deploys the driver has no check ahead of it.
LEMMA SyncInv == WorkerInv /\ DriverInv /\ Sync => WorkerInv' /\ DriverInv'
<1> SUFFICES ASSUME WorkerInv, DriverInv, Sync PROVE WorkerInv' /\ DriverInv'
  OBVIOUS
<1>1. PICK w : worker = <<w>> /\ WorkerFine(w, edited, wanted, annotation)
  BY DEF Sync, Passed, WorkerInv
<1>2. worker[1] = w /\ w.todo = << >>
  BY <1>1 DEF Sync, Passed
<1>3. worker' = << >> /\ (driver' = driver \/ driver' = <<w.read>>)
  BY <1>2 DEF Sync
<1>4. DriverFine(w.read)
  <2>1. Range(w.todo) = {}
    BY <1>2, RangeOfTuples
  <2> QED BY <1>1, <2>1 DEF WorkerFine, DriverFine, WorkSet
<1> QED BY <1>3, <1>4 DEF WorkerInv, DriverInv

LEMMA ChecksStepInv == ChecksInv /\ [ChecksNext]_allVars => ChecksInv'
<1> SUFFICES ASSUME ChecksInv, [ChecksNext]_allVars PROVE ChecksInv'
  OBVIOUS
<1> USE DEF ChecksInv
<1>1. EnvTypeOK'
  BY EnvKept
<1>2. WorkerInv'
  <2>1. CASE EditCR
    <3>1. UNCHANGED <<worker, annotation>> /\ edited' = (worker # << >>)
      BY <2>1 DEF EditCR, EditVersion, vars
    <3> QED BY <3>1, WorkerKept
  <2>2. CASE ChangeSecrets
    <3>1. UNCHANGED <<worker, annotation, edited, wanted>>
      BY <2>2 DEF ChangeSecrets, vars
    <3> QED BY <3>1, WorkerKept
  <2>3. CASE UNCHANGED allVars
    <3>1. UNCHANGED <<worker, annotation, edited, wanted>>
      BY <2>3 DEF allVars, own, vars
    <3> QED BY <3>1, WorkerKept
  <2> QED BY <2>1, <2>2, <2>3, StartInv, RunCheckInv, GetFailsInv, AnnotateInv, SyncInv DEF ChecksNext
<1>3. DriverInv'
  <2>1. CASE Sync
    BY <2>1, SyncInv
  <2>2. CASE ~Sync
    <3>1. driver' = driver
      BY <2>2 DEF ChecksNext, EditCR, ChangeSecrets, Start, RunCheck, GetFails, Annotate, allVars, own
    <3> QED BY <3>1 DEF DriverInv
  <2> QED BY <2>1, <2>2
<1> QED BY <1>1, <1>2, <1>3

LEMMA ChecksInvariance == ChecksSpec => []ChecksInv
  BY ChecksInitInv, ChecksStepInv, PTL DEF ChecksSpec

(***************************************************************************)
(* ConfigVersion, for every set of versions and every table of upgrade     *)
(* paths that satisfies TablesAssumption.                                  *)
(***************************************************************************)
\* IsValidUpgrade does not depend on the direction of the change: what it
\* accepts it also accepts backwards.
LEMMA ValidBackwards ==
    ASSUME NEW a \in Supported, NEW b \in Supported, IsValidUpgrade(a, b)
    PROVE  IsValidUpgrade(b, a)
<1>0. /\ a \in VersionType /\ b \in VersionType
      /\ MinPath[a] \in VersionType /\ MinPath[b] \in VersionType
      /\ SameRelease(a, b) => MinPath[a] = MinPath[b]
  BY TablesAssumption
<1>1. CASE SameRelease(a, b)
  BY <1>0, <1>1 DEF IsValidUpgrade, AtLeastMinPath, MinVersionCheck, SameRelease, VersionType
<1>2. CASE ~SameRelease(a, b)
  BY <1>0, <1>2 DEF IsValidUpgrade, AtLeastMinPath, MinVersionCheck, SameRelease, VersionType
<1> QED BY <1>1, <1>2

\* IsValidUpgrade accepts exactly the changes that are valid in the full
\* order of versions, although it looks at no patch number.
THEOREM ValidUpgradeIsValidChange ==
    ASSUME NEW a \in Supported, NEW b \in Supported
    PROVE  IsValidUpgrade(a, b) <=> ValidChange(a, b)
<1>0. /\ a \in VersionType /\ b \in VersionType
      /\ MinPath[a] \in VersionType /\ MinPath[b] \in VersionType
      /\ MinPath[a].patch = 0 /\ MinPath[b].patch = 0
      /\ SameRelease(a, b) => MinPath[a] = MinPath[b]
  BY TablesAssumption
<1>1. \A v, w \in VersionType : v.patch = 0 => (MinVersionCheck(v, w) <=> NotNewer(v, w))
  BY DEF MinVersionCheck, NotNewer, SameRelease, VersionType
<1>2. AtLeastMinPath(a, b) <=> NotNewer(MinPath[a], b)
  BY <1>0, <1>1 DEF AtLeastMinPath
<1>3. AtLeastMinPath(b, a) <=> NotNewer(MinPath[b], a)
  BY <1>0, <1>1 DEF AtLeastMinPath
<1>4. CASE SameRelease(a, b)
  <2>1. MinVersionCheck(a, b)
    BY <1>0, <1>4 DEF MinVersionCheck, SameRelease, VersionType
  <2>2. NotNewer(MinPath[a], b) <=> NotNewer(MinPath[b], a)
    BY <1>0, <1>4 DEF NotNewer, SameRelease, VersionType
  <2> QED BY <1>2, <1>3, <2>1, <2>2 DEF IsValidUpgrade, ValidChange
<1>5. CASE ~SameRelease(a, b)
  <2>1. MinVersionCheck(a, b) <=> NotNewer(a, b)
    BY <1>0, <1>5 DEF MinVersionCheck, NotNewer, SameRelease, VersionType
  <2> QED BY <1>2, <1>3, <2>1 DEF IsValidUpgrade, ValidChange
<1> QED BY <1>4, <1>5

\* The change the operator has last accepted was checked by IsValidUpgrade.
Checked ==
    /\ annotation = << >> => previous = << >>
    /\ previous # << >> /\ ~AuthServer => IsValidUpgrade(previous[1], annotation[1])

LEMMA CheckedInvariant == Spec => []Checked
<1>1. Init => Checked
  BY DEF Init, Checked
<1>2. Checked /\ [Next]_vars => Checked'
  <2> SUFFICES ASSUME Checked, [Next]_vars
               PROVE  Checked'
    OBVIOUS
  <2>1. CASE Accept
    <3>1. annotation' # << >> /\ annotation'[1] = wanted
      BY <2>1 DEF Accept
    <3>2. previous' # << >> /\ ~AuthServer' => IsValidUpgrade(previous'[1], annotation'[1])
      BY <2>1, <3>1 DEF Accept, UpgradeAccepted
    <3> QED BY <3>1, <3>2 DEF Checked, IsValidUpgrade, AtLeastMinPath, MinVersionCheck, Supported
  <2>2. CASE UNCHANGED <<annotation, previous>>
    BY <2>2 DEF Checked, IsValidUpgrade, AtLeastMinPath, MinVersionCheck, Supported
  <2> QED BY <2>1, <2>2 DEF Next, EditVersion, vars
<1> QED BY <1>1, <1>2, PTL DEF Spec

\* Every change of the config version annotation of a driver is one the
\* upgrade tables allow (applyConfigVersionAnnotations after checkUpgrade).
THEOREM ChangesAreValid == Spec => []AcceptedIsValid
<1>1. Checked => AcceptedIsValid
  BY ValidUpgradeIsValidChange DEF Checked, AcceptedIsValid
<1> QED BY <1>1, CheckedInvariant, PTL

\* Every accepted change of a driver's config version can be undone.
THEOREM ChangesAreUndoable == Spec => []Undoable
<1>1. Checked => Undoable
  BY ValidBackwards DEF Checked, Undoable
<1> QED BY <1>1, CheckedInvariant, PTL

(***************************************************************************)
(* The theorems.                                                           *)
(***************************************************************************)
\* Every variable keeps its type; what is left of the checks is a suffix of
\* those of the CR that was read, and only the objects they name were looked
\* for.
THEOREM ChecksTypes == ChecksSpec => []ChecksTypeOK
<1>1. ChecksInv => ChecksTypeOK
  <2> SUFFICES ASSUME ChecksInv PROVE ChecksTypeOK
    OBVIOUS
  <2>1. \A w \in Range(worker) : WorkerFine(w, edited, wanted, annotation)
    BY RangeOfTuples DEF ChecksInv, WorkerInv
  <2>2. \A d \in Range(driver) : DriverFine(d)
    BY RangeOfTuples DEF ChecksInv, DriverInv
  <2>3. \A w \in Range(worker) : w.version \in Supported /\ IsSuffix(w.todo, Checks(w.read.cr))
    BY <2>1 DEF WorkerFine, WorkSet
  <2>4. \A r \in {w.read : w \in Range(worker)} \cup Range(driver) : ReadType(r)
    BY <2>1, <2>2 DEF WorkerFine, DriverFine
  <2> QED BY <2>3, <2>4 DEF ChecksInv, EnvTypeOK, ChecksTypeOK
<1> QED BY <1>1, ChecksInvariance, PTL

\* A PowerFlex driver is deployed only with a Secret whose arrays have
\* different names, one default at most, and zones for all or none with one
\* label key, however many arrays the Secret has and whatever it is changed
\* to meanwhile.
THEOREM ArraysAreUsable == ChecksSpec => []ArraysUsable
<1>1. ChecksInv => ArraysUsable
  <2> SUFFICES ASSUME ChecksInv, NEW d \in Range(driver), d.cr.type = "powerflex"
               PROVE  LET a == d.arrays[1]
                          z == d.zones[1]
                      IN  /\ \A i, j \in DOMAIN a :
                               i # j => a[i].id # a[j].id /\ ~(a[i].default /\ a[j].default)
                          /\ \E key \in {z[i].key : i \in DOMAIN z} \cup {""} :
                               \A i \in DOMAIN z : z[i].key = key /\ (z[i].zone = "" <=> key = "")
    BY DEF ArraysUsable
  <2>1. DriverFine(d)
    BY RangeOfTuples DEF ChecksInv, DriverInv
  <2>2. d.cr \in CRs /\ d.arrays \in Contents /\ d.zones \in Contents
    BY <2>1 DEF DriverFine, ReadSet
  <2>3. {Check("arrays", Config), Check("zones", Config)} \subseteq Range(Checks(d.cr))
    BY <2>2, NamesFacts, ChecksType
  <2>4. Established(d, Check("arrays", Config)) /\ Established(d, Check("zones", Config))
    BY <2>1, <2>3 DEF DriverFine
  <2>5. ArraysAccepted(d.arrays) /\ ZonesAccepted(d.zones)
    BY <2>4 DEF Established, Check
  <2>6. \A c \in Contents : c # << >> => c[1] \in Seq(ArrayType)
    BY ChecksAssumption
  <2>7. \A i, j \in DOMAIN d.arrays[1] : i # j =>
            d.arrays[1][i].id # d.arrays[1][j].id /\ ~(d.arrays[1][i].default /\ d.arrays[1][j].default)
    BY <2>2, <2>5, <2>6, ArraysAcceptedMeans
  <2>8. \E key \in {d.zones[1][i].key : i \in DOMAIN d.zones[1]} \cup {""} :
            \A i \in DOMAIN d.zones[1] : d.zones[1][i].key = key /\ (d.zones[1][i].zone = "" <=> key = "")
    BY <2>2, <2>5, <2>6, ZonesAcceptedMeans
  <2> QED BY <2>7, <2>8
<1> QED BY <1>1, ChecksInvariance, PTL

\* The reconciles implement ConfigVersion, whatever is edited between the
\* check of the version and the write of the annotation: the annotation
\* changes to the version the CR asks for at that moment, and from one that
\* may be upgraded to it.
THEOREM ReconcilesAcceptVersions == ChecksSpec => VersionsAccepted
<1>1. ChecksInit => Init
  BY DEF ChecksInit
<1>2. ChecksInv /\ [ChecksNext]_allVars => [Next]_vars
  <2> SUFFICES ASSUME ChecksInv, [ChecksNext]_allVars PROVE [Next]_vars
    OBVIOUS
  <2>1. CASE Annotate
    <3>1. PICK w : worker = <<w>> /\ WorkerFine(w, edited, wanted, annotation)
      BY <2>1 DEF Annotate, Passed, ChecksInv, WorkerInv
    <3>2. CASE edited
      BY <2>1, <3>2 DEF Annotate, vars
    <3>3. CASE ~edited
      <4>1. w.version = wanted /\ w.todo = << >> /\ w.read.cr \in CRs
        BY <2>1, <3>1, <3>3 DEF Annotate, Passed, WorkerFine, WorkSet, ReadSet
      <4>2. Check("upgrade", Config) \in Range(Checks(w.read.cr)) \ Range(w.todo)
        BY <4>1, NamesFacts, ChecksType, RangeOfTuples
      <4>3. UpgradeValid(w, annotation)
        BY <3>1, <4>2 DEF WorkerFine, Check
      <4>4. UpgradeAccepted
        BY <4>1, <4>3 DEF UpgradeAccepted, UpgradeValid
      <4>5. /\ annotation # <<wanted>> /\ annotation' = <<wanted>> /\ previous' = annotation
            /\ UNCHANGED wanted
        BY <2>1, <3>1, <3>3, <4>1 DEF Annotate
      <4> QED BY <4>4, <4>5 DEF Next, Accept
    <3> QED BY <3>2, <3>3
  <2>2. CASE EditCR
    BY <2>2 DEF EditCR, Next
  <2>3. CASE UNCHANGED vars
    BY <2>3
  <2>4. ChangeSecrets \/ Start \/ RunCheck \/ GetFails \/ Sync \/ UNCHANGED allVars => UNCHANGED vars
    BY DEF ChangeSecrets, Start, RunCheck, GetFails, Sync, allVars
  <2> QED BY <2>1, <2>2, <2>3, <2>4 DEF ChecksNext
<1> QED BY <1>1, <1>2, ChecksInvariance, PTL DEF ChecksSpec, Spec, VersionsAccepted

\* So the version a driver's reconciles record is always a valid change of the
\* one before, which can be undone, when edits race the check.
THEOREM RecordedVersionsValid == ChecksSpec => [](AcceptedIsValid /\ Undoable)
<1>1. ChecksSpec => Spec
  BY ReconcilesAcceptVersions DEF VersionsAccepted
<1> QED BY <1>1, ChangesAreValid, ChangesAreUndoable, PTL

(***************************************************************************)
(* The Secrets that are mounted and those that are looked for.             *)
(***************************************************************************)
\* The CRs whose checks look for all the pods mount.  The others: a PowerStore
\* driver with an authSecret, whose pods mount the default Secret; a PowerMax
\* driver without the reverse proxy module, whose pods mount the proxy's
\* certificate; a PowerFlex driver with certificate Secrets.
Covered(r) ==
    /\ r.type = "powerstore" => ~r.authSecret
    /\ r.type = "powermax" => "reverseproxy" \in Range(r.modules)
    /\ r.type = "powerflex" => CertVolume(r) = {}

\* The loops of getApplyCertVolume mount no certificate that those of the
\* checks do not look for, although their defaults differ.
LEMMA CertsCovered ==
    ASSUME NEW envs \in Seq(EnvType), NEW i \in {0, 1}, NEW n \in {0, 1}
    PROVE  Range(Certs(LastOf(envs, "skip", i), LastOf(envs, "count", n)))
             \subseteq Range(Certs(LastOf(envs, "skip", i), LastOf(envs, "count", 1)))
<1> DEFINE s == LastOf(envs, "skip", i)
           k == LastOf(envs, "count", n)
           l == LastOf(envs, "count", 1)
<1>1. s \in Int /\ k \in Int /\ l \in Int
  <2>1. i \in Int /\ n \in Int /\ 1 \in Int
    OBVIOUS
  <2> QED BY <2>1, LastOfType, Zenon
<1>2. k = l \/ (k = n /\ l = 1)
  BY DEF LastOf
<1> HIDE DEF s, k, l
<1>3. 1..k \subseteq 1..l
  BY <1>1, <1>2
<1>4. Range(Certs(s, k)) \subseteq Range(Certs(s, l))
  <2>1. /\ Range(Certs(s, k)) = IF s = 1 THEN {} ELSE {Cert(j - 1) : j \in 1..k}
        /\ Range(Certs(s, l)) = IF s = 1 THEN {} ELSE {Cert(j - 1) : j \in 1..l}
    BY <1>1, CertsType
  <2>2. {Cert(j - 1) : j \in 1..k} \subseteq {Cert(j - 1) : j \in 1..l}
    BY <1>3
  <2> QED BY <2>1, <2>2
<1> QED BY <1>4 DEF s, k, l

\* What a Get looks for.
LEMMA GetsNames ==
    ASSUME NEW r \in CRs, NEW names \in Seq(NameSet),
           Range(Gets(names)) \subseteq Range(Checks(r))
    PROVE  Range(names) \subseteq NamesOf(r)
<1> SUFFICES ASSUME NEW n \in Range(names) PROVE n \in NamesOf(r)
  OBVIOUS
<1>1. Check("get", n) \in Range(Checks(r))
  BY GetsType
<1> QED BY <1>1 DEF NamesOf, Check

\* The certificates that the pods of a driver with checks for them mount.
LEMMA CertVolumeCovered ==
    ASSUME NEW r \in CRs, r.type \in {"powerscale", "powerstore", "unity"},
           NEW i, i = IF r.type = "powerscale" THEN 0 ELSE 1
    PROVE  CertVolume(r) \subseteq Range(Certs(LastOf(Envs(r), "skip", i), LastOf(Envs(r), "count", 1)))
<1> DEFINE e == Envs(r)
           n == IF e = << >> \/ (Len(e) = 1 /\ e[1].name # "count") THEN 0 ELSE 1
           look == Range(Certs(LastOf(e, "skip", i), LastOf(e, "count", 1)))
<1>1. e \in Seq(EnvType)
  BY NamesFacts, EnvsType
<1>2. i \in {0, 1} /\ n \in {0, 1}
  OBVIOUS
<1>3. \/ CertVolume(r) = {}
      \/ CertVolume(r) = Range(Certs(LastOf(e, "skip", i), LastOf(e, "count", n)))
      \/ CertVolume(r) = look
  BY DEF CertVolume, getApplyCertVolume, getApplyCertVolumePowerstore, getApplyCertVolumeUnity
<1> HIDE DEF e, n
<1>4. Range(Certs(LastOf(e, "skip", i), LastOf(e, "count", n))) \subseteq look
  BY <1>1, <1>2, CertsCovered
<1>5. CertVolume(r) \subseteq look
  BY <1>3, <1>4
<1> QED BY <1>5 DEF e

\* The volumes of the driver's own pods.
LEMMA DriverCovered ==
    ASSUME NEW r \in CRs, Covered(r)
    PROVE  CertVolume(r) \cup DriverVolumes(r) \subseteq NamesOf(r)
<1>c. \A s, t \in Seq(NameSet) : s \o t \in Seq(NameSet) /\ Range(s \o t) = Range(s) \cup Range(t)
  BY ConcatRange
<1>0. /\ r \in CRType /\ Range(DriverPrecheck(r)) \subseteq Range(Checks(r))
      /\ \A m \in Range(r.modules) : Range(ModulePrecheck(r, m)) \subseteq Range(Checks(r))
  BY NamesFacts, ChecksType
<1>1. \A i \in {0, 1} : Certs(LastOf(Envs(r), "skip", i), LastOf(Envs(r), "count", 1)) \in Seq(NameSet)
  <2>1. 1 \in Int /\ \A i \in {0, 1} : i \in Int
    OBVIOUS
  <2>2. \A name, default : default \in Int => LastOf(Envs(r), name, default) \in Int
    BY <1>0, EnvsType, LastOfType
  <2> QED BY <2>1, <2>2, CertsType, Zenon
<1>2. /\ <<Config>> \in Seq(NameSet) /\ <<MetricsTLS>> \in Seq(NameSet)
      /\ <<Credentials(r)>> \in Seq(NameSet) /\ <<ProxyTLS>> \in Seq(NameSet)
      /\ <<ProxyConfig>> \in Seq(NameSet) /\ << >> \in Seq(NameSet)
  BY DEF NameSet, Credentials
<1>3. CASE r.type \in {"powerscale", "powerstore", "unity"}
  <2> DEFINE i == IF r.type = "powerscale" THEN 0 ELSE 1
             certs == Certs(LastOf(Envs(r), "skip", i), LastOf(Envs(r), "count", 1))
             cred == IF r.type = "unity" THEN Config ELSE Credentials(r)
  <2>1. CertVolume(r) \subseteq Range(certs)
    BY <1>3, CertVolumeCovered
  <2>2. certs \in Seq(NameSet) /\ <<cred>> \in Seq(NameSet)
    BY <1>1, <1>2
  <2>3. DriverPrecheck(r) = Gets(<<cred>> \o certs)
    BY <1>3 DEF DriverPrecheck, PrecheckPowerScale, PrecheckPowerStore, PrecheckUnity
  <2>4. DriverVolumes(r) = {cred}
    BY <1>3 DEF DriverVolumes, Covered, Credentials
  <2> HIDE DEF certs, cred
  <2>5. <<cred>> \o certs \in Seq(NameSet) /\ Range(<<cred>> \o certs) = {cred} \cup Range(certs)
    BY <1>c, <2>2, RangeOfTuples
  <2>6. Range(<<cred>> \o certs) \subseteq NamesOf(r)
    BY <1>0, <2>3, <2>5, GetsNames
  <2> QED BY <2>1, <2>4, <2>5, <2>6
<1>4. CASE r.type = "powermax"
  <2>1. CertVolume(r) = {}
    BY <1>4, RangeOfTuples DEF CertVolume
  <2>2. DriverVolumes(r) = {Credentials(r), ProxyTLS}
    BY <1>4 DEF DriverVolumes
  <2>3. DriverPrecheck(r) = Gets(<<Credentials(r)>>)
    BY <1>4 DEF DriverPrecheck, PrecheckPowerMax
  <2>4. Credentials(r) \in NamesOf(r)
    BY <1>0, <1>2, <2>3, GetsNames, RangeOfTuples
  <2> DEFINE rest == IF r.useSecret THEN << >> ELSE <<ProxyConfig>>
  <2>5. ModulePrecheck(r, "reverseproxy") = Gets(<<ProxyTLS>> \o rest)
    BY DEF ModulePrecheck, ReverseProxyPrecheck
  <2>6. rest \in Seq(NameSet)
    BY <1>2
  <2> HIDE DEF rest
  <2> DEFINE first == <<ProxyTLS>>
  <2>7. <<ProxyTLS>> \o rest \in Seq(NameSet) /\ ProxyTLS \in Range(<<ProxyTLS>> \o rest)
    <3>1. first \in Seq(NameSet) /\ Range(first) = {ProxyTLS}
      BY <1>2, RangeOfTuples
    <3> HIDE DEF first
    <3>2. first \o rest \in Seq(NameSet) /\ ProxyTLS \in Range(first \o rest)
      BY <1>c, <2>6, <3>1
    <3> QED BY <3>2 DEF first
  <2>8. "reverseproxy" \in Range(r.modules)
    BY <1>4 DEF Covered
  <2>9. Range(Gets(<<ProxyTLS>> \o rest)) \subseteq Range(Checks(r))
    BY <1>0, <2>5, <2>8
  <2>10. ProxyTLS \in NamesOf(r)
    BY <2>7, <2>9, GetsNames
  <2> QED BY <2>1, <2>2, <2>4, <2>10
<1>5. CASE r.type = "powerflex"
  <2>1. CertVolume(r) = {}
    BY <1>5 DEF Covered
  <2>2. DriverVolumes(r) = {Config} \cup (IF r.metricsTLS THEN {MetricsTLS} ELSE {})
    BY <1>5 DEF DriverVolumes
  <2>3. Config \in NamesOf(r)
    <3>1. Check("arrays", Config) \in Range(Checks(r))
      BY <1>0, <1>5, ChecksType
    <3> QED BY <3>1 DEF NamesOf, Check
  <2>4. ASSUME r.metricsTLS PROVE MetricsTLS \in NamesOf(r)
    <3>1. DriverPrecheck(r) = <<Check("arrays", Config)>> \o Gets(<<MetricsTLS>>)
      BY <1>5, <2>4 DEF DriverPrecheck, PrecheckPowerFlex
    <3>2. <<Check("arrays", Config)>> \in Seq(CheckSet)
      BY DEF Check, CheckSet, NameSet
    <3>3. Gets(<<MetricsTLS>>) \in Seq(CheckSet)
      BY <1>2, GetsType
    <3> DEFINE first == <<Check("arrays", Config)>>
               rest == Gets(<<MetricsTLS>>)
    <3>4. Range(Gets(<<MetricsTLS>>)) \subseteq Range(DriverPrecheck(r))
      <4> HIDE DEF first, rest
      <4>1. Range(first \o rest) = Range(first) \cup Range(rest)
        BY <3>2, <3>3, ConcatRange DEF first, rest
      <4>2. Range(rest) \subseteq Range(first \o rest)
        BY <4>1
      <4> QED BY <3>1, <4>2 DEF first, rest
    <3> QED BY <1>0, <1>2, <3>4, GetsNames, RangeOfTuples
  <2> QED BY <2>1, <2>2, <2>3, <2>4
<1>6. CASE r.type = "cosi"
  <2>1. CertVolume(r) = {}
    BY <1>6, RangeOfTuples DEF CertVolume
  <2>2. DriverVolumes(r) = {Config}
    BY <1>6 DEF DriverVolumes
  <2>3. DriverPrecheck(r) = Gets(<<Config>>)
    BY <1>6 DEF DriverPrecheck, PrecheckCosi
  <2>4. Config \in NamesOf(r)
    BY <1>0, <1>2, <2>3, GetsNames, RangeOfTuples
  <2> QED BY <2>1, <2>2, <2>4
<1> QED BY <1>0, <1>3, <1>4, <1>5, <1>6 DEF CRType

\* Those of the authorization sidecar.
LEMMA SidecarCovered ==
    ASSUME NEW r \in CRs
    PROVE  AuthVolumes(r) \subseteq NamesOf(r)
<1> SUFFICES ASSUME "authorization" \in Range(r.modules) PROVE AuthVolumes(r) \subseteq NamesOf(r)
  BY DEF AuthVolumes
<1> DEFINE rest == IF r.skipAuth THEN << >> ELSE <<RootCertificate>>
<1>1. <<Tokens>> \in Seq(NameSet) /\ rest \in Seq(NameSet)
  <2>1. Tokens \in NameSet /\ RootCertificate \in NameSet
    BY DEF NameSet
  <2> QED BY <2>1
<1>2. Range(Gets(<<Tokens>> \o rest)) \subseteq Range(Checks(r))
  <2>1. ModulePrecheck(r, "authorization") = Gets(<<Tokens>> \o rest)
    BY DEF ModulePrecheck, AuthorizationPrecheck
  <2> QED BY <2>1, NamesFacts, ChecksType
<1>3. AuthVolumes(r) = {Tokens} \cup Range(rest)
  BY RangeOfTuples DEF AuthVolumes
<1> HIDE DEF rest
<1> DEFINE first == <<Tokens>>
<1>4. <<Tokens>> \o rest \in Seq(NameSet) /\ Range(<<Tokens>> \o rest) = {Tokens} \cup Range(rest)
  <2>1. first \in Seq(NameSet) /\ Range(first) = {Tokens}
    BY <1>1, RangeOfTuples
  <2> HIDE DEF first
  <2>2. first \o rest \in Seq(NameSet) /\ Range(first \o rest) = Range(first) \cup Range(rest)
    BY <1>1, <2>1, ConcatRange
  <2> QED BY <2>1, <2>2 DEF first
<1> QED BY <1>2, <1>3, <1>4, GetsNames

\* A driver is deployed only after every Secret its pods mount was found, or
\* could not be read, when its CR is none of the three exceptions of Covered:
\* the functions that list what is mounted agree with those that check it.
THEOREM MountedAreFound ==
    ASSUME \A r \in CRs : Covered(r)
    PROVE  ChecksSpec => []MountedWereFound
<1>1. ChecksInv => MountedWereFound
  <2> SUFFICES ASSUME ChecksInv, NEW d \in Range(driver), NEW n \in Mounts(d.cr)
               PROVE  n \in d.found \cup d.unread
    BY DEF MountedWereFound
  <2>1. DriverFine(d) /\ d.cr \in CRs
    BY RangeOfTuples DEF ChecksInv, DriverInv, DriverFine, ReadSet
  <2>2. n \in NamesOf(d.cr)
    BY <2>1, DriverCovered, SidecarCovered DEF Mounts
  <2>3. PICK c \in Range(Checks(d.cr)) : c.kind # "upgrade" /\ c.name = n
    BY <2>2 DEF NamesOf
  <2> QED BY <2>1, <2>3 DEF DriverFine, Established
<1> QED BY <1>1, ChecksInvariance, PTL

=============================================================================
