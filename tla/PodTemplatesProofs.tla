------------------------- MODULE PodTemplatesProofs -------------------------
(***************************************************************************)
(* When an image may be resolved a second time, for every registry and     *)
(* every image.                                                            *)
(***************************************************************************)
EXTENDS PodTemplates, TLAPS

\* Without its domain an image is not empty.
LEMMA PathOf ==
    ASSUME NEW S, NEW image \in Seq(S), image # << >>
    PROVE  LET path == IF Len(image) > 1 /\ Head(image) \in Domains THEN Tail(image) ELSE image
           IN  path \in Seq(S) /\ Len(path) > 0
  OBVIOUS

\* What a registry in front of a path looks like.
LEMMA Prefixed ==
    ASSUME NEW S, NEW reg \in Seq(S), NEW path \in Seq(S), reg # << >>, Len(path) > 0
    PROVE  /\ reg \o path \in Seq(S) /\ Len(reg \o path) = Len(reg) + Len(path)
           /\ Len(reg \o path) > 1 /\ Head(reg \o path) = Head(reg)
           /\ Last(reg \o path) = Last(path)
           /\ Len(reg) = 1 => Tail(reg \o path) = path
           /\ Tail(reg \o path) \in Seq(S) /\ Len(Tail(reg \o path)) = Len(reg) + Len(path) - 1
  <1>1. /\ reg \o path \in Seq(S) /\ Len(reg \o path) = Len(reg) + Len(path)
        /\ Len(reg) > 0
    OBVIOUS
  <1>2. Head(reg \o path) = Head(reg)
    BY <1>1
  <1>3. Last(reg \o path) = Last(path)
    BY <1>1 DEF Last
  <1>4. Tail(reg \o path) \in Seq(S) /\ Len(Tail(reg \o path)) = Len(reg) + Len(path) - 1
    BY <1>1
  <1>5. ASSUME Len(reg) = 1 PROVE Tail(reg \o path) = path
    <2>1. \A i \in 1..Len(path) : Tail(reg \o path)[i] = path[i]
      BY <1>1, <1>4, <1>5
    <2> QED
      BY <2>1, <1>4, <1>5
  <1> QED
    BY <1>1, <1>2, <1>3, <1>4, <1>5

\* Resolving an image again is harmless exactly if the path is not retained or
\* the registry is one domain: with retainImageRegistryPath and a registry that
\* has a path, or whose first segment is no domain, ResolveImage puts the
\* registry's own segments into the path of the image.
THEOREM ResolvedAgain ==
    ASSUME NEW S, NEW cr, cr.registry \in Seq(S), cr.registry # << >>, cr.retain \in BOOLEAN,
           NEW image \in Seq(S), image # << >>
    PROVE  ResolveImage(ResolveImage(image, cr), cr) = ResolveImage(image, cr) <=> SafeTwice(cr)
  <1> DEFINE Path(i) == IF Len(i) > 1 /\ Head(i) \in Domains THEN Tail(i) ELSE i
             reg     == cr.registry
  <1>0. reg \in Seq(S) /\ reg # << >> /\ Len(reg) \in Nat /\ Len(reg) > 0
    OBVIOUS
  <1>1. CASE ~cr.retain
    <2>1. <<Last(image)>> \in Seq(S) /\ Len(<<Last(image)>>) = 1
      BY DEF Last
    <2>2. \A i : ResolveImage(i, cr) = reg \o <<Last(i)>>
      BY <1>1 DEF ResolveImage
    <2>3. Last(reg \o <<Last(image)>>) = Last(image)
      BY <2>1, Prefixed DEF Last
    <2> QED
      BY <1>1, <2>2, <2>3 DEF SafeTwice
  <1>2. CASE cr.retain
    <2>1. \A i : ResolveImage(i, cr) = reg \o Path(i)
      BY <1>2 DEF ResolveImage
    <2> DEFINE p == reg \o Path(image)
    <2>2. Path(image) \in Seq(S) /\ Len(Path(image)) > 0
      BY PathOf
    <2>3. /\ p \in Seq(S) /\ Len(p) = Len(reg) + Len(Path(image))
          /\ Len(p) > 1 /\ Head(p) = Head(reg)
          /\ Len(reg) = 1 => Tail(p) = Path(image)
          /\ Tail(p) \in Seq(S) /\ Len(Tail(p)) = Len(reg) + Len(Path(image)) - 1
      BY <2>2, Prefixed
    <2> HIDE DEF Path, reg
    <2>4. ResolveImage(ResolveImage(image, cr), cr) = reg \o Path(p) /\ ResolveImage(image, cr) = p
      BY <2>1, Zenon
    <2> HIDE DEF p
    <2>5. CASE Head(reg) \in Domains
      <3>1. Path(p) = Tail(p)
        BY <2>3, <2>5 DEF Path
      <3>2. CASE Len(reg) = 1
        BY <2>3, <2>4, <2>5, <3>1, <3>2, <1>2 DEF SafeTwice, p, reg
      <3>3. CASE Len(reg) # 1
        <4>1. Len(reg \o Tail(p)) # Len(p)
          <5>1. Tail(p) \in Seq(S) /\ Len(Tail(p)) > 0 /\ Len(Path(image)) \in Nat
            BY <1>0, <2>2, <2>3
          <5>2. Len(reg \o Tail(p)) = Len(reg) + Len(Tail(p))
            BY <1>0, <5>1
          <5>3. \A l, n \in Nat : l # 1 => l + (l + n - 1) # l + n
            OBVIOUS
          <5>4. Len(reg) + (Len(reg) + Len(Path(image)) - 1) # Len(reg) + Len(Path(image))
            BY <1>0, <3>3, <5>1, <5>3
          <5> QED
            BY <2>3, <5>2, <5>4, Zenon
        <4> QED
          BY <2>4, <3>1, <3>3, <4>1, <1>2 DEF SafeTwice, reg
      <3> QED
        BY <3>2, <3>3
    <2>6. CASE Head(reg) \notin Domains
      <3>1. Path(p) = p
        BY <2>3, <2>6 DEF Path
      <3>2. Len(reg \o p) # Len(p)
        BY <1>0, <2>3, Prefixed
      <3> QED
        BY <2>4, <2>6, <3>1, <3>2, <1>2 DEF SafeTwice, reg
    <2> QED
      BY <2>5, <2>6
  <1> QED
    BY <1>1, <1>2
=============================================================================
