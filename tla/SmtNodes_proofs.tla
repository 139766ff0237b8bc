-------------------------- MODULE SmtNodes_proofs --------------------------
(***************************************************************************)
(* The positions of the tree and their hashes, for every length of bit     *)
(* strings: ancestors are positions, the ancestors of an ancestor are      *)
(* ancestors, each is strictly less deep, a position is among its          *)
(* children's ancestors, and the hash of a tree is well defined.           *)
(***************************************************************************)
EXTENDS SmtNodes, SequenceTheorems, FiniteSetTheorems, WellFoundedInduction, TLAPS

\* A bounded sequence is a sequence that is not too long.
LEMMA BitStringIsSeq ==
    ASSUME NEW n \in Nat
    PROVE  \A s : s \in BitStringsUpTo(n) <=> s \in Seq(Bit) /\ Len(s) <= n
<1> SUFFICES ASSUME NEW s PROVE s \in BitStringsUpTo(n) <=> s \in Seq(Bit) /\ Len(s) <= n
  OBVIOUS
<1>1. ASSUME s \in BitStringsUpTo(n) PROVE s \in Seq(Bit) /\ Len(s) <= n
  <2>1. PICK k \in 0..n : s \in [1..k -> Bit]
    BY <1>1, Zenon DEF BitStringsUpTo, BoundedSeq, SeqOf
  <2>2. s \in Seq(Bit)
    BY <2>1, SeqDef
  <2>3. Len(s) = k
    BY <2>1, <2>2, LenProperties
  <2> QED BY <2>1, <2>2, <2>3
<1>2. ASSUME s \in Seq(Bit), Len(s) <= n PROVE s \in BitStringsUpTo(n)
  <2>1. s \in [1..Len(s) -> Bit] /\ Len(s) \in 0..n
    BY <1>2, LenProperties
  <2> QED BY <2>1 DEF BitStringsUpTo, BoundedSeq, SeqOf
<1> QED BY <1>1, <1>2

LEMMA PairFacts ==
    ASSUME NEW p \in Pairs
    PROVE  /\ p = [xy |-> p.xy, z |-> p.z]
           /\ p.xy \in Seq(Bit) /\ Len(p.xy) \in 0..XY_BITS
           /\ p.z \in Seq(Bit) /\ Len(p.z) \in 0..Z_BITS
           /\ p.xy = <<>> => p = Root
BY BitStringIsSeq, BitsAssumption, LenProperties DEF Pairs, Root

LEMMA PairIntro ==
    ASSUME NEW xy \in Seq(Bit), NEW z \in Seq(Bit),
           Len(xy) <= XY_BITS, Len(z) <= Z_BITS, xy = <<>> => z = <<>>
    PROVE  [xy |-> xy, z |-> z] \in Pairs
<1>1. xy \in BitStringsUpTo(XY_BITS) /\ z \in BitStringsUpTo(Z_BITS)
  BY BitStringIsSeq, BitsAssumption
<1> QED BY <1>1 DEF Pairs

\* The first k elements of a string.
LEMMA PrefixFacts ==
    ASSUME NEW s \in Seq(Bit), NEW k \in 0..Len(s)
    PROVE  /\ SubSeq(s, 1, k) \in Seq(Bit)
           /\ Len(SubSeq(s, 1, k)) = k
           /\ SubSeq(s, 1, k) = <<>> <=> k = 0
           /\ \A j \in 0..k : SubSeq(SubSeq(s, 1, k), 1, j) = SubSeq(s, 1, j)
<1>1. Len(s) \in Nat /\ k \in Int /\ \A i \in 1..k : s[i] \in Bit
  BY LenProperties, ElementOfSeq
<1>2. SubSeq(s, 1, k) \in Seq(Bit) /\ Len(SubSeq(s, 1, k)) = k
  BY <1>1, SubSeqProperties
<1>3. SubSeq(s, 1, k) = <<>> <=> k = 0
  BY <1>1, <1>2, EmptySeq, SubSeqEmpty
<1>4. ASSUME NEW j \in 0..k PROVE SubSeq(SubSeq(s, 1, k), 1, j) = SubSeq(s, 1, j)
  <2>1. CASE j = 0
    BY <2>1, SubSeqEmpty
  <2>2. CASE j # 0
    <3>1. 1 \in 1..Len(s) /\ k \in 1..Len(s) /\ 1 \in 1..(k - 1 + 1) /\ j \in 1..(k - 1 + 1)
      BY <1>1, <2>2
    <3>2. SubSeq(SubSeq(s, 1, k), 1, j) = SubSeq(s, 1 + 1 - 1, 1 + j - 1)
      BY ONLY <3>1, SubSeqOfSubSeq, s \in Seq(Bit)
    <3> QED BY <3>2, <1>1
  <2> QED BY <2>1, <2>2
<1> QED BY <1>2, <1>3, <1>4

LEMMA RootFacts == Root \in Pairs /\ Ancestors(Root) = {Root}
<1>1. <<>> \in Seq(Bit) /\ Len(<<>>) = 0
  BY EmptySeq
<1>2. Root \in Pairs
  <2>1. Len(<<>>) <= XY_BITS /\ Len(<<>>) <= Z_BITS
    BY <1>1, BitsAssumption
  <2>2. [xy |-> <<>>, z |-> <<>>] \in Pairs
    BY <1>1, <2>1, PairIntro, Zenon
  <2> QED BY <2>2 DEF Root
<1>3. 0..Len(<<>>) - 1 = {}
  BY <1>1
<1> QED BY <1>2, <1>3, Zenon DEF Ancestors, Root

\* What an ancestor is, by cases.
LEMMA AncestorCases ==
    ASSUME NEW p, NEW a \in Ancestors(p)
    PROVE  \/ a = Root
           \/ \E k \in 0..Len(p.z) - 1 : a = [xy |-> p.xy, z |-> SubSeq(p.z, 1, k)]
           \/ \E k \in 0..Len(p.xy) - 1 : a = [xy |-> SubSeq(p.xy, 1, k), z |-> <<>>]
BY Zenon DEF Ancestors

\* ParentPair's ancestors are positions, and each is above.
LEMMA AncestorsAbove ==
    ASSUME NEW p \in Pairs, NEW a \in Ancestors(p)
    PROVE  a \in Pairs /\ (a # p => Deeper(p, a)) /\ (a = p => p = Root)
<1> USE PairFacts, EmptySeq
<1>1. CASE a = Root
  <2>1. p # Root => Len(p.xy) > 0
    BY LenProperties
  <2> QED BY <1>1, <2>1, RootFacts DEF Deeper, Root
<1>2. CASE \E k \in 0..Len(p.z) - 1 : a = [xy |-> p.xy, z |-> SubSeq(p.z, 1, k)]
  <2>1. PICK k \in 0..Len(p.z) - 1 : a = [xy |-> p.xy, z |-> SubSeq(p.z, 1, k)]
    BY <1>2
  <2>2. SubSeq(p.z, 1, k) \in Seq(Bit) /\ Len(SubSeq(p.z, 1, k)) = k
    BY PrefixFacts
  <2>3. p.xy # <<>>
    BY DEF Root
  <2>4. a \in Pairs
    <3>1. Len(SubSeq(p.z, 1, k)) <= Z_BITS /\ Len(p.xy) <= XY_BITS
      BY <2>2, BitsAssumption
    <3> QED BY ONLY <2>1, <2>2, <2>3, <3>1, p.xy \in Seq(Bit), PairIntro, Zenon
  <2> QED BY <2>1, <2>2, <2>4 DEF Deeper
<1>3. CASE \E k \in 0..Len(p.xy) - 1 : a = [xy |-> SubSeq(p.xy, 1, k), z |-> <<>>]
  <2>1. PICK k \in 0..Len(p.xy) - 1 : a = [xy |-> SubSeq(p.xy, 1, k), z |-> <<>>]
    BY <1>3
  <2>2. SubSeq(p.xy, 1, k) \in Seq(Bit) /\ Len(SubSeq(p.xy, 1, k)) = k
    BY PrefixFacts
  <2>3. <<>> \in Seq(Bit) /\ Len(<<>>) <= Z_BITS
    BY BitsAssumption
  <2>4. a \in Pairs
    <3>1. Len(SubSeq(p.xy, 1, k)) <= XY_BITS
      BY <2>2, BitsAssumption
    <3> QED BY ONLY <2>1, <2>2, <2>3, <3>1, PairIntro, Zenon
  <2> QED BY <2>1, <2>2, <2>4 DEF Deeper
<1> QED BY AncestorCases, <1>1, <1>2, <1>3

\* The walk to the root from an ancestor stays on the walk from below.
LEMMA AncestorsTransitive ==
    ASSUME NEW p \in Pairs, NEW a \in Ancestors(p)
    PROVE  Ancestors(a) \subseteq Ancestors(p)
<1> USE PairFacts
<1> SUFFICES ASSUME NEW b \in Ancestors(a) PROVE b \in Ancestors(p)
  OBVIOUS
<1>0. Root \in Ancestors(p)
  BY Zenon DEF Ancestors
<1>1. CASE a = Root
  BY <1>0, <1>1, RootFacts
<1>2. CASE \E k \in 0..Len(p.z) - 1 : a = [xy |-> p.xy, z |-> SubSeq(p.z, 1, k)]
  <2>1. PICK k \in 0..Len(p.z) - 1 : a = [xy |-> p.xy, z |-> SubSeq(p.z, 1, k)]
    BY <1>2
  <2>2. Len(a.z) = k /\ a.xy = p.xy /\ \A j \in 0..k : SubSeq(a.z, 1, j) = SubSeq(p.z, 1, j)
    BY <2>1, PrefixFacts
  <2>3. \A j \in 0..Len(a.z) - 1 :
            j \in 0..Len(p.z) - 1 /\ SubSeq(a.z, 1, j) = SubSeq(p.z, 1, j)
    BY <2>2
  <2> QED BY <1>0, <2>2, <2>3, AncestorCases DEF Ancestors
<1>3. CASE \E k \in 0..Len(p.xy) - 1 : a = [xy |-> SubSeq(p.xy, 1, k), z |-> <<>>]
  <2>1. PICK k \in 0..Len(p.xy) - 1 : a = [xy |-> SubSeq(p.xy, 1, k), z |-> <<>>]
    BY <1>3
  <2>2. Len(a.xy) = k /\ a.z = <<>> /\ \A j \in 0..k : SubSeq(a.xy, 1, j) = SubSeq(p.xy, 1, j)
    BY <2>1, PrefixFacts
  <2>3. \A j \in 0..Len(a.xy) - 1 :
            j \in 0..Len(p.xy) - 1 /\ SubSeq(a.xy, 1, j) = SubSeq(p.xy, 1, j)
    BY <2>2
  <2>4. 0..Len(a.z) - 1 = {}
    BY <2>2, EmptySeq
  <2> QED BY <1>0, <2>2, <2>3, <2>4, AncestorCases DEF Ancestors
<1> QED BY AncestorCases, <1>1, <1>2, <1>3

\* Child and ParentPair agree: a stored child makes its parent an ancestor.
LEMMA ParentIsAncestor ==
    ASSUME NEW p \in Pairs, NEW s \in Sides, HasSide(p, s), Child(p, s) \in Pairs
    PROVE  p \in Ancestors(Child(p, s)) /\ Child(p, s) # p
<1> USE PairFacts
<1> DEFINE c == Child(p, s)
<1>r. p = [xy |-> p.xy, z |-> p.z]
  BY DEF Pairs
<1>0. SideBit(s) \in Bit
  BY DEF SideBit, Bit
<1>1. ASSUME NEW q \in Seq(Bit)
      PROVE  /\ Len(Append(q, SideBit(s))) = Len(q) + 1
             /\ SubSeq(Append(q, SideBit(s)), 1, Len(q)) = q
  <2>1. /\ Append(q, SideBit(s)) \in Seq(Bit)
        /\ Len(Append(q, SideBit(s))) = Len(q) + 1
        /\ \A i \in 1..Len(q) : Append(q, SideBit(s))[i] = q[i]
    BY <1>0
  <2>2. Len(q) \in 0..Len(Append(q, SideBit(s)))
    BY <2>1, LenProperties
  <2>3. /\ SubSeq(Append(q, SideBit(s)), 1, Len(q)) \in Seq(Bit)
        /\ Len(SubSeq(Append(q, SideBit(s)), 1, Len(q))) = Len(q)
    BY <2>1, <2>2, PrefixFacts
  <2>4. \A i \in 1..Len(q) : SubSeq(Append(q, SideBit(s)), 1, Len(q))[i] = q[i]
    BY <2>1, <2>3
  <2> QED BY <2>1, <2>3, <2>4, SeqEqual
<1>2. CASE s \in XYSides
  <2>1. c = [xy |-> Append(p.xy, SideBit(s)), z |-> <<>>] /\ p.z = <<>>
    BY <1>2 DEF Child, HasSide
  <2>2. /\ Len(c.xy) = Len(p.xy) + 1 /\ SubSeq(c.xy, 1, Len(p.xy)) = p.xy
        /\ Len(p.xy) \in 0..Len(c.xy) - 1
    BY <1>1, <2>1, LenProperties
  <2>3. p = [xy |-> SubSeq(c.xy, 1, Len(p.xy)), z |-> <<>>]
    <3>1. p.z = <<>> /\ SubSeq(c.xy, 1, Len(p.xy)) = p.xy
      BY <2>1, <2>2
    <3> HIDE DEF c
    <3> QED BY ONLY <1>r, <3>1
  <2>4. p \in Ancestors(c)
    <3>1. PICK k \in 0..Len(c.xy) - 1 : k = Len(p.xy)
      BY <2>2
    <3> HIDE DEF c
    <3> QED BY ONLY <2>3, <3>1 DEF Ancestors
  <2>5. c # p
    BY <2>2, LenProperties
  <2> QED BY <2>4, <2>5
<1>3. CASE s \notin XYSides
  <2>1. c = [xy |-> p.xy, z |-> Append(p.z, SideBit(s))]
    BY <1>3 DEF Child
  <2>2. /\ Len(c.z) = Len(p.z) + 1 /\ SubSeq(c.z, 1, Len(p.z)) = p.z
        /\ Len(p.z) \in 0..Len(c.z) - 1
    BY <1>1, <2>1, LenProperties
  <2>3. p = [xy |-> c.xy, z |-> SubSeq(c.z, 1, Len(p.z))]
    <3>1. c.xy = p.xy /\ SubSeq(c.z, 1, Len(p.z)) = p.z
      BY <2>1, <2>2
    <3> HIDE DEF c
    <3> QED BY ONLY <1>r, <3>1
  <2>4. p \in Ancestors(c)
    <3>1. PICK k \in 0..Len(c.z) - 1 : k = Len(p.z)
      BY <2>2
    <3> HIDE DEF c
    <3> QED BY ONLY <2>3, <3>1 DEF Ancestors
  <2>5. c # p
    BY <2>2, LenProperties
  <2> QED BY <2>4, <2>5
<1> QED BY <1>2, <1>3
---------------------------------------------------------------------------
(* The way down to a position *)

\* A prefix is the next shorter one and a bit.
LEMMA PrefixStep ==
    ASSUME NEW s \in Seq(Bit), NEW k \in 0..Len(s) - 1
    PROVE  /\ s[k + 1] \in Bit
           /\ SubSeq(s, 1, k + 1) = Append(SubSeq(s, 1, k), s[k + 1])
<1>1. Len(s) \in Nat /\ k \in Nat /\ k + 1 \in 1..Len(s) /\ k \in 0..Len(s) /\ k + 1 \in 0..Len(s)
  BY LenProperties
<1>2. s[k + 1] \in Bit
  BY <1>1, ElementOfSeq
<1>3. /\ SubSeq(s, 1, k) \in Seq(Bit) /\ Len(SubSeq(s, 1, k)) = k
      /\ SubSeq(s, 1, k + 1) \in Seq(Bit) /\ Len(SubSeq(s, 1, k + 1)) = k + 1
  BY <1>1, PrefixFacts
<1>4. ASSUME NEW i \in 1..k + 1
      PROVE  SubSeq(s, 1, k + 1)[i] = Append(SubSeq(s, 1, k), s[k + 1])[i]
  BY <1>1, <1>2, <1>3
<1>5. /\ Append(SubSeq(s, 1, k), s[k + 1]) \in Seq(Bit)
      /\ Len(Append(SubSeq(s, 1, k), s[k + 1])) = k + 1
  BY <1>2, <1>3
<1> QED BY <1>2, <1>3, <1>4, <1>5, SeqEqual

\* The whole string is its longest prefix.
LEMMA WholePrefix == \A s \in Seq(Bit) : SubSeq(s, 1, Len(s)) = s
<1> SUFFICES ASSUME NEW s \in Seq(Bit) PROVE SubSeq(s, 1, Len(s)) = s
  OBVIOUS
<1>1. Len(s) \in 0..Len(s)
  BY LenProperties
<1>2. SubSeq(s, 1, Len(s)) \in Seq(Bit) /\ Len(SubSeq(s, 1, Len(s))) = Len(s)
  BY <1>1, PrefixFacts
<1>3. \A i \in 1..Len(s) : SubSeq(s, 1, Len(s))[i] = s[i]
  BY <1>1, <1>2
<1> QED BY <1>2, <1>3, SeqEqual

\* The position above p with the first k bits of its altitude, and the root of
\* the altitude tree that has the first k bits of p in the plane.
ZAbove(p, k) == [xy |-> p.xy, z |-> SubSeq(p.z, 1, k)]
XYAbove(p, k) == [xy |-> SubSeq(p.xy, 1, k), z |-> <<>>]
XYSide(bit) == IF bit = 0 THEN "xyLeft" ELSE "xyRight"
ZSide(bit) == IF bit = 0 THEN "zLeft" ELSE "zRight"

LEMMA ZWayDown ==
    ASSUME NEW p \in Pairs, NEW k \in 0..Len(p.z) - 1
    PROVE  /\ ZSide(p.z[k + 1]) \in ZSides
           /\ HasSide(ZAbove(p, k), ZSide(p.z[k + 1]))
           /\ Child(ZAbove(p, k), ZSide(p.z[k + 1])) = ZAbove(p, k + 1)
<1>1. p.z[k + 1] \in Bit /\ SubSeq(p.z, 1, k + 1) = Append(SubSeq(p.z, 1, k), p.z[k + 1])
  BY PairFacts, PrefixStep
<1>2. /\ ZSide(p.z[k + 1]) \in ZSides /\ ZSide(p.z[k + 1]) \notin XYSides
      /\ SideBit(ZSide(p.z[k + 1])) = p.z[k + 1]
  BY <1>1 DEF ZSide, ZSides, XYSides, SideBit, Bit
<1>3. Child(ZAbove(p, k), ZSide(p.z[k + 1]))
        = [xy |-> p.xy, z |-> Append(SubSeq(p.z, 1, k), p.z[k + 1])]
  BY ONLY <1>2 DEF Child, ZAbove
<1> QED BY ONLY <1>1, <1>2, <1>3, Zenon DEF HasSide, ZAbove

LEMMA XYWayDown ==
    ASSUME NEW p \in Pairs, NEW k \in 0..Len(p.xy) - 1
    PROVE  /\ XYSide(p.xy[k + 1]) \in XYSides
           /\ HasSide(XYAbove(p, k), XYSide(p.xy[k + 1]))
           /\ Child(XYAbove(p, k), XYSide(p.xy[k + 1])) = XYAbove(p, k + 1)
<1>1. p.xy[k + 1] \in Bit /\ SubSeq(p.xy, 1, k + 1) = Append(SubSeq(p.xy, 1, k), p.xy[k + 1])
  BY PairFacts, PrefixStep
<1>2. XYSide(p.xy[k + 1]) \in XYSides /\ SideBit(XYSide(p.xy[k + 1])) = p.xy[k + 1]
  BY <1>1 DEF XYSide, XYSides, SideBit, Bit
<1>3. Child(XYAbove(p, k), XYSide(p.xy[k + 1]))
        = [xy |-> Append(SubSeq(p.xy, 1, k), p.xy[k + 1]), z |-> <<>>]
  BY ONLY <1>2 DEF Child, XYAbove
<1>4. XYAbove(p, k).z = <<>>
  BY DEF XYAbove
<1> QED BY ONLY <1>1, <1>2, <1>3, <1>4, Zenon DEF HasSide, XYAbove

\* The ends of both ways, and that they lead through ancestors.
LEMMA WaysDown ==
    ASSUME NEW p \in Pairs
    PROVE  /\ ZAbove(p, Len(p.z)) = p
           /\ ZAbove(p, 0) = XYAbove(p, Len(p.xy))
           /\ XYAbove(p, 0) = Root
           /\ \A k \in 0..Len(p.z) : ZAbove(p, k) \in Ancestors(p) \cup {p}
           /\ \A k \in 0..Len(p.xy) : XYAbove(p, k) \in Ancestors(p) \cup {p}
<1>0. /\ p.xy \in Seq(Bit) /\ Len(p.xy) \in Nat /\ p.z \in Seq(Bit) /\ Len(p.z) \in Nat
      /\ p = [xy |-> p.xy, z |-> p.z]
  BY PairFacts
<1>1. ZAbove(p, Len(p.z)) = p
  BY <1>0, WholePrefix DEF ZAbove
<1>2. SubSeq(p.z, 1, 0) = <<>> /\ SubSeq(p.xy, 1, 0) = <<>> /\ SubSeq(p.xy, 1, Len(p.xy)) = p.xy
  BY <1>0, SubSeqEmpty, WholePrefix
<1>3. ZAbove(p, 0) = XYAbove(p, Len(p.xy)) /\ XYAbove(p, 0) = Root
  BY <1>2 DEF ZAbove, XYAbove, Root
<1>4. ASSUME NEW k \in 0..Len(p.z) PROVE ZAbove(p, k) \in Ancestors(p) \cup {p}
  <2>1. CASE k = Len(p.z)
    BY <1>1, <2>1
  <2>2. CASE k # Len(p.z)
    <3>1. k \in 0..Len(p.z) - 1
      BY <1>0, <2>2
    <3> QED BY ONLY <3>1 DEF ZAbove, Ancestors
  <2> QED BY <2>1, <2>2
<1>5. ASSUME NEW k \in 0..Len(p.xy) PROVE XYAbove(p, k) \in Ancestors(p) \cup {p}
  <2>1. CASE k = Len(p.xy)
    <3>1. 0 \in 0..Len(p.z)
      BY <1>0
    <3> QED BY <1>3, <1>4, <2>1, <3>1
  <2>2. CASE k # Len(p.xy)
    <3>1. k \in 0..Len(p.xy) - 1
      BY <1>0, <2>2
    <3> QED BY ONLY <3>1 DEF XYAbove, Ancestors
  <2> QED BY <2>1, <2>2
<1> QED BY <1>1, <1>3, <1>4, <1>5

\* Every position but the root is the child of one of its ancestors.
LEMMA HasParent ==
    ASSUME NEW p \in Pairs, p # Root
    PROVE  \E q \in Ancestors(p), s \in Sides : q # p /\ HasSide(q, s) /\ Child(q, s) = p
<1>0. Len(p.xy) \in Nat /\ Len(p.z) \in Nat /\ p.xy \in Seq(Bit) /\ p.z \in Seq(Bit)
  BY PairFacts
<1>n. \A n \in Nat : n # 0 => \E k \in 0..n - 1 : k + 1 = n /\ k \in 0..n
  <2>1. \A n \in Nat : n # 0 => n - 1 \in 0..n - 1 /\ n - 1 + 1 = n /\ n - 1 \in 0..n
    OBVIOUS
  <2> QED BY ONLY <2>1, Zenon
<1>1. CASE p.z # <<>>
  <2>1. Len(p.z) # 0
    BY <1>0, <1>1, EmptySeq
  <2>2. PICK k \in 0..Len(p.z) - 1 : k + 1 = Len(p.z) /\ k \in 0..Len(p.z)
    BY ONLY <1>0, <2>1, <1>n, Zenon
  <2>3. Child(ZAbove(p, k), ZSide(p.z[k + 1])) = p
    BY <2>2, ZWayDown, WaysDown
  <2>4. ZAbove(p, k) \in Pairs
    BY <2>2, WaysDown, AncestorsAbove
  <2>5. ZSide(p.z[k + 1]) \in Sides /\ HasSide(ZAbove(p, k), ZSide(p.z[k + 1]))
    BY ZWayDown DEF Sides
  <2> QED BY <2>3, <2>4, <2>5, ParentIsAncestor
<1>2. CASE p.z = <<>>
  <2>0. p.xy # <<>> /\ Len(p.z) = 0
    BY <1>2, PairFacts, EmptySeq
  <2>1. Len(p.xy) # 0
    BY <1>0, <2>0, EmptySeq
  <2>2. PICK k \in 0..Len(p.xy) - 1 : k + 1 = Len(p.xy) /\ k \in 0..Len(p.xy)
    BY ONLY <1>0, <2>1, <1>n, Zenon
  <2>3. Child(XYAbove(p, k), XYSide(p.xy[k + 1])) = p
    BY <2>0, <2>2, XYWayDown, WaysDown
  <2>4. XYAbove(p, k) \in Pairs
    BY <2>2, WaysDown, AncestorsAbove
  <2>5. XYSide(p.xy[k + 1]) \in Sides /\ HasSide(XYAbove(p, k), XYSide(p.xy[k + 1]))
    BY XYWayDown DEF Sides
  <2> QED BY <2>3, <2>4, <2>5, ParentIsAncestor
<1> QED BY <1>1, <1>2

---------------------------------------------------------------------------
(* Induction *)

\* Upwards in an interval, for the set of the numbers a statement holds for.
LEMMA Upwards ==
    ASSUME NEW m \in Nat, NEW T, 0 \in T, \A n \in 0..m - 1 : n \in T => n + 1 \in T
    PROVE  0..m \subseteq T
<1> DEFINE R == StrictSubsetOrdering(0..m)
           B == {0..n : n \in (0..m) \ T}
<1>1. SUFFICES ASSUME B # {} PROVE FALSE
  OBVIOUS
<1>2. IsWellFoundedOn(R, SUBSET (0..m))
  <2>1. IsFiniteSet(0..m)
    BY FS_Interval
  <2> QED BY <2>1, FS_FiniteSubsetsOfFinite, FS_StrictSubsetOrderingWellFounded
<1>3. B \subseteq SUBSET (0..m)
  OBVIOUS
<1>4. PICK X \in B : \A Y \in B : ~(<<Y, X>> \in R)
  <2> HIDE DEF B, R
  <2> QED BY <1>1, <1>2, <1>3, WFMin
<1>5. PICK k \in (0..m) \ T : X = 0..k
  OBVIOUS
<1>6. k - 1 \in (0..m) \ T
  OBVIOUS
<1>7. <<0..k - 1, X>> \in R
  BY <1>5, <1>6 DEF StrictSubsetOrdering
<1> QED BY <1>4, <1>6, <1>7

\* And downwards.
LEMMA Downwards ==
    ASSUME NEW m \in Nat, NEW T, m \in T, \A n \in 0..m - 1 : n + 1 \in T => n \in T
    PROVE  0..m \subseteq T
<1> DEFINE U == {n \in 0..m : m - n \in T}
<1>1. 0 \in U /\ \A n \in 0..m - 1 : n \in U => n + 1 \in U
  OBVIOUS
<1> HIDE DEF U
<1>2. 0..m \subseteq U
  BY <1>1, Upwards
<1>3. ASSUME NEW n \in 0..m PROVE n \in T
  <2>1. m - n \in U
    BY <1>2
  <2> QED BY <2>1 DEF U
<1> QED BY <1>3

---------------------------------------------------------------------------
(* Numbers of strings *)

Digit(s, b, k) == IF k \in DOMAIN s THEN s[k] ELSE b
NumberAt(V, s, b, k) == IF k = 0 THEN 0 ELSE 2 * V[k - 1] + Digit(s, b, k)
Numbers(V, s, b, n) == V = [k \in 0..n |-> NumberAt(V, s, b, k)]

\* The number of a string is that of a shorter prefix, doubled, and a bit.
LEMMA PaddedUnfolded ==
    ASSUME NEW s, NEW b, NEW n \in Nat
    PROVE  \E V : Numbers(V, s, b, n) /\ Padded(s, n, b) = V[n]
<1> DEFINE T == {m \in 0..n : \E V : V = [k \in 0..m |-> NumberAt(V, s, b, k)]}
<1>1. 0 \in T
  <2> DEFINE V == [k \in 0..0 |-> 0]
  <2>1. \A k \in 0..0 : NumberAt(V, s, b, k) = 0
    BY DEF NumberAt
  <2>2. V = [k \in 0..0 |-> NumberAt(V, s, b, k)]
    <3> HIDE DEF V
    <3>1. V = [k \in 0..0 |-> 0]
      BY DEF V
    <3> QED BY <2>1, <3>1
  <2> HIDE DEF V
  <2> QED BY <2>2
<1>2. ASSUME NEW m \in 0..n - 1, m \in T PROVE m + 1 \in T
  <2>1. PICK V : V = [k \in 0..m |-> NumberAt(V, s, b, k)]
    BY <1>2
  <2> DEFINE W == [k \in 0..m + 1 |-> IF k \in 0..m THEN V[k] ELSE NumberAt(V, s, b, k)]
  <2>2. ASSUME NEW k \in 0..m + 1 PROVE W[k] = NumberAt(W, s, b, k)
    <3>1. W[k] = NumberAt(V, s, b, k)
      <4>1. k \in 0..m => V[k] = NumberAt(V, s, b, k)
        BY <2>1
      <4> QED BY <4>1
    <3>2. k # 0 => W[k - 1] = V[k - 1]
      <4>1. k # 0 => k - 1 \in 0..m /\ k - 1 \in 0..m + 1
        OBVIOUS
      <4> QED BY <4>1
    <3> HIDE DEF W
    <3> QED BY <3>1, <3>2 DEF NumberAt
  <2>3. W = [k \in 0..m + 1 |-> NumberAt(W, s, b, k)]
    <3> DEFINE G == [k \in 0..m + 1 |-> NumberAt(W, s, b, k)]
    <3>1. \A k \in 0..m + 1 : W[k] = G[k]
      <4> HIDE DEF W
      <4> QED BY <2>2
    <3>2. DOMAIN W = 0..m + 1 /\ DOMAIN G = 0..m + 1
      OBVIOUS
    <3>3. W = [k \in 0..m + 1 |-> W[k]] /\ G = [k \in 0..m + 1 |-> G[k]]
      OBVIOUS
    <3> HIDE DEF W, G
    <3>4. W = G
      BY <3>1, <3>3
    <3> QED BY <3>4 DEF G
  <2>4. m + 1 \in 0..n
    OBVIOUS
  <2> HIDE DEF W
  <2> QED BY <2>3, <2>4
<1> HIDE DEF T
<1>3. n \in T
  <2>1. n \in 0..n
    OBVIOUS
  <2> QED BY <1>1, <1>2, <2>1, Upwards
<1>4. PICK V : V = [k \in 0..n |-> NumberAt(V, s, b, k)]
  BY <1>3 DEF T
<1>5. \E W : W = [k \in 0..n |-> NumberAt(W, s, b, k)] /\ Padded(s, n, b) = W[n]
  BY <1>4 DEF Padded, NumberAt, Digit
<1> QED BY <1>5 DEF Numbers

\* More bits, a greater number.
LEMMA PaddedMonotone ==
    ASSUME NEW s, NEW t, NEW b, NEW c, NEW n \in Nat,
           \A k \in 1..n : Digit(s, b, k) \in Bit /\ Digit(t, c, k) \in Bit
                           /\ Digit(s, b, k) <= Digit(t, c, k)
    PROVE  Padded(s, n, b) \in Nat /\ Padded(t, n, c) \in Nat
           /\ Padded(s, n, b) <= Padded(t, n, c)
<1>1. PICK V : Numbers(V, s, b, n) /\ Padded(s, n, b) = V[n]
  BY PaddedUnfolded
<1>2. PICK W : Numbers(W, t, c, n) /\ Padded(t, n, c) = W[n]
  BY PaddedUnfolded
<1> DEFINE T == {m \in 0..n : V[m] \in Nat /\ W[m] \in Nat /\ V[m] <= W[m]}
<1>3. 0 \in T
  <2>1. 0 \in 0..n
    OBVIOUS
  <2>2. V[0] = NumberAt(V, s, b, 0) /\ W[0] = NumberAt(W, t, c, 0)
    BY <1>1, <1>2, <2>1 DEF Numbers
  <2> QED BY <2>1, <2>2 DEF NumberAt
<1>4. ASSUME NEW m \in 0..n - 1, m \in T PROVE m + 1 \in T
  <2>1. m + 1 \in 0..n /\ m + 1 \in 1..n /\ m + 1 # 0 /\ (m + 1) - 1 = m
    OBVIOUS
  <2>2. V[m + 1] = NumberAt(V, s, b, m + 1) /\ W[m + 1] = NumberAt(W, t, c, m + 1)
    BY <1>1, <1>2, <2>1 DEF Numbers
  <2>3. V[m + 1] = 2 * V[m] + Digit(s, b, m + 1) /\ W[m + 1] = 2 * W[m] + Digit(t, c, m + 1)
    BY <2>1, <2>2 DEF NumberAt
  <2>4. /\ Digit(s, b, m + 1) \in Nat /\ Digit(t, c, m + 1) \in Nat
        /\ Digit(s, b, m + 1) <= Digit(t, c, m + 1)
    BY <2>1 DEF Bit
  <2> QED BY <1>4, <2>1, <2>3, <2>4
<1> HIDE DEF T
<1>5. n \in T
  <2>1. n \in 0..n
    OBVIOUS
  <2> QED BY <1>3, <1>4, <2>1, Upwards
<1> QED BY <1>1, <1>2, <1>5 DEF T

\* The numbers below a prefix enclose those below the string.
LEMMA PaddedNested ==
    ASSUME NEW s \in Seq(Bit), NEW k \in 0..Len(s), NEW n \in Nat
    PROVE  /\ Padded(SubSeq(s, 1, k), n, 0) <= Padded(s, n, 0)
           /\ Padded(s, n, 0) <= Padded(s, n, 1)
           /\ Padded(s, n, 1) <= Padded(SubSeq(s, 1, k), n, 1)
           /\ \A b \in Bit : Padded(s, n, b) \in Nat /\ Padded(SubSeq(s, 1, k), n, b) \in Nat
<1>0. Len(s) \in Nat /\ DOMAIN s = 1..Len(s) /\ \A i \in 1..Len(s) : s[i] \in Bit
  BY LenProperties, ElementOfSeq
<1> DEFINE r == SubSeq(s, 1, k)
<1>1. r \in Seq(Bit) /\ Len(r) = k
  BY PrefixFacts
<1>2. DOMAIN r = 1..k /\ \A i \in 1..k : r[i] = s[i]
  BY <1>1
<1> HIDE DEF r
<1>3. ASSUME NEW i \in 1..n
      PROVE  /\ Digit(r, 0, i) \in Bit /\ Digit(s, 0, i) \in Bit
             /\ Digit(r, 1, i) \in Bit /\ Digit(s, 1, i) \in Bit
             /\ Digit(r, 0, i) <= Digit(s, 0, i) /\ Digit(s, 0, i) <= Digit(s, 1, i)
             /\ Digit(s, 1, i) <= Digit(r, 1, i)
  BY <1>0, <1>2 DEF Digit, Bit
<1>4. Padded(r, n, 0) <= Padded(s, n, 0) /\ Padded(r, n, 0) \in Nat
  BY <1>3, PaddedMonotone
<1>5. Padded(s, n, 0) <= Padded(s, n, 1) /\ Padded(s, n, 0) \in Nat
  BY <1>3, PaddedMonotone
<1>6. Padded(s, n, 1) <= Padded(r, n, 1) /\ Padded(s, n, 1) \in Nat /\ Padded(r, n, 1) \in Nat
  BY <1>3, PaddedMonotone
<1> QED BY <1>4, <1>5, <1>6 DEF r, Bit

\* The first bit that differs decides.
LEMMA PaddedLess ==
    ASSUME NEW s, NEW t, NEW b, NEW c, NEW n \in Nat, NEW i \in 1..n,
           \A k \in 1..n : Digit(s, b, k) \in Bit /\ Digit(t, c, k) \in Bit,
           \A k \in 1..i - 1 : Digit(s, b, k) = Digit(t, c, k),
           Digit(s, b, i) = 0, Digit(t, c, i) = 1
    PROVE  Padded(s, n, b) \in Nat /\ Padded(t, n, c) \in Nat
           /\ Padded(s, n, b) < Padded(t, n, c)
<1>1. PICK V : Numbers(V, s, b, n) /\ Padded(s, n, b) = V[n]
  BY PaddedUnfolded
<1>2. PICK W : Numbers(W, t, c, n) /\ Padded(t, n, c) = W[n]
  BY PaddedUnfolded
<1> DEFINE T == {m \in 0..n : V[m] \in Nat /\ W[m] \in Nat
                              /\ (m < i => V[m] = W[m]) /\ (m >= i => V[m] < W[m])}
<1>3. 0 \in T
  <2>1. 0 \in 0..n
    OBVIOUS
  <2>2. V[0] = NumberAt(V, s, b, 0) /\ W[0] = NumberAt(W, t, c, 0)
    BY <1>1, <1>2, <2>1 DEF Numbers
  <2> QED BY <2>1, <2>2 DEF NumberAt
<1>4. ASSUME NEW m \in 0..n - 1, m \in T PROVE m + 1 \in T
  <2>1. m + 1 \in 0..n /\ m + 1 \in 1..n /\ m + 1 # 0 /\ (m + 1) - 1 = m
    OBVIOUS
  <2>2. V[m + 1] = NumberAt(V, s, b, m + 1) /\ W[m + 1] = NumberAt(W, t, c, m + 1)
    BY <1>1, <1>2, <2>1 DEF Numbers
  <2>3. V[m + 1] = 2 * V[m] + Digit(s, b, m + 1) /\ W[m + 1] = 2 * W[m] + Digit(t, c, m + 1)
    BY <2>1, <2>2 DEF NumberAt
  <2>4. Digit(s, b, m + 1) \in {0, 1} /\ Digit(t, c, m + 1) \in {0, 1}
    BY <2>1 DEF Bit
  <2>5. m + 1 < i => Digit(s, b, m + 1) = Digit(t, c, m + 1)
    BY <2>1
  <2>6. m + 1 = i => Digit(s, b, m + 1) = 0 /\ Digit(t, c, m + 1) = 1
    OBVIOUS
  <2>7. /\ V[m] \in Nat /\ W[m] \in Nat
        /\ (m < i => V[m] = W[m]) /\ (m >= i => V[m] < W[m])
    BY <1>4
  <2>8. V[m + 1] \in Nat /\ W[m + 1] \in Nat
    BY <2>3, <2>4, <2>7
  <2>9. m + 1 < i => V[m + 1] = W[m + 1]
    BY <2>3, <2>5, <2>7
  <2>10. m + 1 >= i => V[m + 1] < W[m + 1]
    BY <2>3, <2>4, <2>6, <2>7
  <2> QED BY <2>1, <2>8, <2>9, <2>10
<1> HIDE DEF T
<1>5. n \in T
  <2>1. n \in 0..n
    OBVIOUS
  <2> QED BY <1>3, <1>4, <2>1, Upwards
<1> QED BY <1>1, <1>2, <1>5 DEF T

\* Two strings of which neither begins the other differ somewhere first.
LEMMA FirstDifference ==
    ASSUME NEW s \in Seq(Bit), NEW t \in Seq(Bit), ~IsPrefix(s, t), ~IsPrefix(t, s)
    PROVE  \E i \in (1..Len(s)) \cap (1..Len(t)) :
                s[i] # t[i] /\ \A k \in 1..i - 1 : s[k] = t[k]
<1>0. Len(s) \in Nat /\ Len(t) \in Nat
  BY LenProperties
<1>1. ASSUME NEW r \in Seq(Bit), NEW u \in Seq(Bit), Len(r) <= Len(u),
             \A k \in 1..Len(r) : r[k] = u[k]
      PROVE  IsPrefix(r, u)
  <2>0. Len(r) \in Nat /\ Len(u) \in Nat /\ Len(r) \in 0..Len(u)
    BY <1>1, LenProperties
  <2>1. SubSeq(r, 1, Len(r)) = r
    BY WholePrefix
  <2>2. SubSeq(u, 1, Len(r)) \in Seq(Bit) /\ Len(SubSeq(u, 1, Len(r))) = Len(r)
    BY <2>0, PrefixFacts
  <2>3. \A k \in 1..Len(r) : SubSeq(u, 1, Len(r))[k] = u[k]
    BY <2>0, <2>2
  <2>4. SubSeq(u, 1, Len(r)) = r
    BY <1>1, <2>2, <2>3, SeqEqual
  <2> QED BY <1>1, <2>1, <2>4 DEF IsPrefix
<1> DEFINE m == IF Len(s) <= Len(t) THEN Len(s) ELSE Len(t)
           T == {n \in 0..m : \A k \in 1..n : s[k] = t[k]}
<1>2. m \in Nat /\ m <= Len(s) /\ m <= Len(t) /\ (m = Len(s) \/ m = Len(t))
  BY <1>0
<1>3. m \notin T
  <2>1. SUFFICES ASSUME \A k \in 1..m : s[k] = t[k] PROVE FALSE
    OBVIOUS
  <2>2. CASE m = Len(s)
    BY <1>0, <1>1, <1>2, <2>1, <2>2
  <2>3. CASE m = Len(t)
    BY <1>0, <1>1, <1>2, <2>1, <2>3
  <2> QED BY <1>2, <2>2, <2>3
<1> HIDE DEF m
<1>4. 0 \in T
  BY <1>2
<1> HIDE DEF T
<1>5. PICK n \in 0..m - 1 : n \in T /\ n + 1 \notin T
  <2>1. m \in 0..m
    BY <1>2
  <2> QED BY <1>2, <1>3, <1>4, <2>1, Upwards
<1>6. s[n + 1] # t[n + 1] /\ \A k \in 1..n : s[k] = t[k]
  BY <1>2, <1>5 DEF T
<1>7. n + 1 \in (1..Len(s)) \cap (1..Len(t)) /\ n + 1 - 1 = n
  BY <1>0, <1>2
<1> QED BY <1>6, <1>7

\* The bits of padded strings.
LEMMA PaddedBits ==
    ASSUME NEW s \in Seq(Bit)
    PROVE  \A b, k : /\ b \in Bit => Digit(s, b, k) \in Bit
                     /\ k \in 1..Len(s) => Digit(s, b, k) = s[k]
                     /\ k \notin 1..Len(s) => Digit(s, b, k) = b
<1>1. DOMAIN s = 1..Len(s) /\ \A k \in 1..Len(s) : s[k] \in Bit
  BY LenProperties, ElementOfSeq
<1> QED BY <1>1 DEF Digit

\* A number between those of a string, padded with zeros and with ones, is
\* that of a string that begins it or is begun by it.
LEMMA BetweenIsRelated ==
    ASSUME NEW s \in Seq(Bit), NEW r \in Seq(Bit), NEW n \in Nat, Len(s) <= n, Len(r) <= n,
           Padded(s, n, 0) <= Padded(r, n, 0), Padded(r, n, 0) <= Padded(s, n, 1)
    PROVE  IsPrefix(s, r) \/ IsPrefix(r, s)
<1>1. SUFFICES ASSUME ~IsPrefix(s, r), ~IsPrefix(r, s) PROVE FALSE
  OBVIOUS
<1>2. PICK i \in (1..Len(s)) \cap (1..Len(r)) : s[i] # r[i] /\ \A k \in 1..i - 1 : s[k] = r[k]
  BY <1>1, FirstDifference
<1>3. /\ i \in 1..n /\ i \in Nat /\ s[i] \in {0, 1} /\ r[i] \in {0, 1} /\ 0 \in Bit /\ 1 \in Bit
      /\ \A k \in 1..i - 1 : k \in 1..Len(s) /\ k \in 1..Len(r) /\ k \in Nat
  BY LenProperties, ElementOfSeq DEF Bit
<1>4. CASE s[i] = 0
  <2>1. Digit(s, 1, i) = 0 /\ Digit(r, 0, i) = 1
    BY <1>2, <1>3, <1>4, PaddedBits
  <2>2. \A k \in 1..i - 1 : Digit(s, 1, k) = Digit(r, 0, k)
    BY <1>2, <1>3, PaddedBits
  <2>3. \A k \in 1..n : Digit(s, 1, k) \in Bit /\ Digit(r, 0, k) \in Bit
    BY <1>3, PaddedBits
  <2>4. /\ Padded(s, n, 1) < Padded(r, n, 0)
        /\ Padded(s, n, 1) \in Nat /\ Padded(r, n, 0) \in Nat
    BY <1>3, <2>1, <2>2, <2>3, PaddedLess
  <2> QED BY <2>4
<1>5. CASE s[i] = 1
  <2>0. r[i] = 0
    BY <1>2, <1>3, <1>5
  <2>1. Digit(r, 0, i) = 0 /\ Digit(s, 0, i) = 1
    BY <1>2, <1>3, <1>5, <2>0, PaddedBits
  <2>2. \A k \in 1..i - 1 : Digit(r, 0, k) = Digit(s, 0, k)
    BY <1>2, <1>3, PaddedBits
  <2>3. \A k \in 1..n : Digit(r, 0, k) \in Bit /\ Digit(s, 0, k) \in Bit
    BY <1>3, PaddedBits
  <2>4. /\ Padded(r, n, 0) < Padded(s, n, 0)
        /\ Padded(r, n, 0) \in Nat /\ Padded(s, n, 0) \in Nat
    BY <1>3, <2>1, <2>2, <2>3, PaddedLess
  <2> QED BY <2>4
<1> QED BY <1>3, <1>4, <1>5

---------------------------------------------------------------------------
(* Hashes *)

Depth(p) == Len(p.xy) + Len(p.z)

\* A child is one level below, and a leaf of the tree has none.
LEMMA ChildFacts ==
    ASSUME NEW p \in Pairs, NEW s \in Sides, HasSide(p, s), Child(p, s) \in Pairs
    PROVE  /\ Depth(p) \in 0..XY_BITS + Z_BITS - 1 /\ Depth(Child(p, s)) = Depth(p) + 1
           /\ ~Leaf(p)
<1>0. /\ XY_BITS \in Nat /\ Z_BITS \in Nat \ {0}
      /\ p.xy \in Seq(Bit) /\ Len(p.xy) \in 0..XY_BITS
      /\ p.z \in Seq(Bit) /\ Len(p.z) \in 0..Z_BITS
  BY PairFacts, BitsAssumption
<1>1. \A q \in Seq(Bit) : Len(Append(q, SideBit(s))) = Len(q) + 1
  OBVIOUS
<1>2. CASE s \in XYSides
  <2>1. Child(p, s).xy = Append(p.xy, SideBit(s)) /\ Child(p, s).z = p.z /\ p.z = <<>>
    BY <1>2 DEF Child, HasSide
  <2>2. Len(Child(p, s).xy) = Len(p.xy) + 1 /\ Len(p.xy) + 1 \in 0..XY_BITS /\ Len(p.z) = 0
    BY <1>0, <1>1, <2>1, PairFacts, EmptySeq
  <2>3. \A i \in 0..XY_BITS : i + 1 \in 0..XY_BITS =>
            i + 0 \in 0..XY_BITS + Z_BITS - 1 /\ (i + 1) + 0 = (i + 0) + 1 /\ i # XY_BITS
    BY <1>0
  <2> QED BY ONLY <1>0, <2>1, <2>2, <2>3 DEF Depth, Leaf
<1>3. CASE s \notin XYSides
  <2>1. Child(p, s).xy = p.xy /\ Child(p, s).z = Append(p.z, SideBit(s))
    BY <1>3 DEF Child
  <2>2. Len(Child(p, s).z) = Len(p.z) + 1 /\ Len(p.z) + 1 \in 0..Z_BITS
    BY <1>0, <1>1, <2>1, PairFacts
  <2>3. \A i \in 0..XY_BITS, j \in 0..Z_BITS : j + 1 \in 0..Z_BITS =>
            i + j \in 0..XY_BITS + Z_BITS - 1 /\ i + (j + 1) = (i + j) + 1 /\ j # Z_BITS
    BY <1>0
  <2> QED BY ONLY <1>0, <2>1, <2>2, <2>3, Zenon DEF Depth, Leaf
<1> QED BY <1>2, <1>3

LEMMA DepthBound == \A p \in Pairs : Depth(p) \in 0..XY_BITS + Z_BITS
<1> SUFFICES ASSUME NEW p \in Pairs PROVE Depth(p) \in 0..XY_BITS + Z_BITS
  OBVIOUS
<1>1. XY_BITS \in Nat /\ Z_BITS \in Nat /\ Len(p.xy) \in 0..XY_BITS /\ Len(p.z) \in 0..Z_BITS
  BY PairFacts, BitsAssumption
<1>2. \A x, z \in Nat : \A i \in 0..x, j \in 0..z : i + j \in 0..x + z
  OBVIOUS
<1> QED BY ONLY <1>1, <1>2, Zenon DEF Depth

\* An ancestor is on a higher level.
LEMMA AncestorDepth ==
    ASSUME NEW p \in Pairs, NEW a \in Ancestors(p), a # p
    PROVE  Depth(a) < Depth(p)
<1>0. Len(p.xy) \in Nat /\ Len(p.z) \in Nat /\ p.xy \in Seq(Bit) /\ p.z \in Seq(Bit)
  BY PairFacts
<1>n. \A i, j, k \in Nat : k < i => k + 0 < i + j /\ j + k < j + i /\ 0 + 0 < i + j
  OBVIOUS
<1>1. CASE a = Root
  <2>1. p.xy # <<>>
    BY <1>1, PairFacts
  <2>2. Len(a.xy) = 0 /\ Len(a.z) = 0 /\ Len(p.xy) > 0
    BY <1>0, <1>1, <2>1, EmptySeq DEF Root
  <2>3. 0 \in Nat /\ 0 < Len(p.xy)
    BY <1>0, <2>2
  <2> QED BY ONLY <1>0, <1>n, <2>2, <2>3, Zenon DEF Depth
<1>2. CASE \E k \in 0..Len(p.z) - 1 : a = [xy |-> p.xy, z |-> SubSeq(p.z, 1, k)]
  <2>1. PICK k \in 0..Len(p.z) - 1 : a = [xy |-> p.xy, z |-> SubSeq(p.z, 1, k)]
    BY <1>2
  <2>2. Len(a.xy) = Len(p.xy) /\ Len(a.z) = k
    BY <1>0, <2>1, PrefixFacts
  <2>3. k \in Nat /\ k < Len(p.z)
    BY <1>0
  <2> QED BY ONLY <1>0, <1>n, <2>2, <2>3, Zenon DEF Depth
<1>3. CASE \E k \in 0..Len(p.xy) - 1 : a = [xy |-> SubSeq(p.xy, 1, k), z |-> <<>>]
  <2>1. PICK k \in 0..Len(p.xy) - 1 : a = [xy |-> SubSeq(p.xy, 1, k), z |-> <<>>]
    BY <1>3
  <2>2. Len(a.xy) = k /\ Len(a.z) = 0
    BY <1>0, <2>1, PrefixFacts, EmptySeq
  <2>3. k \in Nat /\ k < Len(p.xy)
    BY <1>0
  <2> QED BY ONLY <1>0, <1>n, <2>2, <2>3, Zenon DEF Depth
<1> QED BY AncestorCases, <1>1, <1>2, <1>3

\* What the hash of a node is made of: the hashes H of its linked children.
HashAt(H, t, p) ==
    IF ~Leaf(p)
    THEN NodeHash([s \in Sides |-> IF Linked(t, p, s) THEN H[Child(p, s)] ELSE t[p].child[s]],
                  t[p].certs)
    ELSE IF t[p].certs = NoCerts THEN DEFAULT_HASH ELSE LeafHash(t[p].certs)

\* Hash is well defined: it computes the deeper nodes first.
LEMMA HashUnfolded ==
    ASSUME NEW t, DOMAIN t \subseteq Pairs
    PROVE  Hash(t) = [p \in DOMAIN t |-> HashAt(Hash(t), t, p)]
<1> DEFINE M == XY_BITS + Z_BITS + 1
           Level(n) == {p \in DOMAIN t : Depth(p) >= n}
           T == {n \in 0..M : \E H : H = [p \in Level(n) |-> HashAt(H, t, p)]}
<1>0. M \in Nat /\ \A p \in DOMAIN t : Depth(p) \in 0..M - 1
  BY DepthBound, BitsAssumption
<1>1. M \in T
  <2>1. Level(M) = {}
    BY <1>0
  <2>2. [p \in {} |-> Null] = [p \in {} |-> HashAt([p_1 \in {} |-> Null], t, p)]
    OBVIOUS
  <2>3. \E H : H = [p \in Level(M) |-> HashAt(H, t, p)]
    BY <2>1, <2>2
  <2>4. M \in 0..M
    BY <1>0
  <2> HIDE DEF M, Level
  <2> QED BY <2>3, <2>4
<1>2. ASSUME NEW n \in 0..M - 1, n + 1 \in T PROVE n \in T
  <2>1. PICK H : H = [p \in Level(n + 1) |-> HashAt(H, t, p)]
    BY <1>2
  <2> DEFINE G == [p \in Level(n) |-> HashAt(H, t, p)]
  <2>2. ASSUME NEW p \in Level(n) PROVE HashAt(G, t, p) = HashAt(H, t, p)
    <3>1. ASSUME NEW s \in Sides, Linked(t, p, s) PROVE G[Child(p, s)] = H[Child(p, s)]
      <4>1. Child(p, s) \in Level(n + 1) /\ Child(p, s) \in Level(n)
        BY <1>0, <3>1, ChildFacts DEF Linked
      <4>2. H[Child(p, s)] = HashAt(H, t, Child(p, s))
        BY <2>1, <4>1
      <4> QED BY <4>1, <4>2
    <3> HIDE DEF G
    <3> QED BY <3>1 DEF HashAt
  <2>3. G = [p \in Level(n) |-> HashAt(G, t, p)]
    <3>1. \A p \in Level(n) : HashAt(G, t, p) = HashAt(H, t, p)
      BY <2>2
    <3> QED BY <3>1
  <2> HIDE DEF G
  <2> QED BY <1>0, <2>3
<1> HIDE DEF T
<1>3. 0 \in T
  BY <1>0, <1>1, <1>2, Downwards
<1>4. PICK H : H = [p \in Level(0) |-> HashAt(H, t, p)]
  BY <1>3 DEF T
<1>5. Level(0) = DOMAIN t
  BY <1>0
<1>6. H = [p \in DOMAIN t |-> HashAt(H, t, p)]
  BY <1>4, <1>5
<1> HIDE DEF Level, M
<1> QED BY <1>6 DEF Hash, HashAt

\* The hash of a node is never NULL, and only empty leaves have DEFAULT_HASH.
LEMMA HashKinds ==
    ASSUME NEW t, DOMAIN t \subseteq Pairs, NEW p \in DOMAIN t
    PROVE  /\ Hash(t)[p] # Null
           /\ Hash(t)[p] = DEFAULT_HASH <=> Leaf(p) /\ t[p].certs = NoCerts
<1>1. Hash(t)[p] = HashAt(Hash(t), t, p)
  BY HashUnfolded
<1>2. Hash(t)[p].kind # "null"
  BY <1>1 DEF HashAt, NodeHash, LeafHash, DEFAULT_HASH
<1> QED BY <1>1, <1>2 DEF HashAt, NodeHash, LeafHash, Null, DEFAULT_HASH

=============================================================================
