------------------------ MODULE CoverMerging_proofs ------------------------
(***************************************************************************)
(* The merging of voxels keeps their cover and takes no string twice, for  *)
(* any number of polygons and any length of the strings.                   *)
(***************************************************************************)
EXTENDS CoverMerging, SmtNodes_proofs

USE BitsAssumption DEF Merging

LEMMA StringFacts ==
    \A s : s \in Strings <=> s \in Seq(Bit) /\ Len(s) \in 0..XY_BITS
BY BitStringIsSeq, LenProperties DEF Strings

LEMMA CellFacts == \A c \in Cells : c \in Seq(Bit) /\ Len(c) = XY_BITS
<1> SUFFICES ASSUME NEW c \in Cells PROVE c \in Seq(Bit) /\ Len(c) = XY_BITS
  OBVIOUS
<1>1. c \in [1..XY_BITS -> Bit]
  BY DEF Cells
<1>2. c \in Seq(Bit)
  BY <1>1, SeqDef
<1> QED BY <1>1, <1>2, LenProperties

\* A prefix, element by element.
LEMMA PrefixPointwise ==
    ASSUME NEW s \in Seq(Bit), NEW t \in Seq(Bit)
    PROVE  IsPrefix(s, t) <=> Len(s) <= Len(t) /\ \A i \in 1..Len(s) : s[i] = t[i]
<1>0. Len(s) \in Nat /\ Len(t) \in Nat
  BY LenProperties
<1> SUFFICES ASSUME Len(s) <= Len(t)
             PROVE  SubSeq(s, 1, Len(s)) = SubSeq(t, 1, Len(s))
                    <=> \A i \in 1..Len(s) : s[i] = t[i]
  BY <1>0 DEF IsPrefix
<1>1. SubSeq(s, 1, Len(s)) = s
  BY SubSeqFull
<1>2. /\ SubSeq(t, 1, Len(s)) \in Seq(Bit)
      /\ Len(SubSeq(t, 1, Len(s))) = Len(s)
  BY <1>0, PrefixFacts
<1>3. \A i \in 1..Len(s) : SubSeq(t, 1, Len(s))[i] = t[i]
  <2>1. \A i \in 1..Len(s) : t[i] \in Bit
    BY <1>0, ElementOfSeq
  <2> QED BY <1>0, <2>1, SubSeqProperties
<1> QED BY <1>1, <1>2, <1>3, SeqEqual

LEMMA PrefixTransitive ==
    ASSUME NEW s \in Seq(Bit), NEW t \in Seq(Bit), NEW u \in Seq(Bit),
           IsPrefix(s, t), IsPrefix(t, u)
    PROVE  IsPrefix(s, u)
<1>0. Len(s) \in Nat /\ Len(t) \in Nat /\ Len(u) \in Nat
  BY LenProperties
<1> QED BY <1>0, PrefixPointwise

LEMMA PrefixReflexive == \A s \in Seq(Bit) : IsPrefix(s, s)
BY PrefixPointwise, LenProperties

\* The shorter strings that the loop compares s with.
LEMMA AncestorIsPrefix ==
    ASSUME NEW s \in Seq(Bit), NEW k \in 0..Len(s)
    PROVE  IsPrefix(SubSeq(s, 1, k), s) /\ Len(SubSeq(s, 1, k)) = k
<1>0. Len(s) \in Nat /\ \A i \in 1..Len(s) : s[i] \in Bit
  BY LenProperties, ElementOfSeq
<1>1. SubSeq(s, 1, k) \in Seq(Bit) /\ Len(SubSeq(s, 1, k)) = k
  BY PrefixFacts
<1>2. \A i \in 1..k : SubSeq(s, 1, k)[i] = s[i]
  BY <1>0, SubSeqProperties
<1> DEFINE q == SubSeq(s, 1, k)
<1> HIDE DEF q
<1>3. q \in Seq(Bit) /\ Len(q) = k /\ \A i \in 1..k : q[i] = s[i]
  BY <1>1, <1>2 DEF q
<1>4. IsPrefix(q, s)
  BY <1>0, <1>3, PrefixPointwise
<1> QED BY <1>3, <1>4 DEF q

\* Parent() stays within the strings and covers the string.
LEMMA ParentFacts ==
    ASSUME NEW s \in Strings
    PROVE  Parent(s) \in Strings /\ IsPrefix(Parent(s), s)
<1>0. s \in Seq(Bit) /\ Len(s) \in 0..XY_BITS
  BY StringFacts
<1>1. CASE s = World
  BY <1>0, <1>1, PrefixReflexive DEF Parent
<1>2. CASE s # World
  <2>1. Len(s) - 1 \in 0..Len(s)
    BY <1>0, <1>2, EmptySeq, LenProperties DEF World
  <2>2. /\ SubSeq(s, 1, Len(s) - 1) \in Seq(Bit)
        /\ Len(SubSeq(s, 1, Len(s) - 1)) = Len(s) - 1
        /\ IsPrefix(SubSeq(s, 1, Len(s) - 1), s)
    BY <1>0, <2>1, PrefixFacts, AncestorIsPrefix
  <2>3. SubSeq(s, 1, Len(s) - 1) \in Strings
    <3>1. Len(s) - 1 \in 0..XY_BITS
      BY <1>0, <2>1
    <3> QED BY ONLY <2>2, <3>1, StringFacts
  <2> QED BY <1>2, <2>2, <2>3 DEF Parent, Front
<1> QED BY <1>1, <1>2

\* Neighbor() flips the last bit.
LEMMA NeighborFacts ==
    ASSUME NEW s \in Strings, s # World
    PROVE  /\ Neighbor(s) \in Seq(Bit) /\ Len(Neighbor(s)) = Len(s) /\ Len(s) \in Nat \ {0}
           /\ Neighbor(s)[Len(s)] = 1 - s[Len(s)]
           /\ \A i \in 1..Len(s) - 1 : Neighbor(s)[i] = s[i]
           /\ Len(Parent(s)) = Len(s) - 1
<1>0. s \in Seq(Bit) /\ Len(s) \in 0..XY_BITS
  BY StringFacts
<1> DEFINE n == Len(s)
           p == SubSeq(s, 1, n - 1)
           b == 1 - s[n]
           t == Append(p, b)
<1>1. n \in 1..XY_BITS
  BY <1>0, EmptySeq, LenProperties DEF World
<1>2. Parent(s) = p /\ Neighbor(s) = t
  BY DEF Parent, Neighbor, Front, Last
<1>3. p \in Seq(Bit) /\ Len(p) = n - 1 /\ IsPrefix(p, s)
  <2>1. n - 1 \in 0..Len(s)
    BY <1>1
  <2> QED BY <1>0, <2>1, PrefixFacts, AncestorIsPrefix
<1>4. b \in Bit
  <2>1. s[n] \in Bit
    BY <1>0, <1>1, ElementOfSeq
  <2> QED BY <2>1 DEF Bit
<1> HIDE DEF n, p, b
<1>5. t \in Seq(Bit) /\ Len(t) = n /\ t[n] = b /\ \A i \in 1..n - 1 : t[i] = p[i]
  <2>1. n - 1 + 1 = n
    BY <1>1
  <2> QED BY <1>3, <1>4, <2>1, AppendProperties
<1>6. \A i \in 1..n - 1 : p[i] = s[i]
  BY <1>0, <1>3, PrefixPointwise
<1> HIDE DEF t
<1> QED BY <1>1, <1>2, <1>3, <1>5, <1>6 DEF n, b

\* The neighbour of the neighbour is the string.
LEMMA NeighborOfNeighbor ==
    ASSUME NEW s \in Strings, s # World, Neighbor(s) \in Strings
    PROVE  Neighbor(Neighbor(s)) = s
<1> DEFINE t == Neighbor(s)
           u == Neighbor(t)
<1>0. /\ t \in Seq(Bit) /\ Len(t) = Len(s) /\ Len(s) \in Nat \ {0}
      /\ t[Len(s)] = 1 - s[Len(s)] /\ \A i \in 1..Len(s) - 1 : t[i] = s[i]
  BY NeighborFacts
<1>1. t # World
  BY <1>0, EmptySeq DEF World
<1>2. s \in Seq(Bit) /\ s[Len(s)] \in Bit
  BY <1>0, StringFacts, ElementOfSeq
<1>3. t \in Strings
  OBVIOUS
<1> HIDE DEF t
<1>4. /\ u \in Seq(Bit) /\ Len(u) = Len(t)
      /\ u[Len(t)] = 1 - t[Len(t)] /\ \A i \in 1..Len(t) - 1 : u[i] = t[i]
  BY <1>1, <1>3, NeighborFacts
<1>5. u[Len(s)] = s[Len(s)]
  BY <1>0, <1>2, <1>4 DEF Bit
<1>6. \A i \in 1..Len(s) : u[i] = s[i]
  BY <1>0, <1>4, <1>5
<1>7. u = s
  <2> HIDE DEF u
  <2> QED BY <1>0, <1>2, <1>4, <1>6, SeqEqual
<1> QED BY <1>7 DEF t

\* What the parent covers, one of the two halves does.
LEMMA HalvesCover ==
    ASSUME NEW s \in Strings, NEW c \in Seq(Bit), Len(s) <= Len(c), IsPrefix(Parent(s), c)
    PROVE  IsPrefix(s, c) \/ IsPrefix(Neighbor(s), c)
<1>0. s \in Seq(Bit) /\ Parent(s) \in Seq(Bit) /\ Len(c) \in Nat
  BY StringFacts, ParentFacts, LenProperties
<1>1. CASE s = World
  BY <1>1 DEF Parent
<1>2. CASE s # World
  <2> DEFINE n == Len(s)
             t == Neighbor(s)
             p == Parent(s)
  <2>1. /\ t \in Seq(Bit) /\ Len(t) = n /\ n \in Nat \ {0} /\ t[n] = 1 - s[n]
        /\ \A i \in 1..n - 1 : t[i] = s[i]
        /\ Len(p) = n - 1
    BY <1>2, NeighborFacts
  <2>2. p \in Seq(Bit) /\ IsPrefix(p, s)
    BY ParentFacts, StringFacts
  <2>3. s[n] \in Bit /\ c[n] \in Bit
    BY <1>0, <2>1, ElementOfSeq
  <2> HIDE DEF t, p
  <2>4. \A i \in 1..n - 1 : c[i] = s[i]
    <3>1. IsPrefix(p, c)
      BY DEF p
    <3> HIDE DEF n
    <3>2. \A i \in 1..n - 1 : p[i] = c[i]
      BY <2>1, <2>2, <3>1, PrefixPointwise
    <3>3. \A i \in 1..n - 1 : p[i] = s[i]
      BY <1>0, <2>1, <2>2, PrefixPointwise
    <3> QED BY <3>2, <3>3
  <2>5. CASE c[n] = s[n]
    <3>1. \A i \in 1..n : s[i] = c[i]
      BY <2>1, <2>4, <2>5
    <3> QED BY <1>0, <3>1, PrefixPointwise
  <2>6. CASE c[n] # s[n]
    <3>1. c[n] = t[n]
      BY <2>1, <2>3, <2>6 DEF Bit
    <3>2. \A i \in 1..n : t[i] = c[i]
      BY <2>1, <2>4, <3>1
    <3> QED BY <1>0, <2>1, <3>2, PrefixPointwise DEF t
  <2> QED BY <2>5, <2>6
<1> QED BY <1>1, <1>2
-----------------------------------------------------------------------------
(* The list. *)

LEMMA ToSetAppend ==
    ASSUME NEW q \in Seq(Strings), NEW x \in Strings
    PROVE  /\ Append(q, x) \in Seq(Strings)
           /\ ToSet(Append(q, x)) = ToSet(q) \cup {x}
<1>1. /\ Append(q, x) \in Seq(Strings) /\ Len(Append(q, x)) = Len(q) + 1
      /\ \A i \in 1..Len(q) : Append(q, x)[i] = q[i]
      /\ Append(q, x)[Len(q) + 1] = x
  BY AppendProperties
<1>2. /\ DOMAIN q = 1..Len(q) /\ DOMAIN Append(q, x) = 1..Len(q) + 1
      /\ Len(q) \in Nat
  BY <1>1, LenProperties
<1> QED BY <1>1, <1>2 DEF ToSet

LEMMA ToSetTail ==
    ASSUME NEW q \in Seq(Strings), q # <<>>
    PROVE  /\ Tail(q) \in Seq(Strings) /\ Head(q) \in Strings
           /\ ToSet(q) = {Head(q)} \cup ToSet(Tail(q))
           /\ \A i \in DOMAIN Tail(q) : i + 1 \in DOMAIN q /\ Tail(q)[i] = q[i + 1]
           /\ 1 \in DOMAIN q /\ q[1] = Head(q)
           /\ DOMAIN q \subseteq Nat /\ DOMAIN Tail(q) \subseteq Nat \ {0}
<1>1. /\ Head(q) \in Strings /\ Tail(q) \in Seq(Strings) /\ Len(Tail(q)) = Len(q) - 1
      /\ \A i \in 1..Len(Tail(q)) : Tail(q)[i] = q[i + 1]
  BY HeadTailProperties
<1>2. DOMAIN q = 1..Len(q) /\ DOMAIN Tail(q) = 1..Len(q) - 1 /\ Len(q) \in Nat /\ Len(q) # 0
  BY <1>1, LenProperties, EmptySeq
<1>3. Head(q) = q[1]
  OBVIOUS
<1>4. \A i \in DOMAIN Tail(q) : i + 1 \in DOMAIN q /\ Tail(q)[i] = q[i + 1]
  BY <1>1, <1>2
<1>5. \A j \in DOMAIN q : q[j] = Head(q) \/ (j - 1 \in DOMAIN Tail(q) /\ Tail(q)[j - 1] = q[j])
  BY <1>1, <1>2, <1>3
<1>6. 1 \in DOMAIN q /\ DOMAIN q \subseteq Nat /\ DOMAIN Tail(q) \subseteq Nat \ {0}
  BY <1>2
<1>7. ToSet(q) = {Head(q)} \cup ToSet(Tail(q))
  <2>1. ASSUME NEW x \in ToSet(q) PROVE x \in {Head(q)} \cup ToSet(Tail(q))
    <3>1. PICK j \in DOMAIN q : q[j] = x
      BY DEF ToSet
    <3> QED BY <1>5, <3>1 DEF ToSet
  <2>2. Head(q) \in ToSet(q)
    BY <1>3, <1>6 DEF ToSet
  <2>3. ASSUME NEW x \in ToSet(Tail(q)) PROVE x \in ToSet(q)
    <3>1. PICK i \in DOMAIN Tail(q) : Tail(q)[i] = x
      BY DEF ToSet
    <3> QED BY <1>4, <3>1 DEF ToSet
  <2> QED BY <2>1, <2>2, <2>3
<1> QED BY <1>1, <1>3, <1>4, <1>6, <1>7
-----------------------------------------------------------------------------
(* The invariant.  The strings the loop may consult stay covered by what   *)
(* it has taken and what it will still read.                               *)

Kept == results \cup Listing

TypeInv ==
    /\ TypeOK
    /\ phase = "search" =>
        areas = found /\ fresh = {} /\ appended = <<>> /\ results = {}

SetInv ==
    /\ World \notin found /\ World \notin fresh
    /\ Kept \subseteq areas
    /\ Merging =>
        /\ Covered(areas) = Covered(found)
        /\ \A s \in areas : \E t \in Kept : IsPrefix(t, s)

Inv == TypeInv /\ SetInv /\ TakenOnce

LEMMA InitInv == Init => Inv
<1> SUFFICES ASSUME Init PROVE Inv
  OBVIOUS
<1>1. <<>> \in Seq(Strings) /\ DOMAIN <<>> = {} /\ ToSet(<<>>) = {}
  BY EmptySeq, LenProperties DEF ToSet
<1> QED BY <1>1 DEF Init, Inv, TypeInv, TypeOK, SetInv, Kept, Listing, TakenOnce

\* What reading the next string leaves of the list.
LEMMA ReadFacts ==
    ASSUME Inv, NEW s \in Current
    PROVE  /\ s \in Strings /\ s \in Listing /\ s \in areas /\ s \notin results
           /\ Unread \in Seq(Strings)
           /\ (fresh \ {s}) \cup ToSet(Unread) = Listing \ {s}
           /\ (fresh \ {s}) \cap ToSet(Unread) = {}
           /\ \A i, j \in DOMAIN Unread : Unread[i] = Unread[j] => i = j
           /\ DOMAIN Unread \subseteq Nat
<1> USE DEF Listing
<1>0. /\ fresh \subseteq Strings /\ appended \in Seq(Strings) /\ areas \subseteq Strings
      /\ results \cup fresh \cup ToSet(appended) \subseteq areas
      /\ results \cap (fresh \cup ToSet(appended)) = {}
      /\ fresh \cap ToSet(appended) = {}
      /\ \A i, j \in DOMAIN appended : appended[i] = appended[j] => i = j
  BY DEF Inv, TypeInv, TypeOK, SetInv, TakenOnce, Kept
<1>1. CASE fresh # {}
  <2>1. s \in fresh /\ Unread = appended
    BY <1>1 DEF Current, Unread
  <2>2. DOMAIN appended \subseteq Nat
    BY <1>0, LenProperties
  <2> QED BY <1>0, <2>1, <2>2
<1>2. CASE fresh = {}
  <2>1. appended # <<>> /\ s = Head(appended) /\ Unread = Tail(appended)
    BY <1>2 DEF Current, Unread
  <2>2. /\ Unread \in Seq(Strings) /\ s \in Strings
        /\ ToSet(appended) = {s} \cup ToSet(Unread)
        /\ \A i \in DOMAIN Unread : i + 1 \in DOMAIN appended /\ Unread[i] = appended[i + 1]
        /\ 1 \in DOMAIN appended /\ appended[1] = s
        /\ DOMAIN appended \subseteq Nat /\ DOMAIN Unread \subseteq Nat \ {0}
    BY <1>0, <2>1, ToSetTail
  <2>3. s \notin ToSet(Unread)
    <3> SUFFICES ASSUME NEW i \in DOMAIN Unread, Unread[i] = s PROVE FALSE
      BY DEF ToSet
    <3> QED BY <1>0, <2>2
  <2>4. \A i, j \in DOMAIN Unread : Unread[i] = Unread[j] => i = j
    BY <1>0, <2>2
  <2> QED BY <1>0, <1>2, <2>1, <2>2, <2>3, <2>4
<1> QED BY <1>1, <1>2

LEMMA SearchInv == Inv /\ (\E voxel \in Strings : Search(voxel)) => Inv'
<1> SUFFICES ASSUME Inv, NEW voxel \in Strings, Search(voxel) PROVE Inv'
  OBVIOUS
<1> USE DEF Search, Inv
<1>1. TypeInv'
  BY DEF TypeInv, TypeOK, Listing
<1>2. SetInv'
  BY DEF SetInv, TypeInv, Kept, Listing
<1>3. TakenOnce'
  BY DEF TakenOnce, Listing
<1> QED BY <1>1, <1>2, <1>3

LEMMA ToSliceInv == Inv /\ ToSlice => Inv'
<1> SUFFICES ASSUME Inv, ToSlice PROVE Inv'
  OBVIOUS
<1> USE DEF ToSlice, Inv
<1>0. /\ areas = found /\ found' = found /\ areas' = areas /\ fresh' = areas
      /\ appended = <<>> /\ appended' = appended /\ results = {} /\ results' = {}
      /\ areas \subseteq Strings /\ phase' = "merge"
  BY DEF TypeInv, TypeOK
<1>1. ToSet(appended) = {} /\ DOMAIN appended = {}
  BY <1>0 DEF ToSet
<1>2. TypeInv'
  BY <1>0, <1>1 DEF TypeInv, TypeOK, Listing
<1>3. \A s \in areas : IsPrefix(s, s)
  BY <1>0, StringFacts, PrefixReflexive
<1>4. SetInv'
  BY <1>0, <1>1, <1>3 DEF SetInv, Kept, Listing
<1>5. TakenOnce'
  BY <1>0, <1>1 DEF TakenOnce, Listing
<1> QED BY <1>2, <1>4, <1>5

\* A string below another string of the set is below one that is kept, and
\* that one is not the string itself.
LEMMA SkipInv ==
    ASSUME Inv, phase = "merge", NEW s \in Current, Skip(s), UNCHANGED <<found, phase>>
    PROVE  Inv'
<1> USE DEF Skip
<1>0. /\ s \in Strings /\ Unread \in Seq(Strings)
      /\ Listing' = Listing \ {s} /\ fresh' \cap ToSet(appended') = {}
      /\ \A i, j \in DOMAIN appended' : appended'[i] = appended'[j] => i = j
      /\ areas' = areas /\ results' = results /\ fresh' = fresh \ {s}
      /\ appended' = Unread
  BY ReadFacts DEF Listing
<1>1. TypeInv'
  BY <1>0 DEF Inv, TypeInv, TypeOK
<1>2. TakenOnce'
  BY <1>0 DEF Inv, TakenOnce
<1>3. PICK k \in 0..Len(s) - 1 : SubSeq(s, 1, k) \in areas
  BY DEF Redundant
<1>4. s \in Seq(Bit) /\ Len(s) \in Nat /\ areas \subseteq Strings /\ Kept \subseteq Strings
  BY <1>0, StringFacts, LenProperties DEF Inv, TypeInv, TypeOK, SetInv
<1> DEFINE a == SubSeq(s, 1, k)
<1>5. a \in Seq(Bit) /\ Len(a) = k /\ IsPrefix(a, s) /\ a \in areas
  <2>1. k \in 0..Len(s)
    BY <1>4
  <2> QED BY <1>3, <1>4, <2>1, PrefixFacts, AncestorIsPrefix
<1> HIDE DEF a
<1>6. PICK t \in Kept : IsPrefix(t, a)
  BY <1>5 DEF Inv, SetInv
<1>7. IsPrefix(t, s) /\ t # s
  <2>1. t \in Seq(Bit) /\ Len(t) \in Nat
    BY <1>4, StringFacts, LenProperties
  <2>2. Len(t) <= Len(a)
    BY <1>6 DEF IsPrefix
  <2>3. Len(t) < Len(s)
    BY <1>4, <1>5, <2>1, <2>2
  <2> QED BY <1>4, <1>5, <1>6, <2>1, <2>3, PrefixTransitive
<1>8. \A x \in areas : \E y \in Kept' : IsPrefix(y, x)
  <2> SUFFICES ASSUME NEW x \in areas PROVE \E y \in Kept' : IsPrefix(y, x)
    OBVIOUS
  <2>1. PICK y \in Kept : IsPrefix(y, x)
    BY DEF Inv, SetInv
  <2>2. CASE y # s
    BY <1>0, <2>1, <2>2 DEF Kept
  <2>3. CASE y = s
    <3>1. t \in Kept'
      BY <1>0, <1>6, <1>7 DEF Kept
    <3>2. t \in Seq(Bit) /\ x \in Seq(Bit)
      BY <1>4, StringFacts
    <3> QED BY <1>4, <1>7, <2>1, <2>3, <3>1, <3>2, PrefixTransitive
  <2> QED BY <2>2, <2>3
<1>9. SetInv'
  <2>1. Kept' \subseteq areas'
    BY <1>0 DEF Kept, Inv, SetInv
  <2>2. Covered(areas)' = Covered(found)'
    BY <1>0 DEF Inv, SetInv, Covered
  <2>3. World \notin found' /\ World \notin fresh'
    BY <1>0 DEF Inv, SetInv
  <2> QED BY <1>0, <1>8, <2>1, <2>2, <2>3 DEF SetInv
<1> QED BY <1>1, <1>2, <1>9 DEF Inv

LEMMA TakeInv ==
    ASSUME Inv, phase = "merge", NEW s \in Current, Take(s), UNCHANGED <<found, phase>>
    PROVE  Inv'
<1> USE DEF Take
<1>0. /\ s \in Strings /\ s \in areas /\ s \in Listing /\ Unread \in Seq(Strings)
      /\ Listing' = Listing \ {s} /\ fresh' \cap ToSet(appended') = {}
      /\ \A i, j \in DOMAIN appended' : appended'[i] = appended'[j] => i = j
      /\ areas' = areas /\ results' = results \cup {s} /\ fresh' = fresh \ {s}
      /\ appended' = Unread
  BY ReadFacts DEF Listing
<1>1. TypeInv'
  BY <1>0 DEF Inv, TypeInv, TypeOK
<1>2. TakenOnce'
  BY <1>0 DEF Inv, TakenOnce
<1>3. Kept' = Kept
  BY <1>0 DEF Kept
<1>4. SetInv'
  BY <1>0, <1>3 DEF Inv, SetInv, Covered
<1> QED BY <1>1, <1>2, <1>4 DEF Inv

\* The parent covers both halves, and both were in the set.
LEMMA MergeInv ==
    ASSUME Inv, phase = "merge", NEW s \in Current, Merge(s), UNCHANGED <<found, phase>>
    PROVE  Inv'
<1> USE DEF Merge
<1> DEFINE p == Parent(s)
<1>0. /\ s \in Strings /\ s \in areas /\ s \notin results /\ Unread \in Seq(Strings)
      /\ fresh' \cup ToSet(Unread) = Listing \ {s} /\ fresh' \cap ToSet(Unread) = {}
      /\ \A i, j \in DOMAIN Unread : Unread[i] = Unread[j] => i = j
      /\ DOMAIN Unread \subseteq Nat
      /\ areas' = areas \cup {p} /\ results' = results /\ fresh' = fresh \ {s}
      /\ appended' = Append(Unread, p)
  BY ReadFacts
<1>1. p \in Strings /\ IsPrefix(p, s)
  BY <1>0, ParentFacts
<1>2. appended' \in Seq(Strings) /\ ToSet(appended') = ToSet(Unread) \cup {p}
  BY <1>0, <1>1, ToSetAppend
<1>3. Listing' = (Listing \ {s}) \cup {p}
  BY <1>0, <1>2 DEF Listing
<1>4. p \notin results /\ p \notin Listing \ {s}
  <2>1. CASE s = World
    BY <1>0, <2>1 DEF Parent
  <2>2. CASE s # World
    <3>1. s \in Seq(Bit) /\ Len(s) \in Nat /\ Len(s) # 0
      BY <1>0, <2>2, StringFacts, LenProperties, EmptySeq DEF World
    <3>2. p = SubSeq(s, 1, Len(s) - 1) /\ Len(s) - 1 \in 0..Len(s) - 1
      BY <2>2, <3>1 DEF Parent, Front
    <3>3. p \notin areas
      BY <3>2 DEF Redundant
    <3> QED BY <3>3 DEF Inv, SetInv, Kept
  <2> QED BY <2>1, <2>2
<1> HIDE DEF p
<1>5. p \notin fresh'
  BY <1>0, <1>4
<1>6. TypeInv'
  BY <1>0, <1>1, <1>2, <1>3 DEF Inv, TypeInv, TypeOK
<1>7. TakenOnce'
  <2>1. results' \cap Listing' = {}
    BY <1>0, <1>3, <1>4 DEF Inv, TakenOnce
  <2>2. fresh' \cap ToSet(appended') = {}
    BY <1>0, <1>2, <1>5
  <2>3. \A i, j \in DOMAIN appended' : appended'[i] = appended'[j] => i = j
    <3>1. p \notin ToSet(Unread)
      BY <1>0, <1>4
    <3>2. /\ DOMAIN Unread = 1..Len(Unread) /\ Len(Unread) \in Nat
          /\ DOMAIN appended' = 1..Len(Unread) + 1
          /\ \A i \in 1..Len(Unread) : appended'[i] = Unread[i]
          /\ appended'[Len(Unread) + 1] = p
      BY <1>0, <1>1, <1>2, AppendProperties, LenProperties
    <3>3. \A i \in 1..Len(Unread) : Unread[i] # p
      BY <3>1, <3>2 DEF ToSet
    <3> QED BY <1>0, <3>2, <3>3
  <2> QED BY <2>1, <2>2, <2>3 DEF TakenOnce
<1>8. \A x \in areas' : \E y \in Kept' : IsPrefix(y, x)
  <2> SUFFICES ASSUME NEW x \in areas' PROVE \E y \in Kept' : IsPrefix(y, x)
    OBVIOUS
  <2>0. p \in Kept' /\ p \in Seq(Bit) /\ s \in Seq(Bit)
    BY <1>0, <1>1, <1>3, StringFacts DEF Kept
  <2>1. CASE x = p
    BY <2>0, <2>1, PrefixReflexive
  <2>2. CASE x \in areas
    <3>1. PICK y \in Kept : IsPrefix(y, x)
      BY <2>2 DEF Inv, SetInv
    <3>2. CASE y # s
      BY <1>0, <1>3, <3>1, <3>2 DEF Kept
    <3>3. CASE y = s
      <4>1. x \in Seq(Bit)
        BY <2>2, StringFacts DEF Inv, TypeInv, TypeOK
      <4> QED BY <1>1, <2>0, <3>1, <3>3, <4>1, PrefixTransitive
    <3> QED BY <3>2, <3>3
  <2> QED BY <1>0, <2>1, <2>2
<1>9. Covered(areas') = Covered(areas)
  <2> SUFFICES ASSUME NEW c \in Cells, IsPrefix(p, c) PROVE \E x \in areas : IsPrefix(x, c)
    BY <1>0 DEF Covered
  <2>1. c \in Seq(Bit) /\ Len(s) <= Len(c)
    BY <1>0, StringFacts, CellFacts
  <2> QED BY <1>0, <2>1, HalvesCover DEF p
<1>10. SetInv'
  <2>1. Kept' \subseteq areas'
    BY <1>0, <1>3 DEF Kept, Inv, SetInv
  <2>2. Covered(areas)' = Covered(found)'
    BY <1>9 DEF Inv, SetInv, Covered
  <2>3. World \notin found' /\ World \notin fresh'
    BY <1>0 DEF Inv, SetInv
  <2> QED BY <1>8, <2>1, <2>2, <2>3 DEF SetInv
<1> QED BY <1>6, <1>7, <1>10 DEF Inv

LEMMA StepInv == Inv /\ [Next]_vars => Inv'
<1> SUFFICES ASSUME Inv, [Next]_vars PROVE Inv'
  OBVIOUS
<1>1. CASE \E voxel \in Strings : Search(voxel)
  BY <1>1, SearchInv
<1>2. CASE ToSlice
  BY <1>2, ToSliceInv
<1>3. CASE BitstringLoop
  <2>1. PICK s \in Current : Skip(s) \/ Merge(s) \/ Take(s)
    BY <1>3 DEF BitstringLoop
  <2>2. phase = "merge" /\ UNCHANGED <<found, phase>>
    BY <1>3 DEF BitstringLoop
  <2> QED BY <2>1, <2>2, SkipInv, MergeInv, TakeInv
<1>4. CASE Return \/ SearchFails
  BY <1>4 DEF Return, SearchFails, Inv, TypeInv, TypeOK, SetInv, Kept, Listing,
              TakenOnce, Covered
<1>5. CASE UNCHANGED vars
  BY <1>5 DEF vars, Inv, TypeInv, TypeOK, SetInv, Kept, Listing, TakenOnce, Covered
<1> QED BY <1>1, <1>2, <1>3, <1>4, <1>5 DEF Next

LEMMA InvCoverKept == Inv => CoverKept
<1> SUFFICES ASSUME Inv, Merging PROVE Covered(Kept) = Covered(areas)
  BY DEF CoverKept, Kept, Inv, SetInv
<1>0. Kept \subseteq areas /\ areas \subseteq Strings
  BY DEF Inv, SetInv, TypeInv, TypeOK
<1> SUFFICES ASSUME NEW c \in Cells, NEW s \in areas, IsPrefix(s, c)
             PROVE  \E t \in Kept : IsPrefix(t, c)
  BY <1>0 DEF Covered
<1>1. PICK t \in Kept : IsPrefix(t, s)
  BY DEF Inv, SetInv
<1>2. t \in Seq(Bit) /\ s \in Seq(Bit) /\ c \in Seq(Bit)
  BY <1>0, StringFacts, CellFacts
<1> QED BY <1>1, <1>2, PrefixTransitive

(* The strings of the set, the list and the results are bit strings of at   *)
(* most the full length, and what is listed is in the set.                  *)
THEOREM MergingTypeCorrect == Spec => []TypeOK
<1>1. Inv => TypeOK
  BY DEF Inv, TypeInv
<1> QED BY <1>1, InitInv, StepInv, PTL DEF Spec

(* What is taken and still listed covers what the searches found, for any  *)
(* polygons and any order of the list.                                     *)
THEOREM MergingKeepsCover == Spec => []CoverKept
<1>1. Inv => CoverKept
  BY InvCoverKept
<1> QED BY <1>1, InitInv, StepInv, PTL DEF Spec

(* No string is returned twice.                                            *)
THEOREM MergingTakesOnce == Spec => []TakenOnce
<1>1. Inv => TakenOnce
  BY DEF Inv
<1> QED BY <1>1, InitInv, StepInv, PTL DEF Spec
-----------------------------------------------------------------------------
(* Voxels of one size.  The list is read from the longest strings to the   *)
(* shortest, so that all strings of one length are in the set before the   *)
(* first of them is read; a string that was taken never gets a neighbour   *)
(* or a string above it.                                                   *)

OneSize == \A s, t \in found : Len(s) = Len(t)

LongestFirst ==
    /\ fresh \subseteq found
    /\ \A i, j \in DOMAIN appended :
           i < j => /\ Len(appended[j]) <= Len(appended[i])
                    /\ Len(appended[i]) <= Len(appended[j]) + 1
    /\ \A s \in fresh, i \in DOMAIN appended : Len(appended[i]) = Len(s) - 1
    /\ \A r \in results, s \in Listing : Len(s) <= Len(r)

TakenForGood ==
    \A r \in results :
        /\ r # World /\ Neighbor(r) \notin areas
        /\ \A k \in 0..Len(r) - 1 : SubSeq(r, 1, k) \notin areas

SizeInv == Merging /\ OneSize => LongestFirst /\ TakenForGood

LEMMA Lengths == Inv => \A s \in found \cup areas \cup results \cup Listing :
                           s \in Strings /\ s \in Seq(Bit) /\ Len(s) \in Nat
BY StringFacts, LenProperties DEF Inv, TypeInv, TypeOK, SetInv, Kept

\* What is left of the list is no longer than what is read, by one at most.
LEMMA ReadOrder ==
    ASSUME Inv, OneSize, LongestFirst, NEW s \in Current
    PROVE  /\ \A t \in Listing : Len(t) <= Len(s)
           /\ \A i \in DOMAIN Unread : Len(s) <= Len(Unread[i]) + 1
           /\ \A t \in fresh : Len(t) = Len(s)
           /\ \A i, j \in DOMAIN Unread :
                  i < j => /\ Len(Unread[j]) <= Len(Unread[i])
                           /\ Len(Unread[i]) <= Len(Unread[j]) + 1
           /\ \A t \in fresh \ {s}, i \in DOMAIN Unread : Len(Unread[i]) = Len(t) - 1
<1>0. s \in Listing /\ \A t \in Listing : Len(t) \in Nat
  BY ReadFacts, Lengths
<1>1. \A i \in DOMAIN appended : appended[i] \in Listing
  BY DEF Listing, ToSet
<1>2. CASE fresh # {}
  <2>1. s \in fresh /\ Unread = appended /\ s \in Listing
    BY <1>2, <1>0 DEF Current, Unread
  <2>2. \A t \in fresh : Len(t) = Len(s)
    BY <2>1 DEF LongestFirst, OneSize
  <2>3. \A i \in DOMAIN appended : Len(appended[i]) = Len(s) - 1
    BY <2>1 DEF LongestFirst
  <2>4. \A t \in Listing : t \in fresh \/ \E i \in DOMAIN appended : t = appended[i]
    BY DEF Listing, ToSet
  <2>5. \A t \in Listing : Len(t) <= Len(s)
    BY <1>0, <2>2, <2>3, <2>4
  <2>6. \A i \in DOMAIN appended : Len(s) <= Len(appended[i]) + 1
    BY <1>0, <1>1, <2>3
  <2> QED BY <2>1, <2>2, <2>5, <2>6 DEF LongestFirst
<1>3. CASE fresh = {}
  <2>1. appended # <<>> /\ s = Head(appended) /\ Unread = Tail(appended)
    BY <1>3 DEF Current, Unread
  <2>2. appended \in Seq(Strings)
    BY DEF Inv, TypeInv, TypeOK
  <2>3. /\ \A i \in DOMAIN Unread : i + 1 \in DOMAIN appended /\ Unread[i] = appended[i + 1]
        /\ 1 \in DOMAIN appended /\ appended[1] = s
        /\ DOMAIN appended \subseteq Nat /\ DOMAIN Unread \subseteq Nat \ {0}
    BY <2>1, <2>2, ToSetTail
  <2>4. \A i \in DOMAIN Unread : Len(Unread[i]) <= Len(s) /\ Len(s) <= Len(Unread[i]) + 1
    BY <2>3 DEF LongestFirst
  <2>5. \A i, j \in DOMAIN Unread :
            i < j => /\ Len(Unread[j]) <= Len(Unread[i])
                     /\ Len(Unread[i]) <= Len(Unread[j]) + 1
    BY <2>3 DEF LongestFirst
  <2>6. \A t \in Listing : t = s \/ \E i \in DOMAIN Unread : t = Unread[i]
    <3>1. Listing = {s} \cup ToSet(Unread)
      BY <1>3, <2>1, <2>2, ToSetTail DEF Listing
    <3> QED BY <3>1 DEF ToSet
  <2>7. \A t \in Listing : Len(t) <= Len(s)
    BY <1>0, <2>4, <2>6
  <2> QED BY <1>3, <2>4, <2>5, <2>7
<1> QED BY <1>2, <1>3

LEMMA SkipSize ==
    ASSUME Inv, SizeInv, phase = "merge", NEW s \in Current, Skip(s), UNCHANGED <<found, phase>>
    PROVE  SizeInv'
<1> USE DEF Skip
<1> SUFFICES ASSUME OneSize PROVE LongestFirst' /\ TakenForGood'
  BY DEF SizeInv, OneSize
<1>0. LongestFirst /\ TakenForGood
  BY DEF SizeInv
<1>1. Listing' = Listing \ {s}
  BY ReadFacts DEF Listing
<1>2. LongestFirst'
  BY <1>0, <1>1, ReadOrder DEF LongestFirst
<1>3. TakenForGood'
  BY <1>0 DEF TakenForGood
<1> QED BY <1>2, <1>3

LEMMA TakeSize ==
    ASSUME Inv, SizeInv, phase = "merge", NEW s \in Current, Take(s), UNCHANGED <<found, phase>>
    PROVE  SizeInv'
<1> USE DEF Take
<1> SUFFICES ASSUME OneSize PROVE LongestFirst' /\ TakenForGood'
  BY DEF SizeInv, OneSize
<1>0. LongestFirst /\ TakenForGood
  BY DEF SizeInv
<1>1. Listing' = Listing \ {s} /\ s \in areas
  BY ReadFacts DEF Listing
<1>2. \A r \in results', t \in Listing' : Len(t) <= Len(r)
  BY <1>0, <1>1, ReadOrder DEF LongestFirst
<1>3. LongestFirst'
  BY <1>0, <1>2, ReadOrder DEF LongestFirst
<1>4. s # World
  BY <1>1 DEF Neighbor
<1>5. \A k \in 0..Len(s) - 1 : SubSeq(s, 1, k) \notin areas
  BY DEF Redundant
<1>6. TakenForGood'
  BY <1>0, <1>4, <1>5 DEF TakenForGood
<1> QED BY <1>3, <1>6

\* The string that Merge adds is shorter than what was taken, and no string
\* that was taken lies below it.
LEMMA MergeSize ==
    ASSUME Inv, SizeInv, phase = "merge", NEW s \in Current, Merge(s), UNCHANGED <<found, phase>>
    PROVE  SizeInv'
<1> USE DEF Merge
<1> SUFFICES ASSUME OneSize PROVE LongestFirst' /\ TakenForGood'
  BY DEF SizeInv, OneSize
<1> DEFINE p == Parent(s)
<1>0. LongestFirst /\ TakenForGood
  BY DEF SizeInv
<1>1. /\ s \in Strings /\ s \in Listing /\ s \in areas /\ s \notin results
      /\ Unread \in Seq(Strings)
      /\ fresh' \cup ToSet(Unread) = Listing \ {s}
  BY ReadFacts
<1>2. /\ p \in Strings /\ IsPrefix(p, s) /\ p \in Seq(Bit) /\ s \in Seq(Bit)
      /\ Len(p) \in Nat /\ Len(s) \in Nat
  BY <1>1, ParentFacts, StringFacts, LenProperties
<1>3. /\ s = World => p = World /\ Len(s) = 0
      /\ s # World => Len(s) = Len(p) + 1
  <2>1. s = World => p = World /\ Len(s) = 0
    BY EmptySeq DEF Parent, World
  <2>2. s # World => Len(p) = Len(s) - 1
    BY <1>1, NeighborFacts
  <2> QED BY <1>2, <2>1, <2>2
<1>4. /\ appended' = Append(Unread, p) /\ areas' = areas \cup {p}
      /\ results' = results /\ fresh' = fresh \ {s}
  OBVIOUS
<1> HIDE DEF p
<1>5. /\ DOMAIN Unread = 1..Len(Unread) /\ Len(Unread) \in Nat
      /\ DOMAIN appended' = 1..Len(Unread) + 1
      /\ \A i \in 1..Len(Unread) : appended'[i] = Unread[i]
      /\ appended'[Len(Unread) + 1] = p
      /\ ToSet(appended') = ToSet(Unread) \cup {p}
  BY <1>1, <1>2, <1>4, AppendProperties, LenProperties, ToSetAppend
<1>6. \A i \in DOMAIN Unread : Unread[i] \in Listing /\ Len(Unread[i]) \in Nat
  BY <1>1, Lengths DEF ToSet
<1>7. \A i \in DOMAIN Unread :
          Len(p) <= Len(Unread[i]) /\ Len(Unread[i]) <= Len(p) + 1
  <2>1. \A i \in DOMAIN Unread : Len(Unread[i]) <= Len(s) /\ Len(s) <= Len(Unread[i]) + 1
    BY <1>0, <1>6, ReadOrder
  <2> QED BY <1>2, <1>3, <1>6, <2>1
<1>8. \A t \in fresh \ {s} : Len(p) = Len(t) - 1
  <2> SUFFICES ASSUME NEW t \in fresh \ {s} PROVE Len(p) = Len(t) - 1
    OBVIOUS
  <2>1. Len(t) = Len(s)
    BY <1>0, ReadOrder
  <2>2. s # World
    <3>1. t \in Seq(Bit) /\ t # World
      BY Lengths DEF Listing, Inv, SetInv
    <3> QED BY <1>3, <2>1, <3>1, EmptySeq, LenProperties DEF World
  <2> QED BY <1>2, <1>3, <2>1, <2>2
<1>9. \A r \in results : Len(s) <= Len(r)
  BY <1>0, <1>1 DEF LongestFirst
<1>10. Listing' = (Listing \ {s}) \cup {p}
  BY <1>1, <1>5 DEF Listing
<1>11. \A r \in results, t \in Listing' : Len(t) <= Len(r)
  <2>1. Len(p) <= Len(s)
    BY <1>2, <1>3
  <2>2. \A r \in results : Len(r) \in Nat
    BY Lengths
  <2>3. \A r \in results : Len(p) <= Len(r)
    BY <1>2, <1>9, <2>1, <2>2
  <2> QED BY <1>0, <1>10, <2>3 DEF LongestFirst
<1>12. LongestFirst'
  <2>1. fresh' \subseteq found'
    BY <1>0, <1>4 DEF LongestFirst
  <2>2. \A i, j \in DOMAIN Unread :
            i < j => /\ Len(Unread[j]) <= Len(Unread[i])
                     /\ Len(Unread[i]) <= Len(Unread[j]) + 1
    BY <1>0, ReadOrder
  <2>3. \A i, j \in DOMAIN appended' :
            i < j => /\ Len(appended'[j]) <= Len(appended'[i])
                     /\ Len(appended'[i]) <= Len(appended'[j]) + 1
    BY <1>5, <1>7, <2>2
  <2>4. \A t \in fresh', i \in DOMAIN Unread : Len(Unread[i]) = Len(t) - 1
    BY <1>0, <1>4, ReadOrder
  <2>5. \A t \in fresh', i \in DOMAIN appended' : Len(appended'[i]) = Len(t) - 1
    BY <1>4, <1>5, <1>8, <2>4
  <2> QED BY <1>11, <2>1, <2>3, <2>5 DEF LongestFirst
<1>13. TakenForGood'
  <2>1. CASE s = World
    <3>1. areas' = areas
      BY <1>1, <1>3, <1>4, <2>1
    <3> QED BY <1>0, <1>4, <3>1 DEF TakenForGood
  <2>2. CASE s # World
    <3> SUFFICES ASSUME NEW r \in results
                 PROVE  /\ r # World /\ Neighbor(r) \notin areas'
                        /\ \A k \in 0..Len(r) - 1 : SubSeq(r, 1, k) \notin areas'
      BY <1>4 DEF TakenForGood
    <3>1. /\ r # World /\ Neighbor(r) \notin areas
          /\ \A k \in 0..Len(r) - 1 : SubSeq(r, 1, k) \notin areas
      BY <1>0 DEF TakenForGood
    <3>2. r \in Strings /\ r \in Seq(Bit) /\ Len(r) \in Nat
      BY Lengths
    <3>3. Neighbor(r) # p
      BY <1>2, <1>3, <1>9, <2>2, <3>1, <3>2, NeighborFacts
    <3>4. ASSUME NEW k \in 0..Len(r) - 1, SubSeq(r, 1, k) = p PROVE FALSE
      <4>1. k \in 0..Len(r)
        BY <3>2
      <4>2. IsPrefix(p, r) /\ Len(p) = k
        BY <3>2, <3>4, <4>1, AncestorIsPrefix
      <4>3. Len(s) <= Len(r)
        BY <1>9
      <4>4. PICK h \in {s, Neighbor(s)} : IsPrefix(h, r)
        BY <1>1, <3>2, <4>2, <4>3, HalvesCover DEF p
      <4>5. h \in areas /\ h \in Strings /\ h \in Seq(Bit) /\ Len(h) = Len(s)
        BY <1>1, <1>2, <2>2, Lengths, NeighborFacts
      <4>6. h = SubSeq(r, 1, Len(s))
        BY <4>4, <4>5, SubSeqFull DEF IsPrefix
      <4>7. CASE Len(s) < Len(r)
        <5>1. Len(s) \in 0..Len(r) - 1
          BY <1>2, <3>2, <4>7
        <5> QED BY <3>1, <4>5, <4>6, <5>1
      <4>8. CASE Len(s) = Len(r)
        <5>1. h = r
          BY <3>2, <4>6, <4>8, SubSeqFull
        <5>2. h = Neighbor(s)
          BY <1>1, <5>1
        <5>3. Neighbor(r) = s
          BY <1>1, <2>2, <4>5, <5>1, <5>2, NeighborOfNeighbor
        <5> QED BY <1>1, <3>1, <5>3
      <4> QED BY <1>2, <3>2, <4>3, <4>7, <4>8
    <3> QED BY <1>4, <3>1, <3>3, <3>4
  <2> QED BY <2>1, <2>2
<1> QED BY <1>12, <1>13

LEMMA InitSizeInv == Init => SizeInv
BY DEF Init, SizeInv

LEMMA StepSizeInv == Inv /\ SizeInv /\ [Next]_vars => SizeInv'
<1> SUFFICES ASSUME Inv, SizeInv, [Next]_vars PROVE SizeInv'
  OBVIOUS
<1>1. CASE \E voxel \in Strings : Search(voxel)
  BY <1>1 DEF Search, SizeInv
<1>2. CASE ToSlice
  <2>1. /\ areas = found /\ fresh' = areas /\ found' = found /\ results' = {}
        /\ appended' = <<>>
    BY <1>2 DEF ToSlice, Inv, TypeInv
  <2>2. DOMAIN appended' = {}
    BY <2>1
  <2> QED BY <2>1, <2>2 DEF SizeInv, LongestFirst, TakenForGood
<1>3. CASE BitstringLoop
  <2>1. PICK s \in Current : Skip(s) \/ Merge(s) \/ Take(s)
    BY <1>3 DEF BitstringLoop
  <2>2. phase = "merge" /\ UNCHANGED <<found, phase>>
    BY <1>3 DEF BitstringLoop
  <2> QED BY <2>1, <2>2, SkipSize, MergeSize, TakeSize
<1>4. CASE Return \/ SearchFails
  BY <1>4 DEF Return, SearchFails, SizeInv, OneSize, LongestFirst, TakenForGood, Listing
<1>5. CASE UNCHANGED vars
  BY <1>5 DEF vars, SizeInv, OneSize, LongestFirst, TakenForGood, Listing
<1> QED BY <1>1, <1>2, <1>3, <1>4, <1>5 DEF Next

LEMMA SizeInvSmallest == Inv /\ SizeInv => SmallestForOneSize
<1> SUFFICES ASSUME Inv, TakenForGood, NEW s \in results, NEW t \in results, s # t
             PROVE  ~IsPrefix(s, t) /\ t # Neighbor(s)
  BY DEF SmallestForOneSize, SizeInv, OneSize
<1>1. s \in areas /\ t \in areas
  BY DEF Inv, SetInv, Kept
<1>2. s \in Seq(Bit) /\ t \in Seq(Bit) /\ Len(s) \in Nat /\ Len(t) \in Nat
  BY Lengths
<1>3. ASSUME IsPrefix(s, t) PROVE FALSE
  <2>1. s = SubSeq(t, 1, Len(s)) /\ Len(s) <= Len(t)
    BY <1>2, <1>3, SubSeqFull DEF IsPrefix
  <2>2. Len(s) # Len(t)
    BY <1>2, <2>1, SubSeqFull
  <2>3. Len(s) \in 0..Len(t) - 1
    BY <1>2, <2>1, <2>2
  <2> QED BY <1>1, <2>1, <2>3 DEF TakenForGood
<1> QED BY <1>1, <1>3 DEF TakenForGood

(* For voxels of one size nothing redundant is returned and no two         *)
(* neighbours remain, for any voxels and any order of the list.            *)
THEOREM MergingIsSmallest == Spec => []SmallestForOneSize
BY InitInv, StepInv, InitSizeInv, StepSizeInv, SizeInvSmallest, PTL DEF Spec
=============================================================================
