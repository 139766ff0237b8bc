------------------------- MODULE VoxelCover_proofs -------------------------
(***************************************************************************)
(* What VoxelCover promises for any areas, any grid and any altitudes: the *)
(* altitude string of an area is the smallest that encloses it, a query    *)
(* whose sphere reaches the area selects it, the search is one that        *)
(* CoverMerging admits, and it covers the polygon, across the date line    *)
(* and beyond the poles.                                                   *)
(*                                                                         *)
(* Columns of voxels are counted from the first one, westwards below zero, *)
(* as far as the circle: a voxel that the search comes to from the west    *)
(* has a longitude below zero, as a word, but the string of the one on the *)
(* circle.                                                                 *)
(***************************************************************************)
EXTENDS VoxelCover, SmtNodes_proofs

(* Digits of numbers *)

LEMMA PaddedStep ==
    ASSUME NEW s, NEW b, NEW n \in Nat
    PROVE  /\ Padded(s, 0, b) = 0
           /\ Padded(s, n + 1, b) = 2 * Padded(s, n, b) + Digit(s, b, n + 1)
<1>1. Padded(s, 0, b) = 0
  <2>1. PICK V : Numbers(V, s, b, 0) /\ Padded(s, 0, b) = V[0]
    BY PaddedUnfolded
  <2> QED BY <2>1 DEF Numbers, NumberAt
<1>2. PICK V : Numbers(V, s, b, n + 1) /\ Padded(s, n + 1, b) = V[n + 1]
  BY PaddedUnfolded
<1>3. PICK W : Numbers(W, s, b, n) /\ Padded(s, n, b) = W[n]
  BY PaddedUnfolded
<1> DEFINE T == {m \in 0..n : V[m] = W[m]}
<1>4. 0 \in T
  <2>1. 0 \in 0..n /\ 0 \in 0..n + 1
    OBVIOUS
  <2> QED BY <1>2, <1>3, <2>1 DEF Numbers, NumberAt
<1>5. ASSUME NEW m \in 0..n - 1, m \in T PROVE m + 1 \in T
  <2>1. m + 1 \in 0..n /\ m + 1 \in 0..n + 1 /\ m + 1 # 0 /\ (m + 1) - 1 = m /\ V[m] = W[m]
    BY <1>5
  <2>2. V[m + 1] = NumberAt(V, s, b, m + 1) /\ W[m + 1] = NumberAt(W, s, b, m + 1)
    BY <1>2, <1>3, <2>1 DEF Numbers
  <2> QED BY <2>1, <2>2 DEF NumberAt
<1> HIDE DEF T
<1>6. n \in T
  <2>1. n \in 0..n
    OBVIOUS
  <2> QED BY <1>4, <1>5, <2>1, Upwards
<1>7. V[n] = W[n]
  BY <1>6 DEF T
<1>8. V[n + 1] = NumberAt(V, s, b, n + 1)
  <2>1. n + 1 \in 0..n + 1
    OBVIOUS
  <2> QED BY <1>2, <2>1 DEF Numbers
<1>9. n + 1 # 0 /\ (n + 1) - 1 = n
  OBVIOUS
<1> QED BY <1>1, <1>2, <1>3, <1>7, <1>8, <1>9 DEF NumberAt

\* Every number up to that of nothing but ones has digits.
LEMMA DigitsExist ==
    ASSUME NEW n \in Nat
    PROVE  /\ Padded(<<>>, n, 1) \in Nat
           /\ \A a \in 0..Padded(<<>>, n, 1) : \E s \in [1..n -> Bit] : Padded(s, n, 0) = a
<1> DEFINE P(m) == /\ Padded(<<>>, m, 1) \in Nat
                   /\ \A a \in 0..Padded(<<>>, m, 1) : \E s \in [1..m -> Bit] : Padded(s, m, 0) = a
           T == {m \in 0..n : P(m)}
<1>1. 0 \in T
  <2>1. Padded(<<>>, 0, 1) = 0 /\ \A s : Padded(s, 0, 0) = 0
    BY PaddedStep
  <2>2. PICK s : s = [i \in 1..0 |-> 0]
    OBVIOUS
  <2>3. s \in [1..0 -> Bit] /\ Padded(s, 0, 0) = 0
    BY <2>1, <2>2 DEF Bit
  <2>4. ASSUME NEW a \in 0..Padded(<<>>, 0, 1)
        PROVE  \E u \in [1..0 -> Bit] : Padded(u, 0, 0) = a
    <3>1. a = 0
      BY <2>1
    <3> QED BY <2>3, <3>1
  <2>5. P(0)
    <3>1. Padded(<<>>, 0, 1) \in Nat
      BY <2>1
    <3> QED BY <2>4, <3>1
  <2> HIDE DEF P
  <2> QED BY <2>5
<1>2. ASSUME NEW m \in 0..n - 1, P(m) PROVE P(m + 1)
  <2>0. m \in Nat
    OBVIOUS
  <2>1. Padded(<<>>, m + 1, 1) = 2 * Padded(<<>>, m, 1) + 1
    <3>1. Digit(<<>>, 1, m + 1) = 1
      BY EmptySeq DEF Digit
    <3> QED BY <2>0, <3>1, PaddedStep
  <2>2. ASSUME NEW a \in 0..Padded(<<>>, m + 1, 1)
        PROVE  \E s \in [1..m + 1 -> Bit] : Padded(s, m + 1, 0) = a
    <3>1. /\ a \div 2 \in 0..Padded(<<>>, m, 1) /\ a % 2 \in Bit
          /\ a = 2 * (a \div 2) + (a % 2)
      BY <1>2, <2>1 DEF Bit
    <3>2. PICK s \in [1..m -> Bit] : Padded(s, m, 0) = a \div 2
      BY <1>2, <3>1
    <3> DEFINE t == [i \in 1..m + 1 |-> IF i = m + 1 THEN a % 2 ELSE s[i]]
    <3>3. t \in [1..m + 1 -> Bit]
      BY <3>1, <3>2
    <3>4. \A i \in 1..m : Digit(t, 0, i) = Digit(s, 0, i) /\ Digit(s, 0, i) \in Bit
      BY <3>2 DEF Digit
    <3>5. Digit(t, 0, m + 1) = a % 2
      BY <2>0 DEF Digit
    <3> HIDE DEF t
    <3>6. \A i \in 1..m : Digit(s, 0, i) <= Digit(t, 0, i) /\ Digit(t, 0, i) <= Digit(s, 0, i)
      BY <3>4 DEF Bit
    <3>7. Padded(t, m, 0) \in Nat /\ Padded(s, m, 0) \in Nat
          /\ Padded(s, m, 0) <= Padded(t, m, 0) /\ Padded(t, m, 0) <= Padded(s, m, 0)
      BY <2>0, <3>4, <3>6, PaddedMonotone
    <3>8. Padded(t, m + 1, 0) = 2 * Padded(t, m, 0) + Digit(t, 0, m + 1)
      BY <2>0, PaddedStep
    <3>9. Padded(t, m + 1, 0) = a
      BY <3>1, <3>2, <3>5, <3>7, <3>8
    <3> QED BY <3>3, <3>9
  <2>3. Padded(<<>>, m + 1, 1) \in Nat
    BY <1>2, <2>1
  <2> QED BY <2>2, <2>3
<1> HIDE DEF P
<1>3. n \in T
  <2>1. n \in 0..n /\ \A m \in 0..n - 1 : m \in 0..n /\ m + 1 \in 0..n
    OBVIOUS
  <2>2. 0 \in T /\ \A m \in 0..n - 1 : m \in T => m + 1 \in T
    BY <1>1, <1>2, <2>1
  <2> HIDE DEF T
  <2> QED BY <2>1, <2>2, Upwards
<1>4. P(n)
  BY <1>3
<1> QED BY <1>4 DEF P

LEMMA ZBitsFacts ==
    ASSUME NEW n \in Altitudes
    PROVE  /\ n \in Nat /\ n <= C_Z /\ C_Z \in Nat
           /\ ZBits(n) \in Seq(Bit) /\ Len(ZBits(n)) = Z_BITS
           /\ Padded(ZBits(n), Z_BITS, 0) = n
<1>1. Z_BITS \in Nat
  BY BitsAssumption
<1>2. C_Z \in Nat /\ \A a \in 0..C_Z : \E s \in [1..Z_BITS -> Bit] : Padded(s, Z_BITS, 0) = a
  BY <1>1, DigitsExist DEF C_Z
<1>3. ZBits(n) \in [1..Z_BITS -> Bit] /\ Padded(ZBits(n), Z_BITS, 0) = n
  BY <1>2 DEF Altitudes, ZBits
<1>4. \A s \in [1..Z_BITS -> Bit] : s \in Seq(Bit) /\ Len(s) = Z_BITS
  BY <1>1
<1> QED BY <1>2, <1>3, <1>4 DEF Altitudes

(* The smallest enclosing string *)

LEMMA PrefixElements ==
    ASSUME NEW r \in Seq(Bit), NEW s \in Seq(Bit)
    PROVE  IsPrefix(r, s) <=> Len(r) <= Len(s) /\ \A k \in 1..Len(r) : r[k] = s[k]
<1>0. Len(r) \in Nat /\ Len(s) \in Nat /\ SubSeq(r, 1, Len(r)) = r
  BY LenProperties, WholePrefix
<1>1. ASSUME Len(r) <= Len(s)
      PROVE  r = SubSeq(s, 1, Len(r)) <=> \A k \in 1..Len(r) : r[k] = s[k]
  <2>1. Len(r) \in 0..Len(s)
    BY <1>0, <1>1
  <2>2. /\ SubSeq(s, 1, Len(r)) \in Seq(Bit) /\ Len(SubSeq(s, 1, Len(r))) = Len(r)
        /\ \A k \in 1..Len(r) : SubSeq(s, 1, Len(r))[k] = s[k]
    BY <2>1, PrefixFacts
  <2> DEFINE u == SubSeq(s, 1, Len(r))
  <2> HIDE DEF u
  <2>3. r = u <=> \A k \in 1..Len(r) : r[k] = u[k]
    BY <2>2, SeqEqual DEF u
  <2> QED BY <2>2, <2>3 DEF u
<1> QED BY <1>0, <1>1 DEF IsPrefix

LEMMA CommonPrefixFacts ==
    ASSUME NEW s \in Seq(Bit), NEW t \in Seq(Bit), NEW r
    PROVE  r \in CommonPrefixes({s, t}) <=> r \in Seq(Bit) /\ IsPrefix(r, s) /\ IsPrefix(r, t)
<1>1. ASSUME NEW u \in {s, t}, r \in Prefixes(u) PROVE r \in Seq(Bit)
  BY <1>1, PrefixFacts DEF Prefixes
<1>2. ASSUME r \in Seq(Bit), IsPrefix(r, s) PROVE r \in Prefixes(s)
  <2>1. Len(r) \in 0..Len(s) /\ r = SubSeq(s, 1, Len(r))
    BY <1>2, LenProperties, WholePrefix DEF IsPrefix
  <2> QED BY <2>1 DEF Prefixes
<1> QED BY <1>1, <1>2 DEF CommonPrefixes

\* The longest string that begins two strings of one length.
LEMMA LongestFacts ==
    ASSUME NEW s \in Seq(Bit), NEW t \in Seq(Bit), Len(s) = Len(t),
           NEW z, z = LongestCommonPrefix({s, t})
    PROVE  /\ z \in Seq(Bit) /\ IsPrefix(z, s) /\ IsPrefix(z, t)
           /\ \A b \in Bit : ~(IsPrefix(Append(z, b), s) /\ IsPrefix(Append(z, b), t))
<1> DEFINE C == CommonPrefixes({s, t})
<1>1. \A r : r \in C <=> r \in Seq(Bit) /\ IsPrefix(r, s) /\ IsPrefix(r, t)
  BY CommonPrefixFacts
<1>2. \E longest \in C : \A other \in C : Len(other) <= Len(longest)
  <2>1. CASE s = t
    <3>1. s \in C
      <4>1. IsPrefix(s, s)
        BY DEF IsPrefix
      <4> QED BY <1>1, <2>1, <4>1
    <3>2. \A other \in C : Len(other) <= Len(s)
      BY <1>1 DEF IsPrefix
    <3> HIDE DEF C
    <3> QED BY <3>1, <3>2
  <2>2. CASE s # t
    <3>1. ~IsPrefix(s, t) /\ ~IsPrefix(t, s)
      BY <2>2, PrefixElements, SeqEqual
    <3>2. PICK i \in (1..Len(s)) \cap (1..Len(t)) : s[i] # t[i] /\ \A k \in 1..i - 1 : s[k] = t[k]
      BY <3>1, FirstDifference
    <3>3. i - 1 \in 0..Len(s) /\ Len(s) \in Nat /\ i \in Nat
      BY LenProperties
    <3> DEFINE r == SubSeq(s, 1, i - 1)
    <3>4. r \in Seq(Bit) /\ Len(r) = i - 1 /\ \A k \in 1..i - 1 : r[k] = s[k]
      BY <3>3, PrefixFacts
    <3> HIDE DEF r, C
    <3>5. IsPrefix(r, s) /\ IsPrefix(r, t)
      <4>1. Len(r) <= Len(s) /\ Len(r) <= Len(t)
        BY <3>3, <3>4
      <4>2. /\ \A k \in 1..Len(r) : r[k] = s[k]
            /\ \A k \in 1..Len(r) : r[k] = t[k]
        BY <3>2, <3>4
      <4>3. r \in Seq(Bit)
        BY <3>4
      <4> QED BY <4>1, <4>2, <4>3, PrefixElements
    <3>6. ASSUME NEW other \in C PROVE Len(other) <= i - 1
      <4>1. /\ other \in Seq(Bit) /\ Len(other) \in Nat
            /\ \A k \in 1..Len(other) : other[k] = s[k] /\ other[k] = t[k]
        BY <1>1, PrefixElements, LenProperties
      <4> QED BY <3>2, <3>3, <4>1
    <3> QED BY <1>1, <3>4, <3>5, <3>6
  <2> QED BY <2>1, <2>2
<1>3. z \in C /\ \A other \in C : Len(other) <= Len(z)
  <2>1. z = CHOOSE longest \in C : \A other \in C : Len(other) <= Len(longest)
    BY DEF LongestCommonPrefix
  <2> HIDE DEF C
  <2> QED BY <1>2, <2>1
<1>4. ASSUME NEW b \in Bit, Append(z, b) \in C PROVE FALSE
  <2>1. z \in Seq(Bit) /\ Len(z) \in Nat
    BY <1>1, <1>3, LenProperties
  <2>2. Len(Append(z, b)) = Len(z) + 1
    BY <2>1, AppendProperties
  <2>3. Len(Append(z, b)) <= Len(z)
    BY <1>3, <1>4
  <2> QED BY <2>1, <2>2, <2>3
<1>5. z \in Seq(Bit)
  BY <1>1, <1>3
<1>6. \A b \in Bit : Append(z, b) \in Seq(Bit)
  BY <1>5, AppendProperties
<1> HIDE DEF C
<1> QED BY <1>1, <1>3, <1>4, <1>6

---------------------------------------------------------------------------
(* Altitudes *)

LEMMA MinMaxFacts ==
    ASSUME NEW a \in Int, NEW b \in Int
    PROVE  /\ Min({a, b}) = IF a <= b THEN a ELSE b
           /\ Max({a, b}) = IF a >= b THEN a ELSE b
<1>1. \A x \in {a, b} : (\A y \in {a, b} : x <= y) <=> x = IF a <= b THEN a ELSE b
  OBVIOUS
<1>2. \A x \in {a, b} : (\A y \in {a, b} : x >= y) <=> x = IF a >= b THEN a ELSE b
  OBVIOUS
<1> QED BY <1>1, <1>2 DEF Min, Max

LEMMA GridFacts == D \in Int /\ C_Z \in Nat /\ H \in Int /\ H = C_Z + D
<1>1. C_Z \in Nat
  BY DigitsExist, BitsAssumption DEF C_Z
<1> QED BY <1>1, LowestAssumption DEF LowestAssumption, H

\* The metre that an altitude on the grid is in.
Metre(a) == IF a = 2 * (H + 1) THEN C_Z ELSE (a - 2 * D) \div 2

LEMMA MetreFacts ==
    ASSUME NEW a \in Int, OnGrid(a)
    PROVE  /\ Metre(a) \in Altitudes
           /\ ZBitStringFromGeodeticCoordinate(a) = ZBits(Metre(a))
           /\ ZBits(Metre(a)) \in Seq(Bit) /\ Len(ZBits(Metre(a))) = Z_BITS
           /\ Padded(ZBits(Metre(a)), Z_BITS, 0) = Metre(a)
<1>1. Metre(a) \in Altitudes
  BY GridFacts DEF OnGrid, Metre, Altitudes
<1> QED BY <1>1, ZBitsFacts DEF ZBitStringFromGeodeticCoordinate, Metre

LEMMA MetreMonotone ==
    ASSUME NEW a \in Int, OnGrid(a), NEW b \in Int, OnGrid(b), a <= b
    PROVE  Metre(a) <= Metre(b)
BY GridFacts DEF OnGrid, Metre

\* A string that begins the digits of a number is around that number.
LEMMA AroundNumber ==
    ASSUME NEW n \in Altitudes, NEW z \in Seq(Bit), IsPrefix(z, ZBits(n))
    PROVE  /\ Padded(z, Z_BITS, 0) \in Nat /\ Padded(z, Z_BITS, 1) \in Nat
           /\ Padded(z, Z_BITS, 0) <= n /\ n <= Padded(z, Z_BITS, 1)
           /\ Len(z) <= Z_BITS
<1>1. /\ ZBits(n) \in Seq(Bit) /\ Len(ZBits(n)) = Z_BITS /\ Padded(ZBits(n), Z_BITS, 0) = n
      /\ Z_BITS \in Nat /\ n \in Nat
  BY ZBitsFacts, BitsAssumption
<1>2. Len(z) \in 0..Len(ZBits(n)) /\ z = SubSeq(ZBits(n), 1, Len(z))
  BY LenProperties, WholePrefix DEF IsPrefix
<1>3. /\ Padded(z, Z_BITS, 0) <= Padded(ZBits(n), Z_BITS, 0)
      /\ Padded(ZBits(n), Z_BITS, 0) <= Padded(ZBits(n), Z_BITS, 1)
      /\ Padded(ZBits(n), Z_BITS, 1) <= Padded(z, Z_BITS, 1)
      /\ \A b \in Bit : Padded(ZBits(n), Z_BITS, b) \in Nat /\ Padded(z, Z_BITS, b) \in Nat
  BY <1>1, <1>2, PaddedNested
<1>4. 0 \in Bit /\ 1 \in Bit
  BY DEF Bit
<1> QED BY <1>1, <1>2, <1>3, <1>4

\* And begins the digits of every number between two that it begins.
LEMMA BeginsBetween ==
    ASSUME NEW z \in Seq(Bit), NEW m \in Altitudes, NEW n \in Altitudes, NEW k \in Altitudes,
           IsPrefix(z, ZBits(m)), IsPrefix(z, ZBits(n)), m <= k, k <= n
    PROVE  IsPrefix(z, ZBits(k))
<1>1. /\ ZBits(k) \in Seq(Bit) /\ Len(ZBits(k)) = Z_BITS /\ Padded(ZBits(k), Z_BITS, 0) = k
      /\ m \in Nat /\ n \in Nat /\ k \in Nat /\ Z_BITS \in Nat
  BY ZBitsFacts, BitsAssumption
<1>2. /\ Padded(z, Z_BITS, 0) <= k /\ k <= Padded(z, Z_BITS, 1) /\ Len(z) <= Z_BITS
  <2>1. /\ Padded(z, Z_BITS, 0) \in Nat /\ Padded(z, Z_BITS, 1) \in Nat
        /\ Padded(z, Z_BITS, 0) <= m /\ n <= Padded(z, Z_BITS, 1) /\ Len(z) <= Z_BITS
    BY AroundNumber
  <2> QED BY <1>1, <2>1
<1>3. IsPrefix(z, ZBits(k)) \/ IsPrefix(ZBits(k), z)
  BY <1>1, <1>2, BetweenIsRelated
<1>4. ASSUME IsPrefix(ZBits(k), z) PROVE IsPrefix(z, ZBits(k))
  <2>1. Z_BITS <= Len(z) /\ \A i \in 1..Z_BITS : ZBits(k)[i] = z[i]
    BY <1>1, <1>4, PrefixElements
  <2>2. Len(z) = Z_BITS
    BY <1>1, <1>2, <2>1, LenProperties
  <2> QED BY <1>1, <2>1, <2>2, PrefixElements
<1> QED BY <1>3, <1>4

LEMMA ClampBetween ==
    ASSUME NEW a \in Int, NEW low \in Int, NEW high \in Int, low <= high
    PROVE  /\ Clamp(a, low, high) \in Int
           /\ low <= Clamp(a, low, high) /\ Clamp(a, low, high) <= high
<1>1. Max({a, low}) = IF a >= low THEN a ELSE low
  BY MinMaxFacts
<1> DEFINE m == IF a >= low THEN a ELSE low
<1>2. m \in Int /\ low <= m
  OBVIOUS
<1> HIDE DEF m
<1>3. Min({m, high}) = IF m <= high THEN m ELSE high
  BY <1>2, MinMaxFacts
<1>4. Clamp(a, low, high) = Min({m, high})
  BY <1>1 DEF Clamp, m
<1> QED BY <1>2, <1>3, <1>4

LEMMA ClampFacts ==
    ASSUME NEW a \in Int
    PROVE  Clamp(a, 2 * D, 2 * H) \in Int /\ OnGrid(Clamp(a, 2 * D, 2 * H))
<1> DEFINE low == 2 * D
           high == 2 * H
<1>1. low \in Int /\ high \in Int /\ low <= high
  BY GridFacts
<1> HIDE DEF low, high
<1>2. Clamp(a, low, high) \in Int /\ low <= Clamp(a, low, high) /\ Clamp(a, low, high) <= high
  BY <1>1, ClampBetween
<1>3. low = 2 * D /\ high = 2 * H /\ high <= 2 * (H + 1)
  BY GridFacts DEF low, high
<1>4. OnGrid(Clamp(a, low, high))
  BY <1>1, <1>2, <1>3, GridFacts DEF OnGrid
<1> QED BY <1>2, <1>4 DEF low, high

LEMMA FloorsFacts ==
    ASSUME NEW low \in Int, NEW high \in Int, NEW surface \in Int
    PROVE  /\ Floors(low, high, surface).min \in Int /\ OnGrid(Floors(low, high, surface).min)
           /\ Floors(low, high, surface).max \in Int /\ OnGrid(Floors(low, high, surface).max)
<1>1. surface + Storeys(low) \in Int /\ surface + Storeys(high + 1) \in Int
  BY DEF Storeys
<1> QED BY <1>1, ClampFacts DEF Floors, Bounds

\* A row whose floors are consistent has its altitudes on the grid.
LEMMA BoundsFacts ==
    ASSUME NEW c \in Certificates, AltitudesOf(c) # Invalid
    PROVE  /\ AltitudesOf(c).min \in Int /\ AltitudesOf(c).max \in Int
           /\ c.imported => OnGrid(AltitudesOf(c).min) /\ OnGrid(AltitudesOf(c).max)
<1>1. CASE ~c.imported
  BY <1>1, VoxelAssumption DEF VoxelAssumption, AltitudesOf
<1>2. CASE c.imported
  <2>1. /\ AltitudesOf(c) = levelToAltitude(c.kind, c.level, c.levels, c.surface)
        /\ c.level \in Int /\ c.surface \in Int
        /\ c.levels \in {AtSign, Blank} \cup [low : Int, high : Int]
    BY <1>2, VoxelAssumption DEF VoxelAssumption, AltitudesOf
  <2>2. /\ FullAltitudeBounds.min \in Int /\ FullAltitudeBounds.max \in Int
        /\ OnGrid(FullAltitudeBounds.min) /\ OnGrid(FullAltitudeBounds.max)
    BY GridFacts DEF FullAltitudeBounds, OnGrid
  <2>3. \/ AltitudesOf(c) = FullAltitudeBounds
        \/ c.levels \notin {AtSign, Blank} /\ AltitudesOf(c) = Floors(c.levels.low, c.levels.high, c.surface)
        \/ AltitudesOf(c) = Floors(c.level, c.level, c.surface)
    BY <2>1 DEF levelToAltitude
  <2> QED BY <2>1, <2>2, <2>3, FloorsFacts
<1> QED BY <1>1, <1>2

---------------------------------------------------------------------------
(* The altitude string of an area *)

\* Whether the area's altitudes are such that it gets a string.
HasAltitudes(c) ==
    AltitudesOf(c) # Invalid /\ OnGrid(AltitudesOf(c).min) /\ OnGrid(AltitudesOf(c).max)

AltitudeInv ==
    /\ certificate \in Certificates
    /\ phase = "refused" => ~HasAltitudes(certificate)
    /\ phase = "done" =>
          /\ HasAltitudes(certificate)
          /\ zString = SmallestEnclosingZBitString(AltitudesOf(certificate).min, AltitudesOf(certificate).max)

LEMMA AltitudeInvariant == Spec => []AltitudeInv
<1>1. Init => AltitudeInv
  BY DEF Init, AltitudeInv
<1>2. AltitudeInv /\ [Next]_vars => AltitudeInv'
  <2> SUFFICES ASSUME AltitudeInv, [Next]_vars PROVE AltitudeInv'
    OBVIOUS
  <2> USE DEF AltitudeInv
  <2>1. CASE UNCHANGED vars
    BY <2>1 DEF vars
  <2>2. ASSUME Start \/ Search \/ GeometryFails
        PROVE  certificate' = certificate /\ phase' \notin {"done", "refused"}
    <3>1. CASE Start
      BY <3>1 DEF Start, InitialXYBitString
    <3>2. CASE Search
      BY <3>2 DEF Search, SkipVisited, SkipOutside, Expand, NextPolygon, Pop
    <3>3. CASE GeometryFails
      BY <3>3 DEF GeometryFails
    <3> QED BY <2>2, <3>1, <3>2, <3>3
  <2>3. CASE ExtrudedPolygonsToBitStringPairs
    <3>1. certificate' = certificate
      BY <2>3 DEF ExtrudedPolygonsToBitStringPairs
    <3>2. \/ /\ HasAltitudes(certificate) /\ phase' = "done"
             /\ zString' = SmallestEnclosingZBitString(AltitudesOf(certificate).min, AltitudesOf(certificate).max)
          \/ ~HasAltitudes(certificate) /\ phase' = "refused"
      BY <2>3 DEF ExtrudedPolygonsToBitStringPairs, HasAltitudes
    <3> QED BY <3>1, <3>2
  <2> QED BY <2>1, <2>2, <2>3 DEF Next
<1> QED BY <1>1, <1>2, PTL DEF Spec

\* The string of an area begins the leaves of its lowest and its highest
\* altitude, and no longer one does.
LEMMA StringFacts ==
    ASSUME NEW low \in Int, NEW high \in Int, OnGrid(low), OnGrid(high),
           NEW z, z = SmallestEnclosingZBitString(low, high)
    PROVE  /\ z \in Seq(Bit) /\ IsPrefix(z, ZBits(Metre(low))) /\ IsPrefix(z, ZBits(Metre(high)))
           /\ \A b \in Bit : ~( /\ IsPrefix(Append(z, b), ZBits(Metre(low)))
                                /\ IsPrefix(Append(z, b), ZBits(Metre(high))) )
<1>1. Ends(low, high) = {ZBits(Metre(low)), ZBits(Metre(high))}
  BY MetreFacts DEF Ends
<1>2. /\ ZBits(Metre(low)) \in Seq(Bit) /\ ZBits(Metre(high)) \in Seq(Bit)
      /\ Len(ZBits(Metre(low))) = Len(ZBits(Metre(high)))
  BY MetreFacts
<1>3. z = LongestCommonPrefix({ZBits(Metre(low)), ZBits(Metre(high))})
  BY <1>1 DEF SmallestEnclosingZBitString
<1> QED BY <1>2, <1>3, LongestFacts

(* Whatever its altitudes, an area whose floors are consistent gets an      *)
(* altitude string, and the string is the longest that covers all of them  *)
(* (SmallestEnclosingZBitString): AltitudesEnclosed is an invariant.        *)
THEOREM AltitudesAreEnclosed == Spec => []AltitudesEnclosed
<1>1. AltitudeInv => AltitudesEnclosed
  <2> SUFFICES ASSUME AltitudeInv PROVE AltitudesEnclosed
    OBVIOUS
  <2> DEFINE bounds == AltitudesOf(certificate)
             leaves == {ZBitStringFromGeodeticCoordinate(a) : a \in bounds.min..bounds.max}
  <2>1. ASSUME phase = "refused", certificate.imported PROVE bounds = Invalid
    BY <2>1, BoundsFacts DEF AltitudeInv, HasAltitudes
  <2>2. ASSUME phase = "done"
        PROVE  /\ \A leaf \in leaves : IsPrefix(zString, leaf)
               /\ bounds.min <= bounds.max /\ Len(zString) < Z_BITS =>
                    \A b \in Bit : \E leaf \in leaves : ~IsPrefix(Append(zString, b), leaf)
    <3>1. PICK low, high : low = bounds.min /\ high = bounds.max
      OBVIOUS
    <3>2. /\ low \in Int /\ high \in Int /\ OnGrid(low) /\ OnGrid(high)
          /\ zString = SmallestEnclosingZBitString(low, high)
      BY <2>2, <3>1, BoundsFacts DEF AltitudeInv, HasAltitudes
    <3>3. /\ zString \in Seq(Bit)
          /\ IsPrefix(zString, ZBits(Metre(low))) /\ IsPrefix(zString, ZBits(Metre(high)))
          /\ \A b \in Bit : ~( /\ IsPrefix(Append(zString, b), ZBits(Metre(low)))
                               /\ IsPrefix(Append(zString, b), ZBits(Metre(high))) )
      BY <3>2, StringFacts
    <3>4. ASSUME NEW a \in low..high PROVE IsPrefix(zString, ZBitStringFromGeodeticCoordinate(a))
      <4>1. a \in Int /\ low <= a /\ a <= high /\ OnGrid(a)
        BY <3>2, GridFacts DEF OnGrid
      <4>2. /\ Metre(low) \in Altitudes /\ Metre(a) \in Altitudes /\ Metre(high) \in Altitudes
            /\ Metre(low) <= Metre(a) /\ Metre(a) <= Metre(high)
            /\ ZBitStringFromGeodeticCoordinate(a) = ZBits(Metre(a))
        BY <3>2, <4>1, MetreFacts, MetreMonotone
      <4> QED BY <3>3, <4>2, BeginsBetween
    <3>5. ASSUME low <= high, NEW b \in Bit
          PROVE  \E a \in low..high : ~IsPrefix(Append(zString, b), ZBitStringFromGeodeticCoordinate(a))
      <4>1. low \in low..high /\ high \in low..high
        BY <3>2, <3>5
      <4>2. /\ ZBitStringFromGeodeticCoordinate(low) = ZBits(Metre(low))
            /\ ZBitStringFromGeodeticCoordinate(high) = ZBits(Metre(high))
        BY <3>2, MetreFacts
      <4> QED BY <3>3, <4>1, <4>2
    <3> QED BY <3>1, <3>4, <3>5
  <2> QED BY <2>1, <2>2 DEF AltitudesEnclosed
<1> QED BY <1>1, AltitudeInvariant, PTL

---------------------------------------------------------------------------
(* The query of a sphere *)

\* Dropping the fraction of an altitude changes it by less than a metre, and
\* the enlarged radius is longer by one.
LEMMA RoundingFacts ==
    ASSUME NEW a \in Int, NEW radius \in Nat \ {0}
    PROVE  /\ Truncated(a) \in Int /\ a \div 2 <= Truncated(a) /\ Truncated(a) <= (a \div 2) + 1
           /\ Enlarged(radius) \in Int /\ radius + 1 <= Enlarged(radius)
BY DEF Truncated, Enlarged

LEMMA MetreBounds ==
    ASSUME NEW a \in Int, OnGrid(a)
    PROVE  /\ Metre(a) \in Int
           /\ Metre(a) <= (a \div 2) - D /\ (a \div 2) - D <= Metre(a) + 1
BY GridFacts DEF Metre, OnGrid

(* A query whose sphere touches the altitudes of an area is one that       *)
(* selects the area, in the server's filter (BuildNodeQuery) and in what   *)
(* the client demands (intersectsAltitudeRange): SphereSelectsArea is an   *)
(* invariant.                                                              *)
THEOREM SpheresSelectAreas == Spec => []SphereSelectsArea
<1>1. AltitudeInv => SphereSelectsArea
  <2> SUFFICES ASSUME AltitudeInv, phase = "done", ZMin(zString) < C_Z,
                      NEW a \in 2 * D..2 * H, NEW radius \in 1..Radii,
                      NewQuery(a, radius) # Invalid,
                      a - 2 * radius <= AltitudesOf(certificate).max,
                      AltitudesOf(certificate).min <= a + 2 * radius
               PROVE  /\ InAltitude(zString, NewQuery(a, radius))
                      /\ IntersectsAltitudeRange(zString, NewQuery(a, radius))
    BY DEF SphereSelectsArea
  <2>1. PICK low, high : low = AltitudesOf(certificate).min /\ high = AltitudesOf(certificate).max
    OBVIOUS
  <2>2. /\ low \in Int /\ high \in Int /\ OnGrid(low) /\ OnGrid(high)
        /\ zString = SmallestEnclosingZBitString(low, high)
    BY <2>1, BoundsFacts DEF AltitudeInv, HasAltitudes
  <2>3. PICK lo, hi : lo = Padded(zString, Z_BITS, 0) /\ hi = Padded(zString, Z_BITS, 1)
    OBVIOUS
  <2>4. lo \in Nat /\ hi \in Nat /\ lo <= Metre(low) /\ Metre(high) <= hi /\ lo < C_Z
    <3>1. /\ zString \in Seq(Bit)
          /\ IsPrefix(zString, ZBits(Metre(low))) /\ IsPrefix(zString, ZBits(Metre(high)))
      BY <2>2, StringFacts
    <3>2. Metre(low) \in Altitudes /\ Metre(high) \in Altitudes
      BY <2>2, MetreFacts
    <3> QED BY <2>3, <3>1, <3>2, AroundNumber DEF ZMin
  <2>5. PICK t, e : t = Truncated(a) /\ e = Enlarged(radius)
    OBVIOUS
  <2>6. /\ a \in Int /\ radius \in Nat \ {0}
        /\ t \in Int /\ a \div 2 <= t /\ t <= (a \div 2) + 1
        /\ e \in Int /\ radius + 1 <= e
    <3>1. a \in Int /\ radius \in Nat \ {0}
      BY GridFacts, VoxelAssumption DEF VoxelAssumption
    <3> QED BY <2>5, <3>1, RoundingFacts
  <2>7. PICK from, to : from = t - D - e /\ to = t - D + e
    OBVIOUS
  <2>8. from \in Int /\ to \in Int
    BY <2>6, <2>7, GridFacts
  <2>9. NewQuery(a, radius) = [min |-> IF from >= 0 THEN from ELSE 0,
                               max |-> IF to <= C_Z THEN to ELSE C_Z]
    <3>1. NewQuery(a, radius) = [min |-> Max({from, 0}), max |-> Min({to, C_Z})]
      BY <2>5, <2>7 DEF NewQuery
    <3>2. /\ Max({from, 0}) = IF from >= 0 THEN from ELSE 0
          /\ Min({to, C_Z}) = IF to <= C_Z THEN to ELSE C_Z
      BY <2>8, MinMaxFacts, GridFacts
    <3> QED BY <3>1, <3>2
  <2>10. lo < to
    <3>1. low \div 2 <= (a \div 2) + radius
      BY <2>1, <2>2, <2>6
    <3>2. Metre(low) \in Int /\ Metre(low) <= (low \div 2) - D
      BY <2>2, MetreBounds
    <3> QED BY <2>2, <2>4, <2>6, <2>7, <3>1, <3>2, GridFacts
  <2>11. from <= hi + 1
    <3>1. (a \div 2) - radius <= high \div 2
      BY <2>1, <2>2, <2>6
    <3>2. Metre(high) \in Int /\ (high \div 2) - D <= Metre(high) + 1
      BY <2>2, MetreBounds
    <3> QED BY <2>2, <2>4, <2>6, <2>7, <3>1, <3>2, GridFacts
  <2>12. PICK qmin, qmax : qmin = NewQuery(a, radius).min /\ qmax = NewQuery(a, radius).max
    OBVIOUS
  <2>13. /\ qmin \in Int /\ qmax \in Int /\ lo <= qmax - 1 /\ hi >= qmin - 1
         /\ qmin <= hi + 1 /\ qmax >= lo
    BY <2>4, <2>8, <2>9, <2>10, <2>11, <2>12, GridFacts
  <2> QED BY <2>3, <2>12, <2>13
          DEF InAltitude, IntersectsAltitudeRange, altitude_min, altitude_max, ZMin, ZMax
<1> QED BY <1>1, AltitudeInvariant, PTL

---------------------------------------------------------------------------
(* Powers of two, and division by them *)

\* 1 << n doubles with n.
LEMMA TwoToFacts ==
    /\ TwoTo(0) = 1
    /\ \A n \in Nat : TwoTo(n) \in Nat \ {0} /\ TwoTo(n + 1) = 2 * TwoTo(n)
<1>1. TwoTo(0) = 1
  BY PaddedStep DEF TwoTo
<1>2. ASSUME NEW n \in Nat
      PROVE  TwoTo(n) \in Nat \ {0} /\ TwoTo(n + 1) = 2 * TwoTo(n)
  <2>1. Padded(<<>>, n, 1) \in Nat
    BY DigitsExist
  <2>2. Padded(<<>>, n + 1, 1) = 2 * Padded(<<>>, n, 1) + Digit(<<>>, 1, n + 1)
    BY PaddedStep
  <2>3. Digit(<<>>, 1, n + 1) = 1
    BY EmptySeq DEF Digit
  <2> QED BY <2>1, <2>2, <2>3 DEF TwoTo
<1> QED BY <1>1, <1>2

\* Shifts add up.
LEMMA TwoToSum ==
    ASSUME NEW m \in Nat, NEW n \in Nat
    PROVE  TwoTo(m + n) = TwoTo(m) * TwoTo(n)
<1> DEFINE T == {k \in 0..n : TwoTo(m + k) = TwoTo(m) * TwoTo(k)}
<1>1. 0 \in T
  BY TwoToFacts
<1>2. ASSUME NEW k \in 0..n - 1, k \in T PROVE k + 1 \in T
  <2>1. k \in Nat /\ m + k \in Nat /\ m + (k + 1) = (m + k) + 1 /\ k + 1 \in 0..n
    OBVIOUS
  <2>2. TwoTo(k + 1) = 2 * TwoTo(k) /\ TwoTo((m + k) + 1) = 2 * TwoTo(m + k)
        /\ TwoTo(m) \in Nat /\ TwoTo(k) \in Nat
    BY <2>1, TwoToFacts
  <2>3. \A a \in Nat, b \in Nat : 2 * (a * b) = a * (2 * b)
    OBVIOUS
  <2>4. TwoTo(m + (k + 1)) = TwoTo(m) * TwoTo(k + 1)
    BY <1>2, <2>1, <2>2, <2>3
  <2> QED BY <2>1, <2>4
<1> HIDE DEF T
<1>3. n \in T
  <2>1. n \in 0..n
    OBVIOUS
  <2> QED BY <1>1, <1>2, <2>1, Upwards
<1> QED BY <1>3 DEF T

\* Quotient and remainder are the only ones there are.
LEMMA DivUnique ==
    ASSUME NEW n \in Int, NEW s \in Nat \ {0}, NEW k \in Int, NEW r \in 0..s - 1, n = k * s + r
    PROVE  n \div s = k /\ n % s = r
OBVIOUS

\* And there are such.
LEMMA DivExists ==
    ASSUME NEW n \in Int, NEW s \in Nat \ {0}
    PROVE  /\ n \div s \in Int /\ n % s \in 0..s - 1
           /\ n = (n \div s) * s + (n % s)
OBVIOUS

\* A quotient by a product is one in two steps.
LEMMA DivDiv ==
    ASSUME NEW n \in Int, NEW a \in Nat \ {0}, NEW b \in Nat \ {0}
    PROVE  /\ a * b \in Nat \ {0}
           /\ (n \div a) \div b = n \div (a * b)
           /\ n % (a * b) = a * ((n \div a) % b) + (n % a)
<1>1. PICK k, r : k = n \div a /\ r = n % a
  OBVIOUS
<1>2. PICK h, t : h = k \div b /\ t = k % b
  OBVIOUS
<1>3. k \in Int /\ r \in 0..a - 1 /\ n = k * a + r
  <2>1. n \div a \in Int /\ n % a \in 0..a - 1 /\ n = (n \div a) * a + (n % a)
    BY DivExists
  <2> QED BY <1>1, <2>1
<1>4. h \in Int /\ t \in 0..b - 1 /\ k = h * b + t
  <2>1. k \div b \in Int /\ k % b \in 0..b - 1 /\ k = (k \div b) * b + (k % b)
    BY <1>3, DivExists
  <2> QED BY <1>2, <2>1
<1>5. PICK c : c = a * b
  OBVIOUS
<1>6. c \in Nat \ {0}
  <2>1. \A x \in Nat \ {0}, y \in Nat \ {0} : x * y \in Nat \ {0}
    OBVIOUS
  <2> QED BY <1>5, <2>1
<1>7. PICK u : u = a * t
  OBVIOUS
<1>8. u \in Nat /\ u <= c - a
  <2>1. \A x \in Nat, y \in Nat, z \in Nat : z <= y - 1 => x * z \in Nat /\ x * z <= x * y - x
    OBVIOUS
  <2>2. t \in Nat /\ t <= b - 1
    BY <1>4
  <2> QED BY <1>5, <1>7, <2>1, <2>2
<1>9. n = h * c + (u + r) /\ u + r \in 0..c - 1
  <2>1. \A x \in Int, y \in Int, z \in Int, w \in Int : (x * y + z) * w = x * (w * y) + w * z
    OBVIOUS
  <2>2. (h * b + t) * a = h * c + u
    BY <1>4, <1>5, <1>7, <2>1
  <2>3. u + r \in 0..c - 1
    BY <1>3, <1>6, <1>8
  <2>4. h * c \in Int /\ n = (h * b + t) * a + r
    BY <1>3, <1>4, <1>6
  <2> QED BY <1>3, <1>8, <2>2, <2>3, <2>4
<1>10. n \div c = h /\ n % c = u + r
  BY <1>4, <1>6, <1>9, DivUnique
<1> QED BY <1>1, <1>2, <1>5, <1>6, <1>7, <1>10

\* Whole multiples of the divisor add to the quotient.
LEMMA DivShift ==
    ASSUME NEW n \in Int, NEW s \in Nat \ {0}, NEW k \in Int
    PROVE  (n + k * s) \div s = (n \div s) + k /\ (n + k * s) % s = n % s
<1>1. PICK h, r : h = n \div s /\ r = n % s
  OBVIOUS
<1>2. h \in Int /\ r \in 0..s - 1 /\ n = h * s + r
  <2>1. n \div s \in Int /\ n % s \in 0..s - 1 /\ n = (n \div s) * s + (n % s)
    BY DivExists
  <2> QED BY <1>1, <2>1
<1>3. PICK m : m = n + k * s
  OBVIOUS
<1>4. m = (h + k) * s + r /\ m \in Int /\ h + k \in Int
  BY <1>2, <1>3
<1>5. m \div s = h + k /\ m % s = r
  BY <1>2, <1>4, DivUnique
<1> QED BY <1>1, <1>3, <1>5

\* The first n digits of a number of w bits.
LEMMA DigitsOfNumber ==
    ASSUME NEW x \in Nat, NEW w \in Nat, NEW n \in 0..w,
           NEW s, s = [i \in 1..n |-> BitAt(x, w, i)]
    PROVE  Padded(s, n, 0) = (x \div TwoTo(w - n)) % TwoTo(n)
<1>0. n \in Nat
  OBVIOUS
<1> DEFINE T == {k \in 0..n : Padded(s, k, 0) = (x \div TwoTo(w - k)) % TwoTo(k)}
<1>1. 0 \in T
  <2>1. Padded(s, 0, 0) = 0 /\ TwoTo(0) = 1 /\ TwoTo(w - 0) \in Nat \ {0}
    <3>1. w - 0 \in Nat /\ 0 \in Nat
      OBVIOUS
    <3> QED BY <3>1, PaddedStep, TwoToFacts
  <2>2. x \div TwoTo(w - 0) \in Int
    BY <2>1
  <2> QED BY <2>1, <2>2
<1>2. ASSUME NEW k \in 0..n - 1, k \in T PROVE k + 1 \in T
  <2>1. /\ k \in Nat /\ k + 1 \in 1..n /\ k + 1 \in 0..n /\ w - (k + 1) \in Nat /\ w - k \in Nat
        /\ (w - (k + 1)) + 1 = w - k
    OBVIOUS
  <2>2. PICK a, b : a = TwoTo(w - (k + 1)) /\ b = TwoTo(k)
    OBVIOUS
  <2>3. /\ a \in Nat \ {0} /\ b \in Nat \ {0}
        /\ TwoTo(w - k) = a * 2 /\ TwoTo(k + 1) = 2 * b
    BY <2>1, <2>2, TwoToFacts
  <2>4. PICK y : y = x \div a /\ y \in Int
    BY <2>3
  <2>5. x \div TwoTo(w - k) = y \div 2
    <3>1. (x \div a) \div 2 = x \div (a * 2)
      <4>1. \A n1 \in Int, a1 \in Nat \ {0}, b1 \in Nat \ {0} : (n1 \div a1) \div b1 = n1 \div (a1 * b1)
        BY DivDiv
      <4>2. x \in Int /\ 2 \in Nat \ {0} /\ a \in Nat \ {0}
        BY <2>3
      <4> QED BY <4>1, <4>2
    <3> QED BY <2>3, <2>4, <3>1
  <2>6. y % (2 * b) = 2 * ((y \div 2) % b) + (y % 2)
    BY <2>3, <2>4, 2 \in Nat \ {0}, DivDiv
  <2>7. Digit(s, 0, k + 1) = y % 2
    BY <2>1, <2>2, <2>4 DEF Digit, BitAt
  <2>8. Padded(s, k + 1, 0) = 2 * Padded(s, k, 0) + Digit(s, 0, k + 1)
    BY <2>1, PaddedStep
  <2>9. Padded(s, k, 0) = (y \div 2) % b
    BY <1>2, <2>2, <2>5
  <2> QED BY <2>1, <2>2, <2>3, <2>4, <2>6, <2>7, <2>8, <2>9
<1> HIDE DEF T
<1>3. n \in T
  <2>1. n \in 0..n
    BY <1>0
  <2> QED BY <1>0, <1>1, <1>2, <2>1, Upwards
<1> QED BY <1>3 DEF T

\* Zeros behind the digits.
LEMMA ZerosBehind ==
    ASSUME NEW s, NEW n \in Nat, NEW m \in Nat, DOMAIN s = 1..n, Padded(s, n, 0) \in Nat
    PROVE  Padded(s, n + m, 0) = Padded(s, n, 0) * TwoTo(m)
<1> DEFINE T == {k \in 0..m : Padded(s, n + k, 0) = Padded(s, n, 0) * TwoTo(k)}
<1>1. 0 \in T
  BY TwoToFacts
<1>2. ASSUME NEW k \in 0..m - 1, k \in T PROVE k + 1 \in T
  <2>1. k \in Nat /\ n + k \in Nat /\ n + (k + 1) = (n + k) + 1 /\ k + 1 \in 0..m
        /\ (n + k) + 1 \notin DOMAIN s
    OBVIOUS
  <2>2. Padded(s, (n + k) + 1, 0) = 2 * Padded(s, n + k, 0) + Digit(s, 0, (n + k) + 1)
    BY <2>1, PaddedStep
  <2>3. Digit(s, 0, (n + k) + 1) = 0
    BY <2>1 DEF Digit
  <2>4. TwoTo(k + 1) = 2 * TwoTo(k) /\ TwoTo(k) \in Nat
    BY <2>1, TwoToFacts
  <2>5. \A a \in Nat, b \in Nat : 2 * (a * b) + 0 = a * (2 * b)
    OBVIOUS
  <2>6. 2 * (Padded(s, n, 0) * TwoTo(k)) + 0 = Padded(s, n, 0) * (2 * TwoTo(k))
    BY <2>4, <2>5
  <2> QED BY <1>2, <2>1, <2>2, <2>3, <2>4, <2>6
<1> HIDE DEF T
<1>3. m \in T
  <2>1. m \in 0..m
    OBVIOUS
  <2> QED BY <1>1, <1>2, <2>1, Upwards
<1> QED BY <1>3 DEF T

---------------------------------------------------------------------------
(* The columns and rows of a search *)

\* Precisions of the voxels of one search: the bits alternate.
Shape(p, q) == p \in 1..X_BITS /\ q \in 0..Y_BITS /\ q <= p /\ p <= q + 1

\* The whole world, a word, and the steps and numbers of columns and rows.
LEMMA GridNumbers ==
    /\ X_BITS \in Nat \ {0} /\ Y_BITS \in Nat /\ WORD_BITS \in Nat /\ WORD_BITS > X_BITS + 2
    /\ C_X \in Nat \ {0} /\ TwoTo(X_BITS) = C_X + 1
    /\ C_Y \in Nat /\ TwoTo(Y_BITS) = C_Y + 1
    /\ TwoTo(X_BITS) = 2 * TwoTo(X_BITS - 1) /\ TwoTo(X_BITS - 1) \in Nat \ {0}
    /\ TwoTo(WORD_BITS - 1) \in Nat /\ TwoTo(WORD_BITS) = 2 * TwoTo(WORD_BITS - 1)
    /\ TwoTo(WORD_BITS - 1 - X_BITS) \in Nat /\ TwoTo(WORD_BITS - 1 - X_BITS) >= 4
    /\ TwoTo(WORD_BITS - 1) = TwoTo(WORD_BITS - 1 - X_BITS) * TwoTo(X_BITS)
<1>1. /\ X_BITS \in Nat \ {0} /\ Y_BITS \in Nat /\ WORD_BITS \in Nat /\ WORD_BITS > X_BITS + 2
  BY BitsAssumption, VoxelAssumption DEF VoxelAssumption, X_BITS, Y_BITS
<1>2. PICK x, w : x = X_BITS - 1 /\ w = WORD_BITS - 1 - X_BITS
  OBVIOUS
<1>3. /\ x \in Nat /\ x + 1 = X_BITS
      /\ w \in Nat /\ w >= 2 /\ w + X_BITS = WORD_BITS - 1 /\ (w + X_BITS) + 1 = WORD_BITS
  BY <1>1, <1>2
<1>4. TwoTo(x) \in Nat \ {0} /\ TwoTo(X_BITS) = 2 * TwoTo(x)
  BY <1>3, TwoToFacts
<1>5. TwoTo(Y_BITS) \in Nat \ {0}
  BY <1>1, TwoToFacts
<1>6. TwoTo(w) \in Nat /\ TwoTo(w) >= 4
  <2>1. PICK u : u = w - 2
    OBVIOUS
  <2>2. u \in Nat /\ u + 1 \in Nat /\ (u + 1) + 1 = w
    BY <1>3, <2>1
  <2>3. TwoTo(u) \in Nat \ {0} /\ TwoTo(u + 1) = 2 * TwoTo(u) /\ TwoTo((u + 1) + 1) = 2 * TwoTo(u + 1)
    BY <2>2, TwoToFacts
  <2> QED BY <2>2, <2>3
<1>7. TwoTo(w + X_BITS) \in Nat /\ TwoTo((w + X_BITS) + 1) = 2 * TwoTo(w + X_BITS)
      /\ TwoTo(w + X_BITS) = TwoTo(w) * TwoTo(X_BITS)
  <2>1. w + X_BITS \in Nat /\ X_BITS \in Nat
    BY <1>1, <1>3
  <2> QED BY <1>3, <2>1, TwoToFacts, TwoToSum
<1>8. C_X \in Nat \ {0} /\ TwoTo(X_BITS) = C_X + 1 /\ C_Y \in Nat /\ TwoTo(Y_BITS) = C_Y + 1
  BY <1>4, <1>5 DEF C_X, C_Y
<1> QED BY <1>1, <1>2, <1>3, <1>4, <1>6, <1>7, <1>8

\* The voxels of one search share out the columns and the rows.
LEMMA ShapeNumbers ==
    ASSUME NEW p, NEW q, Shape(p, q)
    PROVE  /\ p \in Nat /\ q \in Nat /\ X_BITS - p \in Nat /\ Y_BITS - q \in Nat
           /\ TwoTo(X_BITS - p) \in Nat \ {0} /\ TwoTo(Y_BITS - q) \in Nat \ {0}
           /\ TwoTo(p) \in Nat /\ TwoTo(p) >= 2 /\ TwoTo(p - 1) \in Nat \ {0}
           /\ TwoTo(p) = 2 * TwoTo(p - 1)
           /\ TwoTo(q) \in Nat \ {0}
           /\ C_X + 1 = TwoTo(p) * TwoTo(X_BITS - p)
           /\ C_Y + 1 = TwoTo(q) * TwoTo(Y_BITS - q)
<1>1. /\ p \in Nat /\ q \in Nat /\ X_BITS - p \in Nat /\ Y_BITS - q \in Nat
      /\ p - 1 \in Nat /\ (p - 1) + 1 = p /\ p + (X_BITS - p) = X_BITS /\ q + (Y_BITS - q) = Y_BITS
  BY GridNumbers DEF Shape
<1>2. /\ TwoTo(X_BITS - p) \in Nat \ {0} /\ TwoTo(Y_BITS - q) \in Nat \ {0}
      /\ TwoTo(q) \in Nat \ {0} /\ TwoTo(p - 1) \in Nat \ {0}
  BY <1>1, TwoToFacts
<1>3. TwoTo((p - 1) + 1) = 2 * TwoTo(p - 1)
  BY <1>1, TwoToFacts
<1>4. TwoTo(p + (X_BITS - p)) = TwoTo(p) * TwoTo(X_BITS - p)
  BY <1>1, TwoToSum
<1>5. TwoTo(q + (Y_BITS - q)) = TwoTo(q) * TwoTo(Y_BITS - q)
  BY <1>1, TwoToSum
<1>6. TwoTo(p) \in Nat /\ TwoTo(p) >= 2 /\ TwoTo(p) = 2 * TwoTo(p - 1)
  BY <1>1, <1>2, <1>3
<1> QED BY <1>1, <1>2, <1>4, <1>5, <1>6, GridNumbers

\* Once around the circle at most.
LEMMA ModSmall ==
    ASSUME NEW m \in Nat \ {0}, NEW t \in Int
    PROVE  /\ 0 <= t /\ t < m => t % m = t
           /\ 0 - m <= t /\ t < 0 => t % m = t + m
<1>1. ASSUME 0 <= t, t < m PROVE t % m = t
  BY <1>1
<1>2. ASSUME 0 - m <= t, t < 0 PROVE t % m = t + m
  <2>1. t = (0 - 1) * m + (t + m) /\ t + m \in 0..m - 1
    BY <1>2
  <2> QED BY <2>1, DivUnique
<1> QED BY <1>1, <1>2

\* A number of columns on this circle, eastwards or westwards, fits a word.
LEMMA WordFacts ==
    /\ TwoTo(WORD_BITS) \in Nat \ {0} /\ TwoTo(WORD_BITS) >= 8 * (C_X + 1)
    /\ \A t \in (0 - (C_X + 1))..C_X + 1 :
          /\ Unsigned(t) = IF t >= 0 THEN t ELSE t + TwoTo(WORD_BITS)
          /\ Signed(Unsigned(t)) = t
<1>1. PICK h, j : h = TwoTo(WORD_BITS - 1) /\ j = TwoTo(WORD_BITS - 1 - X_BITS)
  OBVIOUS
<1>2. /\ h \in Nat /\ TwoTo(WORD_BITS) = 2 * h /\ j \in Nat /\ j >= 4
      /\ h = j * (C_X + 1) /\ C_X \in Nat \ {0}
  BY <1>1, GridNumbers
<1>3. h >= 4 * (C_X + 1)
  <2>1. \A x \in Nat, y \in Nat : x >= 4 => x * (y + 1) >= 4 * (y + 1)
    OBVIOUS
  <2> QED BY <1>2, <2>1
<1>4. ASSUME NEW t \in (0 - (C_X + 1))..C_X + 1
      PROVE  /\ Unsigned(t) = IF t >= 0 THEN t ELSE t + 2 * h
             /\ Signed(Unsigned(t)) = t
  <2>1. Unsigned(t) = IF t >= 0 THEN t ELSE t + 2 * h
    <3>1. 2 * h \in Nat \ {0} /\ t \in Int /\ t < 2 * h /\ t >= 0 - 2 * h
      BY <1>2, <1>3
    <3> QED BY <1>2, <3>1, ModSmall DEF Unsigned
  <2>2. Signed(Unsigned(t)) = IF Unsigned(t) >= h THEN Unsigned(t) - 2 * h ELSE Unsigned(t)
    BY <1>1, <1>2 DEF Signed
  <2> QED BY <1>2, <1>3, <2>1, <2>2
<1> QED BY <1>2, <1>3, <1>4

\* Go's remainder of a number of columns.
LEMMA RemFacts ==
    ASSUME NEW t \in (0 - (C_X + 1))..C_X + 1
    PROVE  /\ 0 - C_X < t /\ t < C_X => Rem(t, C_X) = t
           /\ t \in {0 - C_X, C_X} => Rem(t, C_X) = 0
           /\ t = C_X + 1 => Rem(t, C_X) = IF C_X = 1 THEN 0 ELSE 1
           /\ t = 0 - (C_X + 1) => Rem(t, C_X) = IF C_X = 1 THEN 0 ELSE -1
<1>1. PICK n : n = C_X
  OBVIOUS
<1>2. n \in Nat \ {0} /\ t \in Int
  BY <1>1, GridNumbers
<1>3. \A u \in Int : 0 <= u /\ u < n => u % n = u
  BY <1>2, ModSmall
<1>4. n % n = 0 /\ (n + 1) % n = IF n = 1 THEN 0 ELSE 1
  <2>1. n = 1 * n + 0 /\ 0 \in 0..n - 1
    BY <1>2
  <2>2. CASE n = 1
    BY <2>2
  <2>3. CASE n # 1
    <3>1. n + 1 = 1 * n + 1 /\ 1 \in 0..n - 1
      BY <1>2, <2>3
    <3> QED BY <1>2, <2>1, <2>3, <3>1, DivUnique
  <2> QED BY <2>2, <2>3
<1>5. Rem(t, n) = IF t >= 0 THEN t % n ELSE 0 - ((0 - t) % n)
  BY DEF Rem
<1>6. ASSUME 0 - n < t, t < n PROVE Rem(t, n) = t
  BY <1>2, <1>3, <1>5, <1>6
<1>7. t = n => Rem(t, n) = 0
  BY <1>2, <1>4, <1>5
<1>8. t = 0 - n => Rem(t, n) = 0
  BY <1>2, <1>4, <1>5
<1>9. t = n + 1 => Rem(t, n) = IF n = 1 THEN 0 ELSE 1
  BY <1>2, <1>4, <1>5
<1>10. t = 0 - (n + 1) => Rem(t, n) = IF n = 1 THEN 0 ELSE -1
  BY <1>2, <1>4, <1>5
<1> QED BY <1>1, <1>6, <1>7, <1>8, <1>9, <1>10

\* A number of columns of voxels, in columns of the grid.
LEMMA Multiples ==
    ASSUME NEW p, NEW q, Shape(p, q), NEW s, s = TwoTo(X_BITS - p), NEW k, k = TwoTo(p),
           NEW d \in (0 - k)..k
    PROVE  /\ d * s \in (0 - (C_X + 1))..C_X + 1
           /\ d < k => d * s <= C_X + 1 - s
           /\ d > 0 - k => d * s >= s - (C_X + 1)
           /\ \E n \in Nat : Unsigned(d * s) = (d + n * k) * s
<1>1. s \in Nat \ {0} /\ k \in Nat /\ k >= 2 /\ C_X + 1 = k * s /\ C_X \in Nat /\ d \in Int
  BY ShapeNumbers, GridNumbers
<1>2. /\ d * s \in Int /\ d * s <= k * s /\ d * s >= 0 - (k * s)
      /\ d < k => d * s <= k * s - s
      /\ d > 0 - k => d * s >= s - (k * s)
  <2>1. \A x \in Nat, y \in Nat, z \in Int :
          x <= y /\ z = y - x => z * s \in Int /\ x * s <= y * s /\ z * s = y * s - x * s
    BY <1>1
  <2>2. \A x \in Int, y \in Int : x <= y => x * s <= y * s
    BY <1>1
  <2>3. (0 - k) * s = 0 - (k * s) /\ (k - 1) * s = k * s - s /\ (1 - k) * s = s - k * s /\ d * s \in Int
    BY <1>1
  <2>4. d <= k /\ 0 - k <= d /\ (d < k => d <= k - 1) /\ (d > 0 - k => 1 - k <= d)
        /\ 0 - k \in Int /\ k - 1 \in Int /\ 1 - k \in Int /\ k \in Int
    BY <1>1
  <2> QED BY <1>1, <2>2, <2>3, <2>4
<1>3. d * s \in (0 - (C_X + 1))..C_X + 1
  BY <1>1, <1>2
<1>4. Unsigned(d * s) = IF d * s >= 0 THEN d * s ELSE d * s + TwoTo(WORD_BITS)
  BY <1>3, WordFacts
<1>5. PICK j : j = TwoTo(WORD_BITS - 1 - X_BITS)
  OBVIOUS
<1>6. j \in Nat /\ TwoTo(WORD_BITS) = 2 * (j * (k * s))
  BY <1>1, <1>5, GridNumbers
<1>7. \E n \in Nat : Unsigned(d * s) = (d + n * k) * s
  <2>1. CASE d * s >= 0
    <3>1. Unsigned(d * s) = (d + 0 * k) * s
      BY <1>1, <1>4, <2>1
    <3> QED BY <3>1
  <2>2. CASE ~(d * s >= 0)
    <3>1. 2 * j \in Nat
      BY <1>6
    <3>2. \A x \in Int, a \in Nat, y \in Nat, z \in Nat : x * z + 2 * (a * (y * z)) = (x + (2 * a) * y) * z
      OBVIOUS
    <3>3. d * s + 2 * (j * (k * s)) = (d + (2 * j) * k) * s
      BY <1>1, <1>6, <3>2
    <3> QED BY <1>4, <1>6, <2>2, <3>1, <3>3
  <2> QED BY <2>1, <2>2
<1> QED BY <1>1, <1>2, <1>3, <1>7

\* What the mask of the low bits leaves.
LEMMA Cleared ==
    ASSUME NEW p, NEW q, Shape(p, q), NEW s, s = TwoTo(X_BITS - p)
    PROVE  \A u \in Int, m \in Int, r \in 0..s - 1 : u = m * s + r => ClearLow(u, X_BITS - p) = m * s
<1>1. s \in Nat \ {0}
  BY ShapeNumbers
<1>2. ASSUME NEW u \in Int, NEW m \in Int, NEW r \in 0..s - 1, u = m * s + r
      PROVE  ClearLow(u, X_BITS - p) = m * s
  <2>1. u % s = r
    BY <1>1, <1>2, DivUnique
  <2>2. ClearLow(u, X_BITS - p) = u - r
    BY <2>1 DEF ClearLow
  <2>3. m * s \in Int
    BY <1>1
  <2> QED BY <1>1, <1>2, <2>2, <2>3
<1> QED BY <1>2

\* A column is where it is whatever bits are cleared.
LEMMA ClearedMultiple ==
    ASSUME NEW p, NEW q, Shape(p, q), NEW s, s = TwoTo(X_BITS - p), NEW k, k = TwoTo(p),
           NEW d \in (0 - k)..k
    PROVE  ClearLow(Unsigned(d * s), X_BITS - p) = Unsigned(d * s)
<1>1. PICK n \in Nat : Unsigned(d * s) = (d + n * k) * s
  BY Multiples
<1>2. s \in Nat \ {0} /\ k \in Nat /\ d \in Int
  BY ShapeNumbers
<1>3. PICK m : m = d + n * k
  OBVIOUS
<1>4. m \in Int /\ 0 \in 0..s - 1 /\ m * s \in Int /\ m * s = m * s + 0
  BY <1>2, <1>3
<1>5. ClearLow(m * s, X_BITS - p) = m * s
  BY <1>4, Cleared
<1> QED BY <1>1, <1>3, <1>5

\* Where the search gets to between the poles.  The remainder puts the last
\* column but one of the circle, and columns that far in the west, elsewhere.
ColumnMoved(k, s, c, d) ==
    /\ d \in (1 - k)..k - 1
    /\ d >= 0 \/ (c < 0 /\ d >= c)
    /\ s >= 2 /\ c # 0 - k => d = c \/ (c = k /\ d = 0)
    /\ s = 1 /\ 1 - k < c /\ c < k - 1 => d = c

\* The longitude of a neighbour, between the poles, is that of such a column:
\* the mask repairs what the remainder does, but at the seam.
LEMMA MovedColumn ==
    ASSUME NEW p, NEW q, Shape(p, q), NEW s, s = TwoTo(X_BITS - p), NEW k, k = TwoTo(p),
           NEW c \in (0 - k)..k
    PROVE  \E d : /\ ColumnMoved(k, s, c, d)
                  /\ ClearLow(Unsigned(Rem(c * s, C_X)), X_BITS - p) = Unsigned(d * s)
<1>1. /\ s \in Nat \ {0} /\ k \in Nat /\ k >= 2 /\ C_X + 1 = k * s /\ C_X \in Nat \ {0} /\ c \in Int
  BY ShapeNumbers, GridNumbers
<1>2. /\ c * s \in (0 - (C_X + 1))..C_X + 1
      /\ c < k => c * s <= C_X + 1 - s
      /\ c > 0 - k => c * s >= s - (C_X + 1)
  BY Multiples
<1>3. CASE 0 - C_X < c * s /\ c * s < C_X /\ c \notin {0 - k, k}
  <2>1. Rem(c * s, C_X) = c * s
    BY <1>2, <1>3, RemFacts
  <2>2. ClearLow(Unsigned(c * s), X_BITS - p) = Unsigned(c * s)
    BY ClearedMultiple
  <2>3. ColumnMoved(k, s, c, c)
    BY <1>1, <1>3 DEF ColumnMoved
  <2> QED BY <2>1, <2>2, <2>3
<1>4. CASE s >= 2 /\ c = k
  <2>1. C_X # 1
    <3>1. k * s >= 2 * s
      BY <1>1
    <3> QED BY <1>1, <1>4, <3>1
  <2>2. c * s = C_X + 1
    BY <1>1, <1>4
  <2>3. Rem(c * s, C_X) = 1
    BY <1>2, <2>1, <2>2, RemFacts
  <2>4. Unsigned(1) = 1 /\ Unsigned(0) = 0
    BY <1>1, WordFacts
  <2>5. 1 = 0 * s + 1 /\ 1 \in 0..s - 1 /\ 0 * s = 0
    BY <1>1, <1>4
  <2>6. ClearLow(1, X_BITS - p) = 0 * s
    BY <2>5, Cleared
  <2>7. ColumnMoved(k, s, c, 0)
    BY <1>1, <1>4 DEF ColumnMoved
  <2> QED BY <2>3, <2>4, <2>5, <2>6, <2>7
<1>5. CASE s >= 2 /\ c = 0 - k
  <2>1. C_X # 1
    <3>1. k * s >= 2 * s
      BY <1>1
    <3> QED BY <1>1, <1>5, <3>1
  <2>2. c * s = 0 - (C_X + 1)
    BY <1>1, <1>5
  <2>3. Rem(c * s, C_X) = -1
    BY <1>2, <2>1, <2>2, RemFacts
  <2>4. -1 \in (0 - k)..k /\ (-1) * s = 0 - s
    BY <1>1
  <2>5. 0 - s \in (0 - (C_X + 1))..C_X + 1
    BY <2>4, Multiples
  <2>6. Unsigned(0 - s) = (0 - s) + TwoTo(WORD_BITS) /\ Unsigned(-1) = (-1) + TwoTo(WORD_BITS)
    BY <1>1, <2>5, WordFacts
  <2>7. PICK n \in Nat : Unsigned(0 - s) = (-1 + n * k) * s
    BY <2>4, Multiples
  <2>8. PICK m : m = -1 + n * k
    OBVIOUS
  <2>9. /\ m \in Int /\ m * s = (0 - s) + TwoTo(WORD_BITS)
        /\ (-1) + TwoTo(WORD_BITS) \in Int /\ s - 1 \in 0..s - 1
        /\ (-1) + TwoTo(WORD_BITS) = m * s + (s - 1)
    BY <1>1, <2>6, <2>7, <2>8, WordFacts
  <2>10. ClearLow((-1) + TwoTo(WORD_BITS), X_BITS - p) = m * s
    BY <2>9, Cleared
  <2>11. ColumnMoved(k, s, c, -1)
    BY <1>1, <1>5 DEF ColumnMoved
  <2> QED BY <2>3, <2>4, <2>6, <2>9, <2>10, <2>11
<1>6. CASE s = 1 /\ c \in {0 - k, 1 - k, k - 1, k}
  <2>1. k = C_X + 1 /\ c * s = c
    BY <1>1, <1>6
  <2>2. PICK d : d = Rem(c, C_X)
    OBVIOUS
  <2>3. \/ c \in {1 - k, k - 1} /\ d = 0
        \/ c = k /\ d = IF C_X = 1 THEN 0 ELSE 1
        \/ c = 0 - k /\ d = IF C_X = 1 THEN 0 ELSE -1
    BY <1>1, <1>2, <1>6, <2>1, <2>2, RemFacts
  <2>4. d \in (0 - k)..k /\ d * s = d
    BY <1>1, <1>6, <2>3
  <2>5. ClearLow(Unsigned(d * s), X_BITS - p) = Unsigned(d * s)
    BY <2>4, ClearedMultiple
  <2>6. ColumnMoved(k, s, c, d)
    BY <1>1, <1>6, <2>1, <2>3 DEF ColumnMoved
  <2> QED BY <2>1, <2>2, <2>4, <2>5, <2>6
<1>7. \/ 0 - C_X < c * s /\ c * s < C_X /\ c \notin {0 - k, k}
      \/ s >= 2 /\ c = k
      \/ s >= 2 /\ c = 0 - k
      \/ s = 1 /\ c \in {0 - k, 1 - k, k - 1, k}
  <2>1. CASE s >= 2
    BY <1>1, <1>2, <2>1
  <2>2. CASE s = 1
    <3>1. k = C_X + 1 /\ c * s = c
      BY <1>1, <2>2
    <3> QED BY <1>1, <2>2, <3>1
  <2> QED BY <1>1, <2>1, <2>2
<1> QED BY <1>3, <1>4, <1>5, <1>6, <1>7

\* Where it gets to beyond a pole, from the column east of one on the half of
\* the circle around the first, and from one on the other half.
ColumnTurned(k, h, c, d) ==
    /\ d \in 0..k - 1
    /\ 0 - h < c /\ c < h => d = c + h - 1
    /\ h <= c /\ c < k => d = c - h

\* The longitude of a neighbour beyond a pole: half of C_X is one column short
\* of half the circle, and the mask takes it to the column that it lies in.
LEMMA TurnedColumn ==
    ASSUME NEW p, NEW q, Shape(p, q), NEW s, s = TwoTo(X_BITS - p), NEW k, k = TwoTo(p),
           NEW h, h = TwoTo(p - 1), NEW c \in (0 - k)..k
    PROVE  \E d : /\ ColumnTurned(k, h, c, d)
                  /\ ClearLow(Unsigned(Unsigned(Rem(c * s, C_X)) + C_X \div 2) % C_X, X_BITS - p)
                       = Unsigned(d * s)
<1>1. /\ s \in Nat \ {0} /\ k \in Nat /\ k >= 2 /\ k = 2 * h /\ h \in Nat \ {0}
      /\ C_X + 1 = k * s /\ C_X \in Nat \ {0} /\ c \in Int
  BY ShapeNumbers, GridNumbers
<1>2. /\ c * s \in (0 - (C_X + 1))..C_X + 1
      /\ c < k => c * s <= C_X + 1 - s
      /\ c > 0 - k => c * s >= s - (C_X + 1)
  BY Multiples
<1>3. PICK g, u, M : g = h * s /\ u = c * s /\ M = TwoTo(WORD_BITS)
  OBVIOUS
<1>4. /\ g \in Nat \ {0} /\ C_X + 1 = 2 * g /\ C_X \div 2 = g - 1
      /\ M \in Nat \ {0} /\ M >= 8 * (C_X + 1)
  <2>1. \A a \in Nat \ {0}, b \in Nat \ {0} : a * b \in Nat \ {0} /\ (2 * a) * b = 2 * (a * b)
    OBVIOUS
  <2>2. g \in Nat \ {0} /\ C_X + 1 = 2 * g
    BY <1>1, <1>3, <2>1
  <2>3. C_X = 2 * (g - 1) + 1
    BY <1>1, <2>2
  <2>4. C_X \div 2 = g - 1
    BY <2>2, <2>3
  <2> QED BY <1>3, <2>2, <2>4, WordFacts
<1>5. PICK e, x : e = Rem(u, C_X) /\ x = Unsigned(Unsigned(e) + C_X \div 2) % C_X
  OBVIOUS
<1>6. u \in Int /\ e \in Int
  <2>1. u \in Int /\ \A a \in Int : a % C_X \in Int
    BY <1>1, <1>2, <1>3
  <2> QED BY <1>5, <2>1 DEF Rem
<1>7. \A t \in Int : Unsigned(t) \in Nat
  BY <1>4, <1>3 DEF Unsigned
<1>8. x \in 0..C_X - 1
  <2>1. Unsigned(e) + C_X \div 2 \in Int
    BY <1>4, <1>6, <1>7
  <2>2. Unsigned(Unsigned(e) + C_X \div 2) \in Nat
    BY <1>7, <2>1
  <2> QED BY <1>1, <1>5, <2>2
<1>9. PICK d : d = x \div s
  OBVIOUS
<1>10. d \in Int /\ x = d * s + (x % s) /\ x % s \in 0..s - 1
  <2>1. x \in Int /\ s \in Nat \ {0}
    BY <1>1, <1>8
  <2>2. x \div s \in Int /\ x % s \in 0..s - 1 /\ x = (x \div s) * s + (x % s)
    BY <2>1, DivExists
  <2> QED BY <1>9, <2>2
<1>11. d \in 0..k - 1
  <2>1. d >= 0
    <3>1. \A a \in Int, b \in Nat \ {0} : a <= -1 => a * b <= 0 - b
      OBVIOUS
    <3> QED BY <1>1, <1>8, <1>10, <3>1
  <2>2. d <= k - 1
    <3>1. \A a \in Int, y \in Int, b \in Nat \ {0} : a >= y => a * b >= y * b
      OBVIOUS
    <3>2. d >= k => d * s >= k * s
      BY <1>1, <1>10, <3>1
    <3>3. d * s <= C_X - 1 /\ k * s = C_X + 1 /\ d * s \in Int
      BY <1>1, <1>8, <1>10
    <3> QED BY <1>1, <1>10, <3>2, <3>3
  <2> QED BY <1>1, <1>10, <2>1, <2>2
<1>12. ClearLow(x, X_BITS - p) = Unsigned(d * s)
  <2>1. ClearLow(x, X_BITS - p) = d * s
    BY <1>8, <1>10, Cleared
  <2>2. d \in (0 - k)..k
    BY <1>1, <1>11
  <2>3. d * s \in (0 - (C_X + 1))..C_X + 1 /\ d * s >= 0
    <3>1. \A a \in Nat, b \in Nat : a * b >= 0
      OBVIOUS
    <3>2. d * s \in (0 - (C_X + 1))..C_X + 1
      BY <2>2, Multiples
    <3> QED BY <1>1, <1>11, <3>1, <3>2
  <2> QED BY <2>1, <2>3, WordFacts
\* The sum of the two numbers, if it is not below zero.
<1>13. ASSUME e \in (0 - g)..C_X, e + g - 1 >= 0 PROVE x = (e + g - 1) % C_X
  <2>1. e \in (0 - (C_X + 1))..C_X + 1
    BY <1>1, <1>4, <1>13
  <2>2. Unsigned(e) = IF e >= 0 THEN e ELSE e + M
    BY <1>3, <2>1, WordFacts
  <2>3. Unsigned(Unsigned(e) + (g - 1)) = e + g - 1
    <3>1. CASE e >= 0
      <4>1. e + (g - 1) \in Int /\ 0 <= e + (g - 1) /\ e + (g - 1) < M
        BY <1>1, <1>4, <1>6, <1>13, <3>1
      <4>2. (e + (g - 1)) % M = e + (g - 1)
        BY <1>4, <4>1, ModSmall
      <4> QED BY <1>3, <1>4, <1>6, <2>2, <3>1, <4>2 DEF Unsigned
    <3>2. CASE ~(e >= 0)
      <4>1. /\ e + M + (g - 1) \in Int /\ e + g - 1 \in 0..M - 1
            /\ e + M + (g - 1) = 1 * M + (e + g - 1)
        BY <1>4, <1>6, <1>13, <3>2
      <4>2. (e + M + (g - 1)) % M = e + g - 1
        BY <1>4, <4>1, DivUnique
      <4> QED BY <1>3, <2>2, <3>2, <4>2 DEF Unsigned
    <3> QED BY <3>1, <3>2
  <2> QED BY <1>4, <1>5, <2>3
<1>14. ASSUME 0 - h < c, c < h PROVE d = c + h - 1
  <2>1. (c + h - 1) * s = u + g - s /\ u >= s - g /\ u <= g - s
    <3>1. \A a \in Int, b \in Int : a <= b => a * s <= b * s
      BY <1>1
    <3>2. (1 - h) * s = s - g /\ (h - 1) * s = g - s /\ 1 - h <= c /\ c <= h - 1
      BY <1>1, <1>3, <1>14
    <3>3. (c + h - 1) * s = u + g - s
      BY <1>1, <1>3
    <3> QED BY <1>1, <1>3, <3>1, <3>2, <3>3
  <2>2. e = u
    <3>1. 0 - C_X < u /\ u < C_X
      BY <1>1, <1>4, <1>6, <2>1
    <3> QED BY <1>2, <1>3, <1>5, <3>1, RemFacts
  <2>3. u + g - 1 >= 0 /\ u + g - 1 < C_X /\ u \in (0 - g)..C_X /\ u + g - 1 \in Int
    BY <1>1, <1>4, <1>6, <2>1
  <2>4. x = u + g - 1
    BY <1>1, <1>13, <2>2, <2>3, ModSmall
  <2>5. PICK w : w = c + h - 1
    OBVIOUS
  <2>6. w * s = u + g - s /\ w \in Int
    BY <1>1, <2>1, <2>5
  <2>7. x = w * s + (s - 1) /\ s - 1 \in 0..s - 1 /\ x \in Int
    BY <1>1, <1>4, <1>6, <2>4, <2>6
  <2> QED BY <1>1, <1>9, <2>5, <2>6, <2>7, DivUnique
<1>15. ASSUME h <= c, c < k PROVE d = c - h
  <2>1. (c - h) * s = u - g /\ u >= g /\ u <= 2 * g - s
    <3>1. \A a \in Int, b \in Int : a <= b => a * s <= b * s
      BY <1>1
    <3>2. (c - h) * s = u - g
      BY <1>1, <1>3
    <3> QED BY <1>1, <1>2, <1>3, <1>4, <1>15, <3>1, <3>2
  <2>0. PICK w : w = c - h
    OBVIOUS
  <2>4. w * s = u - g /\ w \in Int
    BY <1>1, <2>0, <2>1
  <2>2. CASE u < C_X
    <3>1. e = u
      <4>1. 0 - C_X < u
        <5>1. u >= 1
          BY <1>4, <1>6, <2>1
        <5> QED BY <1>1, <1>6, <5>1
      <4> QED BY <1>2, <1>3, <1>5, <2>2, <4>1, RemFacts
    <3>2. /\ u + g - 1 >= 0 /\ u \in (0 - g)..C_X /\ u + g - 1 \in Int
          /\ u + g - 1 = 1 * C_X + (u - g) /\ u - g \in 0..C_X - 1
      BY <1>1, <1>4, <1>6, <2>1, <2>2
    <3>3. x = u - g
      <4>0. PICK y, z : y = u + g - 1 /\ z = u - g
        OBVIOUS
      <4>1. y % C_X = z
        <5>1. y \in Int /\ z \in 0..C_X - 1 /\ y = 1 * C_X + z
          BY <3>2, <4>0
        <5>2. C_X \in Nat \ {0} /\ 1 \in Int
          BY <1>1
        <5>3. \A one \in Int : y = one * C_X + z => y % C_X = z
          BY <5>1, <5>2, DivUnique
        <5> QED BY <5>1, <5>2, <5>3
      <4> QED BY <1>13, <3>1, <3>2, <4>0, <4>1
    <3>4. x = w * s + 0 /\ 0 \in 0..s - 1 /\ x \in Int
      BY <1>1, <1>4, <1>6, <2>4, <3>3
    <3> QED BY <1>1, <1>9, <2>0, <2>4, <3>4, DivUnique
  <2>3. CASE ~(u < C_X)
    <3>1. s = 1 /\ u = C_X
      BY <1>1, <1>4, <1>6, <2>1, <2>3
    <3>2. e = 0
      BY <1>2, <1>3, <1>5, <3>1, RemFacts
    <3>3. 0 + g - 1 >= 0 /\ 0 + g - 1 < C_X /\ 0 \in (0 - g)..C_X /\ 0 + g - 1 \in Int
      BY <1>1, <1>4
    <3>4. x = g - 1
      <4>1. (0 + g - 1) % C_X = 0 + g - 1
        BY <1>1, <3>3, ModSmall
      <4>2. x = (0 + g - 1) % C_X
        BY <1>13, <3>2, <3>3
      <4> QED BY <1>4, <4>1, <4>2
    <3>5. x = w * s + 0 /\ 0 \in 0..s - 1 /\ x \in Int
      BY <1>1, <1>4, <1>6, <2>4, <3>1, <3>4
    <3> QED BY <1>1, <1>9, <2>0, <2>4, <3>5, DivUnique
  <2> QED BY <2>2, <2>3
<1>16. ColumnTurned(k, h, c, d)
  BY <1>11, <1>14, <1>15 DEF ColumnTurned
<1> QED BY <1>3, <1>5, <1>12, <1>16

\* The voxel in column a, counted from the west if a is below zero, and row b.
Vox(p, q, a, b) ==
    [XMin |-> Unsigned(a * TwoTo(X_BITS - p)), YMin |-> b * TwoTo(Y_BITS - q),
     XPrecision |-> p, YPrecision |-> q]

\* The numbers of its columns, and of its rows.
AllColumns(p) == (1 - TwoTo(p))..TwoTo(p) - 1
AllRows(q) == 0..TwoTo(q) - 1

\* What the search gets to from column a and row b.
Arrived(p, q, a, b, dx, dy, d, y) ==
    /\ d \in AllColumns(p) /\ y \in AllRows(q)
    /\ d >= 0 \/ (a + dx < 0 /\ d >= a + dx)
    /\ b + dy \in AllRows(q) /\ (TwoTo(Y_BITS - q) >= 2 \/ b + dy # TwoTo(q) - 1) =>
          y = b + dy /\ ColumnMoved(TwoTo(p), TwoTo(X_BITS - p), a + dx, d)
    /\ b + dy \notin AllRows(q) => y = b /\ ColumnTurned(TwoTo(p), TwoTo(p - 1), a + dx, d)

\* A neighbour has the precisions of the voxel.
LEMMA MovedRecord ==
    ASSUME NEW x, NEW y, NEW p, NEW q, NEW x2, NEW y2, NEW v,
           v = [[XMin |-> x, YMin |-> y, XPrecision |-> p, YPrecision |-> q] EXCEPT !.XMin = x2, !.YMin = y2]
    PROVE  v = [XMin |-> x2, YMin |-> y2, XPrecision |-> p, YPrecision |-> q]
<1>1. v = [i \in {"XMin", "YMin", "XPrecision", "YPrecision"} |-> v[i]]
  OBVIOUS
<1>2. v.XMin = x2 /\ v.YMin = y2 /\ v.XPrecision = p /\ v.YPrecision = q
  OBVIOUS
<1> QED BY <1>1, <1>2

\* The neighbour of a search's voxel is one of the same search.
LEMMA NeighbourOfVox ==
    ASSUME NEW p, NEW q, Shape(p, q), NEW a \in AllColumns(p), NEW b \in AllRows(q),
           NEW dx \in {-1, 0, 1}, NEW dy \in {-1, 0, 1}
    PROVE  \E d, y : Arrived(p, q, a, b, dx, dy, d, y)
                     /\ Neighbour(Vox(p, q, a, b), dx, dy) = Vox(p, q, d, y)
<1>1. PICK s, k, h, t, l, v : /\ s = TwoTo(X_BITS - p) /\ k = TwoTo(p) /\ h = TwoTo(p - 1)
                              /\ t = TwoTo(Y_BITS - q) /\ l = TwoTo(q) /\ v = Vox(p, q, a, b)
  OBVIOUS
<1>2. /\ s \in Nat \ {0} /\ k \in Nat /\ k >= 2 /\ k = 2 * h /\ h \in Nat \ {0} /\ C_X + 1 = k * s
      /\ t \in Nat \ {0} /\ l \in Nat \ {0} /\ C_Y + 1 = l * t /\ C_Y \in Nat
      /\ a \in (1 - k)..k - 1 /\ b \in 0..l - 1
  BY <1>1, ShapeNumbers, GridNumbers DEF AllColumns, AllRows
<1>3. PICK c, r : c = a + dx /\ r = b + dy
  OBVIOUS
<1>4. c \in (0 - k)..k /\ r \in -1..l /\ c \in Int /\ r \in Int
  BY <1>2, <1>3
<1>5. Signed(v.XMin) + dx * XStep(v) = c * s
  <2>1. v.XMin = Unsigned(a * s) /\ XStep(v) = s
    BY <1>1 DEF Vox, XStep
  <2>2. a \in (0 - k)..k
    BY <1>2
  <2>3. a * s \in (0 - (C_X + 1))..C_X + 1
    BY <1>1, <2>2, Multiples
  <2>4. Signed(Unsigned(a * s)) = a * s
    BY <2>3, WordFacts
  <2>5. a * s + dx * s = (a + dx) * s
    BY <1>2
  <2> QED BY <1>3, <2>1, <2>4, <2>5
<1>6. v.YMin + dy * YStep(v) = r * t /\ v.YMin = b * t
  <2>1. v.YMin = b * t /\ YStep(v) = t
    BY <1>1 DEF Vox, YStep
  <2>2. b * t + dy * t = (b + dy) * t
    BY <1>2
  <2> QED BY <1>3, <2>1, <2>2
<1> DEFINE flips == r * t < 0 \/ r * t >= C_Y
<1>7. PICK east, x, y :
        /\ east = Unsigned(Rem(c * s, C_X))
        /\ x = IF flips THEN Unsigned(east + C_X \div 2) % C_X ELSE east
        /\ y = IF r * t < 0 THEN 0 ELSE IF flips THEN b * t ELSE r * t
  OBVIOUS
<1>8. Neighbour(v, dx, dy) = [XMin |-> ClearLow(x, X_BITS - p), YMin |-> y,
                              XPrecision |-> p, YPrecision |-> q]
  <2>1. v.XPrecision = p
    BY <1>1 DEF Vox
  <2>2. Neighbour(v, dx, dy) = [v EXCEPT !.XMin = ClearLow(x, X_BITS - p), !.YMin = y]
    BY <1>5, <1>6, <1>7, <2>1 DEF Neighbour
  <2>3. v = [XMin |-> Unsigned(a * s), YMin |-> b * t, XPrecision |-> p, YPrecision |-> q]
    BY <1>1 DEF Vox
  <2> QED BY <2>2, <2>3, MovedRecord
<1>9. /\ r < 0 => r * t < 0
      /\ r >= 0 => r * t >= 0
      /\ r >= l => r * t >= C_Y
      /\ r <= l - 1 /\ (t >= 2 \/ r # l - 1) => r * t < C_Y
      /\ r * t < C_Y => r <= l - 1
  <2>1. \A m \in Int, n \in Int : m <= n => m * t <= n * t
    BY <1>2
  <2>2. (-1) * t = 0 - t /\ 0 * t = 0 /\ (l - 1) * t = l * t - t /\ (l - 2) * t = l * t - 2 * t
        /\ r * t \in Int /\ l * t \in Int
    BY <1>2, <1>4
  <2>3. r < 0 => r * t <= 0 - t
    BY <1>4, <2>1, <2>2
  <2>4. r >= 0 => r * t >= 0
    BY <1>4, <2>1, <2>2
  <2>5. r >= l => r * t >= l * t
    BY <1>2, <1>4, <2>1
  <2>6. r <= l - 1 => r * t <= l * t - t
    BY <1>2, <1>4, <2>1, <2>2
  <2>7. r <= l - 2 => r * t <= l * t - 2 * t
    BY <1>2, <1>4, <2>1, <2>2
  <2>8. r <= l - 1 /\ (t >= 2 \/ r # l - 1) => r * t < C_Y
    <3>1. r <= l - 1 /\ r # l - 1 => r <= l - 2
      BY <1>2, <1>4
    <3> QED BY <1>2, <2>2, <2>6, <2>7, <3>1
  <2>9. r * t < C_Y => r <= l - 1
    BY <1>2, <1>4, <2>2, <2>5
  <2> QED BY <1>2, <2>2, <2>3, <2>4, <2>5, <2>8, <2>9
<1>10. PICK z : z = IF r < 0 THEN 0 ELSE IF flips THEN b ELSE r
  OBVIOUS
<1>11. (flips <=> r < 0 \/ r * t >= C_Y) /\ z \in 0..l - 1 /\ y = z * t
  <2>1. r * t < 0 <=> r < 0
    <3>1. r * t \in Int
      BY <1>2, <1>4
    <3> QED BY <1>4, <1>9, <3>1
  <2>2. flips <=> r < 0 \/ r * t >= C_Y
    BY <2>1
  <2>3. z \in 0..l - 1
    <3>1. CASE r < 0
      BY <1>2, <1>10, <3>1
    <3>2. CASE ~(r < 0) /\ flips
      BY <1>2, <1>10, <3>2
    <3>3. CASE ~(r < 0) /\ ~flips
      <4>1. r * t < C_Y
        <5>1. r * t \in Int
          BY <1>2, <1>4
        <5> QED BY <1>2, <2>2, <3>3, <5>1
      <4> QED BY <1>2, <1>4, <1>9, <1>10, <3>3, <4>1
    <3> QED BY <3>1, <3>2, <3>3
  <2>4. y = z * t
    BY <1>2, <1>7, <1>10, <2>1
  <2> QED BY <2>2, <2>3, <2>4
<1>12. CASE flips
  <2>1. PICK d : /\ ColumnTurned(k, h, c, d)
                 /\ ClearLow(Unsigned(Unsigned(Rem(c * s, C_X)) + C_X \div 2) % C_X, X_BITS - p)
                      = Unsigned(d * s)
    BY <1>1, <1>4, TurnedColumn
  <2>2. Neighbour(v, dx, dy) = Vox(p, q, d, z)
    BY <1>1, <1>7, <1>8, <1>11, <1>12, <2>1 DEF Vox
  <2>3. d \in 0..k - 1
    BY <2>1 DEF ColumnTurned
  <2>4. r \in 0..l - 1 => ~(t >= 2 \/ r # l - 1)
    <3>1. r * t \in Int
      BY <1>2, <1>4
    <3> QED BY <1>2, <1>4, <1>9, <1>11, <1>12, <3>1
  <2>5. r \notin 0..l - 1 => z = b
    BY <1>2, <1>3, <1>4, <1>10, <1>12
  <2>6. Arrived(p, q, a, b, dx, dy, d, z)
    <3>1. d \in (1 - k)..k - 1 /\ d >= 0
      BY <1>2, <2>3
    <3> QED BY <1>1, <1>3, <1>11, <2>1, <2>4, <2>5, <3>1 DEF Arrived, AllColumns, AllRows
  <2> QED BY <1>1, <2>2, <2>6
<1>13. CASE ~flips
  <2>1. PICK d : /\ ColumnMoved(k, s, c, d)
                 /\ ClearLow(Unsigned(Rem(c * s, C_X)), X_BITS - p) = Unsigned(d * s)
    BY <1>1, <1>4, MovedColumn
  <2>2. Neighbour(v, dx, dy) = Vox(p, q, d, z)
    BY <1>1, <1>7, <1>8, <1>11, <1>13, <2>1 DEF Vox
  <2>3. z = r /\ r \in 0..l - 1
    BY <1>10, <1>11, <1>13
  <2>4. d \in (1 - k)..k - 1 /\ (d >= 0 \/ (c < 0 /\ d >= c))
    BY <2>1 DEF ColumnMoved
  <2>5. Arrived(p, q, a, b, dx, dy, d, z)
    BY <1>1, <1>3, <1>11, <2>1, <2>3, <2>4 DEF Arrived, AllColumns, AllRows
  <2> QED BY <1>1, <2>2, <2>5
<1> QED BY <1>12, <1>13

\* The list of neighbours has those in the nine directions.
LEMMA NineNeighbours ==
    ASSUME NEW v
    PROVE  /\ Neighbours(v) = [i \in 1..9 |-> Neighbours(v)[i]]
           /\ \A dx \in {-1, 0, 1}, dy \in {-1, 0, 1} :
                 \E i \in 1..9 : Neighbours(v)[i] = Neighbour(v, dx, dy)
           /\ \A i \in 1..9 : \E dx \in {-1, 0, 1}, dy \in {-1, 0, 1} :
                 Neighbours(v)[i] = Neighbour(v, dx, dy)
<1>1. DELTAS[1] = -1 /\ DELTAS[2] = 0 /\ DELTAS[3] = 1
  BY DEF DELTAS
<1>2. ASSUME NEW i \in 1..9
      PROVE  /\ Neighbours(v)[i] = Neighbour(v, DELTAS[(i + 2) \div 3], DELTAS[1 + ((i - 1) % 3)])
             /\ (i + 2) \div 3 \in 1..3 /\ 1 + ((i - 1) % 3) \in 1..3
  BY DEF Neighbours
<1>3. ASSUME NEW j \in 1..3, NEW k \in 1..3
      PROVE  \E i \in 1..9 : (i + 2) \div 3 = j /\ 1 + ((i - 1) % 3) = k
  <2>1. PICK i : i = 3 * (j - 1) + k
    OBVIOUS
  <2>2. i \in 1..9 /\ (i + 2) \div 3 = j /\ 1 + ((i - 1) % 3) = k
    BY <2>1
  <2> QED BY <2>2
<1>4. \A d \in {-1, 0, 1} : \E j \in 1..3 : DELTAS[j] = d
  BY <1>1
<1>5. \A j \in 1..3 : DELTAS[j] \in {-1, 0, 1}
  BY <1>1
<1>6. Neighbours(v) = [i \in 1..9 |-> Neighbours(v)[i]]
  BY DEF Neighbours
<1>7. ASSUME NEW dx \in {-1, 0, 1}, NEW dy \in {-1, 0, 1}
      PROVE  \E i \in 1..9 : Neighbours(v)[i] = Neighbour(v, dx, dy)
  <2>1. PICK j \in 1..3, k \in 1..3 : DELTAS[j] = dx /\ DELTAS[k] = dy
    BY <1>4
  <2>2. PICK i \in 1..9 : (i + 2) \div 3 = j /\ 1 + ((i - 1) % 3) = k
    BY <1>3
  <2> QED BY <1>2, <2>1, <2>2
<1>8. ASSUME NEW i \in 1..9
      PROVE  \E dx \in {-1, 0, 1}, dy \in {-1, 0, 1} : Neighbours(v)[i] = Neighbour(v, dx, dy)
  BY <1>2, <1>5
<1> QED BY <1>6, <1>7, <1>8

---------------------------------------------------------------------------
(* The strings and the cells of its voxels *)

\* A bit of a column's longitude is one of its number, and numbers that are the
\* same on the circle have the same bits.
LEMMA ColumnBits ==
    ASSUME NEW p, NEW q, Shape(p, q), NEW s, s = TwoTo(X_BITS - p), NEW k, k = TwoTo(p),
           NEW j \in 1..p, NEW m \in Int, NEW z \in Int
    PROVE  BitAt((m + z * k) * s, X_BITS, j) = BitAt(m * s, X_BITS, j)
<1>1. s \in Nat \ {0} /\ k \in Nat /\ p \in Nat /\ X_BITS - p \in Nat /\ X_BITS \in Nat
  BY ShapeNumbers, GridNumbers
<1>2. PICK u, w : u = TwoTo(p - j) /\ w = TwoTo(j - 1)
  OBVIOUS
<1>3. /\ p - j \in Nat /\ j - 1 \in Nat /\ (j - 1) + 1 = j /\ j \in Nat
      /\ (X_BITS - p) + (p - j) = X_BITS - j /\ j + (p - j) = p
  BY <1>1
<1>4. u \in Nat \ {0} /\ w \in Nat \ {0} /\ TwoTo((j - 1) + 1) = 2 * w
  BY <1>2, <1>3, TwoToFacts
<1>5. TwoTo(X_BITS - j) = s * u
  <2>1. TwoTo((X_BITS - p) + (p - j)) = TwoTo(X_BITS - p) * TwoTo(p - j)
    BY <1>1, <1>3, TwoToSum
  <2> QED BY <1>2, <1>3, <2>1
<1>6. k = (2 * w) * u
  <2>1. TwoTo(j + (p - j)) = TwoTo(j) * TwoTo(p - j)
    BY <1>1, <1>3, TwoToSum
  <2> QED BY <1>2, <1>3, <1>4, <2>1
<1>7. ASSUME NEW i \in Int PROVE BitAt(i * s, X_BITS, j) = (i \div u) % 2
  <2>1. PICK y : y = i * s
    OBVIOUS
  <2>2. y = i * s + 0 /\ y \in Int /\ 0 \in 0..s - 1
    BY <1>1, <2>1
  <2>3. y \div s = i
    BY <1>1, <2>2, DivUnique
  <2>4. (y \div s) \div u = y \div (s * u)
    <3>1. \A g \in Nat \ {0}, h \in Nat \ {0} : (y \div g) \div h = y \div (g * h)
      BY <2>2, DivDiv
    <3> QED BY <1>1, <1>4, <3>1
  <2> QED BY <1>5, <2>1, <2>3, <2>4 DEF BitAt
<1>8. PICK n, h : n = m + z * k /\ h = m \div u
  OBVIOUS
<1>9. n \in Int /\ n = m + (z * (2 * w)) * u /\ z * (2 * w) \in Int
  <2>1. \A a \in Int, b \in Nat, c \in Nat : a * ((2 * b) * c) = (a * (2 * b)) * c
    OBVIOUS
  <2> QED BY <1>1, <1>4, <1>6, <1>8, <2>1
<1>10. n \div u = h + z * (2 * w)
  <2>1. PICK g : g = z * (2 * w)
    OBVIOUS
  <2>2. g \in Int /\ n = m + g * u
    BY <1>9, <2>1
  <2>3. (m + g * u) \div u = (m \div u) + g
    BY <1>4, <2>2, DivShift
  <2> QED BY <1>8, <2>1, <2>2, <2>3
<1>11. h \in Int /\ h + z * (2 * w) = h + (z * w) * 2 /\ z * w \in Int
  BY <1>4, <1>8
<1>12. (h + (z * w) * 2) % 2 = h % 2
  BY <1>11, 2 \in Nat \ {0}, DivShift
<1>13. BitAt(n * s, X_BITS, j) = (n \div u) % 2 /\ BitAt(m * s, X_BITS, j) = h % 2
  BY <1>7, <1>8, <1>9
<1> QED BY <1>8, <1>10, <1>11, <1>12, <1>13

\* On the circle.
LEMMA ColumnOnCircle ==
    ASSUME NEW p, NEW q, Shape(p, q), NEW s, s = TwoTo(X_BITS - p), NEW k, k = TwoTo(p),
           NEW a \in AllColumns(p)
    PROVE  /\ a % k \in 0..k - 1 /\ a % k \in AllColumns(p)
           /\ Unsigned((a % k) * s) = (a % k) * s
           /\ \E z \in Int : Unsigned(a * s) = ((a % k) + z * k) * s
<1>1. s \in Nat \ {0} /\ k \in Nat \ {0} /\ k >= 2 /\ a \in Int /\ a \in (0 - k)..k
  BY ShapeNumbers DEF AllColumns
<1>2. PICK m, h : m = a % k /\ h = a \div k
  OBVIOUS
<1>3. m \in 0..k - 1 /\ h \in Int /\ a = h * k + m
  <2>1. a \div k \in Int /\ a % k \in 0..k - 1 /\ a = (a \div k) * k + (a % k)
    BY <1>1, DivExists
  <2> QED BY <1>2, <2>1
<1>4. m \in AllColumns(p)
  BY <1>1, <1>3 DEF AllColumns
<1>5. Unsigned(m * s) = m * s
  <2>1. m \in (0 - k)..k
    BY <1>1, <1>3
  <2>2. m * s \in (0 - (C_X + 1))..C_X + 1
    BY <2>1, Multiples
  <2>3. m * s >= 0
    <3>1. \A x \in Nat, y \in Nat : x * y >= 0
      OBVIOUS
    <3> QED BY <1>1, <1>3, <3>1
  <2> QED BY <2>2, <2>3, WordFacts
<1>6. PICK n \in Nat : Unsigned(a * s) = (a + n * k) * s
  BY <1>1, Multiples
<1>7. (a + n * k) = m + (h + n) * k /\ h + n \in Int
  BY <1>1, <1>3
<1> QED BY <1>2, <1>3, <1>4, <1>5, <1>6, <1>7

\* The same voxel has the same string, from whichever side it was reached.
LEMMA RawOfVox ==
    ASSUME NEW p, NEW q, Shape(p, q), NEW a \in AllColumns(p), NEW b \in AllRows(q)
    PROVE  Raw(Vox(p, q, a, b)) = Raw(Vox(p, q, a % TwoTo(p), b))
<1>1. PICK s, k, v, w, m : /\ s = TwoTo(X_BITS - p) /\ k = TwoTo(p) /\ m = a % k
                           /\ v = Vox(p, q, a, b) /\ w = Vox(p, q, m, b)
  OBVIOUS
<1>2. m \in 0..k - 1 /\ Unsigned(m * s) = m * s /\ \E z \in Int : Unsigned(a * s) = (m + z * k) * s
  BY <1>1, ColumnOnCircle
<1>3. PICK z \in Int : Unsigned(a * s) = (m + z * k) * s
  BY <1>2
<1>4. /\ v.XPrecision = p /\ w.XPrecision = p /\ v.YPrecision = q /\ w.YPrecision = q
      /\ v.YMin = w.YMin /\ v.XMin = (m + z * k) * s /\ w.XMin = m * s
  BY <1>1, <1>2, <1>3 DEF Vox
<1>5. p \in Nat /\ q \in Nat /\ q <= p
  BY ShapeNumbers DEF Shape
<1>6. ASSUME NEW i \in 1..p + q, i % 2 = 1
      PROVE  BitAt(v.XMin, X_BITS, (i + 1) \div 2) = BitAt(w.XMin, X_BITS, (i + 1) \div 2)
  <2>1. PICK j : j = (i + 1) \div 2
    OBVIOUS
  <2>2. j \in 1..p
    BY <1>5, <1>6, <2>1
  <2>3. BitAt((m + z * k) * s, X_BITS, j) = BitAt(m * s, X_BITS, j)
    <3>1. m \in Int /\ z \in Int
      BY <1>2
    <3>2. \A g \in Int, h \in Int : BitAt((g + h * k) * s, X_BITS, j) = BitAt(g * s, X_BITS, j)
      BY <1>1, <2>2, ColumnBits
    <3> QED BY <3>1, <3>2
  <2> QED BY <1>4, <2>1, <2>3
<1>7. Raw(v) = Raw(w)
  BY <1>4, <1>6 DEF Raw
<1> QED BY <1>1, <1>7

\* The string of a voxel stands for the voxel.
LEMMA StringOfVox ==
    ASSUME NEW p, NEW q, Shape(p, q), NEW c \in 0..TwoTo(p) - 1, NEW b \in AllRows(q)
    PROVE  BitString(Raw(Vox(p, q, c, b))) = Vox(p, q, c, b)
<1>1. PICK s, k, t, l, v, r : /\ s = TwoTo(X_BITS - p) /\ k = TwoTo(p)
                              /\ t = TwoTo(Y_BITS - q) /\ l = TwoTo(q)
                              /\ v = Vox(p, q, c, b) /\ r = Raw(v)
  OBVIOUS
<1>2. /\ s \in Nat \ {0} /\ k \in Nat /\ k >= 2 /\ t \in Nat \ {0} /\ l \in Nat \ {0}
      /\ p \in Nat /\ q \in Nat /\ q <= p /\ p <= q + 1
      /\ X_BITS \in Nat /\ Y_BITS \in Nat /\ X_BITS - p \in Nat /\ Y_BITS - q \in Nat
      /\ c \in 0..k - 1 /\ b \in 0..l - 1
  BY <1>1, ShapeNumbers, GridNumbers DEF Shape, AllRows
<1>3. v.XMin = c * s /\ v.YMin = b * t /\ v.XPrecision = p /\ v.YPrecision = q
      /\ c * s \in Nat /\ b * t \in Nat
  <2>1. c \in AllColumns(p) /\ c % k = c
    BY <1>1, <1>2 DEF AllColumns
  <2>2. Unsigned(c * s) = c * s
    BY <1>1, <2>1, ColumnOnCircle
  <2>3. \A x \in Nat, y \in Nat : x * y \in Nat
    OBVIOUS
  <2> QED BY <1>1, <1>2, <2>2, <2>3 DEF Vox
<1>4. /\ r = [i \in 1..p + q |-> IF i % 2 = 1 THEN BitAt(c * s, X_BITS, (i + 1) \div 2)
                                 ELSE BitAt(b * t, Y_BITS, i \div 2)]
  BY <1>1, <1>3 DEF Raw
<1>5. Len(r) = p + q
  <2>1. p + q \in Nat
    BY <1>2
  <2> QED BY <1>4, <2>1
<1>6. (Len(r) + 1) \div 2 = p /\ Len(r) \div 2 = q
  BY <1>2, <1>5
<1>7. PICK f, g : f = [i \in 1..p |-> r[2 * i - 1]] /\ g = [i \in 1..q |-> r[2 * i]]
  OBVIOUS
<1>8. f = [i \in 1..p |-> BitAt(c * s, X_BITS, i)]
  <2>1. ASSUME NEW i \in 1..p PROVE r[2 * i - 1] = BitAt(c * s, X_BITS, i)
    <3>1. 2 * i - 1 \in 1..p + q /\ (2 * i - 1) % 2 = 1 /\ ((2 * i - 1) + 1) \div 2 = i
      BY <1>2
    <3> QED BY <1>4, <3>1
  <2> QED BY <1>7, <2>1
<1>9. g = [i \in 1..q |-> BitAt(b * t, Y_BITS, i)]
  <2>1. ASSUME NEW i \in 1..q PROVE r[2 * i] = BitAt(b * t, Y_BITS, i)
    <3>1. 2 * i \in 1..p + q /\ (2 * i) % 2 = 0 /\ (2 * i) \div 2 = i
      BY <1>2
    <3> QED BY <1>4, <3>1
  <2> QED BY <1>7, <2>1
\* A number's first n digits, and zeros behind them.
<1>10. ASSUME NEW n \in Nat, NEW w \in Nat, n <= w, NEW u, u = TwoTo(w - n),
              NEW m \in 0..TwoTo(n) - 1, NEW x, x = m * u,
              NEW d, d = [i \in 1..n |-> BitAt(x, w, i)]
       PROVE  Padded(d, w, 0) = x
  <2>1. /\ w - n \in Nat /\ n + (w - n) = w /\ n \in 0..w
        /\ u \in Nat \ {0} /\ TwoTo(n) \in Nat \ {0}
    BY <1>10, TwoToFacts
  <2>3. x \in Nat /\ x = m * u + 0 /\ 0 \in 0..u - 1 /\ m \in Nat
    <3>1. \A y \in Nat, h \in Nat : y * h \in Nat
      OBVIOUS
    <3>2. m \in Nat
      BY <2>1
    <3> QED BY <1>10, <2>1, <3>1, <3>2
  <2>4. x \div u = m
    BY <2>1, <2>3, DivUnique
  <2>5. m % TwoTo(n) = m
    BY <2>1, <2>3
  <2>6. Padded(d, n, 0) = (x \div TwoTo(w - n)) % TwoTo(n)
    <3>1. \A e : e = [i \in 1..n |-> BitAt(x, w, i)] =>
            Padded(e, n, 0) = (x \div TwoTo(w - n)) % TwoTo(n)
      BY <2>1, <2>3, DigitsOfNumber
    <3> QED BY <1>10, <3>1
  <2>7. Padded(d, n, 0) = m
    BY <1>10, <2>4, <2>5, <2>6
  <2>8. Padded(d, n + (w - n), 0) = Padded(d, n, 0) * TwoTo(w - n)
    <3>1. DOMAIN d = 1..n
      BY <1>10
    <3> QED BY <2>1, <2>3, <2>7, <3>1, ZerosBehind
  <2> QED BY <1>10, <2>1, <2>7, <2>8
<1>11. Padded(f, X_BITS, 0) = c * s
  <2>1. p \in Nat /\ X_BITS \in Nat /\ p <= X_BITS /\ c \in 0..TwoTo(p) - 1
    BY <1>1, <1>2
  <2>2. PICK x : x = c * s
    OBVIOUS
  <2>3. f = [i \in 1..p |-> BitAt(x, X_BITS, i)]
    BY <1>8, <2>2
  <2>4. s = TwoTo(X_BITS - p)
    BY <1>1
  <2> QED BY <1>10, <2>1, <2>2, <2>3, <2>4
<1>12. Padded(g, Y_BITS, 0) = b * t
  <2>1. q \in Nat /\ Y_BITS \in Nat /\ q <= Y_BITS /\ b \in 0..TwoTo(q) - 1
    BY <1>1, <1>2
  <2>2. PICK y : y = b * t
    OBVIOUS
  <2>3. g = [i \in 1..q |-> BitAt(y, Y_BITS, i)]
    BY <1>9, <2>2
  <2>4. t = TwoTo(Y_BITS - q)
    BY <1>1
  <2> QED BY <1>10, <2>1, <2>2, <2>3, <2>4
<1>13. BitString(r) = [XMin |-> c * s, YMin |-> b * t, XPrecision |-> p, YPrecision |-> q]
  BY <1>6, <1>7, <1>11, <1>12 DEF BitString
<1>14. v = [XMin |-> c * s, YMin |-> b * t, XPrecision |-> p, YPrecision |-> q]
  BY <1>1, <1>3 DEF Vox
<1> QED BY <1>1, <1>13, <1>14

\* The cells of a voxel are those in its column and row.
LEMMA CellsOfVox ==
    ASSUME NEW p, NEW q, Shape(p, q), NEW a \in AllColumns(p), NEW b \in AllRows(q),
           NEW cell \in Cells
    PROVE  cell \in CellsOf(Vox(p, q, a, b)) <=>
              /\ cell[1] \div TwoTo(X_BITS - p) = a % TwoTo(p)
              /\ cell[2] \div TwoTo(Y_BITS - q) = b
<1>1. PICK s, k, t, l, v, m, N : /\ s = TwoTo(X_BITS - p) /\ k = TwoTo(p) /\ m = a % k
                                 /\ t = TwoTo(Y_BITS - q) /\ l = TwoTo(q)
                                 /\ v = Vox(p, q, a, b) /\ N = C_X + 1
  OBVIOUS
<1>2. /\ s \in Nat \ {0} /\ k \in Nat /\ t \in Nat \ {0} /\ l \in Nat \ {0} /\ b \in 0..l - 1
      /\ N = k * s /\ N \in Nat \ {0} /\ C_Y \in Nat
  BY <1>1, ShapeNumbers, GridNumbers DEF AllRows
<1>3. m \in 0..k - 1 /\ \E z \in Int : Unsigned(a * s) = (m + z * k) * s
  BY <1>1, ColumnOnCircle
<1>4. PICK z \in Int : Unsigned(a * s) = (m + z * k) * s
  BY <1>3
<1>5. PICK x0, y0 : x0 = (m + z * k) * s /\ y0 = b * t
  OBVIOUS
<1>6. /\ v.XMin = x0 /\ v.YMin = y0 /\ XStep(v) = s /\ YStep(v) = t
      /\ x0 \in Int /\ y0 \in Int /\ m * s \in Int /\ z \in Int
      /\ x0 = m * s + z * N
  <2>1. \A i \in Int, j \in Int, y \in Nat, g \in Nat : (i + j * y) * g = i * g + j * (y * g)
    OBVIOUS
  <2>2. x0 = m * s + z * N
    BY <1>2, <1>3, <1>5, <2>1
  <2> QED BY <1>1, <1>2, <1>3, <1>4, <1>5, <2>2 DEF Vox, XStep, YStep
<1>7. CellsOf(v) = {<<x % N, y>> : x \in x0..x0 + s - 1, y \in y0..y0 + t - 1}
  BY <1>1, <1>6 DEF CellsOf
<1>8. PICK cx, cy : cell = <<cx, cy>> /\ cx \in 0..N - 1 /\ cy \in Nat
  <2>1. PICK cx \in 0..C_X, cy \in 0..C_Y : cell = <<cx, cy>>
    BY DEF Cells
  <2>2. cx \in 0..N - 1 /\ cy \in Nat
    BY <1>1, <1>2, GridNumbers
  <2> QED BY <2>1, <2>2
\* Longitudes of the column.
<1>9. ASSUME NEW i \in 0..s - 1 PROVE (x0 + i) % N = m * s + i
  <2>1. m * s + i \in 0..N - 1
    <3>1. \A g \in Nat, j \in Nat : g <= k - 1 => g * s <= k * s - s /\ g * s >= 0
      BY <1>2
    <3>2. m * s <= k * s - s /\ m * s >= 0
      BY <1>2, <1>3, <3>1
    <3> QED BY <1>2, <1>6, <3>2
  <2>2. x0 + i = z * N + (m * s + i) /\ x0 + i \in Int
    BY <1>2, <1>6
  <2>3. \A y \in Int, r \in 0..N - 1 : y = z * N + r => y % N = r
    BY <1>2, DivUnique
  <2> QED BY <2>1, <2>2, <2>3
<1>10. ASSUME cell \in CellsOf(v) PROVE cx \div s = m /\ cy \div t = b
  <2>1. PICK x \in x0..x0 + s - 1, y \in y0..y0 + t - 1 : <<cx, cy>> = <<x % N, y>>
    BY <1>7, <1>8, <1>10
  <2>2. PICK i, j : i = x - x0 /\ j = y - y0
    OBVIOUS
  <2>3. i \in 0..s - 1 /\ x = x0 + i /\ j \in 0..t - 1 /\ y = b * t + j
    BY <1>2, <1>5, <1>6, <2>2
  <2>4. cx = m * s + i /\ cy = b * t + j
    BY <1>9, <2>1, <2>3
  <2>5. cx \div s = m
    <3>1. m \in Int /\ cx \in Int
      BY <1>3, <1>8
    <3> QED BY <1>2, <2>3, <2>4, <3>1, DivUnique
  <2>6. cy \div t = b
    <3>1. b \in Int /\ cy \in Int
      BY <1>2, <1>8
    <3> QED BY <1>2, <2>3, <2>4, <3>1, DivUnique
  <2> QED BY <2>5, <2>6
<1>11. ASSUME cx \div s = m, cy \div t = b PROVE cell \in CellsOf(v)
  <2>1. PICK i, j : i = cx % s /\ j = cy % t
    OBVIOUS
  <2>2. i \in 0..s - 1 /\ cx = m * s + i
    <3>1. cx \in Int
      BY <1>8
    <3>2. cx % s \in 0..s - 1 /\ cx = (cx \div s) * s + (cx % s)
      BY <1>2, <3>1, DivExists
    <3> QED BY <1>11, <2>1, <3>2
  <2>3. j \in 0..t - 1 /\ cy = y0 + j
    <3>1. cy \in Int
      BY <1>8
    <3>2. cy % t \in 0..t - 1 /\ cy = (cy \div t) * t + (cy % t)
      BY <1>2, <3>1, DivExists
    <3> QED BY <1>5, <1>11, <2>1, <3>2
  <2>4. x0 + i \in x0..x0 + s - 1 /\ cy \in y0..y0 + t - 1 /\ (x0 + i) % N = cx
    BY <1>2, <1>6, <1>9, <2>2, <2>3
  <2> QED BY <1>7, <1>8, <2>4
<1>12. cell[1] = cx /\ cell[2] = cy
  BY <1>8
<1> QED BY <1>1, <1>10, <1>11, <1>12

\* The first voxel, around one of the polygon's cells.
LEMMA GrownVox ==
    ASSUME NEW vertex \in Cells, NEW steps \in 0..XY_BITS, Growable(FullVoxel(vertex), steps)
    PROVE  \E p, q, a, b : /\ Shape(p, q) /\ a \in AllColumns(p) /\ a >= 0 /\ b \in AllRows(q)
                           /\ Grow2D(FullVoxel(vertex), steps) = Vox(p, q, a, b)
<1>1. /\ X_BITS \in Nat /\ Y_BITS \in Nat /\ X_BITS + Y_BITS = XY_BITS
      /\ Y_BITS <= X_BITS /\ X_BITS <= Y_BITS + 1
  BY BitsAssumption DEF X_BITS, Y_BITS
<1>2. steps \in Nat /\ steps < X_BITS + Y_BITS
  BY <1>1 DEF Growable, FullVoxel
<1>3. PICK g, h : g = steps \div 2 /\ h = (steps + 1) \div 2
  OBVIOUS
<1>4. g \in Nat /\ h \in Nat /\ g + h = steps /\ g <= h /\ h <= g + 1
  BY <1>2, <1>3
<1>5. ASSUME NEW i \in Nat, NEW j \in Nat, Shape(X_BITS - i, Y_BITS - j)
      PROVE  \E p, q, a, b : /\ Shape(p, q) /\ a \in AllColumns(p) /\ a >= 0 /\ b \in AllRows(q)
                             /\ Lowered(FullVoxel(vertex), i, j) = Vox(p, q, a, b)
  <2>1. PICK p, q, s, t, k, l : /\ p = X_BITS - i /\ q = Y_BITS - j /\ s = TwoTo(i) /\ t = TwoTo(j)
                                /\ k = TwoTo(p) /\ l = TwoTo(q)
    OBVIOUS
  <2>2. X_BITS - p = i /\ Y_BITS - q = j /\ Shape(p, q)
    BY <1>1, <1>5, <2>1
  <2>3. /\ s \in Nat \ {0} /\ t \in Nat \ {0} /\ k \in Nat /\ k >= 2 /\ l \in Nat \ {0}
        /\ C_X + 1 = k * s /\ C_Y + 1 = l * t /\ C_X \in Nat /\ C_Y \in Nat
    BY <2>1, <2>2, ShapeNumbers, GridNumbers
  <2>4. PICK cx \in 0..C_X, cy \in 0..C_Y : vertex = <<cx, cy>>
    BY DEF Cells
  <2>5. PICK a, b : a = cx \div s /\ b = cy \div t
    OBVIOUS
  <2>6. ASSUME NEW x \in Nat, NEW u \in Nat \ {0}, NEW n \in Nat, x < n * u
        PROVE  /\ x \div u \in 0..n - 1 /\ (x \div u) * u = x - (x % u) /\ (x \div u) * u \in Nat
    <3>1. x \div u \in Int /\ x % u \in 0..u - 1 /\ x = (x \div u) * u + (x % u)
      BY DivExists
    <3>2. x \div u >= 0
      <4>1. \A y \in Int : y <= -1 => y * u <= 0 - u
        OBVIOUS
      <4>2. PICK y : y = x \div u
        OBVIOUS
      <4> QED BY <3>1, <4>1, <4>2
    <3>3. x \div u <= n - 1
      <4>1. \A y \in Int : y >= n => y * u >= n * u
        OBVIOUS
      <4>2. PICK y : y = x \div u
        OBVIOUS
      <4>3. n * u \in Int /\ y * u \in Int
        BY <3>1, <4>2
      <4> QED BY <2>6, <3>1, <4>1, <4>2, <4>3
    <3>4. (x \div u) * u \in Nat
      <4>1. \A y \in Nat : y * u \in Nat
        OBVIOUS
      <4> QED BY <3>1, <3>2, <4>1
    <3>5. (x \div u) * u = x - (x % u)
      BY <3>1, <3>4
    <3> QED BY <3>1, <3>2, <3>3, <3>4, <3>5
  <2>7. a \in 0..k - 1 /\ a * s = cx - (cx % s)
    <3>1. cx \in Nat /\ cx < k * s
      BY <2>3
    <3> QED BY <2>3, <2>5, <2>6, <3>1
  <2>8. b \in 0..l - 1 /\ b * t = cy - (cy % t)
    <3>1. cy \in Nat /\ cy < l * t
      BY <2>3
    <3> QED BY <2>3, <2>5, <2>6, <3>1
  <2>9. a \in AllColumns(p) /\ a >= 0 /\ b \in AllRows(q) /\ a % k = a
    <3>1. k \in Nat \ {0} /\ a \in Int /\ 0 <= a /\ a < k
      BY <2>3, <2>7
    <3>2. a % k = a
      BY <3>1, ModSmall
    <3>3. a \in (1 - k)..k - 1
      BY <2>3, <2>7
    <3> QED BY <2>1, <2>8, <3>1, <3>2, <3>3 DEF AllColumns, AllRows
  <2>10. Unsigned(a * s) = a * s
    BY <2>1, <2>2, <2>9, ColumnOnCircle
  <2>11. /\ Lowered(FullVoxel(vertex), i, j) =
              [XMin |-> ClearLow(cx, X_BITS - X_BITS + i), YMin |-> ClearLow(cy, Y_BITS - Y_BITS + j),
               XPrecision |-> p, YPrecision |-> q]
         /\ X_BITS - X_BITS + i = i /\ Y_BITS - Y_BITS + j = j
    BY <1>1, <2>1, <2>4 DEF Lowered, FullVoxel
  <2>12. ClearLow(cx, i) = a * s /\ ClearLow(cy, j) = b * t
    BY <2>1, <2>7, <2>8 DEF ClearLow
  <2>13. Lowered(FullVoxel(vertex), i, j) = Vox(p, q, a, b)
    BY <2>1, <2>2, <2>10, <2>11, <2>12 DEF Vox
  <2> QED BY <2>2, <2>9, <2>13
<1>6. FullVoxel(vertex).XPrecision = X_BITS /\ FullVoxel(vertex).YPrecision = Y_BITS
  BY DEF FullVoxel
<1>7. CASE X_BITS = Y_BITS
  <2>1. Shape(X_BITS - g, Y_BITS - h)
    BY <1>1, <1>2, <1>4, <1>7 DEF Shape
  <2>2. Grow2D(FullVoxel(vertex), steps) = Lowered(FullVoxel(vertex), g, h)
    BY <1>3, <1>6, <1>7 DEF Grow2D
  <2> QED BY <1>4, <1>5, <2>1, <2>2
<1>8. CASE X_BITS # Y_BITS
  <2>1. Shape(X_BITS - h, Y_BITS - g)
    BY <1>1, <1>2, <1>4, <1>8 DEF Shape
  <2>2. Grow2D(FullVoxel(vertex), steps) = Lowered(FullVoxel(vertex), h, g)
    BY <1>3, <1>6, <1>8 DEF Grow2D
  <2> QED BY <1>4, <1>5, <2>1, <2>2
<1> QED BY <1>7, <1>8

---------------------------------------------------------------------------
(* The voxels of a search *)

\* A voxel of a search whose string has n bits.
Sized(v, n) ==
    \E p, q : /\ Shape(p, q) /\ p + q = n
              /\ \E a \in AllColumns(p), b \in AllRows(q) : v = Vox(p, q, a, b)

Sizes(S) == {Len(s) : s \in S}

\* Its string is one of the grid and not that of the whole world.
LEMMA RawFacts ==
    ASSUME NEW v, NEW n, Sized(v, n)
    PROVE  /\ Raw(v) \in BitStringsUpTo(XY_BITS) /\ Raw(v) # <<>>
           /\ Len(Raw(v)) = n
<1>1. PICK p, q : Shape(p, q) /\ p + q = n /\ \E a \in AllColumns(p), b \in AllRows(q) : v = Vox(p, q, a, b)
  BY DEF Sized
<1>2. PICK a \in AllColumns(p), b \in AllRows(q) : v = Vox(p, q, a, b)
  BY <1>1
<1>3. /\ X_BITS \in Nat /\ Y_BITS \in Nat /\ X_BITS + Y_BITS = XY_BITS /\ XY_BITS \in Nat
      /\ p \in 1..X_BITS /\ q \in 0..Y_BITS /\ q <= p /\ p <= q + 1
  BY <1>1, BitsAssumption DEF X_BITS, Y_BITS, Shape
<1>4. n \in 1..XY_BITS
  BY <1>1, <1>3
<1>5. \A x \in Int, bits \in Nat, i \in Nat : i <= bits => BitAt(x, bits, i) \in Bit
  <2> SUFFICES ASSUME NEW x \in Int, NEW bits \in Nat, NEW i \in Nat, i <= bits
               PROVE  BitAt(x, bits, i) \in Bit
    OBVIOUS
  <2>1. PICK u : u = TwoTo(bits - i)
    OBVIOUS
  <2>2. bits - i \in Nat
    OBVIOUS
  <2>3. u \in Nat \ {0}
    BY <2>1, <2>2, TwoToFacts
  <2>4. x \div u \in Int
    BY <2>3, DivExists
  <2>5. (x \div u) % 2 \in 0..1
    BY <2>4
  <2> QED BY <2>1, <2>5 DEF BitAt, Bit
<1>6. v.XMin \in Int /\ v.YMin \in Int /\ v.XPrecision = p /\ v.YPrecision = q
  <2>1. PICK s, t, m : s = TwoTo(X_BITS - p) /\ t = TwoTo(Y_BITS - q) /\ m = TwoTo(WORD_BITS)
    OBVIOUS
  <2>2. s \in Nat \ {0} /\ t \in Nat \ {0} /\ m \in Nat \ {0} /\ a \in Int /\ b \in Int
    BY <1>1, <2>1, ShapeNumbers, WordFacts DEF AllColumns, AllRows
  <2>3. a * s \in Int /\ b * t \in Int
    BY <2>2
  <2>4. (a * s) % m \in Int
    BY <2>2, <2>3, DivExists
  <2> QED BY <1>2, <2>1, <2>3, <2>4 DEF Vox, Unsigned
<1>7. ASSUME NEW i \in 1..n
      PROVE  (IF i % 2 = 1 THEN BitAt(v.XMin, X_BITS, (i + 1) \div 2)
              ELSE BitAt(v.YMin, Y_BITS, i \div 2)) \in Bit
  <2>1. i % 2 = 1 => (i + 1) \div 2 \in Nat /\ (i + 1) \div 2 <= X_BITS
    BY <1>1, <1>3, <1>7
  <2>2. i % 2 # 1 => i \div 2 \in Nat /\ i \div 2 <= Y_BITS
    BY <1>1, <1>3, <1>7
  <2> QED BY <1>3, <1>5, <1>6, <2>1, <2>2
<1>8. Raw(v) \in [1..n -> Bit]
  BY <1>1, <1>6, <1>7 DEF Raw
<1>9. Raw(v) \in Seq(Bit) /\ Len(Raw(v)) = n
  BY <1>3, <1>4, <1>8
<1>10. Raw(v) # <<>>
  BY <1>4, <1>9
<1> QED BY <1>3, <1>4, <1>9, <1>10, BitStringIsSeq

\* The first voxel is one of a search, with at least one bit left.
LEMMA GrownSized ==
    ASSUME NEW vertex \in Cells, NEW steps \in 0..XY_BITS, Growable(FullVoxel(vertex), steps)
    PROVE  \E n \in 1..XY_BITS : Sized(Grow2D(FullVoxel(vertex), steps), n)
<1>1. PICK p, q, a, b : /\ Shape(p, q) /\ a \in AllColumns(p) /\ b \in AllRows(q)
                        /\ Grow2D(FullVoxel(vertex), steps) = Vox(p, q, a, b)
  BY GrownVox
<1>2. p + q \in 1..XY_BITS
  BY <1>1, BitsAssumption DEF X_BITS, Y_BITS, Shape
<1> QED BY <1>1, <1>2 DEF Sized

\* And its neighbours have as many bits.
LEMMA NeighboursSized ==
    ASSUME NEW v, NEW n, Sized(v, n)
    PROVE  \A i \in 1..9 : Sized(Neighbours(v)[i], n)
<1> SUFFICES ASSUME NEW i \in 1..9 PROVE Sized(Neighbours(v)[i], n)
  OBVIOUS
<1>1. PICK p, q : Shape(p, q) /\ p + q = n /\ \E a \in AllColumns(p), b \in AllRows(q) : v = Vox(p, q, a, b)
  BY DEF Sized
<1>2. PICK a \in AllColumns(p), b \in AllRows(q) : v = Vox(p, q, a, b)
  BY <1>1
<1>3. PICK dx \in {-1, 0, 1}, dy \in {-1, 0, 1} : Neighbours(v)[i] = Neighbour(v, dx, dy)
  BY NineNeighbours
<1>4. PICK d, y : Arrived(p, q, a, b, dx, dy, d, y) /\ Neighbour(v, dx, dy) = Vox(p, q, d, y)
  BY <1>1, <1>2, NeighbourOfVox
<1>5. d \in AllColumns(p) /\ y \in AllRows(q)
  BY <1>4 DEF Arrived
<1> QED BY <1>1, <1>3, <1>4, <1>5 DEF Sized

\* The strings of one more polygon have one more size at most.
LEMMA OneSizeMore ==
    ASSUME NEW A, NEW B, NEW n, NEW k \in Nat,
           IsFiniteSet(Sizes(A)), Cardinality(Sizes(A)) <= k, \A s \in B : Len(s) = n
    PROVE  IsFiniteSet(Sizes(A \cup B)) /\ Cardinality(Sizes(A \cup B)) <= k + 1
<1> DEFINE more == Sizes(A) \cup {n}
<1>1. IsFiniteSet(more) /\ Cardinality(more) <= k + 1
  <2>1. Cardinality(Sizes(A)) \in Nat
    BY FS_CardinalityType
  <2>2. /\ IsFiniteSet(more)
        /\ Cardinality(more) = IF n \in Sizes(A) THEN Cardinality(Sizes(A)) ELSE Cardinality(Sizes(A)) + 1
    BY FS_AddElement
  <2> HIDE DEF more
  <2> QED BY <2>1, <2>2
<1>2. Sizes(A \cup B) \in SUBSET more
  BY DEF Sizes
<1> HIDE DEF more
<1>3. IsFiniteSet(Sizes(A \cup B)) /\ Cardinality(Sizes(A \cup B)) <= Cardinality(more)
  BY <1>1, <1>2, FS_Subset
<1>4. Cardinality(more) \in Nat /\ Cardinality(Sizes(A \cup B)) \in Nat
  BY <1>1, <1>3, FS_CardinalityType
<1> QED BY <1>1, <1>3, <1>4

---------------------------------------------------------------------------
(* The searches are what CoverMerging assumes of them *)

\* Every voxel of the queue, and every string found for this polygon, has one
\* size.  S stands for the voxels that were ever in the queue.
SearchingWith(n, S) ==
    /\ queue \in Seq(S) /\ \A v \in S : Sized(v, n)
    /\ \A s \in intersecting : Len(s) = n

Searching == \E n \in 1..XY_BITS : \E S : SearchingWith(n, S)

\* The sizes of the strings found before are no more than the polygons.
SizesCounted ==
    /\ index \in Nat \ {0}
    /\ IsFiniteSet(Sizes(all)) /\ Cardinality(Sizes(all)) <= index - 1

SearchInv ==
    /\ certificate \in Certificates
    /\ phase \in {"initial", "search"} => SizesCounted
    /\ phase = "initial" => intersecting \subseteq all
    /\ phase = "search" => index <= Len(certificate.polygons) /\ Searching

\* Before the first search nothing was found.
LEMMA InitSearch == Init => SearchInv
<1> SUFFICES ASSUME Init PROVE SearchInv
  OBVIOUS
<1>1. Sizes(all) = {}
  BY DEF Init, Sizes
<1>2. SizesCounted
  BY <1>1, FS_EmptySet DEF Init, SizesCounted
<1> QED BY <1>2 DEF Init, SearchInv

\* The first voxel of a search.
LEMMA StartSearch == SearchInv /\ Start => SearchInv'
<1> SUFFICES ASSUME SearchInv, NEW vertex \in Cells, NEW steps \in 0..XY_BITS,
                    InitialXYBitString(vertex, steps)
             PROVE  SearchInv'
  BY DEF Start
<1>1. /\ phase = "initial" /\ phase' = "search" /\ index <= Len(certificate.polygons)
      /\ Growable(FullVoxel(vertex), steps)
      /\ queue' = <<Grow2D(FullVoxel(vertex), steps)>> /\ intersecting' = {}
      /\ UNCHANGED <<certificate, index, all>>
  BY DEF InitialXYBitString
<1>2. PICK n \in 1..XY_BITS : Sized(Grow2D(FullVoxel(vertex), steps), n)
  BY <1>1, GrownSized
<1>3. PICK S : S = {Grow2D(FullVoxel(vertex), steps)}
  OBVIOUS
<1>4. SearchingWith(n, S)'
  <2>1. queue' \in Seq(S)
    BY <1>1, <1>3
  <2> QED BY <1>1, <1>2, <1>3, <2>1 DEF SearchingWith
<1>5. Searching'
  BY <1>4 DEF Searching
<1>6. SizesCounted'
  BY <1>1 DEF SearchInv, SizesCounted
<1> QED BY <1>1, <1>5, <1>6 DEF SearchInv

\* Popping the queue.
LEMMA PopSearch ==
    ASSUME NEW n, NEW S, SearchingWith(n, S), Pop, intersecting' = intersecting
    PROVE  SearchingWith(n, S)'
<1>1. queue \in Seq(S) /\ queue # <<>> /\ queue' = Tail(queue)
  BY DEF SearchingWith, Pop
<1>2. queue' \in Seq(S)
  BY <1>1, HeadTailProperties
<1> QED BY <1>2 DEF SearchingWith

\* Skipping a voxel.
LEMMA SkipSearch == SearchInv /\ (SkipVisited \/ SkipOutside) => SearchInv'
<1> SUFFICES ASSUME SearchInv, SkipVisited \/ SkipOutside PROVE SearchInv'
  OBVIOUS
<1>1. /\ Pop /\ phase = "search" /\ phase' \in {"search", "failed"}
      /\ UNCHANGED <<certificate, index, all, intersecting>>
  BY DEF SkipVisited, SkipOutside, Pop
<1>2. SizesCounted' /\ index' <= Len(certificate'.polygons)
  BY <1>1 DEF SearchInv, SizesCounted
<1>3. PICK n \in 1..XY_BITS : \E S : SearchingWith(n, S)
  BY <1>1 DEF SearchInv, Searching
<1>4. PICK S : SearchingWith(n, S)
  BY <1>3
<1>5. SearchingWith(n, S)'
  BY <1>1, <1>4, PopSearch
<1>6. Searching'
  BY <1>5 DEF Searching
<1> QED BY <1>1, <1>2, <1>6 DEF SearchInv

\* Adding a voxel and its neighbours.
LEMMA ExpandSearch == SearchInv /\ Expand => SearchInv'
<1> SUFFICES ASSUME SearchInv, Expand PROVE SearchInv'
  OBVIOUS
<1>1. PICK v : v = Head(queue)
  OBVIOUS
<1>2. /\ phase = "search" /\ phase' = "search" /\ queue # <<>>
      /\ intersecting' = intersecting \cup {Raw(v)}
      /\ queue' = Tail(queue) \o Neighbours(v)
      /\ UNCHANGED <<certificate, index, all>>
  BY <1>1 DEF Expand
<1>3. SizesCounted' /\ index' <= Len(certificate'.polygons)
  BY <1>2 DEF SearchInv, SizesCounted
<1>4. PICK n \in 1..XY_BITS : \E S : SearchingWith(n, S)
  BY <1>2 DEF SearchInv, Searching
<1>5. PICK S : SearchingWith(n, S)
  BY <1>4
<1>6. PICK T : T = S \cup {Neighbours(v)[i] : i \in 1..9}
  OBVIOUS
<1>7. v \in S /\ Tail(queue) \in Seq(S) /\ Sized(v, n)
  BY <1>1, <1>2, <1>5, HeadTailProperties DEF SearchingWith
<1>8. \A w \in T : Sized(w, n)
  BY <1>5, <1>6, <1>7, NeighboursSized DEF SearchingWith
<1>9. queue' \in Seq(T)
  <2>1. Tail(queue) \in Seq(T)
    BY <1>6, <1>7
  <2>2. Neighbours(v) \in [1..9 -> T]
    BY <1>6 DEF Neighbours
  <2>3. Neighbours(v) \in Seq(T)
    <3>1. \A k \in Nat : \A f \in [1..k -> T] : f \in Seq(T)
      OBVIOUS
    <3> QED BY <2>2, <3>1
  <2> QED BY <1>2, <2>1, <2>3, ConcatProperties
<1>10. \A s \in intersecting' : Len(s) = n
  BY <1>2, <1>5, <1>7, RawFacts DEF SearchingWith
<1>11. SearchingWith(n, T)'
  BY <1>8, <1>9, <1>10 DEF SearchingWith
<1>12. Searching'
  BY <1>11 DEF Searching
<1> QED BY <1>2, <1>3, <1>12 DEF SearchInv

\* What was found for a polygon has one size more.
LEMMA NextPolygonSearch == SearchInv /\ NextPolygon => SearchInv'
<1> SUFFICES ASSUME SearchInv, NextPolygon PROVE SearchInv'
  OBVIOUS
<1>1. /\ phase = "search" /\ phase' = "initial" /\ index' = index + 1
      /\ all' = all \cup intersecting
      /\ UNCHANGED <<certificate, intersecting>>
  BY DEF NextPolygon
<1>2. PICK n \in 1..XY_BITS : \A s \in intersecting : Len(s) = n
  BY <1>1 DEF SearchInv, Searching, SearchingWith
<1>3. index \in Nat \ {0} /\ IsFiniteSet(Sizes(all)) /\ Cardinality(Sizes(all)) <= index - 1
  BY <1>1 DEF SearchInv, SizesCounted
<1>4. /\ IsFiniteSet(Sizes(all \cup intersecting))
      /\ Cardinality(Sizes(all \cup intersecting)) <= (index - 1) + 1
  <2>1. index - 1 \in Nat
    BY <1>3
  <2> QED BY <1>2, <1>3, <2>1, OneSizeMore
<1>5. SizesCounted'
  <2>1. Sizes(all)' = Sizes(all \cup intersecting)
    BY <1>1 DEF Sizes
  <2>2. index' \in Nat \ {0} /\ index' - 1 = (index - 1) + 1
    BY <1>1, <1>3
  <2> QED BY <1>4, <2>1, <2>2 DEF SizesCounted
<1> QED BY <1>1, <1>5 DEF SearchInv

\* The counts of the searches hold in every state.
LEMMA SearchInvariant == Spec => []SearchInv
<1>1. SearchInv /\ [Next]_vars => SearchInv'
  <2> SUFFICES ASSUME SearchInv, [Next]_vars PROVE SearchInv'
    OBVIOUS
  <2>1. CASE ExtrudedPolygonsToBitStringPairs \/ GeometryFails
    <3>1. certificate' = certificate /\ phase' \in {"done", "refused", "failed"}
      BY <2>1 DEF ExtrudedPolygonsToBitStringPairs, GeometryFails
    <3> QED BY <3>1 DEF SearchInv
  <2>2. CASE UNCHANGED vars
    <3>1. SizesCounted' <=> SizesCounted
      BY <2>2 DEF vars, SizesCounted
    <3>2. Searching' <=> Searching
      BY <2>2 DEF vars, Searching, SearchingWith
    <3> QED BY <2>2, <3>1, <3>2 DEF vars, SearchInv
  <2> QED BY <2>1, <2>2, StartSearch, SkipSearch, ExpandSearch, NextPolygonSearch DEF Next, Search
<1> QED BY <1>1, InitSearch, PTL DEF Spec

\* The string of a voxel at the head of the queue is one that CoverMerging's
\* search may add.
LEMMA ExpandAdds ==
    ASSUME SearchInv, Expand
    PROVE  \E voxel \in Merging!Strings : Merging!Search(voxel)
<1>1. PICK v : v = Head(queue)
  OBVIOUS
<1>2. /\ phase = "search" /\ phase' = "search" /\ queue # <<>>
      /\ intersecting' = intersecting \cup {Raw(v)} /\ all' = all /\ index' = index
  BY <1>1 DEF Expand
<1>3. /\ index \in Nat \ {0} /\ IsFiniteSet(Sizes(all)) /\ Cardinality(Sizes(all)) <= index - 1
      /\ index <= MaxPolygons
  <2>1. /\ index \in Nat \ {0} /\ IsFiniteSet(Sizes(all)) /\ Cardinality(Sizes(all)) <= index - 1
    BY <1>2 DEF SearchInv, SizesCounted
  <2>2. /\ certificate \in Certificates /\ index <= Len(certificate.polygons)
    BY <1>2 DEF SearchInv
  <2>3. /\ certificate.polygons \in Seq((SUBSET Cells) \ {{}})
        /\ Len(certificate.polygons) <= MaxPolygons /\ MaxPolygons \in Nat
    BY <2>2, VoxelAssumption DEF VoxelAssumption
  <2>4. Len(certificate.polygons) \in Nat
    BY <2>3, LenProperties
  <2> QED BY <2>1, <2>2, <2>3, <2>4
<1>4. PICK n \in 1..XY_BITS : \E S : SearchingWith(n, S)
  BY <1>2 DEF SearchInv, Searching
<1>5. PICK S : SearchingWith(n, S)
  BY <1>4
<1>6. Sized(v, n)
  BY <1>1, <1>2, <1>5, HeadTailProperties DEF SearchingWith
<1>7. Raw(v) \in BitStringsUpTo(XY_BITS) /\ Raw(v) # <<>> /\ Len(Raw(v)) = n
  BY <1>6, RawFacts
<1>8. all' \cup intersecting' = (all \cup intersecting) \cup {Raw(v)}
  BY <1>2
<1>9. Cardinality(Sizes(all' \cup intersecting')) <= MaxPolygons
  <2>1. \A s \in intersecting' : Len(s) = n
    BY <1>2, <1>5, <1>7 DEF SearchingWith
  <2>2. index - 1 \in Nat /\ index \in Nat
    BY <1>3
  <2>3. /\ IsFiniteSet(Sizes(all \cup intersecting'))
        /\ Cardinality(Sizes(all \cup intersecting')) <= (index - 1) + 1
    BY <1>3, <2>1, <2>2, OneSizeMore
  <2>4. Cardinality(Sizes(all \cup intersecting')) \in Nat
    BY <2>3, FS_CardinalityType
  <2>5. MaxPolygons \in Nat
    BY VoxelAssumption DEF VoxelAssumption
  <2> QED BY <1>2, <1>3, <2>2, <2>3, <2>4, <2>5
<1>10. Merging!Search(Raw(v))
  <2>1. Cardinality({Len(s) : s \in all' \cup intersecting'}) <= MaxPolygons
    BY <1>9 DEF Sizes
  <2>2. phase # "failed" /\ phase' # "failed"
    BY <1>2
  <2>3. \A W : Merging!Cardinality(W) = Cardinality(W)
    BY DEF Merging!Cardinality, Cardinality
  <2> QED BY <1>7, <1>8, <2>1, <2>2, <2>3 DEF Merging!Search, Merging!World
<1>11. Raw(v) \in Merging!Strings
  BY <1>7 DEF Merging!Strings, Merging!BitStringsUpTo, BitStringsUpTo, Merging!Bit, Bit,
              Merging!BoundedSeq, BoundedSeq, Merging!SeqOf, SeqOf
<1> QED BY <1>10, <1>11

(* The searches, one polygon after the other, only add voxels to the set    *)
(* that the merging reads, none of them the whole world and those of one    *)
(* polygon of one size, or they fail (PolygonsTo2DBitStrings): VoxelCover   *)
(* implements the steps of CoverMerging before its loop.                    *)
THEOREM SearchIsImplemented == Spec => ImplementsSearch
<1>1. Init => Merging!Init
  BY DEF Init, Merging!Init
<1>2. ASSUME SearchInv, [Next]_vars PROVE [Merging!Next]_(Merging!vars)
  <2>1. CASE Start
    <3>1. /\ phase = "initial" /\ phase' = "search" /\ intersecting' = {} /\ all' = all
      BY <2>1 DEF Start, InitialXYBitString
    <3>2. all' \cup intersecting' = all \cup intersecting
      BY <1>2, <3>1 DEF SearchInv
    <3> QED BY <3>1, <3>2 DEF Merging!vars
  <2>2. CASE SkipVisited
    BY <2>2 DEF SkipVisited, Pop, Merging!vars
  <2>3. CASE SkipOutside
    <3>1. /\ phase = "search" /\ phase' \in {"search", "failed"}
          /\ intersecting' = intersecting /\ all' = all
      BY <2>3 DEF SkipOutside, Pop
    <3>2. CASE phase' = "search"
      BY <3>1, <3>2 DEF Merging!vars
    <3>3. CASE phase' = "failed"
      BY <3>1, <3>3 DEF Merging!Next, Merging!SearchFails
    <3> QED BY <3>1, <3>2, <3>3
  <2>4. CASE Expand
    BY <1>2, <2>4, ExpandAdds DEF Merging!Next
  <2>5. CASE NextPolygon
    <3>1. /\ phase = "search" /\ phase' = "initial"
          /\ all' = all \cup intersecting /\ intersecting' = intersecting
      BY <2>5 DEF NextPolygon
    <3>2. all' \cup intersecting' = all \cup intersecting
      BY <3>1
    <3> QED BY <3>1, <3>2 DEF Merging!vars
  <2>6. CASE ExtrudedPolygonsToBitStringPairs
    <3>1. /\ phase = "initial" /\ phase' \in {"done", "refused"}
          /\ all' = all /\ intersecting' = intersecting
      BY <2>6 DEF ExtrudedPolygonsToBitStringPairs
    <3> QED BY <3>1 DEF Merging!vars
  <2>7. CASE GeometryFails
    <3>1. /\ phase \in {"initial", "search"} /\ phase' = "failed"
          /\ all' = all /\ intersecting' = intersecting
      BY <2>7 DEF GeometryFails
    <3> QED BY <3>1 DEF Merging!Next, Merging!SearchFails
  <2>8. CASE UNCHANGED vars
    BY <2>8 DEF vars, Merging!vars
  <2> QED BY <1>2, <2>1, <2>2, <2>3, <2>4, <2>5, <2>6, <2>7, <2>8 DEF Next, Search
<1> QED BY <1>1, <1>2, SearchInvariant, PTL DEF Spec, ImplementsSearch, Merging!Spec

---------------------------------------------------------------------------
(* What a search has found *)

\* A search goes west around the world no further than to a column that the
\* polygon does not meet.
Within(P, p, a) ==
    /\ a \in AllColumns(p)
    /\ \A m \in (0..TwoTo(p) - 1) \ Columns(P, TwoTo(X_BITS - p)) :
          a >= IF m = 0 THEN 0 ELSE m - TwoTo(p)

\* A column and a row in which the polygon has a cell.
Meets(P, p, q, c, b) ==
    \E cell \in P : cell[1] \div TwoTo(X_BITS - p) = c /\ cell[2] \div TwoTo(Y_BITS - q) = b

\* A column that is not west of the first is.
LEMMA EastIsWithin ==
    ASSUME NEW P, NEW p, NEW q, Shape(p, q), NEW a \in AllColumns(p), a >= 0
    PROVE  Within(P, p, a)
<1>1. TwoTo(p) \in Nat /\ a \in Int
  BY ShapeNumbers DEF AllColumns
<1> QED BY <1>1 DEF Within

\* The neighbours of a voxel that meets the polygon are within it as well.
LEMMA NeighbourWithin ==
    ASSUME NEW P, NEW p, NEW q, Shape(p, q), NEW a, Within(P, p, a), NEW b \in AllRows(q),
           Meets(P, p, q, a % TwoTo(p), b),
           NEW dx \in {-1, 0, 1}, NEW dy \in {-1, 0, 1}
    PROVE  \E d, y : /\ Arrived(p, q, a, b, dx, dy, d, y) /\ Within(P, p, d) /\ y \in AllRows(q)
                     /\ Neighbour(Vox(p, q, a, b), dx, dy) = Vox(p, q, d, y)
<1>1. a \in AllColumns(p)
  BY DEF Within
<1>2. PICK d, y : /\ Arrived(p, q, a, b, dx, dy, d, y)
                  /\ Neighbour(Vox(p, q, a, b), dx, dy) = Vox(p, q, d, y)
  BY <1>1, NeighbourOfVox
<1>3. d \in AllColumns(p) /\ y \in AllRows(q) /\ (d >= 0 \/ (a + dx < 0 /\ d >= a + dx))
  BY <1>2 DEF Arrived
<1>4. PICK k, s : k = TwoTo(p) /\ s = TwoTo(X_BITS - p)
  OBVIOUS
<1>5. k \in Nat /\ k >= 2 /\ a \in (1 - k)..k - 1 /\ d \in (1 - k)..k - 1
  BY <1>1, <1>3, <1>4, ShapeNumbers DEF AllColumns
<1>6. a % k \in Columns(P, s)
  BY <1>4 DEF Meets, Columns
<1>7. ASSUME NEW m \in (0..k - 1) \ Columns(P, s) PROVE d >= IF m = 0 THEN 0 ELSE m - k
  <2>1. a >= IF m = 0 THEN 0 ELSE m - k
    BY <1>4 DEF Within
  <2>2. a % k # m
    BY <1>6
  <2>3. a % k = IF a >= 0 THEN a ELSE a + k
    <3>1. k \in Nat \ {0} /\ a \in Int /\ 0 - k <= a /\ a < k
      BY <1>5
    <3>2. CASE a >= 0
      BY <3>1, <3>2, ModSmall
    <3>3. CASE ~(a >= 0)
      <4>1. a < 0
        BY <3>1, <3>3
      <4>2. a % k = a + k
        BY <3>1, <4>1, ModSmall
      <4> QED BY <3>3, <4>2
    <3> QED BY <3>2, <3>3
  <2> QED BY <1>3, <1>5, <2>1, <2>2, <2>3
<1>8. Within(P, p, d)
  BY <1>3, <1>4, <1>7 DEF Within
<1> QED BY <1>2, <1>3, <1>8

\* The voxels that the search for P may queue, and the strings of those of Q.
QueuedVoxels(P, p, q) ==
    {Vox(p, q, a, b) : a \in {c \in AllColumns(p) : Within(P, p, c)}, b \in AllRows(q)}
Pending(Q) == {Raw(Q[i]) : i \in 1..Len(Q)}

\* A voxel was looked at: its string was kept if it meets the polygon.
LookedAt(P, p, q, s, kept) ==
    \E a \in AllColumns(p), b \in AllRows(q) :
        s = Raw(Vox(p, q, a, b)) /\ (s \in kept <=> Meets(P, p, q, a % TwoTo(p), b))

\* The neighbours of a voxel with this string are among those of the set.
Expanded(P, p, q, s, V) ==
    \E a \in {c \in AllColumns(p) : Within(P, p, c)}, b \in AllRows(q) :
        /\ s = Raw(Vox(p, q, a, b))
        /\ \A dx \in {-1, 0, 1}, dy \in {-1, 0, 1} : Raw(Neighbour(Vox(p, q, a, b), dx, dy)) \in V

\* Everything that was visited was looked at, and what meets the polygon P was
\* expanded; those of the list Q are still to come.
FoundSoFar(P, p, q, Q, seen, kept) ==
    /\ Shape(p, q) /\ kept \subseteq seen
    /\ Q \in Seq(QueuedVoxels(P, p, q))
    /\ \A s \in seen : LookedAt(P, p, q, s, kept)
    /\ \A s \in kept : Expanded(P, p, q, s, seen \cup Pending(Q))

\* There are such precisions; before anything was found, nothing was visited,
\* because a first voxel outside the polygon fails.
FoundOf(P, Q, seen, kept) ==
    /\ kept = {} => seen = {} /\ Q # <<>>
    /\ \E p \in 1..X_BITS, q \in 0..Y_BITS : FoundSoFar(P, p, q, Q, seen, kept)

\* Of the polygon that is searched, and of the one searched last.
FoundInv ==
    /\ certificate \in Certificates /\ index \in Nat \ {0}
    /\ phase = "search" =>
          /\ index <= Len(certificate.polygons)
          /\ FoundOf(Polygon, queue, visited, intersecting)
    /\ Searched =>
          /\ index - 1 <= Len(certificate.polygons)
          /\ FoundOf(LastPolygon, <<>>, visited, intersecting)

\* A voxel that may be queued.
LEMMA QueuedIs ==
    ASSUME NEW P, NEW p, NEW q, NEW v
    PROVE  v \in QueuedVoxels(P, p, q) <=>
              \E a \in AllColumns(p), b \in AllRows(q) : Within(P, p, a) /\ v = Vox(p, q, a, b)
BY DEF QueuedVoxels

\* Popping the queue.
LEMMA Popped ==
    ASSUME NEW S, NEW Q \in Seq(S), Q # <<>>
    PROVE  /\ Head(Q) \in S /\ Tail(Q) \in Seq(S)
           /\ Pending(Q) = {Raw(Head(Q))} \cup Pending(Tail(Q))
<1>1. Len(Q) \in Nat /\ Len(Q) >= 1 /\ Head(Q) = Q[1] /\ \A i \in 1..Len(Q) : Q[i] \in S
  BY EmptySeq, LenProperties, ElementOfSeq
<1>2. /\ Tail(Q) \in Seq(S) /\ Len(Tail(Q)) = Len(Q) - 1
      /\ \A i \in 1..Len(Q) - 1 : Tail(Q)[i] = Q[i + 1]
  BY <1>1
<1>3. Pending(Q) \subseteq {Raw(Head(Q))} \cup Pending(Tail(Q))
  <2>1. ASSUME NEW i \in 1..Len(Q), i # 1 PROVE Raw(Q[i]) \in Pending(Tail(Q))
    <3>1. i - 1 \in 1..Len(Tail(Q)) /\ Tail(Q)[i - 1] = Q[i]
      BY <1>1, <1>2, <2>1
    <3> QED BY <3>1 DEF Pending
  <2> QED BY <1>1, <2>1 DEF Pending
<1>4. {Raw(Head(Q))} \cup Pending(Tail(Q)) \subseteq Pending(Q)
  <2>1. ASSUME NEW i \in 1..Len(Tail(Q)) PROVE Raw(Tail(Q)[i]) \in Pending(Q)
    <3>1. i + 1 \in 1..Len(Q) /\ Tail(Q)[i] = Q[i + 1]
      BY <1>1, <1>2
    <3> QED BY <3>1 DEF Pending
  <2>2. Raw(Head(Q)) \in Pending(Q)
    <3>1. 1 \in 1..Len(Q)
      BY <1>1
    <3> QED BY <1>1, <3>1 DEF Pending
  <2> QED BY <2>1, <2>2 DEF Pending
<1>5. Head(Q) \in S
  BY <1>1
<1> QED BY <1>2, <1>3, <1>4, <1>5

\* And adding to it.
LEMMA PushedNine ==
    ASSUME NEW S, NEW Q \in Seq(S), NEW R, R = [i \in 1..9 |-> R[i]], \A i \in 1..9 : R[i] \in S
    PROVE  /\ Q \o R \in Seq(S)
           /\ Pending(Q) \subseteq Pending(Q \o R)
           /\ \A i \in 1..9 : Raw(R[i]) \in Pending(Q \o R)
<1>1. R \in Seq(S) /\ Len(R) = 9
  <2>1. R \in [1..9 -> S]
    <3>1. DOMAIN R = 1..9
      OBVIOUS
    <3> QED BY <3>1
  <2> QED BY <2>1
<1>2. Len(Q) \in Nat
  BY LenProperties
<1>3. /\ Q \o R \in Seq(S) /\ Len(Q \o R) = Len(Q) + 9
      /\ \A i \in 1..Len(Q) : (Q \o R)[i] = Q[i]
      /\ \A i \in 1..9 : (Q \o R)[Len(Q) + i] = R[i]
  BY <1>1, <1>2, ConcatProperties
<1>4. \A i \in 1..Len(Q) : i \in 1..Len(Q \o R)
  BY <1>2, <1>3
<1>5. \A i \in 1..9 : Len(Q) + i \in 1..Len(Q \o R)
  <2>1. \A n \in Nat, m \in Nat : m = n + 9 => \A i \in 1..9 : n + i \in 1..m
    OBVIOUS
  <2>2. Len(Q \o R) \in Nat
    BY <1>2, <1>3
  <2> QED BY <1>2, <1>3, <2>1, <2>2
<1> QED BY <1>3, <1>4, <1>5 DEF Pending

\* What is visited is not forgotten.
LEMMA ExpandedMore ==
    ASSUME NEW P, NEW p, NEW q, NEW s, NEW V, NEW W, V \subseteq W, Expanded(P, p, q, s, V)
    PROVE  Expanded(P, p, q, s, W)
BY DEF Expanded

\* A search begins.
LEMMA FirstFound ==
    ASSUME NEW P, NEW vertex \in Cells, NEW steps \in 0..XY_BITS, Growable(FullVoxel(vertex), steps)
    PROVE  FoundOf(P, <<Grow2D(FullVoxel(vertex), steps)>>, {}, {})
<1>1. PICK p, q, a, b : /\ Shape(p, q) /\ a \in AllColumns(p) /\ a >= 0 /\ b \in AllRows(q)
                        /\ Grow2D(FullVoxel(vertex), steps) = Vox(p, q, a, b)
  BY GrownVox
<1>2. PICK v : v = Grow2D(FullVoxel(vertex), steps)
  OBVIOUS
<1>3. v \in QueuedVoxels(P, p, q)
  BY <1>1, <1>2, EastIsWithin, QueuedIs
<1>4. <<v>> \in Seq(QueuedVoxels(P, p, q)) /\ <<v>> # <<>>
  BY <1>3
<1>5. FoundSoFar(P, p, q, <<v>>, {}, {})
  BY <1>1, <1>4 DEF FoundSoFar
<1> QED BY <1>1, <1>2, <1>4, <1>5 DEF FoundOf, Shape

\* A voxel that was visited is skipped.
LEMMA FoundSkipped ==
    ASSUME NEW P, NEW Q, NEW seen, NEW kept, FoundOf(P, Q, seen, kept), Q # <<>>,
           Raw(Head(Q)) \in seen
    PROVE  FoundOf(P, Tail(Q), seen, kept)
<1>1. PICK p \in 1..X_BITS, q \in 0..Y_BITS : FoundSoFar(P, p, q, Q, seen, kept)
  BY DEF FoundOf
<1>2. /\ Tail(Q) \in Seq(QueuedVoxels(P, p, q))
      /\ Pending(Q) = {Raw(Head(Q))} \cup Pending(Tail(Q))
  <2>1. Q \in Seq(QueuedVoxels(P, p, q))
    BY <1>1 DEF FoundSoFar
  <2> HIDE DEF QueuedVoxels
  <2> QED BY <2>1, Popped
<1>3. seen \cup Pending(Q) \subseteq seen \cup Pending(Tail(Q))
  BY <1>2
<1>4. \A s \in kept : Expanded(P, p, q, s, seen \cup Pending(Tail(Q)))
  BY <1>1, <1>3, ExpandedMore DEF FoundSoFar
<1>5. FoundSoFar(P, p, q, Tail(Q), seen, kept)
  BY <1>1, <1>2, <1>4 DEF FoundSoFar
<1>6. kept # {}
  BY DEF FoundOf
<1> QED BY <1>5, <1>6 DEF FoundOf

\* The head of the queue is a voxel of its column and row.
LEMMA HeadFacts ==
    ASSUME NEW P, P \subseteq Cells, NEW p, NEW q, NEW Q, NEW seen, NEW kept,
           FoundSoFar(P, p, q, Q, seen, kept), Q # <<>>
    PROVE  \E a \in AllColumns(p), b \in AllRows(q) :
              /\ Within(P, p, a) /\ Head(Q) = Vox(p, q, a, b)
              /\ CellsOf(Head(Q)) \cap P # {} <=> Meets(P, p, q, a % TwoTo(p), b)
<1>1. Shape(p, q) /\ Q \in Seq(QueuedVoxels(P, p, q))
  BY DEF FoundSoFar
<1>2. Head(Q) \in QueuedVoxels(P, p, q)
  BY <1>1, Popped
<1>3. PICK a \in AllColumns(p), b \in AllRows(q) : Within(P, p, a) /\ Head(Q) = Vox(p, q, a, b)
  BY <1>2, QueuedIs
<1>4. \A cell \in P : cell \in CellsOf(Head(Q)) <=>
          /\ cell[1] \div TwoTo(X_BITS - p) = a % TwoTo(p)
          /\ cell[2] \div TwoTo(Y_BITS - q) = b
  BY <1>1, <1>3, CellsOfVox
<1>5. CellsOf(Head(Q)) \cap P # {} <=> Meets(P, p, q, a % TwoTo(p), b)
  BY <1>4 DEF Meets
<1> QED BY <1>3, <1>5

\* One that does not meet the polygon is not kept.
LEMMA FoundOutside ==
    ASSUME NEW P, P \subseteq Cells, NEW Q, NEW seen, NEW kept, FoundOf(P, Q, seen, kept),
           Q # <<>>, Raw(Head(Q)) \notin seen, CellsOf(Head(Q)) \cap P = {}, kept # {}
    PROVE  FoundOf(P, Tail(Q), seen \cup {Raw(Head(Q))}, kept)
<1>1. PICK p \in 1..X_BITS, q \in 0..Y_BITS : FoundSoFar(P, p, q, Q, seen, kept)
  BY DEF FoundOf
<1>2. /\ Tail(Q) \in Seq(QueuedVoxels(P, p, q))
      /\ Pending(Q) = {Raw(Head(Q))} \cup Pending(Tail(Q))
  <2>1. Q \in Seq(QueuedVoxels(P, p, q))
    BY <1>1 DEF FoundSoFar
  <2> QED BY <2>1, Popped
<1>3. PICK r : r = Raw(Head(Q))
  OBVIOUS
<1>4. \A s \in kept : Expanded(P, p, q, s, (seen \cup {r}) \cup Pending(Tail(Q)))
  <2>1. seen \cup Pending(Q) \subseteq (seen \cup {r}) \cup Pending(Tail(Q))
    BY <1>2, <1>3
  <2> QED BY <1>1, <2>1, ExpandedMore DEF FoundSoFar
<1>5. LookedAt(P, p, q, r, kept)
  <2>1. r \notin kept
    BY <1>1, <1>3 DEF FoundSoFar
  <2>2. PICK a \in AllColumns(p), b \in AllRows(q) :
              /\ Head(Q) = Vox(p, q, a, b)
              /\ CellsOf(Head(Q)) \cap P # {} <=> Meets(P, p, q, a % TwoTo(p), b)
    BY <1>1, HeadFacts
  <2> QED BY <1>3, <2>1, <2>2 DEF LookedAt
<1>6. FoundSoFar(P, p, q, Tail(Q), seen \cup {r}, kept)
  BY <1>1, <1>2, <1>4, <1>5 DEF FoundSoFar
<1> QED BY <1>3, <1>6 DEF FoundOf

\* One that meets it is, and its neighbours are queued.
LEMMA FoundExpanded ==
    ASSUME NEW P, P \subseteq Cells, NEW Q, NEW seen, NEW kept, FoundOf(P, Q, seen, kept),
           Q # <<>>, Raw(Head(Q)) \notin seen, CellsOf(Head(Q)) \cap P # {}
    PROVE  FoundOf(P, Tail(Q) \o Neighbours(Head(Q)),
                   seen \cup {Raw(Head(Q))}, kept \cup {Raw(Head(Q))})
<1>1. PICK p \in 1..X_BITS, q \in 0..Y_BITS : FoundSoFar(P, p, q, Q, seen, kept)
  BY DEF FoundOf
<1>2. Shape(p, q) /\ Q \in Seq(QueuedVoxels(P, p, q)) /\ kept \subseteq seen
  BY <1>1 DEF FoundSoFar
<1>3. /\ Tail(Q) \in Seq(QueuedVoxels(P, p, q))
      /\ Pending(Q) = {Raw(Head(Q))} \cup Pending(Tail(Q))
  BY <1>2, Popped
<1>4. PICK v, r, R, T : /\ v = Head(Q) /\ r = Raw(v) /\ R = Neighbours(v)
                        /\ T = Tail(Q) \o Neighbours(Head(Q))
  OBVIOUS
<1>5. PICK a \in AllColumns(p), b \in AllRows(q) :
              /\ Within(P, p, a) /\ v = Vox(p, q, a, b)
              /\ Meets(P, p, q, a % TwoTo(p), b)
  BY <1>1, <1>4, HeadFacts
<1>6. ASSUME NEW dx \in {-1, 0, 1}, NEW dy \in {-1, 0, 1}
      PROVE  Neighbour(v, dx, dy) \in QueuedVoxels(P, p, q)
  <2>1. PICK d, y : /\ Arrived(p, q, a, b, dx, dy, d, y) /\ Within(P, p, d) /\ y \in AllRows(q)
                    /\ Neighbour(Vox(p, q, a, b), dx, dy) = Vox(p, q, d, y)
    BY <1>2, <1>5, NeighbourWithin
  <2>2. d \in AllColumns(p)
    BY <2>1 DEF Within
  <2> QED BY <1>5, <2>1, <2>2, QueuedIs
<1>7. /\ R = [i \in 1..9 |-> R[i]] /\ \A i \in 1..9 : R[i] \in QueuedVoxels(P, p, q)
      /\ \A dx \in {-1, 0, 1}, dy \in {-1, 0, 1} : \E i \in 1..9 : R[i] = Neighbour(v, dx, dy)
  <2>1. R = [i \in 1..9 |-> R[i]]
    BY <1>4, NineNeighbours
  <2>2. \A dx \in {-1, 0, 1}, dy \in {-1, 0, 1} : \E i \in 1..9 : R[i] = Neighbour(v, dx, dy)
    BY <1>4, NineNeighbours
  <2>3. ASSUME NEW i \in 1..9 PROVE R[i] \in QueuedVoxels(P, p, q)
    <3>1. PICK dx \in {-1, 0, 1}, dy \in {-1, 0, 1} : R[i] = Neighbour(v, dx, dy)
      BY <1>4, NineNeighbours
    <3> QED BY <1>6, <3>1
  <2> QED BY <2>1, <2>2, <2>3
<1>8. /\ T \in Seq(QueuedVoxels(P, p, q))
      /\ Pending(Tail(Q)) \subseteq Pending(T)
      /\ \A i \in 1..9 : Raw(R[i]) \in Pending(T)
  <2>1. PICK S, U : S = QueuedVoxels(P, p, q) /\ U = Tail(Q)
    OBVIOUS
  <2>2. U \in Seq(S) /\ R = [i \in 1..9 |-> R[i]] /\ \A i \in 1..9 : R[i] \in S
    BY <1>3, <1>7, <2>1
  <2>3. /\ U \o R \in Seq(S) /\ Pending(U) \subseteq Pending(U \o R)
        /\ \A i \in 1..9 : Raw(R[i]) \in Pending(U \o R)
    BY <2>2, PushedNine
  <2> QED BY <1>4, <2>1, <2>3
<1>9. Expanded(P, p, q, r, (seen \cup {r}) \cup Pending(T))
  <2>1. ASSUME NEW dx \in {-1, 0, 1}, NEW dy \in {-1, 0, 1}
        PROVE  Raw(Neighbour(Vox(p, q, a, b), dx, dy)) \in (seen \cup {r}) \cup Pending(T)
    <3>1. PICK i \in 1..9 : R[i] = Neighbour(v, dx, dy)
      BY <1>7
    <3> QED BY <1>5, <1>8, <3>1
  <2> QED BY <1>4, <1>5, <2>1 DEF Expanded
<1>10. \A s \in kept : Expanded(P, p, q, s, (seen \cup {r}) \cup Pending(T))
  <2>1. seen \cup Pending(Q) \subseteq (seen \cup {r}) \cup Pending(T)
    BY <1>3, <1>4, <1>8
  <2> QED BY <1>1, <2>1, ExpandedMore DEF FoundSoFar
<1>11. \A s \in seen \cup {r} : LookedAt(P, p, q, s, kept \cup {r})
  <2>1. LookedAt(P, p, q, r, kept \cup {r})
    BY <1>4, <1>5 DEF LookedAt
  <2>2. ASSUME NEW s \in seen PROVE LookedAt(P, p, q, s, kept \cup {r})
    <3>1. s # r
      BY <1>4
    <3>2. LookedAt(P, p, q, s, kept)
      BY <1>1 DEF FoundSoFar
    <3> QED BY <3>1, <3>2 DEF LookedAt
  <2> QED BY <2>1, <2>2
<1>12. FoundSoFar(P, p, q, T, seen \cup {r}, kept \cup {r})
  BY <1>2, <1>8, <1>9, <1>10, <1>11 DEF FoundSoFar
<1> QED BY <1>4, <1>12 DEF FoundOf

(* In every state of a search: what was visited was looked at, what was     *)
(* found was expanded, and the queue has the rest.                          *)
LEMMA FoundInvariant == Spec => []FoundInv
<1>1. Init => FoundInv
  BY DEF Init, FoundInv, Searched
<1>2. FoundInv /\ [Next]_vars => FoundInv'
  <2> SUFFICES ASSUME FoundInv, [Next]_vars PROVE FoundInv'
    OBVIOUS
  <2>0. ASSUME index \in 1..Len(certificate.polygons) PROVE Polygon \in SUBSET Cells
    <3>1. certificate.polygons \in Seq((SUBSET Cells) \ {{}})
      BY VoxelAssumption DEF VoxelAssumption, FoundInv
    <3> HIDE DEF Cells
    <3>2. Polygon \in (SUBSET Cells) \ {{}}
      BY <2>0, <3>1, ElementOfSeq DEF Polygon
    <3> QED BY <3>2
  <2>00. phase = "search" => Polygon \in SUBSET Cells
    <3>1. phase = "search" => index \in Nat \ {0} /\ index <= Len(certificate.polygons)
      BY DEF FoundInv
    <3>2. certificate.polygons \in Seq((SUBSET Cells) \ {{}})
      BY VoxelAssumption DEF VoxelAssumption, FoundInv
    <3>3. Len(certificate.polygons) \in Nat
      BY <3>2, LenProperties
    <3> QED BY <2>0, <3>1, <3>3
  <2>1. CASE UNCHANGED vars
    BY <2>1 DEF vars, FoundInv, Searched, Polygon, LastPolygon
  <2>2. CASE Start
    <3>1. PICK vertex \in Cells, steps \in 0..XY_BITS : InitialXYBitString(vertex, steps)
      BY <2>2 DEF Start
    <3>2. /\ phase' = "search" /\ certificate' = certificate /\ index' = index
          /\ index <= Len(certificate.polygons)
          /\ queue' = <<Grow2D(FullVoxel(vertex), steps)>> /\ visited' = {} /\ intersecting' = {}
          /\ Growable(FullVoxel(vertex), steps)
      BY <3>1 DEF InitialXYBitString
    <3>3. FoundOf(Polygon', queue', visited', intersecting')
      BY <3>2, FirstFound
    <3> QED BY <3>2, <3>3 DEF FoundInv, Searched
  <2>3. CASE SkipVisited
    <3>1. /\ phase = "search" /\ phase' = "search" /\ certificate' = certificate /\ index' = index
          /\ queue # <<>> /\ queue' = Tail(queue) /\ Raw(Head(queue)) \in visited
          /\ visited' = visited /\ intersecting' = intersecting
      BY <2>3 DEF SkipVisited, Pop
    <3>2. Polygon' = Polygon
      BY <3>1 DEF Polygon
    <3>3. FoundOf(Polygon, Tail(queue), visited, intersecting)
      BY <3>1, FoundSkipped DEF FoundInv
    <3>4. FoundOf(Polygon', queue', visited', intersecting')
      BY <3>1, <3>2, <3>3
    <3> QED BY <3>1, <3>4 DEF FoundInv, Searched
  <2>4. CASE SkipOutside
    <3>1. /\ phase = "search" /\ certificate' = certificate /\ index' = index
          /\ phase' = IF intersecting = {} THEN "failed" ELSE phase
          /\ queue # <<>> /\ queue' = Tail(queue) /\ Raw(Head(queue)) \notin visited
          /\ visited' = visited \cup {Raw(Head(queue))} /\ intersecting' = intersecting
          /\ CellsOf(Head(queue)) \cap Polygon = {}
      BY <2>4 DEF SkipOutside, Pop
    <3>2. CASE intersecting = {}
      BY <3>1, <3>2 DEF FoundInv, Searched
    <3>3. CASE intersecting # {}
      <4>1. Polygon' = Polygon
        BY <3>1 DEF Polygon
      <4>2. FoundOf(Polygon, Tail(queue), visited \cup {Raw(Head(queue))}, intersecting)
        BY <2>00, <3>1, <3>3, FoundOutside DEF FoundInv
      <4>3. FoundOf(Polygon', queue', visited', intersecting')
        BY <3>1, <4>1, <4>2
      <4> QED BY <3>1, <3>3, <4>3 DEF FoundInv, Searched
    <3> QED BY <3>2, <3>3
  <2>5. CASE Expand
    <3>1. /\ phase = "search" /\ phase' = "search" /\ certificate' = certificate /\ index' = index
          /\ queue # <<>> /\ queue' = Tail(queue) \o Neighbours(Head(queue))
          /\ Raw(Head(queue)) \notin visited
          /\ visited' = visited \cup {Raw(Head(queue))}
          /\ intersecting' = intersecting \cup {Raw(Head(queue))}
          /\ CellsOf(Head(queue)) \cap Polygon # {}
      BY <2>5 DEF Expand
    <3>2. Polygon' = Polygon
      BY <3>1 DEF Polygon
    <3>3. FoundOf(Polygon, Tail(queue) \o Neighbours(Head(queue)),
                  visited \cup {Raw(Head(queue))}, intersecting \cup {Raw(Head(queue))})
      BY <2>00, <3>1, FoundExpanded DEF FoundInv
    <3>4. FoundOf(Polygon', queue', visited', intersecting')
      BY <3>1, <3>2, <3>3
    <3> QED BY <3>1, <3>4 DEF FoundInv, Searched
  <2>6. CASE NextPolygon
    <3>1. /\ phase = "search" /\ phase' = "initial" /\ certificate' = certificate /\ index' = index + 1
          /\ queue = <<>> /\ visited' = visited /\ intersecting' = intersecting
      BY <2>6 DEF NextPolygon
    <3>2. index \in Nat \ {0} /\ index <= Len(certificate.polygons)
          /\ FoundOf(Polygon, <<>>, visited, intersecting)
      BY <3>1 DEF FoundInv
    <3>3. LastPolygon' = Polygon /\ index' - 1 = index
      BY <3>1, <3>2 DEF LastPolygon, Polygon
    <3>4. FoundOf(LastPolygon', <<>>, visited', intersecting')
      BY <3>1, <3>2, <3>3
    <3>5. certificate' \in Certificates /\ index' \in Nat \ {0}
      BY <3>1, <3>2 DEF FoundInv
    <3> QED BY <3>1, <3>2, <3>3, <3>4, <3>5 DEF FoundInv
  <2>7. CASE ExtrudedPolygonsToBitStringPairs
    <3>1. phase' \in {"done", "refused"} /\ certificate' = certificate /\ index' = index
      BY <2>7 DEF ExtrudedPolygonsToBitStringPairs
    <3> QED BY <3>1 DEF FoundInv, Searched
  <2>8. CASE GeometryFails
    <3>1. phase' = "failed" /\ certificate' = certificate /\ index' = index
      BY <2>8 DEF GeometryFails
    <3> QED BY <3>1 DEF FoundInv, Searched
  <2> QED BY <2>1, <2>2, <2>3, <2>4, <2>5, <2>6, <2>7, <2>8 DEF Next, Search
<1> QED BY <1>1, <1>2, PTL DEF Spec

---------------------------------------------------------------------------
(* Polygons are covered *)

\* The recursive function in Connected, step by step.
ReachedAt(R, P, links, n) ==
    IF n = 0 THEN {CHOOSE c \in P : TRUE}
    ELSE R[n - 1] \cup {d \in P : \E c \in R[n - 1] : <<c, d>> \in links}
Reaches(R, P, links, n) == R = [k \in 0..n |-> ReachedAt(R, P, links, k)]

\* The sets of cells that links lead to in so many steps.
LEMMA ReachedExists ==
    ASSUME NEW P, NEW links, NEW n \in Nat
    PROVE  \E R : Reaches(R, P, links, n)
<1> DEFINE T == {m \in 0..n : \E R : R = [k \in 0..m |-> ReachedAt(R, P, links, k)]}
<1>1. 0 \in T
  <2> DEFINE R == [k \in 0..0 |-> {CHOOSE c \in P : TRUE}]
  <2>1. \A k \in 0..0 : ReachedAt(R, P, links, k) = {CHOOSE c \in P : TRUE}
    BY DEF ReachedAt
  <2>2. R = [k \in 0..0 |-> ReachedAt(R, P, links, k)]
    <3> HIDE DEF R
    <3>1. R = [k \in 0..0 |-> {CHOOSE c \in P : TRUE}]
      BY DEF R
    <3> QED BY <2>1, <3>1
  <2> HIDE DEF R
  <2> QED BY <2>2
<1>2. ASSUME NEW m \in 0..n - 1, m \in T PROVE m + 1 \in T
  <2>1. PICK R : R = [k \in 0..m |-> ReachedAt(R, P, links, k)]
    BY <1>2
  <2> DEFINE W == [k \in 0..m + 1 |-> IF k \in 0..m THEN R[k] ELSE ReachedAt(R, P, links, k)]
  <2>2. ASSUME NEW k \in 0..m + 1 PROVE W[k] = ReachedAt(W, P, links, k)
    <3>1. W[k] = ReachedAt(R, P, links, k)
      <4>1. k \in 0..m => R[k] = ReachedAt(R, P, links, k)
        BY <2>1
      <4> QED BY <4>1
    <3>2. k # 0 => W[k - 1] = R[k - 1]
      <4>1. k # 0 => k - 1 \in 0..m /\ k - 1 \in 0..m + 1
        OBVIOUS
      <4> QED BY <4>1
    <3> HIDE DEF W
    <3> QED BY <3>1, <3>2 DEF ReachedAt
  <2>3. W = [k \in 0..m + 1 |-> ReachedAt(W, P, links, k)]
    <3> DEFINE G == [k \in 0..m + 1 |-> ReachedAt(W, P, links, k)]
    <3>1. \A k \in 0..m + 1 : W[k] = G[k]
      <4> HIDE DEF W
      <4> QED BY <2>2
    <3>2. W = [k \in 0..m + 1 |-> W[k]] /\ G = [k \in 0..m + 1 |-> G[k]]
      OBVIOUS
    <3> HIDE DEF W, G
    <3>3. W = G
      BY <3>1, <3>2
    <3> QED BY <3>3 DEF G
  <2>4. m + 1 \in 0..n
    OBVIOUS
  <2> HIDE DEF W
  <2> QED BY <2>3, <2>4
<1> HIDE DEF T
<1>3. n \in T
  <2>1. n \in 0..n
    OBVIOUS
  <2> QED BY <1>1, <1>2, <2>1, Upwards
<1> QED BY <1>3 DEF T, Reaches

\* All cells of a connected polygon are among the last.
LEMMA ConnectedUnfolded ==
    ASSUME NEW P, NEW links, NEW n \in Nat, n = Cardinality(P), Connected(P, links)
    PROVE  \E R : Reaches(R, P, links, n) /\ R[n] = P
<1>1. PICK R : R = [k \in 0..n |-> ReachedAt(R, P, links, k)]
  <2>1. \E R : Reaches(R, P, links, n)
    BY ReachedExists
  <2> QED BY <2>1 DEF Reaches
<1>2. \E W : W = [k \in 0..n |-> ReachedAt(W, P, links, k)] /\ W[n] = P
  BY <1>1 DEF Connected, ReachedAt
<1> QED BY <1>2 DEF Reaches

\* Links that lead out of no part of P but the whole.
LEMMA ConnectedWhole ==
    ASSUME NEW P, IsFiniteSet(P), NEW links, Connected(P, links),
           \A c \in P, d \in P : <<c, d>> \in links => <<d, c>> \in links,
           NEW A \in SUBSET P, A # {},
           \A c \in A, d \in P : <<c, d>> \in links => d \in A
    PROVE  A = P
<1>1. PICK n, start : n = Cardinality(P) /\ start = CHOOSE c \in P : TRUE
  OBVIOUS
<1>2. n \in Nat
  BY <1>1, FS_CardinalityType
<1>3. PICK R : Reaches(R, P, links, n) /\ R[n] = P
  BY <1>1, <1>2, ConnectedUnfolded
<1>4. ASSUME NEW B \in SUBSET P, start \in B,
             \A c \in B, d \in P : <<c, d>> \in links => d \in B
      PROVE  B = P
  <2> DEFINE T == {m \in 0..n : R[m] \subseteq B}
  <2>0. \A m \in 0..n : R[m] = ReachedAt(R, P, links, m)
    BY <1>3 DEF Reaches
  <2>1. 0 \in T
    <3>1. 0 \in 0..n
      BY <1>2
    <3>2. R[0] = {start}
      BY <1>1, <2>0, <3>1 DEF ReachedAt
    <3> QED BY <1>4, <3>1, <3>2
  <2>2. ASSUME NEW m \in 0..n - 1, m \in T PROVE m + 1 \in T
    <3>1. m + 1 \in 0..n /\ m + 1 # 0 /\ (m + 1) - 1 = m /\ R[m] \subseteq B
      BY <1>2, <2>2
    <3>2. R[m + 1] = R[m] \cup {d \in P : \E c \in R[m] : <<c, d>> \in links}
      <4>1. R[m + 1] = ReachedAt(R, P, links, m + 1)
        BY <2>0, <3>1
      <4>2. PICK k : k = m + 1
        OBVIOUS
      <4>3. R[k] = ReachedAt(R, P, links, k) /\ k # 0 /\ k - 1 = m
        BY <3>1, <4>1, <4>2
      <4> QED BY <4>2, <4>3 DEF ReachedAt
    <3>3. R[m + 1] \subseteq B
      BY <1>4, <3>1, <3>2
    <3> QED BY <3>1, <3>3
  <2> HIDE DEF T
  <2>3. n \in T
    <3>1. n \in 0..n
      BY <1>2
    <3> QED BY <1>2, <2>1, <2>2, <3>1, Upwards
  <2> QED BY <1>3, <2>3 DEF T
<1>5. start \in P
  BY <1>1
<1>6. CASE start \in A
  BY <1>4, <1>6
<1>7. CASE start \notin A
  <2>1. \A c \in P \ A, d \in P : <<c, d>> \in links => d \in P \ A
    OBVIOUS
  <2>2. P \ A = P
    BY <1>4, <1>5, <1>7, <2>1
  <2> QED BY <2>2
<1> QED BY <1>6, <1>7

\* Voxels of one search have different strings.
LEMMA SameVoxel ==
    ASSUME NEW p, NEW q, Shape(p, q), NEW c \in 0..TwoTo(p) - 1, NEW b \in AllRows(q),
           NEW d \in 0..TwoTo(p) - 1, NEW y \in AllRows(q),
           Raw(Vox(p, q, c, b)) = Raw(Vox(p, q, d, y))
    PROVE  c = d /\ b = y
<1>1. PICK s, t, k, l : s = TwoTo(X_BITS - p) /\ t = TwoTo(Y_BITS - q) /\ k = TwoTo(p) /\ l = TwoTo(q)
  OBVIOUS
<1>2. s \in Nat \ {0} /\ t \in Nat \ {0} /\ k \in Nat /\ k >= 2 /\ l \in Nat \ {0}
      /\ c \in 0..k - 1 /\ d \in 0..k - 1 /\ b \in 0..l - 1 /\ y \in 0..l - 1
  BY <1>1, ShapeNumbers DEF AllRows
<1>3. Vox(p, q, c, b) = Vox(p, q, d, y)
  BY StringOfVox
<1>4. ASSUME NEW i \in 0..k - 1 PROVE Unsigned(i * s) = i * s
  <2>1. i \in AllColumns(p) /\ i \in Int /\ 0 <= i /\ i < k /\ k \in Nat \ {0}
    BY <1>1, <1>2 DEF AllColumns
  <2>2. i % k = i
    BY <2>1, ModSmall
  <2> QED BY <1>1, <2>1, <2>2, ColumnOnCircle
<1>5. c * s = d * s /\ b * t = y * t
  BY <1>1, <1>2, <1>3, <1>4 DEF Vox
<1>6. \A i \in Nat, j \in Nat, n \in Nat \ {0} : i * n = j * n => i = j
  OBVIOUS
<1> QED BY <1>2, <1>5, <1>6

\* Links go both ways.
LEMMA LinksBack ==
    ASSUME NEW P, P \subseteq Cells, NEW width
    PROVE  /\ \A c \in P, d \in P : <<c, d>> \in Links(P) => <<d, c>> \in Links(P)
           /\ \A c \in P, d \in P : <<c, d>> \in LinksUncut(P, width) => <<d, c>> \in LinksUncut(P, width)
<1>1. ASSUME NEW c \in P, NEW d \in P, <<c, d>> \in Links(P) PROVE <<d, c>> \in Links(P)
  <2>1. PICK n, i, j : n = C_X + 1 /\ i = c[1] - d[1] /\ j = d[1] - c[1]
    OBVIOUS
  <2>2. /\ n \in Nat \ {0} /\ C_X = n - 1 /\ i \in (1 - n)..n - 1 /\ j = 0 - i
        /\ c[2] \in Int /\ d[2] \in Int
    <3>1. c[1] \in 0..C_X /\ d[1] \in 0..C_X /\ c[2] \in 0..C_Y /\ d[2] \in 0..C_Y
      BY DEF Cells
    <3> QED BY <2>1, <3>1, GridNumbers
  <2>3. i % n \in {0, 1, n - 1} /\ c[2] - d[2] \in -1..1
    BY <1>1, <2>1, <2>2 DEF Links
  <2>4. \A u \in (1 - n)..n - 1 : u % n = IF u >= 0 THEN u ELSE u + n
    <3>1. \A u \in Int : /\ 0 <= u /\ u < n => u % n = u
                         /\ 0 - n <= u /\ u < 0 => u % n = u + n
      BY <2>2, ModSmall
    <3> QED BY <2>2, <3>1
  <2>5. j % n \in {0, 1, n - 1}
    <3>1. j \in (1 - n)..n - 1
      BY <2>2
    <3>2. j % n = (IF j >= 0 THEN j ELSE j + n) /\ i % n = (IF i >= 0 THEN i ELSE i + n)
      BY <2>2, <2>4, <3>1
    <3> QED BY <2>2, <2>3, <3>1, <3>2
  <2>6. d[2] - c[2] \in -1..1
    BY <2>2, <2>3
  <2> QED BY <2>1, <2>2, <2>5, <2>6 DEF Links
<1>2. ASSUME NEW c \in P, NEW d \in P, <<c, d>> \in LinksUncut(P, width)
      PROVE  <<d, c>> \in LinksUncut(P, width)
  <2>1. <<d, c>> \in Links(P)
    BY <1>1, <1>2 DEF LinksUncut
  <2>2. {d[1] \div width, c[1] \div width} = {c[1] \div width, d[1] \div width}
    OBVIOUS
  <2> QED BY <1>2, <2>1, <2>2 DEF LinksUncut
<1> QED BY <1>1, <1>2

\* A link leads to the same or the next column and row of voxels.
LEMMA LinkDirection ==
    ASSUME NEW p, NEW q, Shape(p, q), NEW P, P \subseteq Cells, NEW c \in P, NEW d \in P,
           <<c, d>> \in Links(P)
    PROVE  /\ \E dx \in {-1, 0, 1} :
                 d[1] \div TwoTo(X_BITS - p) = ((c[1] \div TwoTo(X_BITS - p)) + dx) % TwoTo(p)
           /\ \E dy \in {-1, 0, 1} :
                 d[2] \div TwoTo(Y_BITS - q) = (c[2] \div TwoTo(Y_BITS - q)) + dy
<1>1. PICK s, t, k, cx, cy, ex, ey :
        /\ s = TwoTo(X_BITS - p) /\ t = TwoTo(Y_BITS - q) /\ k = TwoTo(p)
        /\ cx = c[1] /\ cy = c[2] /\ ex = d[1] /\ ey = d[2]
  OBVIOUS
<1>2. /\ s \in Nat \ {0} /\ t \in Nat \ {0} /\ k \in Nat /\ k >= 2 /\ C_X + 1 = k * s /\ C_X \in Nat
      /\ cx \in 0..C_X /\ ex \in 0..C_X /\ cy \in Nat /\ ey \in Nat
  <2>1. cx \in 0..C_X /\ ex \in 0..C_X /\ cy \in 0..C_Y /\ ey \in 0..C_Y
    BY <1>1 DEF Cells
  <2> QED BY <1>1, <2>1, ShapeNumbers, GridNumbers
<1>3. (cx - ex) % (C_X + 1) \in {0, 1, C_X} /\ cy - ey \in -1..1
  BY <1>1 DEF Links
\* One step moves by no more than one voxel.
<1>4. ASSUME NEW n \in Nat \ {0}, NEW x \in Nat, NEW e \in Nat, NEW u \in Int, NEW w \in Int,
             e - x \in -1..1, u = x \div n, w = e \div n
      PROVE  w - u \in -1..1
  <2>1. x % n \in 0..n - 1 /\ x = u * n + (x % n)
    BY <1>4, DivExists
  <2>2. e % n \in 0..n - 1 /\ e = w * n + (e % n)
    BY <1>4, DivExists
  <2>3. \A i \in Int, j \in Int, f \in 0..n - 1, g \in 0..n - 1 :
            (j * n + g) - (i * n + f) \in -1..1 => j - i \in -1..1
    <3>1. ASSUME NEW i \in Int, NEW j \in Int, NEW f \in 0..n - 1, NEW g \in 0..n - 1,
                 (j * n + g) - (i * n + f) \in -1..1
          PROVE  j - i \in -1..1
      <4>1. PICK h : h = j - i
        OBVIOUS
      <4>2. h \in Int /\ h * n = j * n - i * n /\ j * n \in Int /\ i * n \in Int
        BY <4>1
      <4>3. h * n <= n /\ h * n >= 0 - n
        BY <3>1, <4>2
      <4>4. h >= 2 => h * n >= 2 * n
        BY <4>2
      <4>5. h <= -2 => h * n <= 0 - (2 * n)
        BY <4>2
      <4> QED BY <4>1, <4>2, <4>3, <4>4, <4>5
    <3> QED BY <3>1
  <2> QED BY <1>4, <2>1, <2>2, <2>3
<1>5. PICK cc, cb, dc, db : cc = cx \div s /\ cb = cy \div t /\ dc = ex \div s /\ db = ey \div t
  OBVIOUS
<1>6. cc \in 0..k - 1 /\ dc \in 0..k - 1 /\ cb \in Int /\ db \in Int
  <2>1. ASSUME NEW x \in 0..C_X PROVE x \div s \in 0..k - 1
    <3>1. x \in Int /\ x < k * s /\ x >= 0
      BY <1>2
    <3>2. x \div s \in Int /\ x % s \in 0..s - 1 /\ x = (x \div s) * s + (x % s)
      BY <1>2, <3>1, DivExists
    <3>3. PICK y : y = x \div s
      OBVIOUS
    <3>4. y >= k => y * s >= k * s
      BY <1>2, <3>2, <3>3
    <3>5. y <= -1 => y * s <= 0 - s
      BY <1>2, <3>2, <3>3
    <3>6. y * s \in Int /\ k * s \in Int /\ y * s <= x /\ y * s > x - s
      BY <1>2, <3>1, <3>2, <3>3
    <3> QED BY <1>2, <3>1, <3>2, <3>3, <3>4, <3>5, <3>6
  <2>2. cy \div t \in Int /\ ey \div t \in Int
    BY <1>2
  <2> QED BY <1>2, <1>5, <2>1, <2>2
<1>7. db - cb \in -1..1
  <2>1. ey - cy \in -1..1
    BY <1>2, <1>3
  <2> QED BY <1>2, <1>4, <1>5, <1>6, <2>1
<1>8. \E dy \in {-1, 0, 1} : db = cb + dy
  <2>1. db - cb \in {-1, 0, 1} /\ db = cb + (db - cb)
    BY <1>6, <1>7
  <2> QED BY <2>1
<1>9. \A u \in (0 - k)..k : u % k = IF u >= 0 THEN IF u = k THEN 0 ELSE u ELSE u + k
  <2>1. \A u \in Int : /\ 0 <= u /\ u < k => u % k = u
                       /\ 0 - k <= u /\ u < 0 => u % k = u + k
    BY <1>2, ModSmall
  <2>2. k % k = 0
    BY <1>2
  <2> QED BY <1>2, <2>1, <2>2
<1>10. \E dx \in {-1, 0, 1} : dc = (cc + dx) % k
  <2>1. CASE ex - cx \in -1..1
    <3>1. dc - cc \in -1..1
      BY <1>2, <1>4, <1>5, <1>6, <2>1
    <3>2. PICK dx \in {-1, 0, 1} : dx = dc - cc
      BY <1>6, <3>1
    <3>3. cc + dx = dc /\ dc \in (0 - k)..k /\ dc >= 0 /\ dc # k
      BY <1>2, <1>6, <3>2
    <3> QED BY <1>9, <3>3
  <2>2. CASE cx = C_X /\ ex = 0
    <3>1. cc = k - 1 /\ dc = 0
      <4>1. C_X = (k - 1) * s + (s - 1) /\ 0 = 0 * s + 0 /\ s - 1 \in 0..s - 1 /\ 0 \in 0..s - 1
            /\ k - 1 \in Int /\ C_X \in Int
        BY <1>2
      <4>2. C_X \div s = k - 1
        BY <1>2, <4>1, DivUnique
      <4>3. 0 \div s = 0
        BY <1>2, <4>1, DivUnique
      <4> QED BY <1>5, <2>2, <4>2, <4>3
    <3>2. (cc + 1) % k = 0
      BY <1>2, <1>9, <3>1
    <3> QED BY <3>1, <3>2
  <2>3. CASE cx = 0 /\ ex = C_X
    <3>1. cc = 0 /\ dc = k - 1
      <4>1. C_X = (k - 1) * s + (s - 1) /\ 0 = 0 * s + 0 /\ s - 1 \in 0..s - 1 /\ 0 \in 0..s - 1
            /\ k - 1 \in Int /\ C_X \in Int
        BY <1>2
      <4>2. C_X \div s = k - 1
        BY <1>2, <4>1, DivUnique
      <4>3. 0 \div s = 0
        BY <1>2, <4>1, DivUnique
      <4> QED BY <1>5, <2>3, <4>2, <4>3
    <3>2. (cc + (-1)) % k = k - 1
      BY <1>2, <1>9, <3>1
    <3> QED BY <3>1, <3>2
  <2>4. ex - cx \in -1..1 \/ (cx = C_X /\ ex = 0) \/ (cx = 0 /\ ex = C_X)
    <3>1. PICK n, u : n = C_X + 1 /\ u = cx - ex
      OBVIOUS
    <3>2. n \in Nat \ {0} /\ u \in Int /\ u \in (1 - n)..n - 1 /\ u % n \in {0, 1, n - 1}
      BY <1>2, <1>3, <3>1
    <3>3. u % n = IF u >= 0 THEN u ELSE u + n
      <4>1. CASE u >= 0
        <5>1. 0 <= u /\ u < n
          BY <3>2, <4>1
        <5> QED BY <3>2, <4>1, <5>1, ModSmall
      <4>2. CASE ~(u >= 0)
        <5>1. 0 - n <= u /\ u < 0
          BY <3>2, <4>2
        <5> QED BY <3>2, <4>2, <5>1, ModSmall
      <4> QED BY <4>1, <4>2
    <3> QED BY <1>2, <3>1, <3>2, <3>3
  <2> QED BY <2>1, <2>2, <2>3, <2>4
<1> QED BY <1>1, <1>5, <1>8, <1>10

\* What was found: the cells whose voxel's string was kept.
FoundCells(P, p, q, kept) ==
    {cell \in P : Raw(Vox(p, q, cell[1] \div TwoTo(X_BITS - p), cell[2] \div TwoTo(Y_BITS - q))) \in kept}

\* A string that was kept is that of a voxel from where the search went on.
LEMMA KeptFacts ==
    ASSUME NEW P, NEW p, NEW q, NEW seen, NEW kept, FoundSoFar(P, p, q, <<>>, seen, kept),
           NEW s \in kept
    PROVE  \E a \in AllColumns(p), b \in AllRows(q) :
              /\ Within(P, p, a) /\ a % TwoTo(p) \in 0..TwoTo(p) - 1
              /\ s = Raw(Vox(p, q, a % TwoTo(p), b))
              /\ Meets(P, p, q, a % TwoTo(p), b)
              /\ \A dx \in {-1, 0, 1}, dy \in {-1, 0, 1} : Raw(Neighbour(Vox(p, q, a, b), dx, dy)) \in seen
<1>1. Shape(p, q) /\ s \in seen
  BY DEF FoundSoFar
<1>2. Pending(<<>>) = {}
  BY EmptySeq DEF Pending
<1>3. Expanded(P, p, q, s, seen)
  <2>1. seen \cup Pending(<<>>) = seen
    BY <1>2
  <2> QED BY <2>1 DEF FoundSoFar
<1>4. PICK a \in {c \in AllColumns(p) : Within(P, p, c)}, b \in AllRows(q) :
        /\ s = Raw(Vox(p, q, a, b))
        /\ \A dx \in {-1, 0, 1}, dy \in {-1, 0, 1} : Raw(Neighbour(Vox(p, q, a, b), dx, dy)) \in seen
  BY <1>3 DEF Expanded
<1>5. LookedAt(P, p, q, s, kept)
  BY <1>1 DEF FoundSoFar
<1>6. PICK e \in AllColumns(p), y \in AllRows(q) :
        s = Raw(Vox(p, q, e, y)) /\ Meets(P, p, q, e % TwoTo(p), y)
  BY <1>5 DEF LookedAt
<1>7. /\ a % TwoTo(p) \in 0..TwoTo(p) - 1 /\ e % TwoTo(p) \in 0..TwoTo(p) - 1
  BY <1>1, ColumnOnCircle
<1>8. /\ s = Raw(Vox(p, q, a % TwoTo(p), b)) /\ s = Raw(Vox(p, q, e % TwoTo(p), y))
  BY <1>1, <1>4, <1>6, RawOfVox
<1>9. a % TwoTo(p) = e % TwoTo(p) /\ b = y
  BY <1>1, <1>7, <1>8, SameVoxel
<1> QED BY <1>4, <1>6, <1>7, <1>8, <1>9

\* The voxel of a cell.
LEMMA VoxelOfCell ==
    ASSUME NEW p, NEW q, Shape(p, q), NEW cell \in Cells
    PROVE  /\ cell[1] \div TwoTo(X_BITS - p) \in 0..TwoTo(p) - 1
           /\ cell[2] \div TwoTo(Y_BITS - q) \in AllRows(q)
<1>1. PICK s, t, k, l : s = TwoTo(X_BITS - p) /\ t = TwoTo(Y_BITS - q) /\ k = TwoTo(p) /\ l = TwoTo(q)
  OBVIOUS
<1>2. s \in Nat \ {0} /\ t \in Nat \ {0} /\ k \in Nat /\ l \in Nat
      /\ C_X + 1 = k * s /\ C_Y + 1 = l * t /\ C_X \in Nat /\ C_Y \in Nat
  BY <1>1, ShapeNumbers, GridNumbers
<1>3. ASSUME NEW n \in Nat, NEW u \in Nat \ {0}, NEW x \in Nat, x < n * u PROVE x \div u \in 0..n - 1
  <2>1. x \div u \in Int /\ x % u \in 0..u - 1 /\ x = (x \div u) * u + (x % u)
    BY DivExists
  <2>2. PICK y : y = x \div u
    OBVIOUS
  <2>3. y >= n => y * u >= n * u
    BY <2>1, <2>2
  <2>4. y <= -1 => y * u <= 0 - u
    BY <2>1, <2>2
  <2>5. y * u \in Int /\ n * u \in Int /\ y * u <= x /\ y * u > x - u
    BY <2>1, <2>2
  <2> QED BY <1>3, <2>1, <2>2, <2>3, <2>4, <2>5
<1>4. cell[1] \in Nat /\ cell[1] < k * s /\ cell[2] \in Nat /\ cell[2] < l * t
  <2>1. cell[1] \in 0..C_X /\ cell[2] \in 0..C_Y
    BY DEF Cells
  <2> QED BY <1>2, <2>1
<1> QED BY <1>1, <1>2, <1>3, <1>4 DEF AllRows

\* The string that is kept for a cell, from a voxel in its column and row that
\* was looked at.
LEMMA KeptForCell ==
    ASSUME NEW P, P \subseteq Cells, NEW p, NEW q, NEW seen, NEW kept,
           FoundSoFar(P, p, q, <<>>, seen, kept),
           NEW cell \in P, NEW d \in AllColumns(p), NEW y \in AllRows(q),
           Raw(Vox(p, q, d, y)) \in seen,
           d % TwoTo(p) = cell[1] \div TwoTo(X_BITS - p), y = cell[2] \div TwoTo(Y_BITS - q)
    PROVE  cell \in FoundCells(P, p, q, kept)
<1>1. PICK s, c : s = Raw(Vox(p, q, d, y)) /\ c = d % TwoTo(p)
  OBVIOUS
<1>2. Shape(p, q) /\ LookedAt(P, p, q, s, kept)
  BY <1>1 DEF FoundSoFar
<1>3. PICK e \in AllColumns(p), z \in AllRows(q) :
        s = Raw(Vox(p, q, e, z)) /\ (s \in kept <=> Meets(P, p, q, e % TwoTo(p), z))
  BY <1>2 DEF LookedAt
<1>4. c \in 0..TwoTo(p) - 1 /\ e % TwoTo(p) \in 0..TwoTo(p) - 1
  BY <1>1, <1>2, ColumnOnCircle
<1>5. s = Raw(Vox(p, q, c, y)) /\ s = Raw(Vox(p, q, e % TwoTo(p), z))
  BY <1>1, <1>2, <1>3, RawOfVox
<1>6. e % TwoTo(p) = c /\ z = y
  BY <1>2, <1>4, <1>5, SameVoxel
<1>7. Meets(P, p, q, c, y)
  BY <1>1 DEF Meets
<1>8. s \in kept
  BY <1>3, <1>6, <1>7
<1> QED BY <1>1, <1>5, <1>8 DEF FoundCells

\* The cases in which the search finds every link's other end.
LEMMA FollowsLink ==
    ASSUME NEW P, P \subseteq Cells, NEW p, NEW q, NEW seen, NEW kept,
           FoundSoFar(P, p, q, <<>>, seen, kept),
           \A cell \in P : /\ ~(cell[2] = C_Y /\ TwoTo(Y_BITS - q) = 1)
                           /\ ~(cell[1] \in {0, C_X} /\ TwoTo(X_BITS - p) = 1),
           NEW c \in FoundCells(P, p, q, kept), NEW d \in P, <<c, d>> \in Links(P),
           \/ \E x \in 0..C_X : x \div TwoTo(X_BITS - p) \notin Columns(P, TwoTo(X_BITS - p))
           \/ <<c, d>> \in LinksUncut(P, TwoTo(X_BITS - p))
    PROVE  d \in FoundCells(P, p, q, kept)
<1>1. PICK s, t, k, l, h, cc, cb, dc, db :
        /\ s = TwoTo(X_BITS - p) /\ t = TwoTo(Y_BITS - q) /\ k = TwoTo(p) /\ l = TwoTo(q)
        /\ h = TwoTo(p - 1)
        /\ cc = c[1] \div s /\ cb = c[2] \div t /\ dc = d[1] \div s /\ db = d[2] \div t
  OBVIOUS
<1>2. Shape(p, q) /\ c \in P
  BY DEF FoundSoFar, FoundCells
<1>3. /\ s \in Nat \ {0} /\ t \in Nat \ {0} /\ k \in Nat /\ k >= 2 /\ l \in Nat \ {0}
      /\ k = 2 * h /\ h \in Nat \ {0}
      /\ C_X + 1 = k * s /\ C_Y + 1 = l * t /\ C_X \in Nat /\ C_Y \in Nat
  BY <1>1, <1>2, ShapeNumbers, GridNumbers
<1>4. cc \in 0..k - 1 /\ dc \in 0..k - 1 /\ cb \in 0..l - 1 /\ db \in 0..l - 1
  <2>1. c \in Cells /\ d \in Cells
    BY <1>2
  <2> QED BY <1>1, <1>2, <2>1, VoxelOfCell DEF AllRows
<1>5. PICK a \in AllColumns(p), b \in AllRows(q) :
              /\ Within(P, p, a) /\ a % k \in 0..k - 1
              /\ Raw(Vox(p, q, cc, cb)) = Raw(Vox(p, q, a % k, b))
              /\ \A dx \in {-1, 0, 1}, dy \in {-1, 0, 1} : Raw(Neighbour(Vox(p, q, a, b), dx, dy)) \in seen
  <2>1. Raw(Vox(p, q, cc, cb)) \in kept
    BY <1>1 DEF FoundCells
  <2> QED BY <1>1, <2>1, KeptFacts
<1>6. cc = a % k /\ cb = b
  <2>1. cb \in AllRows(q)
    BY <1>1, <1>4 DEF AllRows
  <2> QED BY <1>1, <1>2, <1>4, <1>5, <2>1, SameVoxel
<1>7. a \in (1 - k)..k - 1 /\ a % k = IF a >= 0 THEN a ELSE a + k
  <2>1. a \in (1 - k)..k - 1
    BY <1>1 DEF AllColumns
  <2>2. k \in Nat \ {0}
    BY <1>3
  <2>3. \A u \in Int : /\ 0 <= u /\ u < k => u % k = u
                       /\ 0 - k <= u /\ u < 0 => u % k = u + k
    BY <2>2, ModSmall
  <2>4. PICK r : r = a % k
    OBVIOUS
  <2>5. /\ 0 <= a /\ a < k => r = a
        /\ 0 - k <= a /\ a < 0 => r = a + k
    BY <2>1, <2>3, <2>4
  <2>6. r = IF a >= 0 THEN a ELSE a + k
    BY <2>1, <2>2, <2>5
  <2> QED BY <2>1, <2>4, <2>6
<1>8. \A u \in (0 - k)..k : u % k = IF u >= 0 THEN IF u = k THEN 0 ELSE u ELSE u + k
  <2>1. k \in Nat \ {0}
    BY <1>3
  <2>2. \A u \in Int : /\ 0 <= u /\ u < k => u % k = u
                       /\ 0 - k <= u /\ u < 0 => u % k = u + k
    BY <2>1, ModSmall
  <2>3. k % k = 0
    BY <2>1
  <2> TAKE u \in (0 - k)..k
  <2>4. PICK r : r = u % k
    OBVIOUS
  <2>5. u \in Int
    BY <2>1
  <2>6. /\ 0 <= u /\ u < k => r = u
        /\ 0 - k <= u /\ u < 0 => r = u + k
        /\ u = k => r = 0
    BY <2>2, <2>3, <2>4, <2>5
  <2>7. 0 - k <= u /\ u <= k
    BY <2>1
  <2>8. r = IF u >= 0 THEN IF u = k THEN 0 ELSE u ELSE u + k
    BY <2>1, <2>5, <2>6, <2>7
  <2> QED BY <2>4, <2>8
<1>9. /\ \E dx \in {-1, 0, 1} : dc = (cc + dx) % k
      /\ \E dy \in {-1, 0, 1} : db = cb + dy
  BY <1>1, <1>2, LinkDirection
<1>10. PICK dy \in {-1, 0, 1} : db = cb + dy
  BY <1>9
<1>11. b + dy \in AllRows(q) /\ (t >= 2 \/ b + dy # l - 1)
  <2>1. b + dy = db
    BY <1>6, <1>10
  <2>2. ASSUME t = 1 PROVE db # l - 1
    <3>1. PICK ey : ey = d[2]
      OBVIOUS
    <3>2. ey \in 0..C_Y
      BY <3>1 DEF Cells
    <3>3. ey \div 1 = ey /\ l * 1 = l
      BY <1>3, <3>2
    <3>4. db = ey /\ l = C_Y + 1
      BY <1>1, <1>3, <2>2, <3>1, <3>3
    <3>5. ey # C_Y
      BY <1>1, <2>2, <3>1
    <3> QED BY <1>3, <3>2, <3>4, <3>5
  <2>3. t = 1 \/ t >= 2
    BY <1>3
  <2> QED BY <1>1, <1>4, <2>1, <2>2, <2>3 DEF AllRows
\* A direction in which the next column is found.
<1>12. \E dx \in {-1, 0, 1} : /\ dc = (a + dx) % k
                              /\ a + dx \in (0 - k)..k
                              /\ s >= 2 => a + dx # 0 - k
                              /\ s = 1 => 1 - k < a + dx /\ a + dx < k - 1
  <2>1. PICK dx \in {-1, 0, 1} : dc = (cc + dx) % k
    BY <1>9
  <2>2. dx \in Int /\ a + dx \in (0 - k)..k /\ a \in Int /\ k \in Nat \ {0}
    BY <1>3, <1>7
  <2>3. (a + dx) % k = dc
    <3>1. cc = a \/ (cc = a + k /\ a < 0)
      BY <1>6, <1>7
    <3>2. ((a + dx) + 1 * k) % k = (a + dx) % k
      <4>1. a + dx \in Int /\ 1 \in Int
        BY <2>2
      <4> QED BY <2>2, <4>1, DivShift
    <3>3. (a + k) + dx = (a + dx) + 1 * k
      BY <2>2
    <3>4. CASE cc = a
      BY <2>1, <3>4
    <3>5. CASE cc = a + k
      BY <2>1, <3>2, <3>3, <3>5
    <3> QED BY <3>1, <3>4, <3>5
  <2>4. CASE s = 1
    <3>1. /\ c[1] \in 0..C_X /\ d[1] \in 0..C_X /\ k = C_X + 1
          /\ c[1] \notin {0, C_X} /\ d[1] \notin {0, C_X}
      <4>1. c[1] \in 0..C_X /\ d[1] \in 0..C_X
        BY <1>2 DEF Cells
      <4>2. k * 1 = k
        BY <1>3
      <4>3. k = C_X + 1
        BY <1>3, <2>4, <4>2
      <4>4. c[1] \notin {0, C_X}
        BY <1>1, <1>2, <2>4
      <4>5. d[1] \notin {0, C_X}
        BY <1>1, <2>4
      <4> QED BY <4>1, <4>3, <4>4, <4>5
    <3>2. cc = c[1] /\ dc = d[1]
      <4>1. \A x \in 0..C_X : x \div 1 = x
        BY <1>3
      <4>2. c[1] \div 1 = c[1] /\ d[1] \div 1 = d[1]
        BY <3>1, <4>1
      <4> QED BY <1>1, <2>4, <4>2
    <3>3. 0 \notin Columns(P, s)
      <4>1. ASSUME NEW cell \in P PROVE cell[1] \div s # 0
        <5>1. cell[1] \in 0..C_X /\ cell[1] # 0
          BY <1>1, <2>4 DEF Cells
        <5> QED BY <2>4, <5>1
      <4> QED BY <4>1 DEF Columns
    <3>4. a >= 0
      <4>1. 0 \in 0..k - 1
        BY <1>3
      <4>2. 0 \in (0..TwoTo(p) - 1) \ Columns(P, TwoTo(X_BITS - p))
        BY <1>1, <3>3, <4>1
      <4>3. \A m \in (0..TwoTo(p) - 1) \ Columns(P, TwoTo(X_BITS - p)) :
              a >= IF m = 0 THEN 0 ELSE m - TwoTo(p)
        BY <1>5 DEF Within
      <4> QED BY <4>2, <4>3
    <3>5. a = cc
      BY <1>6, <1>7, <3>4
    <3>6. a + dx = dc
      <4>1. a + dx \in 0..k - 1
        BY <1>3, <2>2, <3>1, <3>2, <3>5
      <4>2. a + dx \in (0 - k)..k /\ a + dx >= 0 /\ a + dx # k
        BY <1>3, <4>1
      <4> QED BY <1>8, <2>3, <4>2
    <3>7. 1 - k < dc /\ dc < k - 1
      BY <1>3, <3>1, <3>2
    <3> QED BY <2>2, <2>3, <2>4, <3>6, <3>7
  <2>5. CASE s >= 2 /\ a + dx # 0 - k
    BY <2>2, <2>3, <2>5
  <2>6. CASE s >= 2 /\ a + dx = 0 - k
    <3>1. a = 1 - k /\ dx = -1 /\ cc = 1 /\ dc = 0
      <4>1. a = 1 - k /\ dx = -1
        BY <1>3, <1>7, <2>2, <2>6
      <4>2. cc = 1
        BY <1>3, <1>6, <1>7, <4>1
      <4>3. (0 - k) % k = 0
        <5>1. 0 - k \in (0 - k)..k /\ ~(0 - k >= 0) /\ (0 - k) + k = 0
          BY <1>3
        <5> QED BY <1>8, <5>1
      <4> QED BY <2>3, <2>6, <4>1, <4>2, <4>3
    <3>2. ASSUME NEW x \in 0..C_X, x \div s \notin Columns(P, s) PROVE FALSE
      <4>1. PICK m : m = x \div s
        OBVIOUS
      <4>2. m \in 0..k - 1
        <5>1. <<x, 0>> \in Cells
          BY <1>3 DEF Cells
        <5>2. <<x, 0>>[1] = x
          OBVIOUS
        <5> QED BY <1>1, <1>2, <4>1, <5>1, <5>2, VoxelOfCell
      <4>3. m # 1
        <5>1. cc \in Columns(P, s)
          BY <1>1, <1>2 DEF Columns
        <5> QED BY <3>1, <3>2, <4>1, <5>1
      <4>4. a >= IF m = 0 THEN 0 ELSE m - k
        BY <1>1, <1>5, <3>2, <4>1, <4>2 DEF Within
      <4> QED BY <1>3, <3>1, <4>2, <4>3, <4>4
    <3>3. <<c, d>> \in LinksUncut(P, s)
      BY <1>1, <3>2
    <3>4. k = 2
      <4>1. 2 * s <= C_X => {cc, dc} # {0, 1}
        BY <1>1, <3>3 DEF LinksUncut
      <4>2. ~(2 * s <= C_X)
        BY <3>1, <4>1
      <4>3. k >= 3 => k * s >= 3 * s
        BY <1>3
      <4>4. k * s \in Int /\ 2 * s \in Int
        BY <1>3
      <4> QED BY <1>3, <2>6, <4>2, <4>3, <4>4
    <3>5. a = -1 /\ a + 1 = 0 /\ 0 % k = 0
      BY <1>3, <3>1, <3>4
    <3>6. /\ dc = (a + 1) % k /\ a + 1 \in (0 - k)..k /\ a + 1 # 0 - k /\ s # 1
          /\ 1 \in {-1, 0, 1}
      BY <1>3, <2>6, <3>1, <3>4, <3>5
    <3> QED BY <3>6
  <2>7. s = 1 \/ (s >= 2 /\ a + dx # 0 - k) \/ (s >= 2 /\ a + dx = 0 - k)
    BY <1>3
  <2> QED BY <2>4, <2>5, <2>6, <2>7
<1>13. PICK dx \in {-1, 0, 1} : /\ dc = (a + dx) % k
                                /\ a + dx \in (0 - k)..k
                                /\ s >= 2 => a + dx # 0 - k
                                /\ s = 1 => 1 - k < a + dx /\ a + dx < k - 1
  BY <1>12
<1>14. PICK e, y : Arrived(p, q, a, b, dx, dy, e, y)
                   /\ Neighbour(Vox(p, q, a, b), dx, dy) = Vox(p, q, e, y)
  BY <1>2, NeighbourOfVox
<1>15. /\ e \in AllColumns(p) /\ y \in AllRows(q)
       /\ y = b + dy /\ ColumnMoved(k, s, a + dx, e)
  BY <1>1, <1>11, <1>14 DEF Arrived
<1>16. e % k = dc
  <2>1. CASE s >= 2
    <3>1. e = a + dx \/ (a + dx = k /\ e = 0)
      BY <1>13, <1>15, <2>1 DEF ColumnMoved
    <3>2. k % k = 0 /\ 0 % k = 0
      BY <1>3
    <3> QED BY <1>13, <3>1, <3>2
  <2>2. CASE s = 1
    <3>1. e = a + dx
      BY <1>13, <1>15, <2>2 DEF ColumnMoved
    <3> QED BY <1>13, <3>1
  <2> QED BY <1>3, <2>1, <2>2
<1>17. Raw(Vox(p, q, e, y)) \in seen
  BY <1>5, <1>14
<1>18. y = db
  BY <1>6, <1>10, <1>15
<1> QED BY <1>1, <1>15, <1>16, <1>17, <1>18, KeptForCell

\* A plain polygon is found as a whole.
LEMMA PlainFound ==
    ASSUME NEW P, P \subseteq Cells, NEW p, NEW q, NEW seen, NEW kept, kept # {},
           FoundSoFar(P, p, q, <<>>, seen, kept),
           \A cell \in P : /\ ~(cell[2] = C_Y /\ TwoTo(Y_BITS - q) = 1)
                           /\ ~(cell[1] \in {0, C_X} /\ TwoTo(X_BITS - p) = 1),
           Plain(P, TwoTo(X_BITS - p))
    PROVE  FoundCells(P, p, q, kept) = P
<1>1. PICK A, s : A = FoundCells(P, p, q, kept) /\ s = TwoTo(X_BITS - p)
  OBVIOUS
<1>2. A \in SUBSET P
  BY <1>1 DEF FoundCells
<1>3. A # {}
  <2>1. PICK r \in kept : TRUE
    OBVIOUS
  <2>2. PICK a \in AllColumns(p), b \in AllRows(q) :
              r = Raw(Vox(p, q, a % TwoTo(p), b)) /\ Meets(P, p, q, a % TwoTo(p), b)
    BY KeptFacts
  <2>3. PICK cell \in P : /\ cell[1] \div TwoTo(X_BITS - p) = a % TwoTo(p)
                          /\ cell[2] \div TwoTo(Y_BITS - q) = b
    BY <2>2 DEF Meets
  <2>4. cell \in A
    BY <1>1, <2>1, <2>2, <2>3 DEF FoundCells
  <2> QED BY <2>4
<1>4. IsFiniteSet(P)
  <2>1. IsFiniteSet(0..C_X) /\ IsFiniteSet(0..C_Y)
    <3>1. C_X \in Int /\ C_Y \in Int /\ 0 \in Int
      BY GridNumbers
    <3> QED BY <3>1, FS_Interval
  <2>2. IsFiniteSet((0..C_X) \X (0..C_Y))
    BY <2>1, FS_Product
  <2> QED BY <2>2, FS_Subset DEF Cells
<1>5. CASE Connected(P, Links(P)) /\ \E x \in 0..C_X : x \div s \notin Columns(P, s)
  <2>1. \A c \in A, d \in P : <<c, d>> \in Links(P) => d \in A
    BY <1>1, <1>5, FollowsLink
  <2>2. \A c \in P, d \in P : <<c, d>> \in Links(P) => <<d, c>> \in Links(P)
    BY LinksBack
  <2>3. PICK links : links = Links(P)
    OBVIOUS
  <2> QED BY <1>1, <1>2, <1>3, <1>4, <1>5, <2>1, <2>2, <2>3, ConnectedWhole
<1>6. CASE Connected(P, LinksUncut(P, s))
  <2>1. \A c \in A, d \in P : <<c, d>> \in LinksUncut(P, s) => d \in A
    <3>1. \A c \in A, d \in P : <<c, d>> \in LinksUncut(P, s) => <<c, d>> \in Links(P)
      BY DEF LinksUncut
    <3> QED BY <1>1, <3>1, FollowsLink
  <2>2. \A c \in P, d \in P : <<c, d>> \in LinksUncut(P, s) => <<d, c>> \in LinksUncut(P, s)
    BY LinksBack
  <2>3. PICK links : links = LinksUncut(P, s)
    OBVIOUS
  <2> QED BY <1>1, <1>2, <1>3, <1>4, <1>6, <2>1, <2>2, <2>3, ConnectedWhole
<1> QED BY <1>1, <1>5, <1>6 DEF Plain

\* A string that was kept stands for a voxel of the search's size.
LEMMA KeptVoxel ==
    ASSUME NEW P, NEW p, NEW q, NEW seen, NEW kept, FoundSoFar(P, p, q, <<>>, seen, kept),
           NEW s \in kept
    PROVE  XStep(BitString(s)) = TwoTo(X_BITS - p) /\ YStep(BitString(s)) = TwoTo(Y_BITS - q)
<1>1. PICK a \in AllColumns(p), b \in AllRows(q) :
        /\ a % TwoTo(p) \in 0..TwoTo(p) - 1
        /\ s = Raw(Vox(p, q, a % TwoTo(p), b))
  BY KeptFacts
<1>2. Shape(p, q)
  BY DEF FoundSoFar
<1>3. BitString(s) = Vox(p, q, a % TwoTo(p), b)
  BY <1>1, <1>2, StringOfVox
<1> QED BY <1>3 DEF Vox, XStep, YStep

\* The polygon is covered by the voxels that were kept for its cells.
LEMMA FoundIsCovered ==
    ASSUME NEW P, P \subseteq Cells, NEW p, NEW q, NEW seen, NEW kept,
           FoundSoFar(P, p, q, <<>>, seen, kept), FoundCells(P, p, q, kept) = P
    PROVE  P \subseteq Covered(kept)
<1> SUFFICES ASSUME NEW cell \in P PROVE cell \in Covered(kept)
  OBVIOUS
<1>1. Shape(p, q) /\ cell \in Cells
  BY DEF FoundSoFar
<1>2. PICK c, b, k : /\ c = cell[1] \div TwoTo(X_BITS - p) /\ b = cell[2] \div TwoTo(Y_BITS - q)
                     /\ k = TwoTo(p)
  OBVIOUS
<1>3. c \in 0..k - 1 /\ b \in AllRows(q)
  BY <1>1, <1>2, VoxelOfCell
<1>4. Raw(Vox(p, q, c, b)) \in kept
  BY <1>2 DEF FoundCells
<1>5. BitString(Raw(Vox(p, q, c, b))) = Vox(p, q, c, b)
  BY <1>1, <1>2, <1>3, StringOfVox
<1>6. c \in AllColumns(p) /\ c % k = c
  <2>1. k \in Nat \ {0}
    BY <1>1, <1>2, ShapeNumbers
  <2>2. c \in Int /\ 0 <= c /\ c < k
    BY <1>3, <2>1
  <2>3. c % k = c
    BY <2>1, <2>2, ModSmall
  <2> QED BY <1>2, <2>1, <2>2, <2>3 DEF AllColumns
<1>7. cell \in CellsOf(Vox(p, q, c, b))
  BY <1>1, <1>2, <1>3, <1>6, CellsOfVox
<1> QED BY <1>4, <1>5, <1>7 DEF Covered

\* Unless it touches the last row or the seam with full precision, a polygon
\* that does not wind around the world is covered.
LEMMA CoveredOf ==
    ASSUME NEW P, P \subseteq Cells, NEW seen, NEW kept, FoundOf(P, <<>>, seen, kept),
           NEW w, w = (CHOOSE s \in kept : TRUE), Plain(P, XStep(BitString(w)))
    PROVE  \/ P \subseteq Covered(kept)
           \/ \E cell \in P : \/ cell[2] = C_Y /\ YStep(BitString(w)) = 1
                              \/ cell[1] \in {0, C_X} /\ XStep(BitString(w)) = 1
<1>1. kept # {}
  BY DEF FoundOf
<1>2. w \in kept
  BY <1>1
<1>3. PICK p \in 1..X_BITS, q \in 0..Y_BITS : FoundSoFar(P, p, q, <<>>, seen, kept)
  BY DEF FoundOf
<1>4. XStep(BitString(w)) = TwoTo(X_BITS - p) /\ YStep(BitString(w)) = TwoTo(Y_BITS - q)
  BY <1>2, <1>3, KeptVoxel
<1> SUFFICES ASSUME \A cell \in P : /\ ~(cell[2] = C_Y /\ TwoTo(Y_BITS - q) = 1)
                                    /\ ~(cell[1] \in {0, C_X} /\ TwoTo(X_BITS - p) = 1)
             PROVE  P \subseteq Covered(kept)
  BY <1>4
<1>5. Plain(P, TwoTo(X_BITS - p))
  BY <1>4
<1>6. FoundCells(P, p, q, kept) = P
  BY <1>1, <1>3, <1>5, PlainFound
<1> QED BY <1>3, <1>6, FoundIsCovered

\* Between two polygons: the polygon searched last, and what was found of it.
LEMMA SearchedFacts ==
    ASSUME FoundInv, Searched
    PROVE  LastPolygon \subseteq Cells /\ FoundOf(LastPolygon, <<>>, visited, intersecting)
<1>1. /\ certificate \in Certificates /\ index \in Nat \ {0} /\ index - 1 <= Len(certificate.polygons)
      /\ FoundOf(LastPolygon, <<>>, visited, intersecting) /\ index > 1
  BY DEF FoundInv, Searched
<1>2. certificate.polygons \in Seq((SUBSET Cells) \ {{}})
  BY <1>1, VoxelAssumption
<1>3. index - 1 \in 1..Len(certificate.polygons)
  BY <1>1, <1>2
<1>4. certificate.polygons[index - 1] \in SUBSET Cells
  BY <1>2, <1>3, ElementOfSeq
<1> QED BY <1>1, <1>4 DEF LastPolygon

(* "Always over-approximates": what PolygonsTo2DBitStrings finds, with its  *)
(* queue of neighbours across the date line, covers a polygon that does not *)
(* wind around the world, except where C_X and C_Y stand for the numbers of *)
(* columns and rows: CoversAwayFromEdges is an invariant, for any grid.     *)
THEOREM PolygonsAreCovered == Spec => []CoversAwayFromEdges
<1>1. FoundInv => CoversAwayFromEdges
  <2> SUFFICES ASSUME FoundInv, Searched, Plain(LastPolygon, XWidth)
               PROVE  \/ LastPolygon \subseteq Covered(intersecting)
                      \/ \E cell \in LastPolygon :
                            \/ cell[2] = C_Y /\ YWidth = 1
                            \/ cell[1] \in {0, C_X} /\ XWidth = 1
    BY DEF CoversAwayFromEdges
  <2>1. LastPolygon \subseteq Cells /\ FoundOf(LastPolygon, <<>>, visited, intersecting)
    BY SearchedFacts
  <2>2. PICK w, P : w = (CHOOSE s \in intersecting : TRUE) /\ P = LastPolygon
    OBVIOUS
  <2>3. XWidth = XStep(BitString(w)) /\ YWidth = YStep(BitString(w))
    BY <2>2 DEF XWidth, YWidth
  <2>4. Plain(P, XStep(BitString(w)))
    BY <2>2, <2>3
  <2>5. \/ P \subseteq Covered(intersecting)
        \/ \E cell \in P : \/ cell[2] = C_Y /\ YStep(BitString(w)) = 1
                           \/ cell[1] \in {0, C_X} /\ XStep(BitString(w)) = 1
    BY <2>1, <2>2, <2>4, CoveredOf
  <2> QED BY <2>2, <2>3, <2>5
<1> QED BY <1>1, FoundInvariant, PTL

\* From column a, which is c on the circle, one of the nine directions leads
\* beyond a pole to the column opposite.
TurnsTo(k, h, a, c) ==
    \E dx \in {-1, 0, 1}, j \in {0, 1} : \A d :
        ColumnTurned(k, h, a + dx, d) => d \in 0..k - 1 /\ c + h = d + j * k

\* It does from no further west than half the world, except from the last
\* column west of the middle.
LEMMA OppositeColumn ==
    ASSUME NEW k, NEW h \in Nat \ {0}, k = 2 * h, NEW a \in (0 - h)..k - 1, NEW c,
           c = IF a >= 0 THEN a ELSE a + k, c # h - 1
    PROVE  TurnsTo(k, h, a, c)
<1>1. CASE a >= h
  <2>1. \A d : ColumnTurned(k, h, a + 0, d) => d \in 0..k - 1 /\ c + h = d + 1 * k
    BY <1>1 DEF ColumnTurned
  <2> QED BY <2>1 DEF TurnsTo
<1>2. CASE 0 <= a /\ a < h
  <2>1. \A d : ColumnTurned(k, h, a + 1, d) => d \in 0..k - 1 /\ c + h = d + 0 * k
    BY <1>2 DEF ColumnTurned
  <2> QED BY <2>1 DEF TurnsTo
<1>3. CASE a < 0
  <2>1. \A d : ColumnTurned(k, h, a + 1, d) => d \in 0..k - 1 /\ c + h = d + 1 * k
    BY <1>3 DEF ColumnTurned
  <2> QED BY <2>1 DEF TurnsTo
<1> QED BY <1>1, <1>2, <1>3

\* The search came no further west than half the world.
LEMMA NotFarWest ==
    ASSUME NEW P, P \subseteq Cells, NEW p, NEW q, Shape(p, q),
           NEW a \in AllColumns(p), NEW b, Within(P, p, a), Meets(P, p, q, a % TwoTo(p), b),
           NoLongWay(P, TwoTo(X_BITS - p))
    PROVE  a >= 0 - TwoTo(p - 1)
<1>1. PICK s, k, h, c : s = TwoTo(X_BITS - p) /\ k = TwoTo(p) /\ h = TwoTo(p - 1) /\ c = a % k
  OBVIOUS
<1>2. /\ s \in Nat \ {0} /\ k = 2 * h /\ h \in Nat \ {0} /\ C_X + 1 = k * s /\ C_X \in Nat
      /\ C_Y \in Nat
  BY <1>1, ShapeNumbers, GridNumbers
<1>3. TwoTo(X_BITS - 1) = h * s
  <2>1. p - 1 \in Nat /\ X_BITS - p \in Nat /\ (p - 1) + (X_BITS - p) = X_BITS - 1
    BY ShapeNumbers, GridNumbers DEF Shape
  <2>2. TwoTo((p - 1) + (X_BITS - p)) = TwoTo(p - 1) * TwoTo(X_BITS - p)
    BY <2>1, TwoToSum
  <2> QED BY <1>1, <2>1, <2>2
<1>4. PICK x \in {0} \cup (h * s - s)..C_X : x \div s \notin Columns(P, s)
  BY <1>1, <1>3 DEF NoLongWay
<1>5. PICK m : m = x \div s
  OBVIOUS
<1>6. h * s \in Int /\ h * s >= s
  BY <1>2
<1>7. x \in 0..C_X
  BY <1>2, <1>4, <1>6
<1>8. m \in 0..k - 1
  <2>1. <<x, 0>> \in Cells /\ <<x, 0>>[1] = x
    BY <1>2, <1>7 DEF Cells
  <2> QED BY <1>1, <1>5, <2>1, VoxelOfCell
<1>9. m = 0 \/ m >= h - 1
  <2>1. CASE x = 0
    <3>1. 0 \div s = 0
      BY <1>2
    <3> QED BY <1>5, <2>1, <3>1
  <2>2. CASE x >= h * s - s
    <3>1. m \in Int /\ x % s \in 0..s - 1 /\ x = m * s + (x % s)
      BY <1>2, <1>5, <1>7, DivExists
    <3>2. m <= h - 2 => m * s <= h * s - 2 * s
      BY <1>2, <3>1
    <3>3. m * s \in Int /\ m * s > x - s
      BY <1>2, <1>7, <3>1
    <3> QED BY <1>2, <1>6, <1>7, <2>2, <3>1, <3>2, <3>3
  <2> QED BY <1>2, <1>4, <1>6, <2>1, <2>2
<1>10. a >= IF m = 0 THEN 0 ELSE m - k
  <2>1. m \in (0..TwoTo(p) - 1) \ Columns(P, TwoTo(X_BITS - p))
    BY <1>1, <1>4, <1>5, <1>8
  <2> QED BY <1>1, <2>1 DEF Within
<1>11. c # m
  <2>1. PICK cell \in P : cell[1] \div s = c
    BY <1>1 DEF Meets
  <2>2. c \in Columns(P, s)
    BY <2>1 DEF Columns
  <2> QED BY <1>4, <1>5, <2>2
<1>12. a \in Int /\ 1 - k <= a /\ a <= k - 1
  BY <1>1, <1>2 DEF AllColumns
<1>13. a < 0 => c = a + k
  <2>1. k \in Nat \ {0}
    BY <1>2
  <2>2. 0 - k <= a /\ a < 0 => a % k = a + k
    BY <1>12, <2>1, ModSmall
  <2> QED BY <1>1, <1>12, <2>1, <2>2
<1>14. a >= 0 - h
  BY <1>2, <1>8, <1>9, <1>10, <1>11, <1>12, <1>13
<1> QED BY <1>1, <1>14

\* At a pole the voxel opposite of one that was kept was looked at.
LEMMA OppositeSeen ==
    ASSUME NEW P, P \subseteq Cells, NEW p, NEW q, NEW seen, NEW kept,
           FoundSoFar(P, p, q, <<>>, seen, kept), NoLongWay(P, TwoTo(X_BITS - p)),
           NEW s \in kept, NEW v, v = BitString(s),
           v.YMin = 0 \/ v.YMin + YStep(v) > C_Y, v.XMin + XStep(v) # TwoTo(X_BITS - 1)
    PROVE  Raw([v EXCEPT !.XMin = (@ + TwoTo(X_BITS - 1)) % TwoTo(X_BITS)]) \in seen
<1>1. Shape(p, q)
  BY DEF FoundSoFar
<1>2. PICK a \in AllColumns(p), b \in AllRows(q) :
              /\ Within(P, p, a) /\ a % TwoTo(p) \in 0..TwoTo(p) - 1
              /\ s = Raw(Vox(p, q, a % TwoTo(p), b))
              /\ Meets(P, p, q, a % TwoTo(p), b)
              /\ \A dx \in {-1, 0, 1}, dy \in {-1, 0, 1} : Raw(Neighbour(Vox(p, q, a, b), dx, dy)) \in seen
  BY KeptFacts
<1>3. PICK w, t, k, l, h, c : /\ w = TwoTo(X_BITS - p) /\ t = TwoTo(Y_BITS - q) /\ k = TwoTo(p)
                              /\ l = TwoTo(q) /\ h = TwoTo(p - 1) /\ c = a % k
  OBVIOUS
<1>4. /\ w \in Nat \ {0} /\ t \in Nat \ {0} /\ l \in Nat \ {0} /\ k = 2 * h /\ h \in Nat \ {0}
      /\ TwoTo(X_BITS) = k * w /\ C_Y + 1 = l * t /\ C_Y \in Nat
  BY <1>1, <1>3, ShapeNumbers, GridNumbers
<1>5. TwoTo(X_BITS - 1) = h * w
  <2>1. p - 1 \in Nat /\ X_BITS - p \in Nat /\ (p - 1) + (X_BITS - p) = X_BITS - 1
    BY <1>1, ShapeNumbers, GridNumbers DEF Shape
  <2>2. TwoTo((p - 1) + (X_BITS - p)) = TwoTo(p - 1) * TwoTo(X_BITS - p)
    BY <2>1, TwoToSum
  <2> QED BY <1>3, <2>1, <2>2
<1>6. c \in 0..k - 1 /\ b \in 0..l - 1 /\ v = Vox(p, q, c, b)
  BY <1>1, <1>2, <1>3, StringOfVox DEF AllRows
\* The columns on the circle are words.
<1>7. \A d \in 0..k - 1 : Unsigned(d * w) = d * w
  <2> TAKE d \in 0..k - 1
  <2>1. k \in Nat \ {0} /\ d \in Int /\ 0 <= d /\ d < k
    BY <1>4
  <2>2. d % k = d
    BY <2>1, ModSmall
  <2>3. d \in AllColumns(p)
    BY <1>3, <2>1 DEF AllColumns
  <2> QED BY <1>1, <1>3, <2>2, <2>3, ColumnOnCircle
<1>8. /\ v.XMin = c * w /\ v.YMin = b * t /\ XStep(v) = w /\ YStep(v) = t
  <2>1. Unsigned(c * w) = c * w
    BY <1>6, <1>7
  <2> QED BY <1>3, <1>6, <2>1 DEF Vox, XStep, YStep
<1>9. c # h - 1
  <2>1. c = h - 1 => c * w + w = h * w
    BY <1>4, <1>6
  <2> QED BY <1>5, <1>8, <2>1
<1>10. PICK dy \in {-1, 0, 1} : b + dy \notin AllRows(q)
  <2>1. CASE v.YMin = 0
    <3>1. b >= 1 => b * t >= 1
      BY <1>4, <1>6
    <3>2. b = 0
      BY <1>6, <1>8, <2>1, <3>1
    <3>3. b + (-1) \notin AllRows(q)
      BY <3>2 DEF AllRows
    <3> QED BY <3>3
  <2>2. CASE v.YMin + YStep(v) > C_Y
    <3>1. b <= l - 2 => b * t <= l * t - 2 * t
      BY <1>4, <1>6
    <3>2. b * t \in Int /\ l * t \in Int
      BY <1>4, <1>6
    <3>3. b = l - 1
      BY <1>4, <1>6, <1>8, <2>2, <3>1, <3>2
    <3>4. b + 1 \notin AllRows(q)
      BY <1>3, <1>4, <3>3 DEF AllRows
    <3> QED BY <3>4
  <2> QED BY <2>1, <2>2
<1>11. a \in (0 - h)..k - 1 /\ c = IF a >= 0 THEN a ELSE a + k
  <2>1. a >= 0 - h
    BY <1>1, <1>2, <1>3, NotFarWest
  <2>2. a \in Int /\ 1 - k <= a /\ a <= k - 1 /\ k \in Nat \ {0}
    <3>1. k \in Nat \ {0}
      BY <1>4
    <3>2. a \in (1 - k)..k - 1
      BY <1>3 DEF AllColumns
    <3> QED BY <3>1, <3>2
  <2>3. /\ 0 <= a /\ a < k => a % k = a
        /\ 0 - k <= a /\ a < 0 => a % k = a + k
    BY <2>2, ModSmall
  <2>4. /\ 0 <= a => c = a
        /\ a < 0 => c = a + k
    BY <1>3, <2>2, <2>3
  <2> QED BY <1>4, <2>1, <2>2, <2>4
<1>12. PICK dx \in {-1, 0, 1}, j \in {0, 1} : \A d :
          ColumnTurned(k, h, a + dx, d) => d \in 0..k - 1 /\ c + h = d + j * k
  <2>1. h \in Nat \ {0} /\ k = 2 * h
    BY <1>4
  <2>2. TurnsTo(k, h, a, c)
    BY <1>9, <1>11, <2>1, OppositeColumn
  <2> QED BY <2>2 DEF TurnsTo
<1>13. PICK d, y : Arrived(p, q, a, b, dx, dy, d, y)
                   /\ Neighbour(Vox(p, q, a, b), dx, dy) = Vox(p, q, d, y)
  BY <1>1, NeighbourOfVox
<1>14. y = b /\ d \in 0..k - 1 /\ c + h = d + j * k
  BY <1>3, <1>10, <1>12, <1>13 DEF Arrived
<1>15. Raw(Vox(p, q, d, b)) \in seen
  BY <1>2, <1>13, <1>14
<1>16. (c * w + h * w) % (k * w) = d * w
  <2>1. c \in Int /\ d \in Int /\ j \in Int /\ k \in Int
    BY <1>4, <1>6, <1>14
  <2>2. \A x, y1, z, i, n, u \in Int : x + y1 = z + i * n => x * u + y1 * u = i * (n * u) + z * u
    <3> SUFFICES ASSUME NEW x \in Int, NEW y1 \in Int, NEW z \in Int, NEW i \in Int, NEW n \in Int,
                        NEW u \in Int, x + y1 = z + i * n
                 PROVE  x * u + y1 * u = i * (n * u) + z * u
      OBVIOUS
    <3>1. x * u + y1 * u = (x + y1) * u
      OBVIOUS
    <3>2. (z + i * n) * u = z * u + i * (n * u)
      OBVIOUS
    <3>3. x * u + y1 * u = z * u + i * (n * u)
      BY <3>1, <3>2
    <3> QED BY <3>3
  <2>3. c * w + h * w = j * (k * w) + d * w
    BY <1>4, <1>14, <2>1, <2>2
  <2>4. d * w \in Int /\ 0 <= d * w /\ d * w <= k * w - w
    BY <1>4, <1>14
  <2>5. k * w \in Nat \ {0}
    BY <1>4
  <2>6. d * w \in 0..(k * w) - 1 /\ c * w + h * w \in Int
    BY <1>4, <2>1, <2>4, <2>5
  <2>7. PICK g, r, n : g = k * w /\ r = d * w /\ n = c * w + h * w
    OBVIOUS
  <2>8. g \in Nat \ {0} /\ r \in 0..g - 1 /\ n \in Int /\ n = j * g + r
    BY <2>3, <2>5, <2>6, <2>7
  <2>9. n % g = r
    BY <2>1, <2>8, DivUnique
  <2> QED BY <2>7, <2>9
<1>17. [v EXCEPT !.XMin = (@ + TwoTo(X_BITS - 1)) % TwoTo(X_BITS)] = Vox(p, q, d, b)
  <2>1. PICK e : e = (v.XMin + TwoTo(X_BITS - 1)) % TwoTo(X_BITS)
    OBVIOUS
  <2>2. e = d * w /\ Unsigned(d * w) = d * w
    BY <1>4, <1>5, <1>7, <1>8, <1>14, <1>16, <2>1
  <2>3. [v EXCEPT !.XMin = e] = [XMin |-> e, YMin |-> b * t, XPrecision |-> p, YPrecision |-> q]
    BY <1>3, <1>6 DEF Vox
  <2>4. Vox(p, q, d, b) = [XMin |-> e, YMin |-> b * t, XPrecision |-> p, YPrecision |-> q]
    BY <1>3, <2>2 DEF Vox
  <2> QED BY <2>1, <2>3, <2>4
<1> QED BY <1>15, <1>17

(* A voxel at a pole that meets the polygon makes the search look at the    *)
(* one opposite, by the rotation in the neighbours of RawXYBitString, in    *)
(* spite of half of C_X being one column short: PoleCrossed is an invariant,*)
(* for any grid.                                                            *)
THEOREM PolesAreCrossed == Spec => []PoleCrossed
<1>1. FoundInv => PoleCrossed
  <2> SUFFICES ASSUME FoundInv, Searched, NoLongWay(LastPolygon, XWidth), NEW s \in intersecting,
                      NEW v, v = BitString(s),
                      v.YMin = 0 \/ v.YMin + YStep(v) > C_Y,
                      v.XMin + XStep(v) # TwoTo(X_BITS - 1)
               PROVE  Raw([v EXCEPT !.XMin = (@ + TwoTo(X_BITS - 1)) % TwoTo(X_BITS)]) \in visited
    BY DEF PoleCrossed
  <2>1. LastPolygon \subseteq Cells /\ FoundOf(LastPolygon, <<>>, visited, intersecting)
    BY SearchedFacts
  <2>2. PICK p \in 1..X_BITS, q \in 0..Y_BITS :
            FoundSoFar(LastPolygon, p, q, <<>>, visited, intersecting)
    BY <2>1 DEF FoundOf
  <2>3. PICK r : r = (CHOOSE u \in intersecting : TRUE)
    OBVIOUS
  <2>4. XStep(BitString(r)) = TwoTo(X_BITS - p)
    BY <2>2, <2>3, KeptVoxel
  <2>5. NoLongWay(LastPolygon, TwoTo(X_BITS - p))
    BY <2>3, <2>4 DEF XWidth
  <2> QED BY <2>1, <2>2, <2>5, OppositeSeen
<1> QED BY <1>1, FoundInvariant, PTL
=============================================================================
