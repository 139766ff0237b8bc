-------------------------- MODULE AltitudeRanges --------------------------
(***************************************************************************)
(* Altitudes, in the three forms the code gives them: the floors of a      *)
(* building (cmd/db-address-exporter), the altitude strings of the tree    *)
(* (pkg/bitstring) and the range of a query (pkg/comm, pkg/database).      *)
(*                                                                         *)
(* The code's altitudes are floating-point metres.  Here they are halves   *)
(* of a metre, so that a fraction below and above zero can be told apart.  *)
(***************************************************************************)
EXTENDS BitStrings, FiniteSetsExt

CONSTANT D   \* the lowest altitude, in metres: -11000 in the code

ASSUME LowestAssumption == D \in Int

\* 2^Z_BITS - 1: nothing but ones.
C_Z == Padded(<<>>, Z_BITS, 1)
H == C_Z + D
Altitudes == 0..C_Z

\* A range that the code refuses.
Invalid == [invalid |-> TRUE]
Clamp(a, low, high) == Min({Max({a, low}), high})
-----------------------------------------------------------------------------
(* Altitude strings as ranges: [ZMin, ZMax) in the code's words. *)

ZMin(z) == Padded(z, Z_BITS, 0)
ZMax(z) == Padded(z, Z_BITS, 1) + 1

\* The generated columns of table nodes: rpad with zeros, and with ones.
altitude_min(z) == Padded(z, Z_BITS, 0)
altitude_max(z) == Padded(z, Z_BITS, 1)

\* intersectsAltitudeRange takes the upper bound for a part of the range.
IntersectsAltitudeRange(z, q) == q.min <= ZMax(z) /\ q.max >= ZMin(z)

\* BuildNodeQuery shifts both bounds of the query.
InAltitude(z, q) == altitude_min(z) <= q.max - 1 /\ altitude_max(z) >= q.min - 1
-----------------------------------------------------------------------------
(* From floors and altitudes to strings. *)

\* A storey is three metres high.
Storeys(n) == 6 * n

FullAltitudeBounds == [min |-> 2 * D, max |-> 2 * H]
Bounds(low, high) == [min |-> Clamp(low, 2 * D, 2 * H), max |-> Clamp(high, 2 * D, 2 * H)]

\* Mutant: the bounds of a floor are not clamped.
Floors_Unclamped(low, high, surface) ==
    [min |-> surface + Storeys(low), max |-> surface + Storeys(high + 1)]

Floors(low, high, surface) == Bounds(surface + Storeys(low), surface + Storeys(high + 1))

\* The levels of a row's building, if it has no floors that are known.
AtSign == [unknown |-> "@"]
Blank == [unknown |-> ""]

\* A row is a point ("@"), a building ("") or a floor.
levelToAltitude(kind, level, levels, surface) ==
    CASE kind = "point" -> IF levels = AtSign THEN FullAltitudeBounds ELSE Invalid
      [] kind = "building" -> IF levels \in {AtSign, Blank} THEN FullAltitudeBounds
                              ELSE Floors(levels.low, levels.high, surface)
      [] OTHER -> IF levels \notin {AtSign, Blank} /\ levels.low <= level /\ level <= levels.high
                  THEN Floors(level, level, surface) ELSE Invalid

\* The binary digits of a number, filled up with zeros at the left.
ZBits(z) == CHOOSE s \in [1..Z_BITS -> Bit] : Padded(s, Z_BITS, 0) = z

OnGrid(a) == 2 * D <= a /\ a <= 2 * (H + 1)

\* The leaf of an altitude on the grid; the conversion to an integer drops the
\* fraction.
ZBitStringFromGeodeticCoordinate(a) ==
    ZBits(IF a = 2 * (H + 1) THEN C_Z ELSE (a - 2 * D) \div 2)

Ends(low, high) == {ZBitStringFromGeodeticCoordinate(a) : a \in {low, high}}

\* The common prefix of the two ends, if both are on the grid.
SmallestEnclosingZBitString(low, high) == LongestCommonPrefix(Ends(low, high))
-----------------------------------------------------------------------------
(* From a client's position to the range of its query. *)

\* int64(a): towards zero.
Truncated(a) == IF a >= 0 THEN a \div 2 ELSE -((-a) \div 2)

\* Mutant: the radius is not enlarged.
Enlarged_Not(radius) == radius

\* Ceil(radius * RADIUS_ERROR_FACTOR), in metres; the factor is 1.0052.
Enlarged(radius) == radius + (52 * radius + 9999) \div 10000

\* NewQuery for a sphere of this radius around altitude a.
NewQuery(a, radius) ==
    IF a < 2 * D \/ a > 2 * H \/ Enlarged(radius) > 255 THEN Invalid
    ELSE [min |-> Max({Truncated(a) - D - Enlarged(radius), 0}),
          max |-> Min({Truncated(a) - D + Enlarged(radius), C_Z})]
=============================================================================
