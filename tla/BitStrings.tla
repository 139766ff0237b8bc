---------------------------- MODULE BitStrings ----------------------------
(***************************************************************************)
(* The positions of the sparse Merkle tree (pkg/bitstring): a bit string   *)
(* of longitude and latitude and one of altitude.  Below every xy string   *)
(* hangs a tree of z strings, so a pair's parent drops the last bit of z   *)
(* first and of xy only when no z is left.                                 *)
(***************************************************************************)
EXTENDS Integers, Sequences, SequencesExt

CONSTANTS
    XY_BITS,   \* the longest xy string: 51 in the code
    Z_BITS     \* the longest z string: 15 in the code

ASSUME BitsAssumption == XY_BITS \in Nat \ {0} /\ Z_BITS \in Nat \ {0}

Bit == {0, 1}
BitStringsUpTo(n) == BoundedSeq(Bit, n)

Root == [xy |-> <<>>, z |-> <<>>]

\* The whole world has no altitude tree (smt_hash: "invalid bit string").
Pairs == {p \in [xy : BitStringsUpTo(XY_BITS), z : BitStringsUpTo(Z_BITS)] :
            p.xy = <<>> => p.z = <<>>}

Leaf(p) == Len(p.xy) = XY_BITS /\ Len(p.z) = Z_BITS

ParentPair(p) ==
    IF p.z # <<>> THEN [xy |-> p.xy, z |-> Front(p.z)]
    ELSE IF p.xy # <<>> THEN [xy |-> Front(p.xy), z |-> <<>>]
    ELSE Root

\* A position's children: two in the plane, which only positions without z
\* have, and two in its altitude tree.
XYSides == {"xyLeft", "xyRight"}
ZSides == {"zLeft", "zRight"}
Sides == XYSides \cup ZSides
SideBit(s) == IF s \in {"xyLeft", "zLeft"} THEN 0 ELSE 1

HasSide(p, s) == s \in XYSides => p.z = <<>>
Child(p, s) ==
    IF s \in XYSides THEN [xy |-> Append(p.xy, SideBit(s)), z |-> p.z]
    ELSE [xy |-> p.xy, z |-> Append(p.z, SideBit(s))]

\* Mutant: the xy string loses its last bit first.
Ancestors_PlaneFirst(p) ==
    {Root} \cup {[xy |-> SubSeq(p.xy, 1, k), z |-> p.z] : k \in 0..Len(p.xy) - 1}
           \cup {[xy |-> <<>>, z |-> SubSeq(p.z, 1, k)] : k \in 0..Len(p.z) - 1}

\* ROOT_NODE and every pair the ParentPair loop of the ingestion visits.
Ancestors(p) ==
    {Root} \cup {[xy |-> p.xy, z |-> SubSeq(p.z, 1, k)] : k \in 0..Len(p.z) - 1}
           \cup {[xy |-> SubSeq(p.xy, 1, k), z |-> <<>>] : k \in 0..Len(p.xy) - 1}

\* The number of a string that is filled up with a bit at its right end.
Padded(s, n, bit) ==
    LET Number[k \in 0..n] ==
            IF k = 0 THEN 0
            ELSE 2 * Number[k - 1] + (IF k \in DOMAIN s THEN s[k] ELSE bit)
    IN  Number[n]

\* Mutant: downwards from the top.
Deeper_Upside(p, q) ==
    \/ Len(p.xy) < Len(q.xy)
    \/ Len(p.xy) = Len(q.xy) /\ Len(p.z) < Len(q.z)

\* sort.Slice: the longer xy string first, then the longer z string.
Deeper(p, q) ==
    \/ Len(p.xy) > Len(q.xy)
    \/ Len(p.xy) = Len(q.xy) /\ Len(p.z) > Len(q.z)
=============================================================================
