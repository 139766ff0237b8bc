--------------------------- MODULE CoverMerging ---------------------------
(***************************************************************************)
(* PolygonsTo2DBitStrings (pkg/bitstring/bit_string_pair.go): the voxels   *)
(* that cover some polygons, one search after the other, and the loop that *)
(* drops strings below another one and merges neighbours into their        *)
(* parent.  The loop reads a list that it appends to; the set it consults  *)
(* grows with the list.                                                    *)
(***************************************************************************)
EXTENDS BitStrings, FiniteSets

CONSTANT MaxPolygons   \* bound on the number of polygons that differ in size

ASSUME PolygonsAssumption == MaxPolygons \in Nat

VARIABLES
    found,      \* what the searches found, kept to say what must be covered
    areas,      \* intersectingAreasAllPolygons
    fresh,      \* the strings of the list from before the loop, not yet read:
                \*   ToSlice gives them in any order
    appended,   \* the strings the loop appended, not yet read
    results,
    phase       \* "search", "merge", "done", or "failed"

vars == <<found, areas, fresh, appended, results, phase>>
-----------------------------------------------------------------------------
Strings == BitStringsUpTo(XY_BITS)
World == <<>>

Parent(s) == IF s = World THEN World ELSE Front(s)

\* Mutant: the last bit is cleared instead of flipped.
Neighbor_Cleared(s) == IF s = World THEN World ELSE Append(Front(s), 0)

\* The shift by 64 yields 0: the empty string is its own neighbour.
Neighbor(s) == IF s = World THEN World ELSE Append(Front(s), 1 - Last(s))

\* Mutant: the parent itself is not looked for.
Redundant_OffByOne(s) == \E k \in 0..Len(s) - 2 : SubSeq(s, 1, k) \in areas

\* Some Ancestor(i), i >= 1, is in the set.
Redundant(s) == \E k \in 0..Len(s) - 1 : SubSeq(s, 1, k) \in areas

Init ==
    /\ found = {} /\ areas = {} /\ fresh = {} /\ appended = <<>> /\ results = {}
    /\ phase = "search"

\* A search finds a voxel that intersects its polygon.  Voxels have at least one
\* bit (Grow2D), those of one polygon the same size.
Search(voxel) ==
    /\ phase = "search"
    /\ voxel # World
    /\ areas' = areas \cup {voxel}
    /\ Cardinality({Len(s) : s \in areas'}) <= MaxPolygons
    /\ found' = areas'
    /\ UNCHANGED <<fresh, appended, results, phase>>

\* A geometric test fails, or the first voxel does not intersect the polygon.
SearchFails ==
    /\ phase = "search"
    /\ phase' = "failed"
    /\ UNCHANGED <<found, areas, fresh, appended, results>>

ToSlice ==
    /\ phase = "search"
    /\ fresh' = areas
    /\ phase' = "merge"
    /\ UNCHANGED <<found, areas, appended, results>>

\* The string the loop reads, and what is appended behind it.
Current == IF fresh # {} THEN fresh ELSE IF appended # <<>> THEN {Head(appended)} ELSE {}
Unread == IF fresh # {} THEN appended ELSE Tail(appended)

Skip(s) ==
    /\ Redundant(s)
    /\ fresh' = fresh \ {s}
    /\ appended' = Unread
    /\ UNCHANGED <<areas, results>>

\* Mutant: the parent enters the set and not the list.
Merge_NotListed(s) ==
    /\ ~Redundant(s) /\ Neighbor(s) \in areas
    /\ areas' = areas \cup {Parent(s)}
    /\ fresh' = fresh \ {s}
    /\ appended' = Unread
    /\ UNCHANGED results

\* Mutant: the parent enters the list and not the set.
Merge_NotInSet(s) ==
    /\ ~Redundant(s) /\ Neighbor(s) \in areas
    /\ fresh' = fresh \ {s}
    /\ appended' = Append(Unread, Parent(s))
    /\ UNCHANGED <<areas, results>>

\* The parent replaces the two; the neighbour will be redundant.
Merge(s) ==
    /\ ~Redundant(s) /\ Neighbor(s) \in areas
    /\ areas' = areas \cup {Parent(s)}
    /\ fresh' = fresh \ {s}
    /\ appended' = Append(Unread, Parent(s))
    /\ UNCHANGED results

Take(s) ==
    /\ ~Redundant(s) /\ Neighbor(s) \notin areas
    /\ results' = results \cup {s}
    /\ fresh' = fresh \ {s}
    /\ appended' = Unread
    /\ UNCHANGED areas

BitstringLoop ==
    /\ phase = "merge"
    /\ \E s \in Current : Skip(s) \/ Merge(s) \/ Take(s)
    /\ UNCHANGED <<found, phase>>

Return ==
    /\ phase = "merge" /\ Current = {}
    /\ phase' = "done"
    /\ UNCHANGED <<found, areas, fresh, appended, results>>

Next == (\E voxel \in Strings : Search(voxel)) \/ SearchFails \/ ToSlice \/ BitstringLoop \/ Return

Spec == Init /\ [][Next]_vars

\* A sequential function: its loop runs as long as it can.
FairSpec == Spec /\ WF_vars(BitstringLoop \/ Return)
-----------------------------------------------------------------------------
\* The finest positions below the strings of S.
Cells == [1..XY_BITS -> Bit]
Covered(S) == {c \in Cells : \E s \in S : IsPrefix(s, c)}

Merging == phase \in {"merge", "done"}
Listing == fresh \cup ToSet(appended)

\* The type of every variable; what is listed is in the set.
TypeOK ==
    /\ found \subseteq Strings /\ areas \subseteq Strings
    /\ appended \in Seq(Strings) /\ Listing \subseteq areas
    /\ results \subseteq Strings
    /\ phase \in {"search", "merge", "done", "failed"}

(* The loop neither loses a part of the polygons' cover nor adds to it: at *)
(* every step what was taken and what is still listed covers exactly what  *)
(* the searches found ("the covered area does not change").                *)
CoverKept == Merging => Covered(results \cup Listing) = Covered(found)

(* For voxels of one size the result is the smallest cover: no string lies *)
(* below another, and no two neighbours are left that their parent could   *)
(* replace, whatever the order of the list.                                *)
SmallestForOneSize ==
    phase = "done" /\ (\A s, t \in found : Len(s) = Len(t)) =>
        \A s, t \in results : s # t => ~IsPrefix(s, t) /\ t # Neighbor(s)

(* No string is taken twice: results is a list, and so is what follows,    *)
(* although a parent is reached from both of its children.                 *)
TakenOnce ==
    /\ results \cap Listing = {}
    /\ fresh \cap ToSet(appended) = {}
    /\ \A i, j \in DOMAIN appended : appended[i] = appended[j] => i = j

(* The loop ends unless the voxels cover the whole world: only the empty   *)
(* string is its own neighbour and its own parent.                         *)
ReturnsUnlessWorld ==
    phase = "merge" /\ Covered(found) # Cells ~> phase = "done"
=============================================================================
