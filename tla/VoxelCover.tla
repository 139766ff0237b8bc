---------------------------- MODULE VoxelCover ----------------------------
(***************************************************************************)
(* From a certificate's volume to the positions that list it: the search   *)
(* over voxels in PolygonsTo2DBitStrings and the altitude string, as far   *)
(* as ExtrudedPolygonsToBitStringPairs (pkg/bitstring); what the merging   *)
(* of the voxels does is CoverMerging.                                     *)
(*                                                                         *)
(* A polygon is the set of the finest cells of the grid that it meets.     *)
(* Columns are longitudes, so the last is next to the first; rows are      *)
(* latitudes, and all cells of the first or last row meet at a pole.       *)
(***************************************************************************)
EXTENDS AltitudeRanges, FiniteSets

CONSTANTS
    WORD_BITS,     \* the width of the code's words: 32
    Certificates,  \* areas: polygons, and the altitudes or the floors they have
    Radii,         \* bound on the radius of a query, in metres
    MaxPolygons    \* bound on the polygons of an area

Y_BITS == XY_BITS \div 2
X_BITS == XY_BITS - Y_BITS

\* 1 << n: one more than n ones.
TwoTo(n) == Padded(<<>>, n, 1) + 1

C_X == TwoTo(X_BITS) - 1
C_Y == TwoTo(Y_BITS) - 1
Cells == (0..C_X) \X (0..C_Y)

\* X_BITS is 26 and Y_BITS 25.
ASSUME VoxelAssumption ==
    /\ XY_BITS > 1
    /\ WORD_BITS \in Nat /\ WORD_BITS > X_BITS + 2
    /\ \A c \in Certificates :
         /\ c.polygons \in Seq((SUBSET Cells) \ {{}}) /\ Len(c.polygons) <= MaxPolygons
         /\ IF c.imported
            THEN /\ c.level \in Int /\ c.surface \in Int
                 /\ c.levels \in {AtSign, Blank} \cup [low : Int, high : Int]
            ELSE c.low \in Int /\ c.high \in Int
    /\ Radii \in Nat /\ MaxPolygons \in Nat

VARIABLES
    certificate,   \* the volume
    index,         \* the polygon that is searched
    phase,         \* "initial", "search", "failed", "done" or "refused"
    queue,         \* q
    visited,
    intersecting,  \* intersectingAreas
    all,           \* intersectingAreasAllPolygons
    zString        \* the altitude string

vars == <<certificate, index, phase, queue, visited, intersecting, all, zString>>
-----------------------------------------------------------------------------
(* Words: int32, uint32, Go's remainder, a mask of the low bits. *)

Unsigned(a) == a % TwoTo(WORD_BITS)
Signed(u) == IF u >= TwoTo(WORD_BITS - 1) THEN u - TwoTo(WORD_BITS) ELSE u
Rem(a, n) == IF a >= 0 THEN a % n ELSE 0 - ((0 - a) % n)
ClearLow(u, k) == u - (u % TwoTo(k))

XStep(v) == TwoTo(X_BITS - v.XPrecision)
YStep(v) == TwoTo(Y_BITS - v.YPrecision)

\* The cells [XMin, XMax) by [YMin, YMax), on the circle of longitudes.
CellsOf(v) ==
    {<<x % (C_X + 1), y>> : x \in v.XMin..v.XMin + XStep(v) - 1, y \in v.YMin..v.YMin + YStep(v) - 1}

BitAt(n, bits, i) == (n \div TwoTo(bits - i)) % 2

\* RawXYBitStringPair: interleaved, x first; bits of x above X_BITS fall out.
Raw(v) ==
    [i \in 1..v.XPrecision + v.YPrecision |->
        IF i % 2 = 1 THEN BitAt(v.XMin, X_BITS, (i + 1) \div 2)
        ELSE BitAt(v.YMin, Y_BITS, i \div 2)]

\* RawXYBitString.BitString: the way back, with zeros for the bits that s lacks.
BitString(s) ==
    [XMin |-> Padded([i \in 1..(Len(s) + 1) \div 2 |-> s[2 * i - 1]], X_BITS, 0),
     YMin |-> Padded([i \in 1..Len(s) \div 2 |-> s[2 * i]], Y_BITS, 0),
     XPrecision |-> (Len(s) + 1) \div 2,
     YPrecision |-> Len(s) \div 2]
-----------------------------------------------------------------------------
(* The first voxel. *)

\* XYBitStringFromGeodeticCoordinates of a vertex in this cell.
FullVoxel(cell) ==
    [XMin |-> cell[1], YMin |-> cell[2], XPrecision |-> X_BITS, YPrecision |-> Y_BITS]

Lowered(v, xBits, yBits) ==
    [XMin |-> ClearLow(v.XMin, X_BITS - v.XPrecision + xBits),
     YMin |-> ClearLow(v.YMin, Y_BITS - v.YPrecision + yBits),
     XPrecision |-> v.XPrecision - xBits,
     YPrecision |-> v.YPrecision - yBits]

\* Mutant: the search may begin with the whole world.
Growable_World(v, steps) == steps <= v.XPrecision + v.YPrecision

\* Growing by more than there is fails.
Growable(v, steps) == steps < v.XPrecision + v.YPrecision

\* Of two equal precisions that of y goes down first.
Grow2D(v, steps) ==
    IF v.XPrecision = v.YPrecision THEN Lowered(v, steps \div 2, (steps + 1) \div 2)
    ELSE Lowered(v, (steps + 1) \div 2, steps \div 2)

-----------------------------------------------------------------------------
(* The neighbours of a voxel. *)

DELTAS == <<-1, 0, 1>>

\* Mutant: the low bits are kept after a rotation.
Neighbour_LowBits(v, dx, dy) ==
    LET east == Unsigned(Rem(Signed(v.XMin) + dx * XStep(v), C_X))
        y == v.YMin + dy * YStep(v)
        flips == y < 0 \/ y >= C_Y
    IN  [v EXCEPT !.XMin = IF flips THEN Unsigned(east + C_X \div 2) % C_X ELSE east,
                  !.YMin = IF y < 0 THEN 0 ELSE IF flips THEN v.YMin ELSE y]

\* Mutant: the longitude stays where it is at a pole.
Neighbour_NoTurn(v, dx, dy) ==
    LET y == v.YMin + dy * YStep(v)
        flips == y < 0 \/ y >= C_Y
    IN  [v EXCEPT !.XMin = ClearLow(Unsigned(Rem(Signed(v.XMin) + dx * XStep(v), C_X)),
                                    X_BITS - v.XPrecision),
                  !.YMin = IF y < 0 THEN 0 ELSE IF flips THEN v.YMin ELSE y]

\* Beyond a pole the longitude turns by half a circle and y stays.  The
\* remainder is by C_X, not by the number of columns.
Neighbour(v, dx, dy) ==
    LET east == Unsigned(Rem(Signed(v.XMin) + dx * XStep(v), C_X))
        y == v.YMin + dy * YStep(v)
        flips == y < 0 \/ y >= C_Y
        x == IF flips THEN Unsigned(east + C_X \div 2) % C_X ELSE east
    IN  [v EXCEPT !.XMin = ClearLow(x, X_BITS - v.XPrecision),
                  !.YMin = IF y < 0 THEN 0 ELSE IF flips THEN v.YMin ELSE y]

\* In the order of the two loops.
Neighbours(v) == [i \in 1..9 |-> Neighbour(v, DELTAS[(i + 2) \div 3], DELTAS[1 + ((i - 1) % 3)])]
-----------------------------------------------------------------------------
Polygon == certificate.polygons[index]

Init ==
    /\ certificate \in Certificates
    /\ index = 1
    /\ phase = "initial"
    /\ queue = <<>>
    /\ visited = {} /\ intersecting = {} /\ all = {}
    /\ zString = <<>>

\* InitialXYBitString: the finest voxel of some vertex, grown according to the
\* polygon's area.
InitialXYBitString(vertex, steps) ==
    /\ phase = "initial" /\ index <= Len(certificate.polygons)
    /\ vertex \in Polygon
    /\ Growable(FullVoxel(vertex), steps)
    /\ queue' = <<Grow2D(FullVoxel(vertex), steps)>>
    /\ visited' = {} /\ intersecting' = {}
    /\ phase' = "search"
    /\ UNCHANGED <<certificate, index, all, zString>>

Pop ==
    /\ phase = "search" /\ queue # <<>>
    /\ queue' = Tail(queue)
    /\ UNCHANGED <<certificate, index, all, zString>>

\* Mutant: the queue is popped behind the test.
SkipVisited_NoPop ==
    /\ phase = "search" /\ queue # <<>>
    /\ Raw(Head(queue)) \in visited
    /\ UNCHANGED vars

\* continue: the voxel was visited before.
SkipVisited ==
    /\ Pop
    /\ Raw(Head(queue)) \in visited
    /\ UNCHANGED <<phase, visited, intersecting>>

\* A voxel that does not meet the polygon; it must not be the first.
SkipOutside ==
    /\ Pop
    /\ Raw(Head(queue)) \notin visited
    /\ CellsOf(Head(queue)) \cap Polygon = {}
    /\ visited' = visited \cup {Raw(Head(queue))}
    /\ phase' = IF intersecting = {} THEN "failed" ELSE phase
    /\ UNCHANGED intersecting

\* A voxel that meets the polygon: its neighbours are looked at as well.
Expand ==
    /\ phase = "search" /\ queue # <<>>
    /\ LET v == Head(queue)
       IN  /\ Raw(v) \notin visited
           /\ visited' = visited \cup {Raw(v)}
           /\ CellsOf(v) \cap Polygon # {}
           /\ intersecting' = intersecting \cup {Raw(v)}
           /\ queue' = Tail(queue) \o Neighbours(v)
    /\ UNCHANGED <<certificate, index, phase, all, zString>>

\* The union of what was found for each polygon.
NextPolygon ==
    /\ phase = "search" /\ queue = <<>>
    /\ all' = all \cup intersecting
    /\ index' = index + 1
    /\ phase' = "initial"
    /\ UNCHANGED <<certificate, queue, visited, intersecting, zString>>

\* A certificate that is inserted has altitudes of its own, one that is imported
\* those of the floors in its row.
AltitudesOf(c) ==
    IF c.imported THEN levelToAltitude(c.kind, c.level, c.levels, c.surface)
    ELSE [min |-> c.low, max |-> c.high]

\* Every xy string gets the z string, unless the altitudes are out of range.
ExtrudedPolygonsToBitStringPairs ==
    /\ phase = "initial" /\ index > Len(certificate.polygons)
    /\ LET bounds == AltitudesOf(certificate)
       IN  IF bounds # Invalid /\ OnGrid(bounds.min) /\ OnGrid(bounds.max)
           THEN /\ phase' = "done"
                /\ zString' = SmallestEnclosingZBitString(bounds.min, bounds.max)
           ELSE phase' = "refused" /\ UNCHANGED zString
    /\ UNCHANGED <<certificate, index, queue, visited, intersecting, all>>

\* Growing beyond the world, or a conversion of the geometry, fails.
GeometryFails ==
    /\ \/ phase = "initial" /\ index <= Len(certificate.polygons)
       \/ phase = "search" /\ queue # <<>> /\ Raw(Head(queue)) \notin visited
    /\ phase' = "failed"
    /\ UNCHANGED <<certificate, index, queue, visited, intersecting, all, zString>>

Search == SkipVisited \/ SkipOutside \/ Expand \/ NextPolygon
Start == \E vertex \in Cells, steps \in 0..XY_BITS : InitialXYBitString(vertex, steps)

Next == Start \/ Search \/ ExtrudedPolygonsToBitStringPairs \/ GeometryFails

Spec == Init /\ [][Next]_vars

\* A sequential function.
FairSpec == Spec /\ WF_vars(Next)
-----------------------------------------------------------------------------
Covered(S) == UNION {CellsOf(BitString(s)) : s \in S}

\* Between two polygons, and the polygon searched last.
Searched == phase = "initial" /\ index > 1
LastPolygon == certificate.polygons[index - 1]

\* The steps of the voxels searched last.
XWidth == XStep(BitString(CHOOSE s \in intersecting : TRUE))
YWidth == YStep(BitString(CHOOSE s \in intersecting : TRUE))

\* The columns of voxels of this width that the polygon meets.
Columns(P, width) == {cell[1] \div width : cell \in P}

\* Pairs of cells that touch each other, on the circle of longitudes.
Links(P) ==
    {l \in P \X P :
        /\ (l[1][1] - l[2][1]) % (C_X + 1) \in {0, 1, C_X}
        /\ l[1][2] - l[2][2] \in -1..1}

\* Not across the meridian between the first two of more than two columns.
LinksUncut(P, width) ==
    {l \in Links(P) :
        2 * width <= C_X => {l[1][1] \div width, l[2][1] \div width} # {0, 1}}

\* The cells of P that links lead to from one of them, in n steps.
Connected(P, links) ==
    LET Reached[n \in 0..Cardinality(P)] ==
            IF n = 0 THEN {CHOOSE c \in P : TRUE}
            ELSE LET before == Reached[n - 1]
                 IN  before \cup {d \in P : \E c \in before : <<c, d>> \in links}
    IN  Reached[Cardinality(P)] = P

\* A polygon that does not wind around the world.
Plain(P, width) ==
    \/ Connected(P, Links(P)) /\ \E x \in 0..C_X : x \div width \notin Columns(P, width)
    \/ Connected(P, LinksUncut(P, width))

(* "Always over-approximates, i.e. covers the whole extruded polygon": for a *)
(* polygon that does not wind around the world, the search finds every cell *)
(* the polygon meets, across the date line, if its voxels are larger than   *)
(* the finest.  With full precision of y it may miss parts of a polygon     *)
(* that meets the last row, which counts as beyond the pole, with that of x *)
(* the first or the last column, because the remainder is by C_X.  Nor does *)
(* it follow a polygon west around the whole world and on: C_X columns west *)
(* of the first are taken for none.                                         *)
CoversAwayFromEdges ==
    Searched /\ Plain(LastPolygon, XWidth) =>
        \/ LastPolygon \subseteq Covered(intersecting)
        \/ \E cell \in LastPolygon :
              \/ cell[2] = C_Y /\ YWidth = 1
              \/ cell[1] \in {0, C_X} /\ XWidth = 1

\* The search has not come to these voxels from the west around half the world.
NoLongWay(P, width) ==
    \E x \in {0} \cup (TwoTo(X_BITS - 1) - width)..C_X : x \div width \notin Columns(P, width)

(* At a pole the search goes on at the opposite longitude ("by rotating     *)
(* around x"): when a voxel at the edge meets the polygon, the one opposite *)
(* of it is looked at, except the last one west of the middle, for which    *)
(* half of C_X is one column too few.  Further west of the date line than   *)
(* half the world, the sum of the longitude and half of C_X is below zero,  *)
(* and another voxel is looked at.                                          *)
PoleCrossed ==
    Searched /\ NoLongWay(LastPolygon, XWidth) =>
        \A s \in intersecting :
            LET v == BitString(s)
                opposite == [v EXCEPT !.XMin = (@ + TwoTo(X_BITS - 1)) % TwoTo(X_BITS)]
            IN  /\ v.YMin = 0 \/ v.YMin + YStep(v) > C_Y
                /\ v.XMin + XStep(v) # TwoTo(X_BITS - 1)
                => Raw(opposite) \in visited

(* A row of the dataset whose floors are consistent gets an altitude       *)
(* string, however high or low the surface.  The string covers every       *)
(* altitude of the area, and no longer string does ("smallest enclosing"). *)
AltitudesEnclosed ==
    LET bounds == AltitudesOf(certificate)
        leaves == {ZBitStringFromGeodeticCoordinate(a) : a \in bounds.min..bounds.max}
    IN  /\ phase = "refused" /\ certificate.imported => bounds = Invalid
        /\ phase = "done" =>
             /\ \A leaf \in leaves : IsPrefix(zString, leaf)
             /\ bounds.min <= bounds.max /\ Len(zString) < Z_BITS =>
                  \A b \in Bit : \E leaf \in leaves : ~IsPrefix(Append(zString, b), leaf)

(* A query whose sphere meets the altitudes of an area selects its          *)
(* positions, in the server's filter and in what the client demands: the    *)
(* fraction that NewQuery drops below zero and the metre that the server    *)
(* takes off the upper end are made up for by the enlarged radius.  A       *)
(* string that begins at the highest altitude is never selected.            *)
SphereSelectsArea ==
    phase = "done" /\ ZMin(zString) < C_Z =>
        LET bounds == AltitudesOf(certificate)
        IN  \A a \in 2 * D..2 * H, radius \in 1..Radii :
              /\ NewQuery(a, radius) # Invalid
              /\ a - 2 * radius <= bounds.max /\ bounds.min <= a + 2 * radius
              =>  /\ InAltitude(zString, NewQuery(a, radius))
                  /\ IntersectsAltitudeRange(zString, NewQuery(a, radius))

(* The search ends, whatever the polygon.                                  *)
SearchEnds == <>(phase \in {"done", "refused", "failed"})

\* What the search puts into the set that the merging reads.
Merging == INSTANCE CoverMerging WITH
    found <- all \cup intersecting, areas <- all \cup intersecting,
    fresh <- {}, appended <- <<>>, results <- {},
    phase <- IF phase = "failed" THEN "failed" ELSE "search"

(* The searches are an implementation of what CoverMerging assumes of them: *)
(* they only add voxels, none is the whole world, and those of one polygon  *)
(* have one size.                                                           *)
ImplementsSearch == Merging!Spec
=============================================================================
