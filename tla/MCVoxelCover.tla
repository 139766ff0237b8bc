--------------------------- MODULE MCVoxelCover ---------------------------
(* Volumes for VoxelCover: a grid of 8 by 4 cells, 8 metres of altitude. *)
EXTENDS VoxelCover

\* Zero lies within the grid.
MCD == -3

\* h rows from y on, w columns from x on, over the date line as well.
Rectangle(x, w, y, h) == {<<i % (C_X + 1), j>> : i \in x..x + w - 1, j \in y..y + h - 1}

\* Single cells, rows, columns and blocks everywhere, belts around the world,
\* which contain a pole, and polygons that are bent.
MCPolygons ==
    {Rectangle(x, w, y, h) : <<x, w, y, h>> \in
        {<<x, w, y, h>> \in (0..C_X) \X {1, 2, 3, C_X + 1} \X (0..C_Y) \X {1, 2, C_Y + 1} :
            y + h <= C_Y + 1}}
    \cup {Rectangle(x, 3, 1, 1) \cup Rectangle(x, 1, 1, 3) : x \in 0..C_X}

Inserted(polygons, low, high) ==
    [polygons |-> polygons, imported |-> FALSE, low |-> low, high |-> high]
Row(polygons, kind, level, levels, surface) ==
    [polygons |-> polygons, imported |-> TRUE, kind |-> kind, level |-> level,
     levels |-> levels, surface |-> surface]

Levels == {AtSign, Blank} \cup [low : -2..1, high : -2..1]

\* The altitudes are those of one cell.  The surface may lie outside the grid.
MCCertificates ==
    {Inserted(<<p>>, 0, 0) : p \in MCPolygons}
    \cup {Inserted(<<Rectangle(0, 2, 0, 1), Rectangle(4, 1, 3, 1)>>, 0, 0)}
    \cup {Inserted(<<>>, low, high) : low, high \in 2 * D - 1..2 * H + 3}
    \cup {Row(<<>>, kind, level, levels, surface) :
            kind \in {"point", "building", "floor"}, level \in -2..1, levels \in Levels,
            surface \in {2 * D - 12, 2 * D, -1, 2, 2 * H - 1, 2 * H + 6}}
=============================================================================
