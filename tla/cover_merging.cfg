\* Two polygons, their voxels of the same or of different sizes.
SPECIFICATION FairSpec
CONSTANTS
    XY_BITS = 3
    Z_BITS = 1
    MaxPolygons = 2
INVARIANTS CoverKept SmallestForOneSize TakenOnce
PROPERTY ReturnsUnlessWorld
\* The function has returned.
CHECK_DEADLOCK FALSE
