\* A grid of 8 by 4 cells and 8 metres.
SPECIFICATION FairSpec
CONSTANTS
    XY_BITS = 5
    Z_BITS = 3
    WORD_BITS = 8
    D <- MCD
    Radii = 3
    MaxPolygons = 2
    Certificates <- MCCertificates
INVARIANTS CoversAwayFromEdges PoleCrossed AltitudesEnclosed SphereSelectsArea
PROPERTIES SearchEnds ImplementsSearch
\* The function has returned.
CHECK_DEADLOCK FALSE
