\* Honest answers, and answers that lack a node or hold one of another version.
SPECIFICATION Spec
CONSTANTS
    c1 = c1
    Certs = {c1}
    XY_BITS = 2
    Z_BITS = 2
    D <- MCD
    MaxListed = 2
    Places <- MCPlaces
    Areas <- MCAreas
    Damage = {"row", "node", "version"}
INVARIANTS TypeOK AcceptedIsComplete AcceptedIsAuthentic HonestIsAcceptedBelowEdge
\* A query ends with its verdict.
CHECK_DEADLOCK FALSE
