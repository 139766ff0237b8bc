\* Imports, insertions, removals and rollbacks.
SPECIFICATION Spec
CONSTANTS
    c1 = c1
    c2 = c2
    c3 = c3
    Certs = {c1, c2, c3}
    Covers <- MCCovers
    Imported = {c2}
    MaxBatch = 2
    RemovalAccepted = TRUE
    XY_BITS = 2
    Z_BITS = 1
INVARIANTS TypeOK HashesCurrent NoOrphans RootCommitsToTree
PROPERTIES ImplementsMap RootIndependentOfHistory
