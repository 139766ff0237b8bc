\* Datasets of up to three rows, files of two rows.
SPECIFICATION FairSpec
CONSTANTS
    c1 = c1
    c2 = c2
    c3 = c3
    Certs = {c1, c2, c3}
    Unusable = Unusable
    XY_BITS = 1
    Z_BITS = 1
    Covers <- MCCovers
    TooLarge = {c3}
    HasAltitude = {c1}
    Datasets <- MCDatasets
    Capacity = 1
    MAX_FILE_SIZE = 1
    Faults = TRUE
INVARIANTS ExportedButFirstFile TreeExported RowsHashTheirChildren
PROPERTIES HandedOverIsFinal ImportEnds
\* The importer finishes.
CHECK_DEADLOCK FALSE
