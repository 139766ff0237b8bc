\* A query next to a release.
SPECIFICATION FairSpec
CONSTANTS
    r1 = r1
    r2 = r2
    u1 = u1
    u2 = u2
    c1 = c1
    c2 = c2
    None = None
    Readers = {r1}
    Updaters = {u1}
    Certs = {c1, c2}
    Batches <- OneBatch
    Imported = {c1}
    NotAfter <- MCNotAfter
    RequestKinds = {"query"}
    Faults = {}
    RemovalAccepted = TRUE
    MaxClock = 2
PROPERTY UpdateLockFreed
CHECK_DEADLOCK FALSE
