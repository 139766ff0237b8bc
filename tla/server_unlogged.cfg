\* The log fails, or the process dies, after the release has committed.
SPECIFICATION Spec
CONSTANTS
    r1 = r1
    r2 = r2
    u1 = u1
    u2 = u2
    c1 = c1
    c2 = c2
    None = None
    Readers = {r1}
    Updaters = {u1}
    Certs = {c1, c2}
    Batches <- OneBatch
    Imported = {}
    NotAfter <- MCNotAfter
    RequestKinds = {"query"}
    Faults = {"trillian", "crash"}
    RemovalAccepted = TRUE
    MaxClock = 3
INVARIANT ResponseConsistent
CHECK_DEADLOCK FALSE
