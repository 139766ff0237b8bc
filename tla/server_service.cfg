\* Two clients, two updaters, insertions and releases, database errors.
SPECIFICATION Spec
CONSTANTS
    r1 = r1
    r2 = r2
    u1 = u1
    u2 = u2
    c1 = c1
    c2 = c2
    None = None
    Readers = {r1, r2}
    Updaters = {u1, u2}
    Certs = {c1, c2}
    Batches <- MCBatches
    Imported = {}
    NotAfter <- MCNotAfter
    RequestKinds = {"query", "full"}
    Faults = {"db"}
    RemovalAccepted = TRUE
    MaxClock = 3
SYMMETRY Symmetry
INVARIANTS ResponseConsistent AnswerComplete
PROPERTIES ImplementsService NothingExpiredReleased
CHECK_DEADLOCK FALSE
