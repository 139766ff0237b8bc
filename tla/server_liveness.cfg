\* Requests for the heads next to failing insertions and releases, with a database
\* that rejects the removal statement.
SPECIFICATION FairSpec
CONSTANTS
    r1 = r1
    r2 = r2
    u1 = u1
    u2 = u2
    c1 = c1
    c2 = c2
    None = None
    Readers = {r1, r2}
    Updaters = {u1, u2}
    Certs = {c1, c2}
    Batches <- MCBatches
    Imported = {}
    NotAfter <- MCNotAfter
    RequestKinds = {"head"}
    Faults = {"db", "commit", "trillian"}
    RemovalAccepted = FALSE
    MaxClock = 3
PROPERTIES UpdateLockFreed ReadReturns
CHECK_DEADLOCK FALSE
