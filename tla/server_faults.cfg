\* Every fault at every step: failed statements, lost commits, a late or failing
\* log, crashes.
SPECIFICATION Spec
CONSTANTS
    r1 = r1
    r2 = r2
    u1 = u1
    u2 = u2
    c1 = c1
    c2 = c2
    None = None
    Readers = {r1, r2}
    Updaters = {u1, u2}
    Certs = {c1, c2}
    Batches <- MCBatches
    Imported = {}
    NotAfter <- MCNotAfter
    RequestKinds = {"full"}
    Faults = {"db", "commit", "trillian", "crash"}
    RemovalAccepted = TRUE
    MaxClock = 4
SYMMETRY Symmetry
INVARIANTS TypeOK HeadsCertified LogInOrder
PROPERTIES HeadsNeverGoBack LogsCommittedRoots NoCertificateLost
CHECK_DEADLOCK FALSE
