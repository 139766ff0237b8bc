--------------------------- MODULE GeoPKIServer ---------------------------
(***************************************************************************)
(* The running map server: the request handlers of internal/geopki-server, *)
(* the start of cmd/geopki-server, the two locks of EndpointHandlerEnv,    *)
(* the PostgreSQL database behind the handlers and the Trillian log in     *)
(* which every signed map head (SMH) is recorded.                          *)
(*                                                                         *)
(* Readers are goroutines that answer queries, Updaters are goroutines     *)
(* that run /v1/insert and /v1/release.  Every step another goroutine, the *)
(* database or the log can observe is an action of its own.                *)
(*                                                                         *)
(* A version of the sparse Merkle tree is abstracted to what it stores: a  *)
(* flag saying that the root row exists, and the certificates found on its *)
(* nodes.  Two versions have the same root hash exactly when they are      *)
(* equal, so the version itself stands for its root hash.                  *)
(***************************************************************************)
EXTENDS Integers, Sequences, FiniteSets

CONSTANTS
    Readers,          \* goroutines serving read requests
    Updaters,         \* goroutines serving /v1/insert and /v1/release
    Certs,            \* certificates
    Batches,          \* the bodies of /v1/insert: sets of certificates
    Imported,         \* certificates loaded by the offline importer
    NotAfter,         \* NotAfter[c]: the last instant at which c is valid
    RequestKinds,     \* which read requests arrive
    Faults,           \* which faults the environment produces
    RemovalAccepted,  \* does the database accept the statement of removal
    MaxClock,         \* bound on the number of clock readings
    None

Kinds == {"head", "query", "full"}
FaultKinds == {"db", "commit", "trillian", "crash"}

ASSUME ConstantsAssumption ==
    /\ None \notin Readers \cup Updaters
    /\ Batches \subseteq SUBSET Certs
    /\ Imported \subseteq Certs
    /\ NotAfter \in [Certs -> Nat]
    /\ RequestKinds \subseteq Kinds
    /\ Faults \subseteq FaultKinds
    /\ RemovalAccepted \in BOOLEAN
    /\ MaxClock \in Nat

VARIABLES
    server,        \* the process: down, a step of main, or up
    smh, sch,      \* the cached heads: CurrentSignedMapHead and
    proof,         \*   CurrentSignedConsistencyHead; SchInclusionProof
    readers,       \* SharedDataLock: goroutines holding it for reading,
    writer,        \*   the one holding it for writing,
    writerWaiting, \*   and the one that called Lock and waits
    updateLock,    \* UpdateLock: its holder
    db,            \* the committed tables
    nodesLock,     \* the holder of ACCESS EXCLUSIVE on table nodes
    scanners,      \* goroutines holding ACCESS SHARE on table nodes
    log, queue,    \* Trillian: the integrated leaves, the leaves to integrate
    clock,         \* the last reading of the clock
    rpc, request,  \* each reader's control point, its request so far
    seen,          \* the last answer to a query sent over each connection
    upc, update    \* each updater's control point, its local state

cache == <<smh, sch, proof>>
sharedDataLock == <<readers, writer, writerWaiting>>
database == <<db, nodesLock, scanners>>
trillian == <<log, queue>>
readerVars == <<rpc, request, seen>>
updaterVars == <<upc, update>>
vars == <<server, cache, sharedDataLock, updateLock, database, trillian,
          clock, readerVars, updaterVars>>

---------------------------------------------------------------------------
(* Data *)

Tree == [rooted: BOOLEAN, certs: SUBSET Certs]

\* 'nodes' is what queries read, 'nodes_next' collects insertions.
Tables == [nodes: Tree, next: Tree, certificates: SUBSET Certs]

SMH == [root: Tree, timestamp: Nat]

\* An inclusion proof shows a leaf to be among the first 'size' leaves.
InclusionProof == [leaf: SMH, size: Nat]

\* A read request and what its queries returned.
Request == [kind: Kinds, nodes: Tree, certificates: SUBSET Certs]

Answer == [nodes: Tree, certificates: SUBSET Certs, full: BOOLEAN,
           smh: SMH, sch: Nat, proof: InclusionProof]

ASSUME NoneAssumption == None \notin Answer

\* An updater's transaction (the tables as it sees them), its time.Now(), the
\* SMH it signed and the size of the SCH it obtained.
Update == [tx: Tables, stamp: Nat, draft: SMH \cup {None}, sch: Nat]

EmptyTree == [rooted |-> FALSE, certs |-> {}]
EmptyTables == [nodes |-> EmptyTree, next |-> EmptyTree, certificates |-> {}]
NoRequest == [kind |-> "head", nodes |-> EmptyTree, certificates |-> {}]
NoUpdate == [tx |-> EmptyTables, stamp |-> 0, draft |-> None, sch |-> 0]

\* AddNewCertificates always creates the root row, even for an empty batch.
AddNewCertificates(tables, batch) ==
    [tables EXCEPT !.next = [rooted |-> TRUE, certs |-> @.certs \cup batch],
                   !.certificates = @ \cup batch]

ExpiredCertificates(tables, t) == {c \in tables.certificates : NotAfter[c] < t}

\* Mutant: expired certificates are deleted, but stay on the nodes.
RemoveExpired_RowsOnly(tables, t) ==
    [tables EXCEPT !.certificates = @ \ ExpiredCertificates(tables, t)]

RemoveExpiredCertificates(tables, t) ==
    LET expired == ExpiredCertificates(tables, t) IN
    [tables EXCEPT !.next.certs = @ \ expired, !.certificates = @ \ expired]

\* Some row of nodes_next carries an expired certificate: the UPDATE that
\* removes it will be sent.
RemovalNeeded(tables, t) ==
    tables.next.certs \cap ExpiredCertificates(tables, t) # {}

\* Mutant: the tables are swapped, 'nodes_next' is not refilled.
SwapTables_NoRefill(tables) ==
    [tables EXCEPT !.nodes = tables.next, !.next = tables.nodes]

\* The staged table becomes 'nodes' and is copied back into 'nodes_next'.
SwapTables(tables) == [tables EXCEPT !.nodes = tables.next]

\* Mutant: a missing root row is not replaced by the default hash.
CreateNewSMH_NoDefault(tables, t) ==
    [root |-> IF tables.nodes.rooted THEN tables.nodes ELSE None,
     timestamp |-> t]

CreateNewSMH(tables, t) == [root |-> tables.nodes, timestamp |-> t]

\* GetInclusionProofByHash: the leaf is among the first n leaves of the log.
Included(leaf, n) == \E i \in 1..Len(log) : i <= n /\ log[i] = leaf

Integrated(leaf) == Included(leaf, Len(log))

\* Mutant: the index of the latest leaf does not depend on the size.
LatestLeaf_First == log[1]

LatestLeaf == log[Len(log)]

ImportedTree == [rooted |-> Imported # {}, certs |-> Imported]

---------------------------------------------------------------------------
(* Control points *)

BootSteps == {"sign", "pollBoot", "latest", "prove"}
ReaderSteps == {"idle", "rlock", "select", "scan", "certificates", "reply"}
InsertSteps == {"add", "commitInsert"}
ReleaseSteps == {"remove", "indices", "swap", "lock", "wlock", "commit",
                 "append", "poll", "publish", "return"}

\* The statements of a handler whose failure rolls its transaction back.
Undoable == {"add", "commitInsert", "remove", "indices", "swap", "commit"}

\* The release has committed and its SMH is not cached yet.
Committed == {"append", "poll", "publish"}

---------------------------------------------------------------------------
Init ==
    /\ server = "down"
    /\ smh = None /\ sch = 0 /\ proof = None
    /\ readers = {} /\ writer = None /\ writerWaiting = None
    /\ updateLock = None
    /\ db = [nodes |-> ImportedTree, next |-> ImportedTree,
             certificates |-> Imported]
    /\ nodesLock = None /\ scanners = {}
    /\ log = <<>> /\ queue = <<>>
    /\ clock = 0
    /\ rpc = [r \in Readers |-> "idle"]
    /\ request = [r \in Readers |-> NoRequest]
    /\ seen = [r \in Readers |-> None]
    /\ upc = [u \in Updaters |-> "idle"]
    /\ update = [u \in Updaters |-> NoUpdate]

---------------------------------------------------------------------------
(* Start of the process (cmd/geopki-server).  The locals smh and sch of    *)
(* main become the cached heads when the handlers start.                   *)

RequestVars == <<sharedDataLock, updateLock, database, readerVars, updaterVars>>

\* Fetch the latest consistency head; an empty or new log needs a first SMH.
Start ==
    /\ server = "down"
    /\ sch' = Len(log)
    /\ server' = IF log = <<>> THEN "sign" ELSE "latest"
    /\ UNCHANGED <<smh, proof, trillian, clock, RequestVars>>

\* Sign the root of 'nodes' and queue the SMH as the first leaf.
BootSign ==
    /\ server = "sign"
    /\ clock < MaxClock
    /\ clock' = clock + 1
    /\ smh' = CreateNewSMH(db, clock')
    /\ queue' = Append(queue, smh')
    /\ server' = "pollBoot"
    /\ UNCHANGED <<sch, proof, log, RequestVars>>

BootPoll ==
    /\ server = "pollBoot"
    /\ Integrated(smh)
    /\ sch' = Len(log)
    /\ server' = "latest"
    /\ UNCHANGED <<smh, proof, trillian, clock, RequestVars>>

\* LatestSignedMapHead reads the head of the log again and takes the last
\* leaf: sch is older than that head when a leaf arrived in between.
BootLatest ==
    /\ server = "latest"
    /\ smh' = LatestLeaf
    /\ server' = "prove"
    /\ UNCHANGED <<sch, proof, trillian, clock, RequestVars>>

BootServe ==
    /\ server = "prove"
    /\ Included(smh, sch)
    /\ proof' = [leaf |-> smh, size |-> sch]
    /\ server' = "up"
    /\ UNCHANGED <<smh, sch, trillian, clock, RequestVars>>

\* The process exits: the proof cannot exist, or the log fails or is late.
BootExit ==
    /\ \/ server = "prove" /\ ~Included(smh, sch)
       \/ "trillian" \in Faults /\ server \in BootSteps
    /\ server' = "down"
    /\ smh' = None /\ sch' = 0
    /\ UNCHANGED <<proof, trillian, clock, RequestVars>>

Boot == Start \/ BootSign \/ BootPoll \/ BootLatest \/ BootServe \/ BootExit

---------------------------------------------------------------------------
(* Read requests.  "head" is a handler that only reads the cache: get-sch, *)
(* get-smh, and a query whose body does not parse.  "query" is /v1/query,  *)
(* "full" the same with the certificates included.                         *)

WriteSide == <<server, cache, writer, writerWaiting, updateLock, db,
               nodesLock, trillian, clock, updaterVars>>

\* The deferred RUnlock and rows.Close of a returning handler.
Done(r) ==
    /\ rpc' = [rpc EXCEPT ![r] = "idle"]
    /\ request' = [request EXCEPT ![r] = NoRequest]
    /\ readers' = readers \ {r}
    /\ scanners' = scanners \ {r}

Arrive(r) ==
    /\ server = "up"
    /\ rpc[r] = "idle"
    /\ \E k \in RequestKinds : request' = [request EXCEPT ![r].kind = k]
    /\ rpc' = [rpc EXCEPT ![r] = "rlock"]
    /\ UNCHANGED <<WriteSide, readers, scanners, seen>>

\* Mutant: readers overtake a waiting writer.
ReadersAdmitted_Overtake == writer = None

\* Mutant: queries do not take the read lock.
ReadersAdmitted_NoLock == TRUE

\* sync.RWMutex: a reader waits for the writer that holds the lock and for
\* the writer that waits for it.
ReadersAdmitted == writer = None /\ writerWaiting = None

RLock(r) ==
    /\ rpc[r] = "rlock"
    /\ ReadersAdmitted
    /\ readers' = readers \cup {r}
    /\ rpc' = [rpc EXCEPT ![r] = IF request[r].kind = "head" THEN "reply"
                                                             ELSE "select"]
    /\ UNCHANGED <<WriteSide, scanners, request, seen>>

\* The node query: waits for the table lock, then reads one snapshot.
Select(r) ==
    /\ rpc[r] = "select"
    /\ nodesLock = None
    /\ scanners' = scanners \cup {r}
    /\ request' = [request EXCEPT ![r].nodes = db.nodes]
    /\ rpc' = [rpc EXCEPT ![r] = "scan"]
    /\ UNCHANGED <<WriteSide, readers, seen>>

ScanDone(r) ==
    /\ rpc[r] = "scan"
    /\ request[r].nodes.rooted
    /\ scanners' = scanners \ {r}
    /\ rpc' = [rpc EXCEPT ![r] =
                  IF request[r].kind = "full" /\ request[r].nodes.certs # {}
                  THEN "certificates" ELSE "reply"]
    /\ UNCHANGED <<WriteSide, readers, request, seen>>

\* The query on table 'certificates' is a second statement with a snapshot of
\* its own.
SelectCertificates(r) ==
    /\ rpc[r] = "certificates"
    /\ request' = [request EXCEPT ![r].certificates =
                      request[r].nodes.certs \cap db.certificates]
    /\ rpc' = [rpc EXCEPT ![r] = "reply"]
    /\ UNCHANGED <<WriteSide, readers, scanners, seen>>

\* An error response: the root row is missing, or a statement failed.
QueryError(r) ==
    /\ \/ rpc[r] = "scan" /\ ~request[r].nodes.rooted
       \/ "db" \in Faults /\ rpc[r] \in {"scan", "certificates"}
    /\ Done(r)
    /\ UNCHANGED <<WriteSide, seen>>

\* Read the cached heads, send the response, release the read lock.
Reply(r) ==
    /\ rpc[r] = "reply"
    /\ seen' = IF request[r].kind = "head" THEN seen ELSE
                 [seen EXCEPT ![r] =
                    [nodes |-> request[r].nodes,
                     certificates |-> request[r].certificates,
                     full |-> request[r].kind = "full",
                     smh |-> smh, sch |-> sch, proof |-> proof]]
    /\ Done(r)
    /\ UNCHANGED WriteSide

ReaderStep(r) ==
    \/ RLock(r) \/ Select(r) \/ ScanDone(r) \/ SelectCertificates(r)
    \/ QueryError(r) \/ Reply(r)

---------------------------------------------------------------------------
(* /v1/insert and /v1/release.  A handler whose TryLock fails answers 400  *)
(* and changes nothing: that is a stuttering step.                         *)

ReadSide == <<server, readers, scanners, readerVars>>

Goto(u, step) == upc' = [upc EXCEPT ![u] = step]

\* Mutant: the result of TryLock is ignored.
TryLockSucceeds_Ignored == TRUE

TryLockSucceeds == updateLock = None

\* TryLock and BeginTx: the transaction starts from the committed tables.
Begin(u, step, time) ==
    /\ server = "up"
    /\ upc[u] = "idle"
    /\ TryLockSucceeds
    /\ updateLock' = u
    /\ update' = [update EXCEPT ![u].tx = db, ![u].stamp = time]
    /\ Goto(u, step)
    /\ UNCHANGED <<ReadSide, cache, writer, writerWaiting, db, nodesLock,
                   trillian>>

\* The deferred Unlock and Rollback calls of a returning handler.
Return(u) ==
    /\ Goto(u, "idle")
    /\ update' = [update EXCEPT ![u] = NoUpdate]
    /\ updateLock' = None
    /\ writer' = IF writer = u THEN None ELSE writer
    /\ nodesLock' = IF nodesLock = u THEN None ELSE nodesLock
    /\ UNCHANGED <<ReadSide, cache, writerWaiting, trillian, clock>>

InsertBegin(u) == Begin(u, "add", 0) /\ UNCHANGED clock

InsertAdd(u) ==
    /\ upc[u] = "add"
    /\ \E batch \in Batches :
           update' = [update EXCEPT ![u].tx = AddNewCertificates(@, batch)]
    /\ Goto(u, "commitInsert")
    /\ UNCHANGED <<ReadSide, cache, writer, writerWaiting, updateLock, db,
                   nodesLock, trillian, clock>>

\* An insertion writes 'nodes_next' and 'certificates', never 'nodes'.
InsertCommit(u) ==
    /\ upc[u] = "commitInsert"
    /\ db' = [db EXCEPT !.next = update[u].tx.next,
                        !.certificates = update[u].tx.certificates]
    /\ Return(u)

ReleaseBegin(u) ==
    /\ clock < MaxClock
    /\ clock' = clock + 1
    /\ Begin(u, "remove", clock')

RemoveExpired(u) ==
    /\ upc[u] = "remove"
    /\ RemovalAccepted \/ ~RemovalNeeded(update[u].tx, update[u].stamp)
    /\ update' = [update EXCEPT ![u].tx =
                     RemoveExpiredCertificates(@, update[u].stamp)]
    /\ Goto(u, "indices")
    /\ UNCHANGED <<ReadSide, cache, writer, writerWaiting, updateLock, db,
                   nodesLock, trillian, clock>>

\* The UPDATE that takes expired hashes off a node is rejected.
RemovalRejected(u) ==
    /\ upc[u] = "remove"
    /\ ~RemovalAccepted /\ RemovalNeeded(update[u].tx, update[u].stamp)
    /\ Return(u)
    /\ UNCHANGED db

\* DROP INDEX and ALTER TABLE lock table 'nodes' until the transaction ends.
DropIndices(u) ==
    /\ upc[u] = "indices"
    /\ nodesLock = None /\ scanners = {}
    /\ nodesLock' = u
    /\ Goto(u, "swap")
    /\ UNCHANGED <<ReadSide, cache, writer, writerWaiting, updateLock, db,
                   trillian, clock, update>>

\* Mutant: the SMH is signed before the tables are swapped.
SwapAndSign_SignFirst(u) ==
    /\ upc[u] = "swap"
    /\ update' = [update EXCEPT
                     ![u].tx = SwapTables(@),
                     ![u].draft = CreateNewSMH(update[u].tx, update[u].stamp)]
    /\ Goto(u, "lock")
    /\ UNCHANGED <<ReadSide, cache, writer, writerWaiting, updateLock, db,
                   nodesLock, trillian, clock>>

\* Swap the tables, refill 'nodes_next', sign the root of the new 'nodes'.
SwapAndSign(u) ==
    /\ upc[u] = "swap"
    /\ LET swapped == SwapTables(update[u].tx) IN
       update' = [update EXCEPT
                     ![u].tx = swapped,
                     ![u].draft = CreateNewSMH(swapped, update[u].stamp)]
    /\ Goto(u, "lock")
    /\ UNCHANGED <<ReadSide, cache, writer, writerWaiting, updateLock, db,
                   nodesLock, trillian, clock>>

\* Mutant: the writer does not wait for the readers.
WriterAdmitted_NoWait == writer = None

\* SharedDataLock.Lock(): announce the writer, then wait for the readers.
WriterAdmitted == readers = {} /\ writer = None

LockCall(u) ==
    /\ upc[u] = "lock"
    /\ writerWaiting = None
    /\ writerWaiting' = u
    /\ Goto(u, "wlock")
    /\ UNCHANGED <<ReadSide, cache, writer, updateLock, database, trillian,
                   clock, update>>

LockAcquire(u) ==
    /\ upc[u] = "wlock"
    /\ WriterAdmitted
    /\ writer' = u
    /\ writerWaiting' = None
    /\ Goto(u, "commit")
    /\ UNCHANGED <<ReadSide, cache, updateLock, database, trillian, clock,
                   update>>

ReleaseCommit(u) ==
    /\ upc[u] = "commit"
    /\ db' = update[u].tx
    /\ nodesLock' = None
    /\ Goto(u, "append")
    /\ UNCHANGED <<ReadSide, cache, writer, writerWaiting, updateLock,
                   trillian, clock, update>>

\* Commit takes effect but its acknowledgement is lost: the handler returns.
CommitLost(u) ==
    /\ "commit" \in Faults
    /\ upc[u] = "commit"
    /\ db' = update[u].tx
    /\ Return(u)

\* AppendSignedMapHead.  The SMH was never in the log before: its timestamp is
\* new.
AppendSignedMapHead(u) ==
    /\ upc[u] = "append"
    /\ queue' = Append(queue, update[u].draft)
    /\ Goto(u, "poll")
    /\ UNCHANGED <<ReadSide, cache, writer, writerWaiting, updateLock, db,
                   nodesLock, log, clock, update>>

\* Mutant: the loop returns the consistency head from before the append.
Poll_OldHead(u) ==
    /\ upc[u] = "poll"
    /\ Integrated(update[u].draft)
    /\ update' = [update EXCEPT ![u].sch = sch]
    /\ Goto(u, "publish")
    /\ UNCHANGED <<ReadSide, cache, writer, writerWaiting, updateLock, db,
                   nodesLock, trillian, clock>>

\* The polling loop ends when the log proves the inclusion of the SMH, with
\* the head of that moment.
Poll(u) ==
    /\ upc[u] = "poll"
    /\ Integrated(update[u].draft)
    /\ update' = [update EXCEPT ![u].sch = Len(log)]
    /\ Goto(u, "publish")
    /\ UNCHANGED <<ReadSide, cache, writer, writerWaiting, updateLock, db,
                   nodesLock, trillian, clock>>

\* Obtain the inclusion proof and replace the three cached values.
UpdateSCH(u) ==
    /\ upc[u] = "publish"
    /\ smh' = update[u].draft
    /\ sch' = update[u].sch
    /\ proof' = [leaf |-> smh', size |-> sch']
    /\ Goto(u, "return")
    /\ UNCHANGED <<ReadSide, writer, writerWaiting, updateLock, db,
                   nodesLock, trillian, clock, update>>

ReleaseReturn(u) == upc[u] = "return" /\ Return(u) /\ UNCHANGED db

\* Mutant: an error of the log returns with the write lock held.
UpdateError_KeepsLock(u) ==
    /\ upc[u] \in Committed
    /\ Goto(u, "idle")
    /\ updateLock' = None
    /\ update' = [update EXCEPT ![u] = NoUpdate]
    /\ UNCHANGED <<ReadSide, cache, writer, writerWaiting, db, nodesLock,
                   trillian, clock>>

\* An error before the commit rolls back; an error of the log comes after it
\* (a call fails, or the SMH is not integrated within the merge delay).
UpdateError(u) ==
    /\ \/ "db" \in Faults /\ upc[u] \in Undoable
       \/ "trillian" \in Faults /\ upc[u] \in Committed
    /\ Return(u)
    /\ UNCHANGED db

UpdateStep(u) ==
    \/ InsertAdd(u) \/ InsertCommit(u)
    \/ RemoveExpired(u) \/ RemovalRejected(u) \/ SwapAndSign(u)
    \/ LockCall(u) \/ LockAcquire(u)
    \/ ReleaseCommit(u) \/ AppendSignedMapHead(u) \/ Poll(u) \/ UpdateSCH(u)
    \/ ReleaseReturn(u)

UpdateFault(u) == CommitLost(u) \/ UpdateError(u)

UpdaterStep(u) ==
    \/ InsertBegin(u) \/ ReleaseBegin(u) \/ DropIndices(u)
    \/ UpdateStep(u) \/ UpdateFault(u)

---------------------------------------------------------------------------
(* Environment *)

\* Trillian integrates the queued leaves in the order they were queued.
Integrate ==
    /\ queue # <<>>
    /\ log' = Append(log, Head(queue))
    /\ queue' = Tail(queue)
    /\ UNCHANGED <<server, cache, clock, RequestVars>>

\* The process dies.  Its connections close, so the database rolls open
\* transactions back; committed tables, log and queue survive.
Crash ==
    /\ "crash" \in Faults
    /\ server # "down"
    /\ server' = "down"
    /\ smh' = None /\ sch' = 0 /\ proof' = None
    /\ readers' = {} /\ writer' = None /\ writerWaiting' = None
    /\ updateLock' = None /\ nodesLock' = None /\ scanners' = {}
    /\ rpc' = [r \in Readers |-> "idle"]
    /\ upc' = [u \in Updaters |-> "idle"]
    /\ request' = [r \in Readers |-> NoRequest]
    /\ update' = [u \in Updaters |-> NoUpdate]
    /\ UNCHANGED <<db, trillian, clock, seen>>

Next ==
    \/ Boot
    \/ \E r \in Readers : Arrive(r) \/ ReaderStep(r)
    \/ \E u \in Updaters : UpdaterStep(u)
    \/ Integrate
    \/ Crash

Spec == Init /\ [][Next]_vars

(***************************************************************************)
(* Requests and faults happen at will.  A handler that can run does run;   *)
(* a released RWMutex admits every waiting reader, and PostgreSQL queues   *)
(* lock requests, so neither lock can be missed forever.                   *)
(***************************************************************************)
Fairness ==
    /\ WF_vars(Boot)
    /\ WF_vars(Integrate)
    /\ \A r \in Readers : WF_vars(ReaderStep(r)) /\ SF_vars(RLock(r))
                          /\ SF_vars(Select(r))
    /\ \A u \in Updaters : WF_vars(UpdateStep(u)) /\ SF_vars(DropIndices(u))

FairSpec == Spec /\ Fairness
---------------------------------------------------------------------------
(* Correctness *)

\* The type of every variable.
TypeOK ==
    /\ server \in {"down", "up"} \cup BootSteps
    /\ smh \in SMH \cup {None} /\ sch \in Nat
    /\ proof \in InclusionProof \cup {None}
    /\ readers \subseteq Readers
    /\ writer \in Updaters \cup {None}
    /\ writerWaiting \in Updaters \cup {None}
    /\ updateLock \in Updaters \cup {None}
    /\ db \in Tables
    /\ nodesLock \in Updaters \cup {None} /\ scanners \subseteq Readers
    /\ log \in Seq(SMH) /\ queue \in Seq(SMH)
    /\ clock \in Nat
    /\ rpc \in [Readers -> ReaderSteps]
    /\ request \in [Readers -> Request]
    /\ seen \in [Readers -> Answer \cup {None}]
    /\ upc \in [Updaters -> {"idle"} \cup InsertSteps \cup ReleaseSteps]
    /\ update \in [Updaters -> Update]

\* The nodes of every answer are those of the version whose root the SMH of
\* the same answer signs: postQuery holds the read lock for its whole run "to
\* guarantee the cached data is consistent with the data retrieved from the
\* db", and a release commits and replaces the cache under the write lock.
ResponseConsistent ==
    \A r \in Readers : seen[r] # None => seen[r].nodes = seen[r].smh.root

\* The heads of every answer belong together and to the log: the proof is for
\* this SMH and this SCH, and the log really holds the SMH at that size.  This
\* survives every fault, also a process that dies between any two steps.
HeadsCertified ==
    \A r \in Readers : seen[r] # None =>
        /\ seen[r].proof = [leaf |-> seen[r].smh, size |-> seen[r].sch]
        /\ Included(seen[r].smh, seen[r].sch)
        /\ seen[r].sch <= Len(log)

\* An answer that includes certificates includes every certificate its nodes
\* name, although the two are read by two statements with two snapshots and
\* insertions commit in between.
AnswerComplete ==
    \A r \in Readers : seen[r] # None /\ seen[r].full =>
        seen[r].certificates = seen[r].nodes.certs

\* The heads a connection sees never go back, neither the size of the
\* consistency tree nor the time of the map head, across releases, failed
\* releases and restarts of the server.
HeadsNeverGoBack ==
    [][\A r \in Readers : seen[r] # None =>
          /\ seen'[r].sch >= seen[r].sch
          /\ seen'[r].smh.timestamp >= seen[r].smh.timestamp]_seen

\* Only roots the database has committed are sent to the log: at the moment a
\* leaf is queued its root is that of the committed table 'nodes'.
LogsCommittedRoots ==
    [][Len(queue') > Len(queue) => queue'[Len(queue')].root = db.nodes]_queue

\* The leaves reach the log in the order in which they were signed, so the
\* last leaf, which a restarting server takes for the current SMH, is the most
\* recent one.
LogInOrder ==
    LET leaves == log \o queue IN
    \A i, j \in 1..Len(leaves) :
        i < j => leaves[i].timestamp < leaves[j].timestamp

\* A certificate that was inserted stays staged, a published certificate stays
\* published, and the certificates that an answer names can be fetched by their
\* hashes (getCertificates, which takes no lock), until a release finds them
\* expired: no interleaving, rollback or crash loses one.
NoCertificateLost ==
    [][\A c \in Certs :
          /\ c \in db.next.certs \ db'.next.certs => NotAfter[c] < clock
          /\ c \in db.nodes.certs \ db'.nodes.certs => NotAfter[c] < clock
          /\ c \in db.certificates \ db'.certificates => NotAfter[c] < clock]_db

\* A release publishes no certificate that had expired when it began.
NothingExpiredReleased ==
    [][db'.nodes # db.nodes =>
          \A c \in db'.nodes.certs : NotAfter[c] >= clock]_db

\* What a client gets of an answer.
Delivered(answer) ==
    IF answer = None THEN None
    ELSE [nodes |-> answer.nodes, head |-> answer.smh.root, certificates |-> answer.certificates]

\* The answer a client receives reads the version published at that moment,
\* the staged and the published version change in one step each.
Service == INSTANCE MapService WITH
    Clients <- Readers,
    Instants <- 1..MaxClock,
    Initial <- ImportedTree,
    NoAnswer <- None,
    published <- db.nodes,
    staged <- db.next,
    certificates <- db.certificates,
    answers <- [r \in Readers |-> Delivered(seen[r])]

\* The server implements MapService while no fault hits between the commit of
\* a release and the update of the cache.
ImplementsService == Service!ServiceSpec

\* Whoever takes the update lock gives it back, so that later insertions and
\* releases are not told "try again later" for ever.
UpdateLockFreed ==
    \A u \in Updaters : updateLock = u ~> updateLock # u

\* A request for a cached head is answered although releases take the write
\* lock again and again.
ReadReturns ==
    \A r \in Readers : rpc[r] # "idle" ~> rpc[r] = "idle"
===========================================================================
