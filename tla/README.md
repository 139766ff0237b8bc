# GeoPKI map server: TLA+ models, model checking and proofs

GeoPKI binds certificates to volumes of space. A map server keeps a sparse
Merkle tree over bit strings (51 bits of latitude and longitude, 15 of
altitude); each node lists the certificates whose volume covers it. A signed map
head (SMH) signs the root of the published tree, and a Trillian log (the
*consistency tree*) records every SMH so that a server cannot show different
maps to different clients.

This directory models the code that keeps these promises while requests,
releases, failures and restarts interleave. All paths below are relative to the
repository.

## 1. Inventory

| part | code | state | operations |
|---|---|---|---|
| request handlers | `internal/geopki-server` | `SharedDataLock`, `UpdateLock`, the cached SMH, SCH and inclusion proof | `/v1/query`, `/v1/insert`, `/v1/release`, `get-sch`, `get-smh`, `get-sch-consistency`, `get-entries`, `get-entry-and-proof`, `get-proof-by-hash`, `certificates`, public key |
| server start | `cmd/geopki-server` | locals that become the cache | first SMH of an empty log, latest SMH, inclusion proof |
| consistency tree client | `pkg/crypto/consistency.go`, `smh.go` | none of its own; the log is in Trillian | append and poll, heads, inclusion proofs, consistency proofs |
| ingestion | `pkg/database/ingestion.go`, `database/functions` | tables `nodes`, `nodes_next`, `certificates` | add certificates, remove expired ones, recompute hashes bottom-up |
| queries | `pkg/database/query.go` | none | select rows for bit strings and an altitude range, rebuild the nodes |
| verification | `pkg/crypto/node.go`, `verification.go`, `pkg/comm/query.go` | the client's last SCH | hash of a tree, completeness of an answer, consistency of heads |
| bit strings | `pkg/bitstring` | none | ancestors, children, search over voxels, merging, altitude strings |
| geometry, certificates | `pkg/geometry`, `pkg/crypto/certificate.go` | none | polygons to bit strings (GDAL), JSON and hash of a certificate |
| importer | `cmd/db-address-exporter` | the tree in memory, channels, files | initial content of the tables |
| throughput client | `cmd/geopki-client-throughput` | `runningMutex`, `readyMutex`es, `stopTime`, results channel | a barrier around measuring threads |
| other clients | `cmd/geopki-client*`, `cmd/release`, ... | none | requests and measurements |
| external | Trillian, PostgreSQL | log and queue, tables and table locks | integrate leaves; transactions |

How they interact. A query handler holds the read lock from its first to its
last statement, runs one or two SQL statements and then reads the cache. An
insertion holds `UpdateLock` and changes `nodes_next` in a transaction. A
release holds `UpdateLock`, and in one transaction removes expired certificates
from `nodes_next`, moves the indices, swaps the tables, copies the new `nodes`
back and signs its root; it then takes the write lock, commits, appends the SMH
to the log, polls until the log has it, and replaces the cache. The log
integrates queued leaves when it likes. A restarted process rebuilds the cache
from the log alone.

The importer runs once, before the server: `main` reads a dataset, builds the tree
in memory and passes rows to five writer goroutines over bounded channels, nodes as
pointers. The positions at which a certificate is listed come from the search over
voxels and from its altitudes, which the importer derives from floors; a client turns
its position into a query by the same search and a range of altitudes.

The behaviours that are hard: the order of the three locks (read/write lock,
update lock, PostgreSQL's table lock); a commit and a cache that change in
different steps with a remote call in between; failures and crashes between
those steps; two statements of one query with two snapshots; a log that answers
late; the recomputation of hashes; off-by-one errors at the edges of altitude
ranges and of the grid; nodes that two goroutines of the importer use at once; a
barrier that relies on a sleep. `PROJECT.json` lists each at its line under `hazards`.

What makes each part correct:

* handlers: an answer's nodes, certificates, SMH, SCH and proof belong together;
  heads never go back; updates exclude each other and every lock is given back;
* ingestion: no certificate is lost, none that expired is published, the stored
  hashes are those of the stored tree whatever the order of insertions;
* queries and verification: an honest answer is accepted and an answer that
  omits something is not;
* bit strings: the cover of a volume is complete and has no redundancy; a query whose
  sphere reaches an area selects it;
* importer: every certificate and node is written once, with the hashes of the rows
  written for its children, and the goroutines end;
* throughput client: no report lacks a thread, and the program ends.

## 2. Modules

| module | what it is | code |
|---|---|---|
| `GeoPKIServer` | the running server: start, readers, updaters, locks, database, log, faults | `internal/geopki-server`, `cmd/geopki-server`, `pkg/crypto/consistency.go`, `pkg/database/ingestion.go` as whole steps |
| `MapService` | what the server promises its clients, without locks, transactions or log; `GeoPKIServer` implements it | |
| `BitStrings` | positions of the tree: ancestors, children, depth order | `pkg/bitstring`, loops of `ingestion.go` |
| `SmtNodes` | rows and hashes, as the database and as the client compute them | `database/functions`, `pkg/crypto/node.go` |
| `SparseMerkleTree` | one import, insertion or removal, statement by statement | `pkg/database/ingestion.go`, importer |
| `CertificateMap` | what such a transaction promises; `SparseMerkleTree` implements it | |
| `MapQuery` | one query: rows selected, answer, client verification, damage on the way | `pkg/database/query.go`, `pkg/crypto/verification.go`, `node.go` |
| `CoverMerging` | the loop that merges the voxels of polygons | `pkg/bitstring/bit_string_pair.go:819-865` |
| `AltitudeRanges` | altitudes as floors, strings and ranges of a query | `cmd/db-address-exporter` (`levelToAltitude`), `pkg/bitstring`, `pkg/comm/query.go` (`NewQuery`) |
| `VoxelCover` | the search over voxels and the altitude string of one volume | `pkg/bitstring/bit_string_pair.go`, `pkg/geometry` |
| `ImportPipeline` | the importer: `main`, five writers, channels and files | `cmd/db-address-exporter` |
| `ThroughputClient` | the barrier around the measuring threads | `cmd/geopki-client-throughput` |
| `MC...` | values of the constants for TLC | |
| `..._proofs` | theorems, see section 6 | |

`GeoPKIServer` and `SparseMerkleTree` describe the same insertion at two
granularities. Between the handlers the rows do not matter, only which
certificates a version holds, and a transaction is isolated by `UpdateLock`; so
`GeoPKIServer` has one step for it and treats the tree itself as its root hash.
That the hash stored in the root row really determines the tree is what
`SparseMerkleTree` shows (`RootCommitsToTree`, `HashesCurrent`), and `MapQuery`
starts from trees with exactly those hashes.

`VoxelCover` and `CoverMerging` are the two halves of `PolygonsTo2DBitStrings`:
`VoxelCover` implements the assumption that `CoverMerging` makes of the searches
(`ImplementsSearch`, a refinement in which the merging has not begun; proved, see
`SearchIsImplemented`).
`MapQuery` and `VoxelCover` share `AltitudeRanges`, the one as the server and the
verifying client use it, the other from the side of the certificate and of the
client's position. `ImportPipeline` has the hashes of `SmtNodes`, so its rows are what
`SparseMerkleTree` starts from.

### GeoPKIServer

| state | code |
|---|---|
| `smh`, `sch`, `proof` | `EndpointHandlerEnv`: `CurrentSignedMapHead`, `CurrentSignedConsistencyHead`, `SchInclusionProof`; before that the locals of `main` |
| `readers`, `writer`, `writerWaiting` | `SharedDataLock`, a `sync.RWMutex`: a writer that called `Lock` keeps new readers out |
| `updateLock` | `UpdateLock`, taken with `TryLock` |
| `db`, `nodesLock`, `scanners` | committed tables; PostgreSQL's `ACCESS EXCLUSIVE` and `ACCESS SHARE` locks on `nodes` |
| `log`, `queue` | Trillian's integrated and queued leaves |
| `rpc`, `request`, `upc`, `update` | where each handler goroutine is, and its locals |
| `seen` | the last answer each client connection received |
| `server` | process down, a step of `main`, or serving |

| actions | code |
|---|---|
| `Start`, `BootSign`, `BootPoll`, `BootLatest`, `BootServe`, `BootExit` | `geopki-server.go:161-251`; a start reads the log's head twice (`:163` and inside `LatestSignedMapHead`) |
| `Arrive`, `RLock`, `Select`, `ScanDone`, `SelectCertificates`, `QueryError`, `Reply` | `query.go:16-124`; kind `"head"` is a handler that only reads the cache |
| `InsertBegin`, `InsertAdd`, `InsertCommit` | `ingestion.go:16-91` |
| `ReleaseBegin`, `RemoveExpired`, `RemovalRejected`, `DropIndices`, `SwapAndSign`, `LockCall`, `LockAcquire`, `ReleaseCommit`, `AppendSignedMapHead`, `Poll`, `UpdateSCH`, `ReleaseReturn` | `ingestion.go:93-234`, `utilities.go`, `consistency.go:263-346` |
| `UpdateError`, `CommitLost` | every error return, with its deferred `Rollback` and `Unlock` calls; a commit whose acknowledgement is lost |
| `Integrate`, `Crash` | Trillian's sequencer; the process dies, its connections close, and committed tables, log and queue survive |

A step ends where another goroutine, the database or the log can see a
difference; consecutive statements on a handler's own transaction are one step.
A handler whose `TryLock` fails answers and changes nothing (a stuttering step).
`RemovalAccepted` says whether the database accepts the `UPDATE` of
`ingestion.go:442`. As it is written PostgreSQL rejects it, which is `FALSE`;
`TRUE` is the statement with quoted bit strings, so that what follows a removal
can be checked as well. `Faults` chooses among failing statements (`"db"`), lost
acknowledgements (`"commit"`), a log that fails or is later than the merge delay
(`"trillian"`) and `"crash"`.

### SparseMerkleTree

`rows` is `nodes_next` inside the transaction, `committed` outside; `change` and
`pending` are the code's `certificatesToAdd`/`certificatesToRemove` and
`ancestorSet`. `AddNewCertificates` and `RemoveExpiredCertificates` collect the
changes, `UpsertCertificates` and `RemoveCertificates` are the statement of one
iteration over a Go map (any order), `SortAncestors` is the `sort.Slice`,
`UpdateAncestor` one iteration over the sorted ancestors, in any order among
those of equal depth, with the insertion of a missing row. `Rollback` may happen
at any step of an update. A stored hash is a record of what was hashed, so equality of hashes is
equality of inputs; `NULL` is kept apart from the hash that stands for it.

### MapQuery

`PostQuery` evaluates `BuildNodeQuery`'s conditions (integer ranges over padded
strings, point queries for prefixes, the altitude filter) on the table and builds
the answer; `LoseNode` and `MixVersions` damage it; `VerifyResponse` is the
client. The tables are all trees with at most `MaxListed` rows at `Places` and
their ancestors, each row with or without certificates.

### CoverMerging

`areas` is the set the loop consults and extends, `fresh` and `appended` are the
unread part of its list: the strings from `ToSlice` in any order, then the
appended parents. Any set of voxels stands for the result of the searches, as
long as the voxels of one polygon have one size.

### AltitudeRanges and VoxelCover

Altitudes are halves of a metre, the least that tells a fraction above zero from one
below. `levelToAltitude` is the importer's heuristic with its refusals,
`SmallestEnclosingZBitString` the common prefix of two leaves, `NewQuery` the range that a
client asks for, with `int64`'s truncation and the enlarged radius.

A polygon is the set of the finest cells it meets, which is all that GDAL or S2 are
asked about it. The state is that of the function: `queue` (`q`), `visited`,
`intersecting`, `all`, `index` of the polygon; voxels are records as in the code.
`Neighbour` computes in words of `WORD_BITS` with Go's remainder; a shift `1 << n` is `TwoTo(n)`, one more
than `n` ones. Longitudes west of the first column are the large words they are in the code, and `Raw`
drops their upper bits. The actions are the
first voxel (any vertex and any number of steps, as the area decides the size),
`SkipVisited`, `SkipOutside`, `Expand`, `NextPolygon`, the altitude string
(`ExtrudedPolygonsToBitStringPairs`) and `GeometryFails` for every conversion that can.

### ImportPipeline

| state | code |
|---|---|
| `input`, `cert`, `main` | the rows to read, the row main works on, where main is |
| `tree` | `bitstringPairToNode`; each node with its own slice of certificates |
| `unsent`, `at`, `side` | the sorted slice of positions, the position main visits, the child it hashes |
| `channel`, `closed` | the five buffered channels |
| `wpc`, `row`, `files` | where each writer is, the node it was handed, the files it has written |
| `raced` | nodes whose slice two goroutines have sorted at the same time |
| `exited` | `log.Fatalf` |

| actions | code |
|---|---|
| `ReadRow`, `SendSize`, `SendSample`, `SendAltitude`, `AssignToNodes`, `SendCertificate` | one row of the dataset, `db-address-exporter.go:884-1003` |
| `CloseChannels`, `Visit`, `HashChild`, `SendNode`, `CloseNodes`, `Wait` | the tree, deepest positions first, `:1005-1105` |
| `Create`, `WriteRow`, `Finish` | a writer, `:397-514`, `:632-779` |
| `ReceiveNode`, `WriteNode` | `nodeWriter`, `:516-630` |
| `Fatal` | every `log.Fatalf` |

`Node.SortedCertificateHashes` sorts the node's own slice, and the writer may do so while
`main` hashes the same node for its parent. That is a data race: `Torn` gives the outcomes of
two sorts that swap entries of one slice at once, in which an entry may overwrite
another. The properties about nodes leave out those in `raced`; everything
else is shown with the race there.

### ThroughputClient

`holder`, `waiting` and `readers` are `runningMutex`, `ready` and `passed` the
`readyMutex`es, `results` the channel. Each statement that another goroutine can see is an
action. The sleep of one second is no guarantee: `LockCall` may come before any thread
has taken the lock.

## 3. Runs

| run | question | instance |
|---|---|---|
| `server_service` | do the handlers implement `MapService`: published version, consistent and complete answers | 2 readers, 2 updaters, 2 certificates of which one expires between the first and the second release, database errors, 3 clock readings |
| `server_faults` | what survives every fault | the same, all four kinds of faults, queries with certificates, 4 clock readings |
| `server_liveness` | do updates and reads return | requests for the heads, all faults but crashes, removal rejected, fairness |
| `server_deadlock` | violated: does an update always give its lock back | one query beside one release, no fault |
| `server_unlogged` | violated: are answers consistent when the log fails or the process dies | one reader, one updater |
| `tree_updates` | hashes, connectedness, root, refinement of `CertificateMap`, independence of the history | trees of depth 2 by 1; 3 certificates, one with two positions, one listed twice at a position, one on another's ancestor; batches of up to 2, imports, removals, rollbacks |
| `query_answers` | completeness and authenticity of accepted answers, acceptance of honest ones | depth 2 by 2, up to 2 rows among 9 places, all queries for one string or two, all altitude ranges, all three kinds of damage |
| `cover_merging` | is the cover kept, smallest, free of repetition, and does the loop end | strings of up to 3 bits, every set of voxels of one or two sizes, every order |
| `voxel_cover` | does the search cover every polygon, cross the date line and the poles, end, and meet the assumption of `CoverMerging`; do altitude strings enclose the floors, and queries select the areas their sphere reaches | 8 by 4 cells, words of 8 bits, rectangles of 12 shapes everywhere, bent polygons, two polygons, every first voxel of every size; 8 metres with zero inside, all floors and surfaces inside and outside, radii up to 3 |
| `import_pipeline` | is everything written once, with the right hashes; does a node change once it is handed over; does the importer end | datasets of up to 3 rows among 3 certificates and an unusable row, trees of up to 4 nodes, buffers for one row, files of two rows, faults |
| `import_lost` | violated: are all certificates exported | the same, no fault |
| `throughput` | is a report complete, which thread can be missing, does the program end | 3 threads, 2 ticks, hence up to 3 requests each |

Why the bounds are enough. The server's protocol distinguishes the goroutine that
holds a lock, one that waits for it and the rest: two of a kind give every
conflict, and the locks exclude more than two from being at one point. Versions
differ by what was inserted and by what expired; two certificates, one that
expires in mid-run and one that never does, give a version with either, both or
none. With 3 clock readings a server starts with a first SMH and two releases
follow it, so a release can follow a failed or a late one; `server_faults` has one
more so that a late leaf, a failed release and a successful one fit in one run.
The requests and the faults are unlimited. Depth 2 by 1 is the smallest tree with leaves in
altitude trees below inner positions of the plane that are siblings and
ancestors of each other, depth 2 by 2 the smallest in which the altitude range
can cut an altitude tree at an inner node; wider trees repeat these shapes. Three
bits let a merge propagate twice, the fewest with which a list order could
matter. The grid of `voxel_cover` has an inner row, both poles and a date line for voxels of full
precision and of every lower one, and its `X_BITS` exceeds `Y_BITS` by one as in the code; words
of 8 bits leave room above the grid as 32 do above 26. The grid of 16 by 8 cells passes as well
(`XY_BITS = 7`, 793,876 states). Half metres of altitude, floors of
three metres and a grid of eight put floors inside, across the edge and outside. The importer's
datasets have every reason to skip a row, a certificate listed twice at one position, rows
that leave the last file empty and not; with a buffer of one every writer makes main wait.
Three threads let one be measured, one be late and one wait for the lock.
The instances with symmetry have no liveness property.

`CHECK_DEADLOCK FALSE` is in the runs in which the modelled system may stop: the clock
readings are bounded (`MaxClock`) and a process that can sign no more SMHs
may wait; a query ends with its verdict, the search and the merging with a result, the
importer and the throughput client with the program (`ImportEnds` and `MainEnds` say that nothing else
stops them). That a
handler of the server never stops in between is checked as `UpdateLockFreed` and
`ReadReturns`, not by the absence of deadlock.

## 4. Fairness

Nobody has to send a request, and no fault has to happen. `Fairness` says:

* `WF` of `Boot` and of every step of a running handler, `ReaderStep(r)` and
  `UpdateStep(u)`: a goroutine that can run does run, and main is one;
* `WF` of `Integrate`: Trillian's sequencer works through its queue;
* `SF` of `RLock(r)`: when a writer releases a `sync.RWMutex`, the readers waiting then
  are admitted before the next writer, so repeated releases cannot keep one out;
* `SF` of `Select(r)` and `DropIndices(u)`: PostgreSQL queues the requests for a table
  lock, so that later requests do not overtake for ever.

`LockAcquire` needs no more than `WF`: `writerWaiting` keeps new readers out, so the
readers that are left finish and the step stays possible (this is the
mutant `ReadersAdmitted_Overtake`). For `CoverMerging`, a sequential function, `WF`
of its loop, and for `VoxelCover` of its steps.

The importer's `main` and each of its writers have `WF`: the runtime schedules a goroutine that can
run; a channel gives its room to a single sender. In the throughput client `main` and the threads have
`WF` for the same reason, a request is assumed to end with an answer or
an error (`QueryMapServer` sets no timeout of its own, so a server that never answers stops the measurement), and `Tick` has `WF` because time passes.

## 5. What the runs found

* **A query and a release can wait for each other for ever** (`server_deadlock`). The
  release has the exclusive lock of table `nodes` from `DROP INDEX` on
  (`ingestion.go:134-160`) when it asks for the write lock (`:211`); the query has the
  read lock (`query.go:22`) when it asks for the table. PostgreSQL sees only one
  half of the cycle.
* **A release that committed may leave the old SMH in place** (`server_unlogged`).
  After `tx.Commit` (`ingestion.go:214`) a failing or late log (`:223`) or the death of the process
  leaves new nodes with the old heads, also after a restart, because the start
  takes the log's last SMH and signs a new one only for an empty log.
* **The importer may delete its first file** (`import_lost`). When the last row takes a file
  over `MAX_FILE_SIZE`, the next file's name goes to a new variable (`fileName :=`,
  `db-address-exporter.go:479` and `:603`), and "if the file is empty, delete it" (`:505`)
  removes `part-0.sql`. `ExportedButFirstFile` and `TreeExported` show that nothing else is lost.

The models also say, without a run of their own:

* An expired certificate stops all releases: the bit strings in the `UPDATE` of
  `pkg/database/ingestion.go:442` are not quoted (`RemovalAccepted = FALSE`; `server_liveness`
  shows that such a release still gives its lock back).
* Nodes that begin at `maxAltitude` are left out: `query.go:103-107` shifts the bounds of the
  query by one against columns that are not shifted; the client demands the node and rejects an honest
  answer. `HonestIsAcceptedBelowEdge` shows that this is the only reason, and
  `SphereSelectsArea` that `NewQuery`, whose enlarged radius is always at least a metre too
  long, keeps away from that edge unless the radius is 0 or the string begins at the highest
  altitude. The same metre makes up for `int64` rounding negative altitudes towards zero.
* A node may list a certificate twice: a new row stores the appended array as it is, an existing
  one the union. Up to this the root does not depend on the history
  (`RootIndependentOfHistory`).
* A cover may hold a string and its prefix if its polygons differ in accuracy; never for one
  accuracy (`SmallestForOneSize`). And the merging ends unless the voxels cover the whole
  world (`ReturnsUnlessWorld`): the empty string is its own neighbour and its own parent. The search never
  finds the whole world as one voxel (`ImplementsSearch`).
* The remainder in the search is by `C_X`, one less than the number of columns. Clearing the low bits
  hides this for all voxels but those of full x precision at the first and the last column; at
  full y precision the last row counts as beyond the pole, since `bit_string_pair.go:787` compares with `C_Y`
  (`CoversAwayFromEdges`): a polygon of two cells, in the last row and the one before, gets the string of the
  latter only, although the search "always over-approximates" (`:935`). And the step across a pole
  does not reach the exact opposite of the last voxel west of the middle (`PoleCrossed`). Full precision is 26 and 25 bits, that is below a metre, and
  only certificates of that size reach it.
* A search that goes west around the world counts columns below zero. It does not follow a polygon
  that winds around the world and on: the column `C_X` west of the first is taken for none, so that
  the voxel in the first column is not reached again. Of a spiral on a grid of 8 by 8 (`<<0, 0>>`, `<<7, 1>>`, `<<6, 2>>`, `<<5, 3>>`, `<<4, 4>>`,
  `<<3, 4>>`, `<<2, 5>>`, `<<1, 6>>`) a search with voxels of 2 by 2 may miss the last one. And once the
  search is further west than half the world, the sum with half of `C_X` at a pole is that of a word below
  zero, and a voxel other than the opposite one is looked at. `Plain` and `NoLongWay` say which polygons are safe;
  both came out of the attempt to prove the properties without them, as no rectangle shows the difference.
* The two sorts of one slice in the importer can leave a node with a certificate twice and another
  one missing (`raced`).
* Whether the throughput client reports at all depends on the sleep: a thread that is late makes the
  sanity check fail, but never makes a report wrong (`OnlyLateThreadsMissing`).

What holds in spite of every fault: the SMH, SCH and proof of an answer belong together
and to the log, heads never go back, the log is in the order of signing and holds
committed roots only, no certificate is lost, and an answer with certificates is
complete.

## 6. Theorems

The proofs hold for any number of readers, updaters and certificates, any batches, faults and
expiry times, any depth of the tree and any length of a batch. Assumptions are only
those stated with the constants (`ConstantsAssumption`, `BitsAssumption`,
`TreeAssumption`, `QueryAssumption`, `LowestAssumption`, `PolygonsAssumption`, `VoxelAssumption`,
`NoneAssumption`, `ImportAssumption`, `ThreadsAssumption`)
and those in a theorem itself.

| theorem | argument |
|---|---|
| `TypeCorrect` | `TypeInv` adds to `TypeOK` where the values that may be missing (`smh`, `proof`, `draft`) are there: once the start has a head, and from the signature of a release on. |
| `HeadsAreCertified` | `HeadInv`: the cached proof fits the cached heads and the log holds them; what a release is about to cache is integrated, and the log only grows (`LogGrows`). Uses `LockInv`: who is in a release holds `UpdateLock`. |
| `LogIsOrdered` | Not inductive alone: `OrderInv` also bounds all timestamps of log and queue by the clock, and says that the SMH drafted by the only release (`LockInv`) is newer than all leaves until it is queued. `QueueShift`: integrating a leaf does not change `log \o queue`. |
| `AnswersAreComplete` | `ReadInv`: a running query holds the read lock and read a version the database still has, as a commit of a release needs the write lock. `StoreInv`: every certificate on a node is in table `certificates`, in the committed tables and in every transaction. |
| `ResponsesAreConsistent` | If `Faults` lacks `"commit"`, `"trillian"` and `"crash"`, `CacheInv`: the cached SMH signs the committed nodes, except between commit and update of the cache, when the write lock is held; `BootInv` gives this for the start. |
| `TreeTypeCorrect`, `CommittedHashesCurrent`, `CommittedTreeConnected` | `TreeInv`: a row whose stored hashes are out of date, or that is missing while a row below it exists, is among the pending ancestors, with all its own ancestors (`PendingClosed`); the next one is a deepest one, so what it hashes is current. When none is pending the transaction may commit. Rests on `AncestorsAbove`, `AncestorsTransitive` and `ParentIsAncestor`. |
| `TreeImplementsMap` | `MapInv`: the stored rows, completed by what is still due, are the committed rows after one insertion of some batch or one expiry of some set; every action is a stutter of `CertificateMap` except the commit. |
| `RootsCommitToTrees` | In a tree whose stored hashes are current and whose rows are connected (`TreeInv`), the hash of every row is what `Hash` computes for it, from the leaves up. |
| `RootsDependOnContent` | `NeededInv`: without removals a row is stored only if it is the root, lists a certificate or is above one that does. So the committed tree is the least one with its certificates, and `RootsCommitToTrees` applies. |
| `CertificatesAreKept`, `NothingExpiredIsReleased`, `CommittedRootsAreLogged` | `ReleaseInv` (per updater, `Transaction`): a transaction is, at each of its steps, one insertion or one removal of what has expired (and then the swap) from the tables that are committed, because `LockInv` admits one update at a time; so the tables change by whole insertions and releases only (`StepDatabase`). The draft signs the root of the transaction, and after the commit that of the table. |
| `HeadsNeverReturn` | `SeenInv`: no connection has seen more than the cache, or, during a restart, than the log gives the next cache; the log only grows and is ordered (`OrderInv`). |
| `ServiceIsImplemented` | From `StepDatabase` and `ServeInv` (what an answer may hold) with `CacheInv`: every step is one of `MapService` or changes nothing a client can see. The log, the locks and the transactions are stutters. |
| `ImporterTypeCorrect`, `NodesHandedOverAreFinal` | `HandInv`: a node that is handed over has been visited and is not the one `main` works on, so its hashes are final; hashing a parent sorts the child's slice and changes it only in a race. |
| `RowsAgreeWithTheirChildren` | `VisitedInv`: the children of a visited position are done, and the hash that `main` gave it for a child is still the child's; what is done stays done (`DoneStays`). `WrittenInv`: a row in a file is still what the node is. `FilesInv`: the files are numbered without a gap, so a row is only ever appended. |
| `CertificatesAreExported` | `StreamInv`: what a writer has been sent is what is due to it among the rows `main` has handled; of this its files hold a beginning, cut where they are full, and its channel the rest. `InputInv`: the row `main` works on is the last one read. `WaitedInv`: `main` has waited for all writers in turn. |
| `TreeIsExported` | `AssignedInv`: the tree is the one of the certificates assigned so far, each position with as many of each as they name it (`Contents`), unless its slice is in a race. `OrderInv`: there is one order in which `main` has finished nodes, with none twice; of it the files hold a beginning, cut where they are full, then comes the row in the writer's hands, then the channel; and the channel is closed only when every position is finished. So at the end the files are that order, cut, and a bijection with the tree; `WrittenInv` says what each row holds. |
| `ClientTypeCorrect`, `ReportsAreComplete`, `OnlyLateThreads` | `BarrierInv`: where the threads are while `main` is where; a thread between `RLock` and `RUnlock` keeps the writer out. `ResultsInv`: the results of a thread that is past its loop are in the channel or collected. `CountsInv`: how far the latencies are ahead of the counts, by the clock. |
| `MergingTypeCorrect`, `MergingKeepsCover`, `MergingTakesOnce` | `SetInv`: every string of the set has a prefix among what was taken or is still listed, and the set covers what was found; a parent covers its two halves and no more (`HalvesCover`). The parent that a merge adds is new, because no ancestor of the string was in the set. |
| `MergingIsSmallest` | `SizeInv`: the list is read from the longest strings to the shortest, each shorter by at most one than the next to be appended; so nothing is taken before all strings of its length are known, and what was taken never gets a neighbour or a prefix. |
| `MapQuery!TypeCorrect` | `QueryInv`: the tables are those of some published tree, and a verdict "accepted" means that `Verified` held. |
| `AcceptedAnswersAreAuthentic` | `SameHashes`: the hash of the answer's root is that of the stored tree, and hashes are injective, so going down the answer from the root each of its nodes is one of the tree with the same certificates and the same child hashes; every node of an accepted answer is reached (`InTree`). |
| `AcceptedAnswersAreComplete` | A node with certificates that is asked for lies on a path from the root. `PathIsComplete`, `IsComplete` and `IsZComplete`, unfolded one level at a time, demand the next node of that path unless its hash is the default one, and the hash of a stored node never is (`NextIsKnown`). |
| `HonestAnswersAreAccepted` | `BetweenIsRelated`: a row is within the integer bounds of a string only if one is a prefix of the other, and an extension always is; the point queries add the prefixes (`RelatedIsSelected`). So what is selected has its ancestors (`SelectedClosed`), the omitted children count with their stored hash (`HonestHashes`), and each child the client demands is selected. |
| `AltitudesAreEnclosed` | The string is the longest common prefix of the leaves of the lowest and the highest altitude (`LongestFacts`; there is one, up to the first bit in which they differ). Leaves are ordered as their altitudes (`MetreMonotone`), and a string that begins two numbers begins all between them (`BeginsBetween`). Clamped floors are on the grid (`BoundsFacts`). |
| `SpheresSelectAreas` | The string's range contains the metres of both ends (`AroundNumber`); truncation moves a bound by less than a metre (`RoundingFacts`, `MetreBounds`), and the enlarged radius is longer by at least one, which is what the truncation and the shifted bounds of the filter take away. |
| `SearchIsImplemented` | `SearchInv`: all voxels in the queue have the precision of the first one, since neighbours keep it, so all strings of one polygon have one size, at least 1 and at most `XY_BITS` (`GrownSized`); the sizes of the strings of earlier polygons are no more than these polygons (`OneSizeMore`). |
| `PolygonsAreCovered` | `FoundInv`: every voxel of the queue is `Vox(p, q, a, b)` for one precision `p`, `q` and some column `a` above `-TwoTo(p)` and row `b`; what was visited was looked at (`LookedAt`), and the neighbours of what was found are visited or in the queue (`Expanded`), so that with an empty queue the found cells are closed under the links of the polygon (`FollowsLink`), and a connected polygon is found as a whole (`ConnectedWhole`, by induction over the steps). Beneath it the arithmetic: `MovedColumn` (the mask of the low bits repairs the remainder by `C_X`, but at the seam), `RawOfVox` and `StringOfVox` (a voxel has one string whichever side it is reached from, and the string gives the voxel back), `CellsOfVox`. `Within` is what `Plain` is for: the search never goes further west than to a column that the polygon does not meet (`NeighbourWithin`). |
| `PolesAreCrossed` | The same invariant. `TurnedColumn`: east of minus half the world, the step to the east and across the pole lands in the column opposite, since the mask takes the missing column back; in the other half the step straight across does (`OppositeColumn`). `NoLongWay` keeps the search in that range (`NotFarWest`). |

The recursions. `Hash`, `IsZComplete`, `IsComplete`, `PathIsComplete`, `Padded` and `Chosen` are recursive functions over
finite sets of positions or numbers, and TLA+ knows such a function only if one exists. The library's
induction rules take an operator as a parameter and cannot be used here. `SmtNodes_proofs` has an
induction over a set instead (`Upwards`, `Downwards`: a set of positions that is closed towards the
root, or away from it, is all of them, by a least depth at which it fails). With it `HashUnfolded` and its
like show that the function exists and has the defining equation.

The assumption `Places \subseteq Pairs` holds for every set of rows the database can have.

`Connected` is a recursive function too, over the number of steps (`ReachedExists`).

Only model-checked: all liveness (`UpdateLockFreed`, `ReadReturns`, `ReturnsUnlessWorld`, `SearchEnds`,
`ImportEnds`, `MainEnds`: fairness is out of the prover's reach). Every other property of a passing run is
stated by a theorem.

## 7. Not modelled

* GDAL and S2 predicates (a polygon is the set of cells that they say it meets), the circle around a
  client, JSON and protobuf encodings, signatures: no state, or floating point; hashes and signatures
  are assumed to be injective and unforgeable.
* Handlers that only relay a Trillian response or read one row (`get-entries`,
  `get-entry-and-proof`, `get-sch-consistency`, `get-proof-by-hash`, `certificates`).
* Flags, directories and the parsing of the importer's dataset; the clients that send one request
  after the other; demo and evaluation scripts.
* Malformed answers (repeated or wrongly encoded nodes), which the client rejects before it looks at a tree.

## 8. Plan

What could follow, in this order:

1. A client that keeps its last SCH between answers and checks consistency proofs
   (`pkg/crypto/verification.go`), composed with `GeoPKIServer`: what it can
   detect after a server has lost or replaced its log.
