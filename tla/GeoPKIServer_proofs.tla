------------------------ MODULE GeoPKIServer_proofs ------------------------
(***************************************************************************)
(* Theorems about GeoPKIServer, for every number of readers, updaters,     *)
(* certificates and releases: its types, locks, log and heads; what an     *)
(* answer contains and what a release changes; that heads never go back;   *)
(* and that GeoPKIServer implements MapService.                            *)
(***************************************************************************)
EXTENDS GeoPKIServer, SequenceTheorems, TLAPS

---------------------------------------------------------------------------
(* Type correctness *)

\* Handlers run only while the process is up, and a value that may be None is
\* none of the points where the code uses it.
Present ==
    /\ server \in {"pollBoot", "prove", "up"} => smh \in SMH
    /\ server = "latest" => log # <<>>
    /\ server = "up" => proof \in InclusionProof
    /\ \A r \in Readers : rpc[r] # "idle" => server = "up"
    /\ \A u \in Updaters : upc[u] # "idle" => server = "up"
    /\ \A u \in Updaters :
           upc[u] \in {"lock", "wlock", "commit"} \cup Committed
               => update[u].draft \in SMH

TypeInv == TypeOK /\ Present

LEMMA DataTypes ==
    /\ EmptyTree \in Tree
    /\ EmptyTables \in Tables
    /\ ImportedTree \in Tree
    /\ NoRequest \in Request
    /\ NoUpdate \in Update
BY ConstantsAssumption
   DEF EmptyTree, EmptyTables, NoRequest, NoUpdate, Tree, Tables, Request,
       Update, Kinds, ImportedTree

LEMMA TablesTypes ==
    ASSUME NEW tables \in Tables, NEW t \in Nat
    PROVE  /\ \A batch \in Batches : AddNewCertificates(tables, batch) \in Tables
           /\ RemoveExpiredCertificates(tables, t) \in Tables
           /\ SwapTables(tables) \in Tables
           /\ CreateNewSMH(tables, t) \in SMH
BY ConstantsAssumption
   DEF AddNewCertificates, RemoveExpiredCertificates, ExpiredCertificates,
       SwapTables, CreateNewSMH, Tables, Tree, SMH

LEMMA InitTypeInv == Init => TypeInv
BY DataTypes, ConstantsAssumption
   DEF Init, TypeInv, TypeOK, Present, Tables, BootSteps, Committed, ReaderSteps, Kinds

USE DEF BootSteps, ReaderSteps, InsertSteps, ReleaseSteps, Committed

LEMMA BootTypeInv == TypeInv /\ Boot => TypeInv'
<1> SUFFICES ASSUME TypeInv, Boot PROVE TypeInv'
  OBVIOUS
<1> USE DEF TypeInv, TypeOK, Present, RequestVars, sharedDataLock, database,
            readerVars, updaterVars, trillian
<1>1. CASE Start
  BY <1>1 DEF Start
<1>2. CASE BootSign
  <2>1. smh' \in SMH
    <3>1. db \in Tables /\ clock' \in Nat
      BY <1>2 DEF BootSign
    <3>2. CreateNewSMH(db, clock') \in SMH
      BY <3>1, TablesTypes
    <3>3. QED  BY <1>2, <3>2 DEF BootSign
  <2>2. QED  BY <1>2, <2>1 DEF BootSign
<1>3. CASE BootPoll
  <2>1. log # <<>>
    BY <1>3 DEF BootPoll, Integrated, Included
  <2>2. QED  BY <1>3, <2>1 DEF BootPoll
<1>4. CASE BootLatest
  <2>1. smh' \in SMH
    BY <1>4 DEF BootLatest, LatestLeaf
  <2>2. QED  BY <1>4, <2>1 DEF BootLatest
<1>5. CASE BootServe
  BY <1>5 DEF BootServe, InclusionProof
<1>6. CASE BootExit
  BY <1>6 DEF BootExit
<1>7. QED  BY <1>1, <1>2, <1>3, <1>4, <1>5, <1>6 DEF Boot

LEMMA ReaderTypeInv ==
    ASSUME NEW r \in Readers
    PROVE  TypeInv /\ (Arrive(r) \/ ReaderStep(r)) => TypeInv'
<1> SUFFICES ASSUME TypeInv, Arrive(r) \/ ReaderStep(r) PROVE TypeInv'
  OBVIOUS
<1> USE DataTypes, ConstantsAssumption
    DEF TypeInv, TypeOK, Present, WriteSide, cache, trillian, updaterVars
<1>1. CASE Arrive(r)
  <2>1. PICK k \in RequestKinds : request' = [request EXCEPT ![r].kind = k]
    BY <1>1 DEF Arrive
  <2>2. [request[r] EXCEPT !.kind = k] \in Request
    BY DEF Request
  <2>3. request' \in [Readers -> Request]
    BY <2>1, <2>2
  <2>4. QED  BY <1>1, <2>3 DEF Arrive
<1>2. CASE RLock(r)
  BY <1>2 DEF RLock
<1>3. CASE Select(r)
  <2>1. [request[r] EXCEPT !.nodes = db.nodes] \in Request
    BY DEF Request, Tables
  <2>2. request' \in [Readers -> Request]
    BY <1>3, <2>1 DEF Select
  <2>3. QED  BY <1>3, <2>2 DEF Select
<1>4. CASE ScanDone(r)
  BY <1>4 DEF ScanDone
<1>5. CASE SelectCertificates(r)
  <2>1. request[r].nodes.certs \cap db.certificates \in SUBSET Certs
    BY DEF Request, Tree
  <2>2. [request[r] EXCEPT !.certificates = request[r].nodes.certs \cap db.certificates]
            \in Request
    BY <2>1 DEF Request
  <2>3. request' \in [Readers -> Request]
    BY <1>5, <2>2 DEF SelectCertificates
  <2>4. QED  BY <1>5, <2>3 DEF SelectCertificates
<1>6. CASE QueryError(r)
  BY <1>6 DEF QueryError, Done
<1>7. CASE Reply(r)
  <2>1. seen' \in [Readers -> Answer \cup {None}]
    <3>1. server = "up"
      BY <1>7 DEF Reply
    <3>2. smh \in SMH /\ proof \in InclusionProof /\ sch \in Nat
      BY <3>1
    <3>3. request[r] \in Request
      OBVIOUS
    <3>4. [nodes |-> request[r].nodes, certificates |-> request[r].certificates,
           full |-> request[r].kind = "full",
           smh |-> smh, sch |-> sch, proof |-> proof] \in Answer
      BY <3>2, <3>3 DEF Answer, Request
    <3>5. QED  BY <1>7, <3>4 DEF Reply
  <2>2. QED  BY <1>7, <2>1 DEF Reply, Done
<1>8. QED
  BY <1>1, <1>2, <1>3, <1>4, <1>5, <1>6, <1>7 DEF ReaderStep

\* What a returning handler leaves behind.
LEMMA ReturnTypeInv ==
    ASSUME NEW u \in Updaters, TypeInv, Return(u), db' \in Tables
    PROVE  TypeInv'
BY DataTypes, ConstantsAssumption
   DEF Return, Goto, TypeInv, TypeOK, Present, ReadSide, cache, trillian, readerVars

LEMMA InsertTypeInv ==
    ASSUME NEW u \in Updaters
    PROVE  TypeInv /\ (InsertBegin(u) \/ InsertAdd(u) \/ InsertCommit(u))
               => TypeInv'
<1> SUFFICES ASSUME TypeInv, InsertBegin(u) \/ InsertAdd(u) \/ InsertCommit(u)
             PROVE  TypeInv'
  OBVIOUS
<1> USE DEF TypeInv, TypeOK, Present
<1> USE DEF Goto, ReadSide, cache, trillian, readerVars
<1>0. update[u] \in Update /\ update[u].tx \in Tables
  BY DEF Update
<1>1. CASE InsertBegin(u)
  <2>1. update' \in [Updaters -> Update]
    BY <1>0, <1>1 DEF InsertBegin, Begin, Update
  <2>2. QED  BY <1>1, <2>1 DEF InsertBegin, Begin
<1>2. CASE InsertAdd(u)
  <2>1. PICK batch \in Batches :
          update' = [update EXCEPT ![u].tx = AddNewCertificates(@, batch)]
    BY <1>2 DEF InsertAdd
  <2>2. AddNewCertificates(update[u].tx, batch) \in Tables
    BY <1>0, TablesTypes
  <2>3. update' \in [Updaters -> Update]
    BY <1>0, <2>1, <2>2 DEF Update
  <2>4. QED  BY <1>2, <2>1, <2>3 DEF InsertAdd
<1>3. CASE InsertCommit(u)
  <2>1. db' \in Tables
    BY <1>0, <1>3 DEF InsertCommit, Tables
  <2>2. QED  BY <1>3, <2>1, ReturnTypeInv DEF InsertCommit
<1>4. QED  BY <1>1, <1>2, <1>3

LEMMA ReleaseTypeInv ==
    ASSUME NEW u \in Updaters, TypeInv,
           \/ ReleaseBegin(u) \/ RemoveExpired(u) \/ RemovalRejected(u)
           \/ DropIndices(u) \/ SwapAndSign(u) \/ LockCall(u) \/ LockAcquire(u)
           \/ ReleaseCommit(u) \/ ReleaseReturn(u) \/ CommitLost(u)
           \/ UpdateError(u)
    PROVE  TypeInv'
<1> USE DEF TypeInv, TypeOK, Present
<1> USE DEF Goto, ReadSide, cache, database, trillian, readerVars
<1>0. update[u] \in Update /\ update[u].tx \in Tables /\ update[u].stamp \in Nat
  BY DEF Update
<1>1. CASE ReleaseBegin(u)
  <2>1. update' \in [Updaters -> Update]
    <3>1. clock' \in Nat
      BY <1>1 DEF ReleaseBegin
    <3>2. [update[u] EXCEPT !.tx = db, !.stamp = clock'] \in Update
      BY <1>0, <3>1 DEF Update
    <3>3. QED  BY <1>1, <3>2 DEF ReleaseBegin, Begin
  <2>2. QED  BY <1>1, <2>1 DEF ReleaseBegin, Begin
<1>2. CASE RemoveExpired(u)
  <2>1. RemoveExpiredCertificates(update[u].tx, update[u].stamp) \in Tables
    BY <1>0, TablesTypes
  <2>2. update' \in [Updaters -> Update]
    BY <1>0, <1>2, <2>1 DEF RemoveExpired, Update
  <2>3. QED  BY <1>2, <2>2 DEF RemoveExpired
<1>3. CASE RemovalRejected(u)
  BY <1>3, ReturnTypeInv DEF RemovalRejected
<1>4. CASE DropIndices(u)
  BY <1>4 DEF DropIndices
<1>5. CASE SwapAndSign(u)
  <2> DEFINE swapped == SwapTables(update[u].tx)
             draft == CreateNewSMH(swapped, update[u].stamp)
  <2>1. swapped \in Tables
    BY <1>0, TablesTypes
  <2>2. draft \in SMH
    BY <1>0, <2>1, TablesTypes
  <2>3. update' = [update EXCEPT ![u].tx = swapped, ![u].draft = draft]
    BY <1>5 DEF SwapAndSign
  <2> HIDE DEF swapped, draft
  <2>4. [update[u] EXCEPT !.tx = swapped, !.draft = draft] \in Update
    BY <1>0, <2>1, <2>2 DEF Update
  <2>5. update' \in [Updaters -> Update] /\ update'[u].draft \in SMH
    BY <2>2, <2>3, <2>4 DEF Update
  <2>6. \A v \in Updaters \ {u} : update'[v] = update[v]
    BY <2>3
  <2>7. QED  BY <1>5, <2>5, <2>6 DEF SwapAndSign
<1>6. CASE LockCall(u)
  BY <1>6 DEF LockCall
<1>7. CASE LockAcquire(u)
  BY <1>7 DEF LockAcquire
<1>8. CASE ReleaseCommit(u)
  BY <1>0, <1>8 DEF ReleaseCommit
<1>9. CASE ReleaseReturn(u)
  BY <1>9, ReturnTypeInv DEF ReleaseReturn
<1>10. CASE CommitLost(u)
  BY <1>0, <1>10, ReturnTypeInv DEF CommitLost
<1>11. CASE UpdateError(u)
  BY <1>11, ReturnTypeInv DEF UpdateError
<1>12. QED
  BY <1>1, <1>2, <1>3, <1>4, <1>5, <1>6, <1>7, <1>8, <1>9, <1>10, <1>11

LEMMA PublishTypeInv ==
    ASSUME NEW u \in Updaters, TypeInv,
           AppendSignedMapHead(u) \/ Poll(u) \/ UpdateSCH(u)
    PROVE  TypeInv'
<1> USE DEF TypeInv, TypeOK, Present
<1> USE DEF Goto, ReadSide, cache, database, trillian, readerVars
<1>0. update[u] \in Update
  OBVIOUS
<1>1. CASE AppendSignedMapHead(u)
  <2>1. queue' \in Seq(SMH)
    <3>1. update[u].draft \in SMH
      BY <1>1 DEF AppendSignedMapHead
    <3>2. QED  BY <1>1, <3>1 DEF AppendSignedMapHead
  <2>2. QED  BY <1>1, <2>1 DEF AppendSignedMapHead
<1>2. CASE Poll(u)
  <2>1. [update[u] EXCEPT !.sch = Len(log)] \in Update
    <3>1. Len(log) \in Nat
      BY LenProperties
    <3>2. QED  BY <1>0, <3>1 DEF Update
  <2>2. update' = [update EXCEPT ![u] = [update[u] EXCEPT !.sch = Len(log)]]
    BY <1>2 DEF Poll
  <2>3. update' \in [Updaters -> Update] /\ update'[u].draft = update[u].draft
    BY <1>0, <2>1, <2>2 DEF Update
  <2>4. \A v \in Updaters \ {u} : update'[v] = update[v]
    BY <2>2
  <2>5. QED  BY <1>2, <2>3, <2>4 DEF Poll
<1>3. CASE UpdateSCH(u)
  <2>1. smh' \in SMH /\ sch' \in Nat /\ proof' \in InclusionProof
    BY <1>0, <1>3 DEF UpdateSCH, Update, InclusionProof
  <2>2. QED  BY <1>3, <2>1 DEF UpdateSCH
<1>4. QED  BY <1>1, <1>2, <1>3

LEMMA EnvironmentTypeInv == TypeInv /\ (Integrate \/ Crash) => TypeInv'
<1> SUFFICES ASSUME TypeInv, Integrate \/ Crash PROVE TypeInv'
  OBVIOUS
<1> USE DEF TypeInv, TypeOK, Present, RequestVars, sharedDataLock, database,
            readerVars, updaterVars, trillian, cache
<1>1. CASE Integrate
  <2>1. log' \in Seq(SMH) /\ queue' \in Seq(SMH) /\ log' # <<>>
    BY <1>1 DEF Integrate
  <2>2. QED  BY <1>1, <2>1 DEF Integrate
<1>2. CASE Crash
  BY <1>2, DataTypes, ConstantsAssumption DEF Crash
<1>3. QED  BY <1>1, <1>2

LEMMA StepTypeInv == TypeInv /\ [Next]_vars => TypeInv'
<1> SUFFICES ASSUME TypeInv, [Next]_vars PROVE TypeInv'
  OBVIOUS
<1>1. CASE Boot
  BY <1>1, BootTypeInv
<1>2. CASE \E r \in Readers : Arrive(r) \/ ReaderStep(r)
  BY <1>2, ReaderTypeInv
<1>3. ASSUME NEW u \in Updaters, UpdaterStep(u)
      PROVE  TypeInv'
  BY <1>3, InsertTypeInv, ReleaseTypeInv, PublishTypeInv
     DEF UpdaterStep, UpdateStep, UpdateFault
<1>4. CASE Integrate \/ Crash
  BY <1>4, EnvironmentTypeInv
<1>5. CASE UNCHANGED vars
  BY <1>5 DEF vars, cache, sharedDataLock, database, trillian, readerVars,
              updaterVars, TypeInv, TypeOK, Present
<1>6. QED  BY <1>1, <1>2, <1>3, <1>4, <1>5 DEF Next

\* Every variable keeps its type.
THEOREM TypeCorrect == Spec => []TypeOK
<1>1. Init => TypeInv
  BY InitTypeInv
<1>2. TypeInv /\ [Next]_vars => TypeInv'
  BY StepTypeInv
<1>3. TypeInv => TypeOK
  BY DEF TypeInv
<1>4. QED  BY <1>1, <1>2, <1>3, PTL DEF Spec

---------------------------------------------------------------------------
(* Who holds which lock: the handlers' control points determine it.        *)

\* UpdateLock is held from TryLock to the return of the handler,
\* SharedDataLock from Lock or RLock to the return.
UpdateLocked == \A u \in Updaters : upc[u] # "idle" <=> updateLock = u

WriterLocked ==
    \A u \in Updaters :
        /\ writer = u <=> upc[u] \in {"commit", "return"} \cup Committed
        /\ writerWaiting = u <=> upc[u] = "wlock"

ReaderLocked ==
    \A r \in Readers :
        r \in readers <=> rpc[r] \in {"select", "scan", "certificates", "reply"}

LockInv ==
    /\ UpdateLocked
    /\ WriterLocked
    /\ ReaderLocked
    /\ writer # None => readers = {}

LEMMA StepLockInv == TypeInv /\ LockInv /\ [Next]_vars => LockInv'
<1> SUFFICES ASSUME TypeInv, LockInv, [Next]_vars PROVE LockInv'
  OBVIOUS
<1> USE ConstantsAssumption
    DEF TypeInv, TypeOK, Present, LockInv, UpdateLocked, WriterLocked, ReaderLocked
<1>1. CASE Boot
  BY <1>1 DEF Boot, Start, BootSign, BootPoll, BootLatest, BootServe, BootExit,
              RequestVars, sharedDataLock, readerVars, updaterVars
<1>2. ASSUME NEW r \in Readers, Arrive(r) \/ ReaderStep(r)
      PROVE  LockInv'
  <2> USE DEF WriteSide, updaterVars
  <2>1. CASE Arrive(r)
    BY <2>1 DEF Arrive
  <2>2. CASE RLock(r)
    BY <2>2 DEF RLock, ReadersAdmitted
  <2>3. CASE Select(r)
    BY <2>3 DEF Select
  <2>4. CASE ScanDone(r)
    BY <2>4 DEF ScanDone
  <2>5. CASE SelectCertificates(r)
    BY <2>5 DEF SelectCertificates
  <2>6. CASE QueryError(r) \/ Reply(r)
    BY <2>6 DEF QueryError, Reply, Done
  <2>7. QED
    BY <1>2, <2>1, <2>2, <2>3, <2>4, <2>5, <2>6 DEF ReaderStep
<1>3. ASSUME NEW u \in Updaters, UpdaterStep(u)
      PROVE  LockInv'
  <2> USE DEF Goto, ReadSide, readerVars
  <2>1. CASE InsertBegin(u) \/ ReleaseBegin(u)
    BY <2>1 DEF InsertBegin, ReleaseBegin, Begin, TryLockSucceeds
  <2>2. CASE InsertAdd(u) \/ RemoveExpired(u) \/ DropIndices(u) \/ SwapAndSign(u)
    BY <2>2 DEF InsertAdd, RemoveExpired, DropIndices, SwapAndSign
  <2>3. CASE LockCall(u)
    BY <2>3 DEF LockCall
  <2>4. CASE LockAcquire(u)
    BY <2>4 DEF LockAcquire, WriterAdmitted
  <2>5. CASE ReleaseCommit(u) \/ AppendSignedMapHead(u) \/ Poll(u) \/ UpdateSCH(u)
    BY <2>5 DEF ReleaseCommit, AppendSignedMapHead, Poll, UpdateSCH
  <2>6. ASSUME Return(u), upc[u] \notin {"idle", "wlock"}
        PROVE  LockInv'
    BY <2>6 DEF Return
  <2>7. QED
    BY <1>3, <2>1, <2>2, <2>3, <2>4, <2>5, <2>6
       DEF UpdaterStep, UpdateStep, UpdateFault, InsertCommit, RemovalRejected, ReleaseReturn,
           CommitLost, UpdateError, Undoable
<1>4. CASE Integrate
  BY <1>4 DEF Integrate, RequestVars, sharedDataLock, readerVars, updaterVars
<1>5. CASE Crash
  BY <1>5 DEF Crash
<1>6. CASE UNCHANGED vars
  BY <1>6 DEF vars, sharedDataLock, readerVars, updaterVars
<1>7. QED  BY <1>1, <1>2, <1>3, <1>4, <1>5, <1>6 DEF Next

---------------------------------------------------------------------------
(* The certified heads.                                                    *)

\* The cached heads belong together and to the log, and so do the heads a
\* release is about to cache.
HeadInv ==
    /\ server \in {"latest", "prove"} => sch <= Len(log)
    /\ server = "up" => /\ proof = [leaf |-> smh, size |-> sch]
                        /\ Included(smh, sch)
                        /\ sch <= Len(log)
    /\ \A u \in Updaters : upc[u] = "publish" =>
           /\ Included(update[u].draft, update[u].sch)
           /\ update[u].sch <= Len(log)

\* The log only grows, so what it includes it will include.
LEMMA LogGrows ==
    TypeOK /\ [Next]_vars =>
        /\ Len(log') >= Len(log)
        /\ \A leaf, n : Included(leaf, n) => Included(leaf, n)'
<1> SUFFICES ASSUME TypeOK, [Next]_vars
             PROVE  /\ Len(log') >= Len(log)
                    /\ \A leaf, n : Included(leaf, n) => Included(leaf, n)'
  OBVIOUS
<1>1. CASE Integrate
  BY <1>1 DEF Integrate, TypeOK, Included
<1>2. CASE log' = log
  BY <1>2, LenProperties DEF TypeOK, Included
<1>3. Integrate \/ log' = log
  <2>1. CASE Boot
    BY <2>1 DEF Boot, Start, BootSign, BootPoll, BootLatest, BootServe, BootExit, trillian
  <2>2. CASE \E r \in Readers : Arrive(r) \/ ReaderStep(r)
    BY <2>2 DEF Arrive, ReaderStep, RLock, Select, ScanDone, SelectCertificates,
                QueryError, Reply, WriteSide, trillian
  <2>3. ASSUME NEW u \in Updaters, UpdaterStep(u)
        PROVE  log' = log
    BY <2>3 DEF UpdaterStep, InsertBegin, ReleaseBegin, Begin, DropIndices, UpdateStep,
         UpdateFault, InsertAdd, InsertCommit, RemoveExpired, RemovalRejected,
         SwapAndSign, LockCall, LockAcquire, ReleaseCommit, AppendSignedMapHead,
         Poll, UpdateSCH, ReleaseReturn, CommitLost, UpdateError, Return, trillian
  <2>4. CASE Crash
    BY <2>4 DEF Crash, trillian
  <2>5. CASE UNCHANGED vars
    BY <2>5 DEF vars, trillian
  <2>6. QED  BY <2>1, <2>2, <2>3, <2>4, <2>5 DEF Next
<1>4. QED  BY <1>1, <1>2, <1>3

LEMMA StepHeadInv == TypeInv /\ HeadInv /\ [Next]_vars => HeadInv'
<1> SUFFICES ASSUME TypeInv, HeadInv, [Next]_vars PROVE HeadInv'
  OBVIOUS
<1> USE DEF HeadInv
<1>0. /\ Len(log) \in Nat /\ Len(log') \in Nat /\ sch \in Nat
      /\ \A u \in Updaters : update[u] \in Update /\ update[u].sch \in Nat
      /\ \A r \in Readers : rpc[r] # "idle" => server = "up"
      /\ \A u \in Updaters : upc[u] # "idle" => server = "up"
  <2>1. TypeInv'
    BY StepTypeInv
  <2>2. QED
    BY <2>1, LenProperties DEF TypeInv, TypeOK, Present, Update
<1>g. /\ Len(log') >= Len(log)
      /\ \A leaf, n : Included(leaf, n) => Included(leaf, n)'
  BY LogGrows DEF TypeInv
\* A step that touches no head keeps the invariant.
<1>s. ASSUME UNCHANGED cache, server' \in {server, "down", "sign"},
             \A u \in Updaters : upc'[u] = "publish"
                 => upc[u] = "publish" /\ update'[u] = update[u]
      PROVE  HeadInv'
  BY <1>0, <1>g, <1>s DEF cache
<1>1. CASE Boot
  <2> USE DEF RequestVars, updaterVars, trillian
  <2>1. \A u \in Updaters : upc'[u] = "publish" => server = "up"
    BY <1>0, <1>1 DEF Boot, Start, BootSign, BootPoll, BootLatest, BootServe, BootExit
  <2>2. CASE Start \/ BootSign \/ BootPoll \/ BootLatest \/ BootExit
    BY <1>0, <1>g, <2>1, <2>2
       DEF Start, BootSign, BootPoll, BootLatest, BootExit, BootSteps
  <2>3. CASE BootServe
    BY <1>0, <1>g, <2>1, <2>3 DEF BootServe, Included
  <2>4. QED  BY <1>1, <2>2, <2>3 DEF Boot
<1>2. CASE \E r \in Readers : Arrive(r) \/ ReaderStep(r)
  BY <1>2, <1>s
     DEF Arrive, ReaderStep, RLock, Select, ScanDone, SelectCertificates,
         QueryError, Reply, WriteSide, updaterVars
<1>3. ASSUME NEW u \in Updaters, UpdaterStep(u)
      PROVE  HeadInv'
  <2> USE DEF TypeInv, TypeOK, Goto, ReadSide
  <2>1. CASE Poll(u)
    <3>1. Included(update[u].draft, Len(log))
      BY <2>1 DEF Poll, Integrated
    <3>2. update' = [update EXCEPT ![u] = [update[u] EXCEPT !.sch = Len(log)]]
      BY <2>1 DEF Poll
    <3>3. update'[u].draft = update[u].draft /\ update'[u].sch = Len(log)
      BY <1>0, <3>2 DEF Update
    <3>4. \A v \in Updaters \ {u} : update'[v] = update[v] /\ upc'[v] = upc[v]
      BY <2>1, <3>2 DEF Poll
    <3>5. UNCHANGED <<server, cache>>
      BY <2>1 DEF Poll
    <3>6. QED  BY <1>0, <1>g, <3>1, <3>3, <3>4, <3>5 DEF cache
  <2>2. CASE UpdateSCH(u)
    <3>1. /\ smh' = update[u].draft /\ sch' = update[u].sch
          /\ proof' = [leaf |-> smh', size |-> sch']
          /\ UNCHANGED <<server, log, update>>
          /\ \A v \in Updaters : upc'[v] = "publish" => upc[v] = "publish"
      BY <2>2 DEF UpdateSCH, trillian
    <3>2. Included(update[u].draft, update[u].sch) /\ update[u].sch <= Len(log)
      BY <2>2 DEF UpdateSCH
    <3>3. server = "up"
      BY <1>0, <2>2 DEF UpdateSCH
    <3>4. QED  BY <1>0, <1>g, <3>1, <3>2, <3>3
  <2>3. CASE InsertBegin(u) \/ ReleaseBegin(u) \/ DropIndices(u)
    BY <1>s, <2>3 DEF InsertBegin, ReleaseBegin, Begin, DropIndices
  <2>4. CASE \/ InsertAdd(u) \/ RemoveExpired(u) \/ SwapAndSign(u) \/ LockCall(u)
             \/ LockAcquire(u) \/ ReleaseCommit(u) \/ AppendSignedMapHead(u)
    BY <1>s, <2>4
       DEF InsertAdd, RemoveExpired, SwapAndSign, LockCall, LockAcquire,
           ReleaseCommit, AppendSignedMapHead
  <2>5. CASE Return(u)
    BY <1>s, <2>5 DEF Return
  <2>6. QED
    BY <1>3, <2>1, <2>2, <2>3, <2>4, <2>5
       DEF UpdaterStep, UpdateStep, UpdateFault, InsertCommit, RemovalRejected, ReleaseReturn,
           CommitLost, UpdateError
<1>4. CASE Integrate
  BY <1>4, <1>s DEF Integrate, RequestVars, updaterVars
<1>5. CASE Crash
  BY <1>0, <1>5 DEF Crash
<1>6. CASE UNCHANGED vars
  BY <1>6, <1>s DEF vars, updaterVars
<1>7. QED  BY <1>1, <1>2, <1>3, <1>4, <1>5, <1>6 DEF Next

\* Only a reply changes what a connection has seen.
LEMMA StepSeen == [Next]_vars => seen' = seen \/ \E r \in Readers : Reply(r)
<1> SUFFICES ASSUME [Next]_vars, \A r \in Readers : ~Reply(r)
             PROVE  seen' = seen
  OBVIOUS
<1> USE DEF readerVars
<1>1. CASE Boot \/ Integrate \/ Crash
  BY <1>1 DEF Boot, Start, BootSign, BootPoll, BootLatest, BootServe, BootExit,
              Integrate, Crash, RequestVars
<1>2. CASE \E r \in Readers : Arrive(r) \/ ReaderStep(r)
  BY <1>2 DEF Arrive, ReaderStep, RLock, Select, ScanDone, SelectCertificates,
              QueryError
<1>3. ASSUME NEW u \in Updaters, UpdaterStep(u)
      PROVE  seen' = seen
  BY <1>3 DEF UpdaterStep, InsertBegin, ReleaseBegin, Begin, DropIndices, UpdateStep,
       UpdateFault, InsertAdd, InsertCommit, RemoveExpired, RemovalRejected,
       SwapAndSign, LockCall, LockAcquire, ReleaseCommit, AppendSignedMapHead,
       Poll, UpdateSCH, ReleaseReturn, CommitLost, UpdateError, Return, ReadSide
<1>4. CASE UNCHANGED vars
  BY <1>4 DEF vars
<1>5. QED  BY <1>1, <1>2, <1>3, <1>4 DEF Next

LEMMA StepHeadsCertified ==
    TypeInv /\ HeadInv /\ HeadsCertified /\ [Next]_vars => HeadsCertified'
<1> SUFFICES ASSUME TypeInv, HeadInv, HeadsCertified, [Next]_vars
             PROVE  HeadsCertified'
  OBVIOUS
<1>1. /\ Len(log) \in Nat /\ Len(log') \in Nat
      /\ Len(log') >= Len(log)
      /\ \A leaf, n : Included(leaf, n) => Included(leaf, n)'
  BY LogGrows, StepTypeInv, LenProperties DEF TypeInv, TypeOK
<1>2. \A r \in Readers : seen[r] # None => seen[r].sch \in Nat
  BY DEF TypeInv, TypeOK, Answer
<1>3. CASE seen' = seen
  BY <1>1, <1>2, <1>3 DEF HeadsCertified
<1>4. ASSUME NEW r \in Readers, Reply(r)
      PROVE  HeadsCertified'
  <2>1. /\ server = "up"
        /\ proof = [leaf |-> smh, size |-> sch]
        /\ Included(smh, sch)
        /\ sch <= Len(log) /\ sch \in Nat
    BY <1>4 DEF Reply, TypeInv, TypeOK, Present, HeadInv
  <2>2. \/ seen'[r] = seen[r]
        \/ seen'[r].proof = proof /\ seen'[r].smh = smh /\ seen'[r].sch = sch
    BY <1>4 DEF Reply, TypeInv, TypeOK
  <2>3. \A s \in Readers \ {r} : seen'[s] = seen[s]
    BY <1>4 DEF Reply, TypeInv, TypeOK
  <2>4. QED  BY <1>1, <1>2, <2>1, <2>2, <2>3 DEF HeadsCertified
<1>5. seen' = seen \/ \E r \in Readers : Reply(r)
  BY StepSeen
<1>6. QED  BY <1>3, <1>4, <1>5

\* The heads of every answer belong together and are in the log, whatever
\* fails and wherever the process dies.
THEOREM HeadsAreCertified == Spec => []HeadsCertified
<1> DEFINE IInv == TypeInv /\ HeadInv /\ HeadsCertified
<1>1. Init => IInv
  BY InitTypeInv DEF Init, HeadInv, HeadsCertified
<1>2. IInv /\ [Next]_vars => IInv'
  BY StepTypeInv, StepHeadInv, StepHeadsCertified
<1>3. QED  BY <1>1, <1>2, PTL DEF Spec

---------------------------------------------------------------------------
(* The order of the log.                                                   *)

\* Every SMH the log holds or will hold, in the order of its leaves.
Leaves == log \o queue

Sorted(leaves) ==
    \A i, j \in 1..Len(leaves) :
        i < j => leaves[i].timestamp < leaves[j].timestamp

Before(leaves, t) == \A i \in 1..Len(leaves) : leaves[i].timestamp < t

Releasing == {"remove", "indices", "swap", "lock", "wlock", "commit", "append"}
Signed == {"lock", "wlock", "commit", "append"}

\* The stamp of a running release is later than every leaf: it holds the
\* update lock, so no other SMH is signed or queued meanwhile.
OrderInv ==
    /\ Sorted(Leaves)
    /\ Before(Leaves, clock + 1)
    /\ \A u \in Updaters :
           /\ upc[u] \in Releasing =>
                 Before(Leaves, update[u].stamp) /\ update[u].stamp <= clock
           /\ upc[u] \in Signed => update[u].draft.timestamp = update[u].stamp

LEMMA QueueShift ==
    ASSUME NEW S, NEW l \in Seq(S), NEW q \in Seq(S)
    PROVE  /\ q # <<>> => Append(l, Head(q)) \o Tail(q) = l \o q
           /\ \A x \in S : l \o Append(q, x) = Append(l \o q, x)
<1>1. ASSUME q # <<>>
      PROVE  Append(l, Head(q)) \o Tail(q) = l \o q
  <2>1. PICK h \in Seq(S) : h = <<Head(q)>>
    <3>1. Head(q) \in S
      BY <1>1, HeadTailProperties
    <3>2. <<Head(q)>> \in Seq(S)
      BY <3>1
    <3>3. QED  BY <3>2
  <2>2. PICK t \in Seq(S) : t = Tail(q)
    BY <1>1, HeadTailProperties
  <2>3. h \o t = q
    <3>1. /\ Len(t) = Len(q) - 1
          /\ \A i \in 1..Len(t) : t[i] = q[i + 1]
          /\ Len(h) = 1 /\ h[1] = q[1]
      BY <1>1, <2>1, <2>2, HeadTailProperties
    <3>2. /\ h \o t \in Seq(S)
          /\ Len(h \o t) = Len(h) + Len(t)
          /\ \A i \in 1..Len(h) + Len(t) :
                (h \o t)[i] = IF i <= Len(h) THEN h[i] ELSE t[i - Len(h)]
      BY ConcatProperties
    <3>3. Len(q) \in Nat
      BY LenProperties
    <3>4. ASSUME NEW i \in 1..Len(q)
          PROVE  (h \o t)[i] = q[i]
      <4>1. i \in 1..Len(h) + Len(t)
        BY <3>1, <3>3
      <4>2. CASE i = 1
        BY <3>1, <3>2, <4>1, <4>2
      <4>3. CASE i # 1
        <5>1. i - 1 \in 1..Len(t)
          BY <3>1, <3>3, <4>3
        <5>2. (h \o t)[i] = t[i - 1]
          BY <3>1, <3>2, <4>1, <4>3
        <5>3. QED  BY <3>1, <5>1, <5>2
      <4>4. QED  BY <4>2, <4>3
    <3>5. Len(h \o t) = Len(q) /\ h \o t \in Seq(S)
      BY <3>1, <3>2, <3>3
    <3>6. \A i \in 1..Len(h \o t) : (h \o t)[i] = q[i]
      BY <3>4, <3>5
    <3>7. QED
      <4> DEFINE s == h \o t
      <4> HIDE DEF s
      <4>1. s \in Seq(S) /\ Len(s) = Len(q) /\ \A i \in 1..Len(s) : s[i] = q[i]
        BY <3>5, <3>6 DEF s
      <4>2. s = q
        BY ONLY <4>1, q \in Seq(S), SeqEqual
      <4>3. QED  BY <4>2 DEF s
  <2>4. Append(l, Head(q)) = l \o h
    BY <1>1, <2>1, HeadTailProperties, AppendIsConcat
  <2>5. (l \o h) \o t = l \o (h \o t)
    BY ConcatAssociative
  <2>6. QED  BY <2>2, <2>3, <2>4, <2>5
<1>2. ASSUME NEW x \in S
      PROVE  l \o Append(q, x) = Append(l \o q, x)
  <2>1. <<x>> \in Seq(S)
    BY <1>2
  <2>2. l \o q \in Seq(S)
    BY ConcatProperties
  <2>3. Append(q, x) = q \o <<x>> /\ Append(l \o q, x) = (l \o q) \o <<x>>
    BY <1>2, <2>2, AppendIsConcat
  <2>4. (l \o q) \o <<x>> = l \o (q \o <<x>>)
    BY <2>1, ConcatAssociative
  <2>5. QED  BY <2>3, <2>4
<1>3. QED  BY <1>1, <1>2

\* A later SMH goes to the end of an ordered sequence.
LEMMA AppendSorted ==
    ASSUME NEW s \in Seq(SMH), NEW x \in SMH, Sorted(s), Before(s, x.timestamp)
    PROVE  /\ Sorted(Append(s, x))
           /\ \A t \in Nat : x.timestamp < t => Before(Append(s, x), t)
<1>1. /\ Append(s, x) \in Seq(SMH)
      /\ Len(Append(s, x)) = Len(s) + 1
      /\ Append(s, x)[Len(s) + 1] = x
      /\ \A i \in 1..Len(s) : Append(s, x)[i] = s[i]
  BY AppendProperties
<1>2. \A i \in 1..Len(s) : s[i] \in SMH
  BY ElementOfSeq
<1>3. \A y \in SMH : y.timestamp \in Nat
  BY DEF SMH
<1>4. QED  BY <1>1, <1>2, <1>3, LenProperties DEF Sorted, Before

\* Only the start of the process and a release queue an SMH.
LEMMA StepLeaves ==
    TypeInv /\ [Next]_vars =>
        \/ Leaves' = Leaves
        \/ BootSign /\ smh' \in SMH /\ Leaves' = Append(Leaves, smh')
        \/ \E u \in Updaters :
              AppendSignedMapHead(u) /\ Leaves' = Append(Leaves, update[u].draft)
<1> SUFFICES ASSUME TypeInv, [Next]_vars,
                    ~(BootSign /\ smh' \in SMH /\ Leaves' = Append(Leaves, smh')),
                    \A u \in Updaters :
                       ~(AppendSignedMapHead(u)
                           /\ Leaves' = Append(Leaves, update[u].draft))
             PROVE  Leaves' = Leaves
  OBVIOUS
<1>0. log \in Seq(SMH) /\ queue \in Seq(SMH)
  BY DEF TypeInv, TypeOK
<1>s. UNCHANGED trillian => Leaves' = Leaves
  BY DEF trillian, Leaves
<1>1. CASE Boot
  <2>1. CASE BootSign
    <3>1. smh' \in SMH
      <4>1. TypeInv'
        BY StepTypeInv
      <4>2. server' = "pollBoot"
        BY <2>1 DEF BootSign
      <4>3. QED  BY <4>1, <4>2 DEF TypeInv, Present
    <3>2. log' = log /\ queue' = Append(queue, smh')
      BY <2>1 DEF BootSign
    <3>3. Leaves' = Append(Leaves, smh')
      BY <1>0, <3>1, <3>2, QueueShift DEF Leaves
    <3>4. QED  BY <2>1, <3>1, <3>3
  <2>2. CASE Start \/ BootPoll \/ BootLatest \/ BootServe \/ BootExit
    BY <1>s, <2>2 DEF Start, BootPoll, BootLatest, BootServe, BootExit
  <2>3. QED  BY <1>1, <2>1, <2>2 DEF Boot
<1>2. CASE \E r \in Readers : Arrive(r) \/ ReaderStep(r)
  BY <1>2, <1>s DEF Arrive, ReaderStep, RLock, Select, ScanDone,
                    SelectCertificates, QueryError, Reply, WriteSide
<1>3. ASSUME NEW u \in Updaters, UpdaterStep(u)
      PROVE  Leaves' = Leaves
  <2>1. CASE AppendSignedMapHead(u)
    <3>1. update[u].draft \in SMH
      BY <2>1 DEF AppendSignedMapHead, TypeInv, Present
    <3>2. log' = log /\ queue' = Append(queue, update[u].draft)
      BY <2>1 DEF AppendSignedMapHead
    <3>3. Leaves' = Append(Leaves, update[u].draft)
      BY <1>0, <3>1, <3>2, QueueShift DEF Leaves
    <3>4. QED  BY <2>1, <3>3
  <2>2. CASE ~AppendSignedMapHead(u)
    <3>1. UNCHANGED trillian
      BY <1>3, <2>2
         DEF UpdaterStep, InsertBegin, ReleaseBegin, Begin, DropIndices,
             UpdateStep, UpdateFault, InsertAdd, InsertCommit, RemoveExpired,
             RemovalRejected, SwapAndSign, LockCall, LockAcquire, ReleaseCommit,
             Poll, UpdateSCH, ReleaseReturn, CommitLost, UpdateError, Return
    <3>2. QED  BY <1>s, <3>1
  <2>3. QED  BY <2>1, <2>2
<1>4. CASE Integrate
  <2>1. queue # <<>> /\ log' = Append(log, Head(queue)) /\ queue' = Tail(queue)
    BY <1>4 DEF Integrate
  <2>2. QED  BY <1>0, <2>1, QueueShift DEF Leaves
<1>5. CASE Crash
  BY <1>5, <1>s DEF Crash
<1>6. CASE UNCHANGED vars
  BY <1>6, <1>s DEF vars
<1>7. QED  BY <1>1, <1>2, <1>3, <1>4, <1>5, <1>6 DEF Next

LEMMA StepClock == TypeInv /\ [Next]_vars => clock' \in {clock, clock + 1}
<1> SUFFICES ASSUME TypeInv, [Next]_vars PROVE clock' \in {clock, clock + 1}
  OBVIOUS
<1>1. CASE Boot \/ Integrate \/ Crash
  BY <1>1 DEF Boot, Start, BootSign, BootPoll, BootLatest, BootServe, BootExit,
              Integrate, Crash
<1>2. CASE \E r \in Readers : Arrive(r) \/ ReaderStep(r)
  BY <1>2 DEF Arrive, ReaderStep, RLock, Select, ScanDone, SelectCertificates,
              QueryError, Reply, WriteSide
<1>3. ASSUME NEW u \in Updaters, UpdaterStep(u)
      PROVE  clock' \in {clock, clock + 1}
  BY <1>3 DEF UpdaterStep, InsertBegin, ReleaseBegin, Begin, DropIndices,
       UpdateStep, UpdateFault, InsertAdd, InsertCommit, RemoveExpired,
       RemovalRejected, SwapAndSign, LockCall, LockAcquire, ReleaseCommit,
       AppendSignedMapHead, Poll, UpdateSCH, ReleaseReturn, CommitLost,
       UpdateError, Return
<1>4. CASE UNCHANGED vars
  BY <1>4 DEF vars
<1>5. QED  BY <1>1, <1>2, <1>3, <1>4 DEF Next

LEMMA StepOrderInv ==
    TypeInv /\ LockInv /\ OrderInv /\ [Next]_vars => OrderInv'
<1> SUFFICES ASSUME TypeInv, LockInv, OrderInv, [Next]_vars PROVE OrderInv'
  OBVIOUS
<1>0. /\ Leaves \in Seq(SMH)
      /\ Len(Leaves) \in Nat
      /\ \A i \in 1..Len(Leaves) : Leaves[i].timestamp \in Nat
      /\ clock \in Nat /\ clock' \in Nat
      /\ clock' \in {clock, clock + 1}
      /\ \A u \in Updaters : update[u].stamp \in Nat
  <2>0. log \in Seq(SMH) /\ queue \in Seq(SMH)
    BY DEF TypeInv, TypeOK
  <2>1. Leaves \in Seq(SMH)
    BY <2>0, ConcatProperties DEF Leaves
  <2>2. \A i \in 1..Len(Leaves) : Leaves[i] \in SMH
    BY <2>1, ElementOfSeq
  <2>3. Len(Leaves) \in Nat
    BY <2>1, LenProperties
  <2>4. \A i \in 1..Len(Leaves) : Leaves[i].timestamp \in Nat
    BY <2>2 DEF SMH
  <2>5. clock \in Nat /\ \A u \in Updaters : update[u].stamp \in Nat
    BY DEF TypeInv, TypeOK, Update
  <2>6. clock' \in {clock, clock + 1}
    BY StepClock
  <2>7. QED  BY <2>1, <2>3, <2>4, <2>5, <2>6
\* What every step but the signing and the queueing of an SMH does.
<1>s. ASSUME Leaves' = Leaves,
             \A u \in Updaters :
                /\ upc'[u] \in Releasing =>
                     \/ upc[u] \in Releasing /\ update'[u].stamp = update[u].stamp
                     \/ clock' = clock + 1 /\ update'[u].stamp = clock'
                /\ upc'[u] \in Signed =>
                     \/ upc[u] \in Signed /\ update'[u] = update[u]
                     \/ update'[u].draft.timestamp = update'[u].stamp
      PROVE  OrderInv'
  <2> USE DEF OrderInv
  <2>1. Sorted(Leaves)' /\ Before(Leaves, clock + 1)'
    BY <1>0, <1>s DEF Before, Sorted
  <2>2. ASSUME NEW u \in Updaters, upc'[u] \in Releasing
        PROVE  Before(Leaves', update'[u].stamp) /\ update'[u].stamp <= clock'
    <3>1. CASE upc[u] \in Releasing /\ update'[u].stamp = update[u].stamp
      BY <1>0, <1>s, <3>1
    <3>2. CASE clock' = clock + 1 /\ update'[u].stamp = clock'
      BY <1>0, <1>s, <3>2
    <3>3. QED  BY <1>s, <2>2, <3>1, <3>2
  <2>3. \A u \in Updaters : upc'[u] \in Signed
                              => update'[u].draft.timestamp = update'[u].stamp
    BY <1>s
  <2>4. QED  BY <2>1, <2>2, <2>3 DEF Before
<1>1. CASE Boot
  <2>1. CASE Leaves' = Leaves
    BY <1>1, <1>s, <2>1 DEF Boot, Start, BootSign, BootPoll, BootLatest,
                            BootServe, BootExit, RequestVars, updaterVars
  <2>2. CASE BootSign /\ smh' \in SMH /\ Leaves' = Append(Leaves, smh')
    <3>1. smh'.timestamp = clock' /\ clock' = clock + 1 /\ UNCHANGED updaterVars
      BY <2>2 DEF BootSign, CreateNewSMH, RequestVars
    <3>2. Sorted(Append(Leaves, smh')) /\ Before(Append(Leaves, smh'), clock' + 1)
      BY <1>0, <2>2, <3>1, AppendSorted DEF OrderInv
    <3>3. \A u \in Updaters : upc'[u] = "idle"
      BY <2>2, <3>1 DEF BootSign, updaterVars, TypeInv, TypeOK, Present
    <3>4. QED  BY <2>2, <3>2, <3>3 DEF OrderInv, Releasing, Signed
  <2>3. \A u \in Updaters : upc[u] = "append" => server = "up"
    BY DEF TypeInv, Present
  <2>4. server # "up"
    BY <1>1 DEF Boot, Start, BootSign, BootPoll, BootLatest, BootServe, BootExit
  <2>5. QED  BY <2>1, <2>2, <2>3, <2>4, StepLeaves DEF AppendSignedMapHead
<1>2. CASE \E r \in Readers : Arrive(r) \/ ReaderStep(r)
  <2>1. UNCHANGED <<trillian, updaterVars>>
    BY <1>2 DEF Arrive, ReaderStep, RLock, Select, ScanDone, SelectCertificates,
                QueryError, Reply, WriteSide
  <2>2. QED  BY <1>s, <2>1 DEF Leaves, trillian, updaterVars
<1>3. ASSUME NEW u \in Updaters, UpdaterStep(u)
      PROVE  OrderInv'
  <2> USE DEF Goto, Releasing, Signed, TypeInv, TypeOK
  <2>0. update[u] \in Update
    OBVIOUS
  <2>1. CASE AppendSignedMapHead(u)
    <3> DEFINE x == update[u].draft
    <3>1. x \in SMH /\ x.timestamp = update[u].stamp
          /\ Before(Leaves, x.timestamp) /\ x.timestamp <= clock
      BY <2>1 DEF AppendSignedMapHead, Present, OrderInv
    <3>2. Leaves' = Append(Leaves, x)
      <4>1. log' = log /\ queue' = Append(queue, x)
        BY <2>1 DEF AppendSignedMapHead
      <4>2. QED  BY <3>1, <4>1, QueueShift DEF Leaves
    <3>3. clock' = clock
      BY <2>1 DEF AppendSignedMapHead
    <3>4. Sorted(Append(Leaves, x)) /\ Before(Append(Leaves, x), clock + 1)
      <4>1. x.timestamp \in Nat /\ x.timestamp < clock + 1 /\ clock + 1 \in Nat
        BY <1>0, <3>1 DEF SMH
      <4>2. QED  BY <1>0, <3>1, <4>1, AppendSorted DEF OrderInv
    <3>5. \A v \in Updaters : upc'[v] \notin Releasing
      BY <2>1, ConstantsAssumption DEF AppendSignedMapHead, LockInv, UpdateLocked
    <3>6. QED  BY <3>2, <3>3, <3>4, <3>5 DEF OrderInv
  <2>2. CASE InsertBegin(u)
    BY <1>s, <2>0, <2>2 DEF InsertBegin, Begin, Leaves, trillian
  <2>3. CASE ReleaseBegin(u)
    <3>1. update'[u].stamp = clock' /\ clock' = clock + 1
      BY <2>0, <2>3 DEF ReleaseBegin, Begin, Update
    <3>2. QED  BY <1>s, <2>3, <3>1 DEF ReleaseBegin, Begin, Leaves, trillian
  <2>4. CASE InsertAdd(u)
    BY <1>s, <2>0, <2>4 DEF InsertAdd, Leaves, trillian
  <2>5. CASE RemoveExpired(u)
    <3>1. update'[u].stamp = update[u].stamp
      BY <2>0, <2>5 DEF RemoveExpired, Update
    <3>2. QED  BY <1>s, <2>5, <3>1 DEF RemoveExpired, Leaves, trillian
  <2>6. CASE SwapAndSign(u)
    <3>1. /\ update'[u].stamp = update[u].stamp
          /\ update'[u].draft.timestamp = update[u].stamp
      BY <2>0, <2>6 DEF SwapAndSign, Update, CreateNewSMH
    <3>2. QED  BY <1>s, <2>6, <3>1 DEF SwapAndSign, Leaves, trillian
  <2>7. CASE DropIndices(u) \/ LockCall(u) \/ LockAcquire(u) \/ ReleaseCommit(u)
             \/ UpdateSCH(u)
    BY <1>s, <2>7 DEF DropIndices, LockCall, LockAcquire, ReleaseCommit,
                      UpdateSCH, Leaves, trillian
  <2>8. CASE Poll(u)
    BY <1>s, <2>8 DEF Poll, Leaves, trillian
  <2>9. CASE Return(u)
    BY <1>s, <2>9 DEF Return, Leaves, trillian
  <2>10. QED
    BY <1>3, <2>1, <2>2, <2>3, <2>4, <2>5, <2>6, <2>7, <2>8, <2>9
       DEF UpdaterStep, UpdateStep, UpdateFault, InsertCommit, RemovalRejected,
           ReleaseReturn, CommitLost, UpdateError
<1>4. CASE Integrate
  <2>1. \A u \in Updaters : ~AppendSignedMapHead(u)
    BY <1>4 DEF Integrate, AppendSignedMapHead, RequestVars, updaterVars, TypeInv, TypeOK, Goto
  <2>2. ~BootSign
    BY <1>4 DEF Integrate, BootSign
  <2>3. QED
    BY <1>4, <1>s, <2>1, <2>2, StepLeaves DEF Integrate, RequestVars, updaterVars
<1>5. CASE Crash
  <2>1. Leaves' = Leaves /\ \A u \in Updaters : upc'[u] = "idle"
    BY <1>5 DEF Crash, Leaves, trillian
  <2>2. QED  BY <1>s, <2>1 DEF Releasing, Signed
<1>6. CASE UNCHANGED vars
  BY <1>6, <1>s DEF vars, Leaves, trillian, updaterVars
<1>7. QED  BY <1>1, <1>2, <1>3, <1>4, <1>5, <1>6 DEF Next

LEMMA InitInv == Init => TypeInv /\ LockInv /\ OrderInv
<1>1. Init => TypeInv /\ LockInv
  BY InitTypeInv, ConstantsAssumption
     DEF Init, LockInv, UpdateLocked, WriterLocked, ReaderLocked
<1>2. Init => Leaves = <<>> /\ Len(Leaves) = 0 /\ clock = 0
  BY DEF Init, Leaves
<1>3. Init => \A u \in Updaters : upc[u] = "idle"
  BY DEF Init
<1>4. QED
  BY <1>1, <1>2, <1>3 DEF OrderInv, Sorted, Before, Releasing, Signed

\* The last leaf of the log is the SMH that was signed last.
THEOREM LogIsOrdered == Spec => []LogInOrder
<1> DEFINE IInv == TypeInv /\ LockInv /\ OrderInv
<1>1. Init => IInv
  BY InitInv
<1>2. IInv /\ [Next]_vars => IInv'
  BY StepTypeInv, StepLockInv, StepOrderInv
<1>3. IInv => LogInOrder
  BY DEF OrderInv, LogInOrder, Sorted, Leaves
<1>4. QED  BY <1>1, <1>2, <1>3, PTL DEF Spec

---------------------------------------------------------------------------
(* Between its node query and its answer a reader keeps the write lock     *)
(* away, so the nodes it read stay the published ones.                     *)

ReadInv ==
    \A r \in Readers :
        /\ rpc[r] \in {"select", "scan", "certificates"} => request[r].kind # "head"
        /\ rpc[r] \in {"scan", "certificates", "reply"} /\ request[r].kind # "head"
              => request[r].nodes = db.nodes
        /\ rpc[r] \notin {"reply"} => request[r].certificates = {}
        /\ rpc[r] = "reply" /\ request[r].kind = "full"
              => request[r].certificates = request[r].nodes.certs

\* The table 'certificates' stores whatever a node of either version names,
\* in the committed tables and in those a transaction will commit.
StoredIn(tables) ==
    /\ tables.next.certs \subseteq tables.certificates
    /\ tables.nodes.certs \subseteq tables.certificates

StoreInv ==
    /\ StoredIn(db)
    /\ \A u \in Updaters :
           /\ update[u].tx.next.certs \subseteq update[u].tx.certificates
           /\ upc[u] \in {"add", "commitInsert"} =>
                 db.certificates \subseteq update[u].tx.certificates
           /\ upc[u] \in {"lock", "wlock", "commit"} => StoredIn(update[u].tx)

LEMMA ReaderStepRead ==
    ASSUME NEW r \in Readers, TypeInv, StoreInv, ReadInv,
           Arrive(r) \/ ReaderStep(r)
    PROVE  ReadInv'
<1> USE DEF ReadInv, TypeInv, TypeOK, WriteSide, updaterVars
<1>0. request[r] \in Request /\ db' = db
  BY DEF Arrive, ReaderStep, RLock, Select, ScanDone, SelectCertificates,
         QueryError, Reply
<1>1. CASE Arrive(r)
  <2>1. PICK k \in RequestKinds : request' = [request EXCEPT ![r].kind = k]
    BY <1>1 DEF Arrive
  <2>2. request'[r].certificates = {} /\ rpc'[r] = "rlock"
    BY <1>0, <1>1, <2>1 DEF Arrive, Request
  <2>3. QED  BY <1>0, <1>1, <2>1, <2>2 DEF Arrive
<1>2. CASE RLock(r)
  BY <1>0, <1>2 DEF RLock, Kinds, NoRequest
<1>3. CASE Select(r)
  BY <1>0, <1>3 DEF Select, Request
<1>4. CASE ScanDone(r)
  BY <1>0, <1>4 DEF ScanDone
<1>5. CASE SelectCertificates(r)
  BY <1>0, <1>5 DEF SelectCertificates, StoreInv, StoredIn, Request, Tree
<1>6. CASE QueryError(r) \/ Reply(r)
  BY <1>0, <1>6 DEF QueryError, Reply, Done, NoRequest
<1>7. QED  BY <1>1, <1>2, <1>3, <1>4, <1>5, <1>6 DEF ReaderStep

LEMMA StepReadInv ==
    TypeInv /\ LockInv /\ StoreInv /\ ReadInv /\ [Next]_vars => ReadInv'
<1> SUFFICES ASSUME TypeInv, LockInv, StoreInv, ReadInv, [Next]_vars
             PROVE  ReadInv'
  OBVIOUS
\* Steps of others that leave 'nodes' alone.
<1>s. ASSUME UNCHANGED readerVars, db'.nodes = db.nodes
      PROVE  ReadInv'
  BY <1>s DEF ReadInv, readerVars
<1>1. CASE Boot
  BY <1>1, <1>s DEF Boot, Start, BootSign, BootPoll, BootLatest, BootServe,
                    BootExit, RequestVars, database
<1>2. CASE \E r \in Readers : Arrive(r) \/ ReaderStep(r)
  BY <1>2, ReaderStepRead
<1>3. ASSUME NEW u \in Updaters, UpdaterStep(u)
      PROVE  ReadInv'
  <2> USE DEF ReadSide
  <2>1. CASE ReleaseCommit(u) \/ CommitLost(u)
    <3>1. writer = u
      BY <2>1 DEF ReleaseCommit, CommitLost, LockInv, WriterLocked
    <3>2. readers = {}
      BY <3>1, ConstantsAssumption DEF LockInv
    <3>3. \A r \in Readers : rpc[r] \notin {"select", "scan", "certificates", "reply"}
      BY <3>2 DEF LockInv, ReaderLocked
    <3>4. UNCHANGED readerVars
      BY <2>1 DEF ReleaseCommit, CommitLost, Return
    <3>5. QED  BY <3>3, <3>4 DEF ReadInv, readerVars
  <2>2. CASE InsertCommit(u)
    <3>1. db'.nodes = db.nodes
      BY <2>2 DEF InsertCommit, TypeInv, TypeOK, Tables
    <3>2. QED  BY <2>2, <3>1, <1>s DEF InsertCommit, Return
  <2>3. CASE ~(ReleaseCommit(u) \/ CommitLost(u) \/ InsertCommit(u))
    BY <1>3, <1>s, <2>3
       DEF UpdaterStep, InsertBegin, ReleaseBegin, Begin, DropIndices,
           UpdateStep, UpdateFault, InsertAdd, RemoveExpired, RemovalRejected,
           SwapAndSign, LockCall, LockAcquire, AppendSignedMapHead, Poll,
           UpdateSCH, ReleaseReturn, UpdateError, Return, database
  <2>4. QED  BY <2>1, <2>2, <2>3
<1>4. CASE Integrate
  BY <1>4, <1>s DEF Integrate, RequestVars, database
<1>5. CASE Crash
  BY <1>5 DEF Crash, ReadInv, NoRequest
<1>6. CASE UNCHANGED vars
  BY <1>6, <1>s DEF vars, database
<1>7. QED  BY <1>1, <1>2, <1>3, <1>4, <1>5, <1>6 DEF Next

\* What the updates of the tables preserve.
LEMMA StoredInPreserved ==
    ASSUME NEW tables \in Tables, NEW t \in Nat,
           tables.next.certs \subseteq tables.certificates
    PROVE  /\ \A batch \in Batches :
                 LET added == AddNewCertificates(tables, batch) IN
                 /\ added.next.certs \subseteq added.certificates
                 /\ tables.certificates \subseteq added.certificates
           /\ LET kept == RemoveExpiredCertificates(tables, t) IN
                 kept.next.certs \subseteq kept.certificates
           /\ StoredIn(SwapTables(tables))
<1>1. ASSUME NEW batch \in Batches
      PROVE  /\ AddNewCertificates(tables, batch).next.certs
                   = tables.next.certs \cup batch
             /\ AddNewCertificates(tables, batch).certificates
                   = tables.certificates \cup batch
  BY DEF AddNewCertificates, Tables, Tree
<1>2. /\ RemoveExpiredCertificates(tables, t).next.certs
            = tables.next.certs \ ExpiredCertificates(tables, t)
      /\ RemoveExpiredCertificates(tables, t).certificates
            = tables.certificates \ ExpiredCertificates(tables, t)
  <2> DEFINE expired == ExpiredCertificates(tables, t)
  <2> HIDE DEF expired
  <2>1. RemoveExpiredCertificates(tables, t) =
          [tables EXCEPT !.next.certs = tables.next.certs \ expired,
                         !.certificates = tables.certificates \ expired]
    BY DEF RemoveExpiredCertificates, expired
  <2>2. QED  BY <2>1 DEF Tables, Tree, expired
<1>3. /\ SwapTables(tables).next = tables.next
      /\ SwapTables(tables).nodes = tables.next
      /\ SwapTables(tables).certificates = tables.certificates
  BY DEF SwapTables, Tables
<1>4. QED  BY <1>1, <1>2, <1>3 DEF StoredIn

LEMMA StepStoreInv == TypeInv /\ LockInv /\ StoreInv /\ [Next]_vars => StoreInv'
<1> SUFFICES ASSUME TypeInv, LockInv, StoreInv, [Next]_vars PROVE StoreInv'
  OBVIOUS
<1> USE DEF StoreInv
<1>s. ASSUME UNCHANGED <<db, upc, update>>
      PROVE  StoreInv'
  BY <1>s DEF StoredIn
<1>1. CASE Boot
  BY <1>1, <1>s DEF Boot, Start, BootSign, BootPoll, BootLatest, BootServe,
                    BootExit, RequestVars, database, updaterVars
<1>2. CASE \E r \in Readers : Arrive(r) \/ ReaderStep(r)
  BY <1>2, <1>s DEF Arrive, ReaderStep, RLock, Select, ScanDone,
        SelectCertificates, QueryError, Reply, WriteSide, updaterVars
<1>3. ASSUME NEW u \in Updaters, UpdaterStep(u)
      PROVE  StoreInv'
  <2> USE DEF Goto, TypeInv, TypeOK
  <2>0. /\ update[u] \in Update /\ update[u].tx \in Tables /\ update[u].stamp \in Nat
        /\ update[u].tx.next.certs \subseteq update[u].tx.certificates
    BY DEF Update
  \* No other updater runs.
  <2>1. upc[u] # "idle" => \A v \in Updaters \ {u} : upc[v] = "idle"
    BY DEF LockInv, UpdateLocked
  <2>2. CASE InsertBegin(u) \/ ReleaseBegin(u)
    <3>1. /\ db' = db /\ update'[u].tx = db
          /\ upc'[u] \in {"add", "remove"}
          /\ \A v \in Updaters \ {u} : upc'[v] = upc[v] /\ update'[v] = update[v]
      BY <2>0, <2>2 DEF InsertBegin, ReleaseBegin, Begin, Update
    <3>2. QED  BY <3>1 DEF StoredIn
  <2>3. CASE InsertAdd(u)
    <3>1. PICK batch \in Batches :
            update' = [update EXCEPT ![u].tx = AddNewCertificates(@, batch)]
      BY <2>3 DEF InsertAdd
    <3>2. update'[u].tx = AddNewCertificates(update[u].tx, batch)
      BY <2>0, <3>1 DEF Update
    <3>3. /\ update'[u].tx.next.certs \subseteq update'[u].tx.certificates
          /\ update[u].tx.certificates \subseteq update'[u].tx.certificates
      BY <2>0, <3>2, StoredInPreserved
    <3>4. \A v \in Updaters \ {u} : upc'[v] = upc[v] /\ update'[v] = update[v]
      BY <2>3, <3>1 DEF InsertAdd
    <3>5. db' = db /\ upc'[u] = "commitInsert" /\ upc[u] = "add"
      BY <2>3 DEF InsertAdd
    <3>6. QED  BY <3>3, <3>4, <3>5 DEF StoredIn
  <2>4. CASE InsertCommit(u)
    <3>1. /\ db'.nodes = db.nodes
          /\ db'.next = update[u].tx.next
          /\ db'.certificates = update[u].tx.certificates
      BY <2>4 DEF InsertCommit, Tables
    <3>2. \A v \in Updaters : upc'[v] = "idle"
      BY <2>1, <2>4 DEF InsertCommit, Return
    <3>3. \A v \in Updaters :
            update'[v].tx.next.certs \subseteq update'[v].tx.certificates
      BY <2>4 DEF InsertCommit, Return, NoUpdate, EmptyTables, EmptyTree
    <3>4. upc[u] = "commitInsert"
      BY <2>4 DEF InsertCommit
    <3>5. QED  BY <2>0, <3>1, <3>2, <3>3, <3>4 DEF StoredIn
  <2>5. CASE RemoveExpired(u)
    <3>1. update'[u].tx = RemoveExpiredCertificates(update[u].tx, update[u].stamp)
      BY <2>0, <2>5 DEF RemoveExpired, Update
    <3>2. update'[u].tx.next.certs \subseteq update'[u].tx.certificates
      BY <2>0, <3>1, StoredInPreserved
    <3>3. db' = db /\ upc'[u] = "indices"
          /\ \A v \in Updaters \ {u} : upc'[v] = upc[v] /\ update'[v] = update[v]
      BY <2>5 DEF RemoveExpired
    <3>4. QED  BY <3>2, <3>3
  <2>6. CASE SwapAndSign(u)
    <3>1. update'[u].tx = SwapTables(update[u].tx)
      BY <2>0, <2>6 DEF SwapAndSign, Update
    <3>2. StoredIn(update'[u].tx)
      BY <2>0, <3>1, StoredInPreserved
    <3>3. db' = db /\ upc'[u] = "lock"
          /\ \A v \in Updaters \ {u} : upc'[v] = upc[v] /\ update'[v] = update[v]
      BY <2>6 DEF SwapAndSign
    <3>4. QED  BY <3>2, <3>3 DEF StoredIn
  <2>7. CASE ReleaseCommit(u)
    <3>1. db' = update[u].tx /\ StoredIn(update[u].tx) /\ update' = update
      BY <2>7 DEF ReleaseCommit
    <3>2. upc'[u] = "append" /\ \A v \in Updaters \ {u} : upc'[v] = "idle"
      BY <2>1, <2>7 DEF ReleaseCommit
    <3>3. QED  BY <3>1, <3>2 DEF StoredIn
  <2>8. CASE CommitLost(u)
    <3>1. db' = update[u].tx /\ StoredIn(update[u].tx)
      BY <2>8 DEF CommitLost
    <3>2. \A v \in Updaters : upc'[v] = "idle"
      BY <2>1, <2>8 DEF CommitLost, Return
    <3>3. \A v \in Updaters :
            update'[v].tx.next.certs \subseteq update'[v].tx.certificates
      BY <2>8 DEF CommitLost, Return, NoUpdate, EmptyTables, EmptyTree
    <3>4. QED  BY <3>1, <3>2, <3>3 DEF StoredIn
  <2>9. CASE \/ DropIndices(u) \/ LockCall(u) \/ LockAcquire(u)
             \/ AppendSignedMapHead(u) \/ UpdateSCH(u)
    <3>1. /\ UNCHANGED <<db, update>>
          /\ \A v \in Updaters \ {u} : upc'[v] = upc[v]
          /\ upc'[u] \notin {"add", "commitInsert"}
          /\ upc'[u] \in {"lock", "wlock", "commit"}
                => upc[u] \in {"lock", "wlock", "commit"}
      BY <2>9 DEF DropIndices, LockCall, LockAcquire, AppendSignedMapHead,
                  UpdateSCH, database
    <3>2. QED  BY <3>1 DEF StoredIn
  <2>10. CASE Poll(u)
    <3>1. update'[u].tx = update[u].tx
      BY <2>0, <2>10 DEF Poll, Update
    <3>2. db' = db /\ upc'[u] = "publish"
          /\ \A v \in Updaters \ {u} : upc'[v] = upc[v] /\ update'[v] = update[v]
      BY <2>10 DEF Poll
    <3>3. QED  BY <2>0, <3>1, <3>2 DEF StoredIn
  <2>11. ASSUME Return(u), db' = db
         PROVE  StoreInv'
    <3>1. /\ upc'[u] = "idle" /\ update'[u] = NoUpdate
          /\ \A v \in Updaters \ {u} : upc'[v] = upc[v] /\ update'[v] = update[v]
      BY <2>11 DEF Return
    <3>2. QED  BY <2>11, <3>1 DEF StoredIn, NoUpdate, EmptyTables, EmptyTree
  <2>12. QED
    BY <1>3, <2>2, <2>3, <2>4, <2>5, <2>6, <2>7, <2>8, <2>9, <2>10, <2>11
       DEF UpdaterStep, UpdateStep, UpdateFault, RemovalRejected, ReleaseReturn,
           UpdateError
<1>4. CASE Integrate
  BY <1>4, <1>s DEF Integrate, RequestVars, database, updaterVars
<1>5. CASE Crash
  BY <1>5 DEF Crash, StoredIn, NoUpdate, EmptyTables, EmptyTree
<1>6. CASE UNCHANGED vars
  BY <1>6, <1>s DEF vars, database, updaterVars
<1>7. QED  BY <1>1, <1>2, <1>3, <1>4, <1>5, <1>6 DEF Next

LEMMA StepAnswerComplete ==
    TypeInv /\ ReadInv /\ AnswerComplete /\ [Next]_vars => AnswerComplete'
<1> SUFFICES ASSUME TypeInv, ReadInv, AnswerComplete, [Next]_vars
             PROVE  AnswerComplete'
  OBVIOUS
<1>1. CASE seen' = seen
  BY <1>1 DEF AnswerComplete
<1>2. ASSUME NEW r \in Readers, Reply(r)
      PROVE  AnswerComplete'
  <2>1. \A s \in Readers \ {r} : seen'[s] = seen[s]
    BY <1>2 DEF Reply, TypeInv, TypeOK
  <2>2. \/ seen'[r] = seen[r]
        \/ /\ seen'[r].full => request[r].kind = "full"
           /\ seen'[r].nodes = request[r].nodes
           /\ seen'[r].certificates = request[r].certificates
    BY <1>2 DEF Reply, TypeInv, TypeOK
  <2>3. request[r].kind = "full" => request[r].certificates = request[r].nodes.certs
    BY <1>2 DEF Reply, ReadInv
  <2>4. QED  BY <2>1, <2>2, <2>3 DEF AnswerComplete
<1>3. QED  BY <1>1, <1>2, StepSeen

\* Whatever fails, an answer with certificates has every one its nodes name.
THEOREM AnswersAreComplete == Spec => []AnswerComplete
<1> DEFINE IInv == TypeInv /\ LockInv /\ StoreInv /\ ReadInv /\ AnswerComplete
<1>1. Init => IInv
  <2>1. Init => StoreInv
    BY DEF Init, StoreInv, StoredIn, ImportedTree, NoUpdate, EmptyTables, EmptyTree
  <2>2. Init => ReadInv /\ AnswerComplete
    BY DEF Init, ReadInv, AnswerComplete, NoRequest
  <2>3. QED  BY InitInv, <2>1, <2>2
<1>2. IInv /\ [Next]_vars => IInv'
  BY StepTypeInv, StepLockInv, StepStoreInv, StepReadInv, StepAnswerComplete
<1>3. QED  BY <1>1, <1>2, PTL DEF Spec

---------------------------------------------------------------------------
(* The cached SMH signs the root of the published nodes.  This needs a log *)
(* that answers and a process that survives: between the commit of a       *)
(* release and the update of the cache nothing may fail.                   *)

\* Until the handlers start, the log has at most the SMH of this start.
BootInv ==
    /\ server \in {"down", "sign"} => log = <<>> /\ queue = <<>>
    /\ server = "pollBoot" =>
          /\ smh.root = db.nodes
          /\ \/ log = <<>> /\ queue = <<smh>>
             \/ log = <<smh>> /\ queue = <<>>
    /\ server \in {"latest", "prove"} =>
          /\ \E leaf \in SMH : log = <<leaf>> /\ leaf.root = db.nodes
          /\ queue = <<>>
          /\ sch = 1
    /\ server = "prove" => log = <<smh>>

CacheInv ==
    /\ server = "up" /\ (\A u \in Updaters : upc[u] \notin Committed)
          => smh.root = db.nodes
    /\ \A u \in Updaters :
          /\ upc[u] \in Committed => update[u].draft.root = db.nodes
          /\ upc[u] \in {"lock", "wlock", "commit"}
                => update[u].draft.root = update[u].tx.nodes

NoFaultAfterCommit == Faults \subseteq {"db"}

LEMMA StepBootInv ==
    NoFaultAfterCommit /\ TypeInv /\ BootInv /\ [Next]_vars => BootInv'
<1> SUFFICES ASSUME NoFaultAfterCommit, TypeInv, BootInv, [Next]_vars
             PROVE  BootInv'
  OBVIOUS
<1> USE DEF BootInv, TypeInv, TypeOK, NoFaultAfterCommit
<1>1. CASE Boot
  <2> USE DEF RequestVars, database, trillian
  <2>1. CASE Start
    BY <2>1 DEF Start
  <2>2. CASE BootSign
    <3>1. log' = <<>> /\ queue' = <<smh'>> /\ smh'.root = db.nodes /\ db' = db
      BY <2>2 DEF BootSign, CreateNewSMH
    <3>2. QED  BY <2>2, <3>1 DEF BootSign
  <2>3. CASE BootPoll
    <3>1. log # <<>>
      BY <2>3 DEF BootPoll, Integrated, Included
    <3>2. log = <<smh>> /\ queue = <<>> /\ smh.root = db.nodes /\ smh \in SMH
      BY <2>3, <3>1 DEF BootPoll, Present
    <3>3. Len(log) = 1
      BY <3>2
    <3>4. QED  BY <2>3, <3>2, <3>3 DEF BootPoll
  <2>4. CASE BootLatest
    <3>1. PICK leaf \in SMH : log = <<leaf>> /\ leaf.root = db.nodes
      BY <2>4 DEF BootLatest
    <3>2. smh' = leaf
      BY <2>4, <3>1 DEF BootLatest, LatestLeaf
    <3>3. UNCHANGED <<log, queue, db, sch>> /\ queue = <<>> /\ sch = 1 /\ server' = "prove"
      BY <2>4 DEF BootLatest
    <3>4. QED  BY <3>1, <3>2, <3>3
  <2>5. CASE BootServe
    BY <2>5 DEF BootServe
  <2>6. CASE BootExit
    <3>1. server = "prove" /\ ~Included(smh, sch)
      BY <2>6 DEF BootExit
    <3>2. log = <<smh>> /\ sch = 1
      BY <3>1
    <3>3. Included(smh, sch)
      BY <3>2 DEF Included
    <3>4. QED  BY <3>1, <3>3
  <2>7. QED  BY <1>1, <2>1, <2>2, <2>3, <2>4, <2>5, <2>6 DEF Boot
<1>2. CASE \E r \in Readers : Arrive(r) \/ ReaderStep(r)
  <2>1. UNCHANGED <<server, smh, sch, db, log, queue>>
    BY <1>2 DEF Arrive, ReaderStep, RLock, Select, ScanDone, SelectCertificates,
                QueryError, Reply, WriteSide, cache, trillian
  <2>2. QED  BY <2>1
<1>3. ASSUME NEW u \in Updaters, UpdaterStep(u)
      PROVE  BootInv'
  <2>1. server' = server
    BY <1>3 DEF UpdaterStep, InsertBegin, ReleaseBegin, Begin, DropIndices,
         UpdateStep, UpdateFault, InsertAdd, InsertCommit, RemoveExpired,
         RemovalRejected, SwapAndSign, LockCall, LockAcquire, ReleaseCommit,
         AppendSignedMapHead, Poll, UpdateSCH, ReleaseReturn, CommitLost,
         UpdateError, Return, ReadSide
  <2>2. server = "up"
    BY <1>3 DEF UpdaterStep, InsertBegin, ReleaseBegin, Begin, DropIndices,
         UpdateStep, UpdateFault, InsertAdd, InsertCommit, RemoveExpired,
         RemovalRejected, SwapAndSign, LockCall, LockAcquire, ReleaseCommit,
         AppendSignedMapHead, Poll, UpdateSCH, ReleaseReturn, CommitLost,
         UpdateError, Undoable, Present
  <2>3. QED  BY <2>1, <2>2
<1>4. CASE Integrate
  <2>1. UNCHANGED <<server, smh, sch, db>> /\ queue # <<>>
        /\ log' = Append(log, Head(queue)) /\ queue' = Tail(queue)
    BY <1>4 DEF Integrate, cache, RequestVars, database
  <2>2. CASE server = "pollBoot"
    <3>1. log = <<>> /\ queue = <<smh>> /\ smh.root = db.nodes
      BY <2>1, <2>2
    <3>2. log' = <<smh>> /\ queue' = <<>>
      BY <2>1, <3>1
    <3>3. QED  BY <2>1, <2>2, <3>1, <3>2
  <2>3. CASE server # "pollBoot"
    BY <2>1, <2>3
  <2>4. QED  BY <2>2, <2>3
<1>5. ~Crash
  BY DEF Crash
<1>6. CASE UNCHANGED vars
  BY <1>6 DEF vars, cache, database, trillian
<1>7. QED  BY <1>1, <1>2, <1>3, <1>4, <1>5, <1>6 DEF Next

LEMMA StepCacheInv ==
    NoFaultAfterCommit /\ TypeInv /\ LockInv /\ BootInv /\ CacheInv /\ [Next]_vars
        => CacheInv'
<1> SUFFICES ASSUME NoFaultAfterCommit, TypeInv, LockInv, BootInv, CacheInv,
                    [Next]_vars
             PROVE  CacheInv'
  OBVIOUS
<1> USE DEF CacheInv
<1>s. ASSUME UNCHANGED <<server, smh, db, upc, update>>
      PROVE  CacheInv'
  BY <1>s
\* An updater's step that does not touch the published tables or the cache.
<1>f. ASSUME NEW u \in Updaters,
             \A v \in Updaters \ {u} : upc'[v] = upc[v] /\ update'[v] = update[v],
             UNCHANGED <<server, smh>>, db'.nodes = db.nodes,
             upc[u] \in Committed => upc'[u] \in Committed,
             upc'[u] \in Committed => update'[u].draft.root = db.nodes,
             upc'[u] \in {"lock", "wlock", "commit"}
                => update'[u].draft.root = update'[u].tx.nodes
      PROVE  CacheInv'
  <2>1. ASSUME server' = "up", \A v \in Updaters : upc'[v] \notin Committed
        PROVE  smh'.root = db'.nodes
    <3>1. \A v \in Updaters : upc[v] \notin Committed
      <4> TAKE v \in Updaters
      <4>1. upc'[v] \notin Committed
        BY <2>1
      <4>2. CASE v = u
        BY <1>f, <4>1, <4>2
      <4>3. CASE v # u
        BY <1>f, <4>1, <4>3
      <4>4. QED  BY <4>2, <4>3
    <3>2. QED  BY <1>f, <2>1, <3>1
  <2>2. ASSUME NEW v \in Updaters
        PROVE  /\ upc'[v] \in Committed => update'[v].draft.root = db'.nodes
               /\ upc'[v] \in {"lock", "wlock", "commit"}
                     => update'[v].draft.root = update'[v].tx.nodes
    <3>1. CASE v = u
      BY <1>f, <3>1
    <3>2. CASE v # u
      <4>1. upc'[v] = upc[v] /\ update'[v] = update[v] /\ db'.nodes = db.nodes
        BY <1>f, <3>2
      <4>2. QED  BY <4>1
    <3>3. QED  BY <3>1, <3>2
  <2>3. QED  BY <2>1, <2>2
<1>1. CASE Boot
  <2>1. UNCHANGED <<db, upc, update>> /\ server # "up"
    BY <1>1 DEF Boot, Start, BootSign, BootPoll, BootLatest, BootServe, BootExit,
                RequestVars, database, updaterVars, BootSteps
  <2>2. \A u \in Updaters : upc[u] = "idle"
    BY <2>1 DEF TypeInv, Present
  <2>3. server' = "up" => smh' = smh /\ server = "prove"
    BY <1>1 DEF Boot, Start, BootSign, BootPoll, BootLatest, BootServe, BootExit
  <2>4. server = "prove" => smh.root = db.nodes
    BY DEF BootInv
  <2>5. QED  BY <2>1, <2>2, <2>3, <2>4
<1>2. CASE \E r \in Readers : Arrive(r) \/ ReaderStep(r)
  BY <1>2, <1>s DEF Arrive, ReaderStep, RLock, Select, ScanDone,
        SelectCertificates, QueryError, Reply, WriteSide, cache, updaterVars
<1>3. ASSUME NEW u \in Updaters, UpdaterStep(u)
      PROVE  CacheInv'
  <2> USE DEF Goto
  <2>0. update[u] \in Update /\ update[u].tx \in Tables
    BY DEF Update, TypeInv, TypeOK
  <2>1. upc[u] # "idle" => \A v \in Updaters \ {u} : upc[v] = "idle"
    BY DEF LockInv, UpdateLocked
  <2>2. CASE InsertBegin(u) \/ ReleaseBegin(u)
    <3>1. /\ upc'[u] \in {"add", "remove"} /\ upc[u] = "idle"
          /\ \A v \in Updaters \ {u} : upc'[v] = upc[v] /\ update'[v] = update[v]
          /\ UNCHANGED <<server, smh, db>>
      BY <2>2 DEF InsertBegin, ReleaseBegin, Begin, ReadSide, cache, TypeInv, TypeOK
    <3>2. QED  BY <3>1, <1>f
  <2>3. CASE InsertAdd(u) \/ RemoveExpired(u) \/ DropIndices(u)
    <3>1. /\ upc'[u] \in {"commitInsert", "indices", "swap"}
          /\ upc[u] \in {"add", "remove", "indices"}
          /\ \A v \in Updaters \ {u} : upc'[v] = upc[v] /\ update'[v] = update[v]
          /\ UNCHANGED <<server, smh, db>>
      BY <2>3 DEF InsertAdd, RemoveExpired, DropIndices, ReadSide, cache,
                  TypeInv, TypeOK
    <3>2. QED  BY <3>1, <1>f
  <2>4. CASE SwapAndSign(u)
    <3>1. update'[u].draft.root = update'[u].tx.nodes
      BY <2>0, <2>4
         DEF SwapAndSign, SwapTables, CreateNewSMH, Update, Tables, TypeInv, TypeOK
    <3>2. /\ upc'[u] = "lock" /\ upc[u] = "swap"
          /\ \A v \in Updaters \ {u} : upc'[v] = upc[v] /\ update'[v] = update[v]
          /\ UNCHANGED <<server, smh, db>>
      BY <2>4 DEF SwapAndSign, ReadSide, cache, TypeInv, TypeOK
    <3>3. QED  BY <3>1, <3>2, <1>f
  <2>5. CASE LockCall(u) \/ LockAcquire(u) \/ AppendSignedMapHead(u)
    <3>1. /\ \/ upc[u] \in {"lock", "wlock"} /\ upc'[u] \in {"wlock", "commit"}
             \/ upc[u] = "append" /\ upc'[u] = "poll"
          /\ \A v \in Updaters \ {u} : upc'[v] = upc[v]
          /\ UNCHANGED <<server, smh, db, update>>
      BY <2>5 DEF LockCall, LockAcquire, AppendSignedMapHead, ReadSide, cache,
                  database, TypeInv, TypeOK
    <3>2. /\ upc'[u] \in Committed => update[u].draft.root = db.nodes
          /\ upc'[u] \in {"lock", "wlock", "commit"}
                => update[u].draft.root = update[u].tx.nodes
      BY <3>1
    <3>3. QED  BY <3>1, <3>2, <1>f
  <2>6. CASE ReleaseCommit(u)
    <3>1. /\ db' = update[u].tx /\ update' = update
          /\ upc[u] = "commit" /\ upc'[u] = "append"
          /\ \A v \in Updaters \ {u} : upc'[v] = upc[v]
      BY <2>6 DEF ReleaseCommit, TypeInv, TypeOK
    <3>2. \A v \in Updaters \ {u} : upc'[v] = "idle"
      BY <2>1, <3>1
    <3>3. update[u].draft.root = db'.nodes
      BY <3>1
    <3>4. QED  BY <3>1, <3>2, <3>3
  <2>7. CASE Poll(u)
    <3>1. update'[u].draft = update[u].draft
      BY <2>0, <2>7 DEF Poll, Update, TypeInv, TypeOK
    <3>2. /\ upc[u] = "poll" /\ upc'[u] = "publish"
          /\ \A v \in Updaters \ {u} : upc'[v] = upc[v] /\ update'[v] = update[v]
          /\ UNCHANGED <<server, smh, db>>
      BY <2>7 DEF Poll, ReadSide, cache, TypeInv, TypeOK
    <3>3. update[u].draft.root = db.nodes
      BY <3>2
    <3>4. QED  BY <3>1, <3>2, <3>3, <1>f
  <2>8. CASE UpdateSCH(u)
    <3>1. /\ upc[u] = "publish" /\ upc'[u] = "return"
          /\ smh' = update[u].draft
          /\ \A v \in Updaters \ {u} : upc'[v] = upc[v]
          /\ UNCHANGED <<server, db, update>>
      BY <2>8 DEF UpdateSCH, ReadSide, TypeInv, TypeOK, database
    <3>2. \A v \in Updaters : upc'[v] \in {"idle", "return"}
      BY <2>1, <3>1
    <3>3. smh'.root = db'.nodes
      BY <3>1
    <3>4. QED  BY <3>2, <3>3
  <2>9. ASSUME Return(u), db'.nodes = db.nodes, upc[u] \notin Committed
        PROVE  CacheInv'
    <3>1. /\ upc'[u] = "idle"
          /\ \A v \in Updaters \ {u} : upc'[v] = upc[v] /\ update'[v] = update[v]
          /\ UNCHANGED <<server, smh>>
      BY <2>9 DEF Return, ReadSide, cache, TypeInv, TypeOK
    <3>2. QED  BY <2>9, <3>1, <1>f
  <2>10. CASE InsertCommit(u)
    BY <2>0, <2>9, <2>10 DEF InsertCommit, Tables, TypeInv, TypeOK
  <2>11. CASE RemovalRejected(u) \/ ReleaseReturn(u) \/ UpdateError(u)
    BY <2>9, <2>11 DEF RemovalRejected, ReleaseReturn, UpdateError, Undoable,
                       NoFaultAfterCommit
  <2>12. ~CommitLost(u)
    BY DEF CommitLost, NoFaultAfterCommit
  <2>13. QED
    BY <1>3, <2>2, <2>3, <2>4, <2>5, <2>6, <2>7, <2>8, <2>10, <2>11, <2>12
       DEF UpdaterStep, UpdateStep, UpdateFault
<1>4. CASE Integrate
  BY <1>4, <1>s DEF Integrate, RequestVars, database, updaterVars, cache
<1>5. ~Crash
  BY DEF Crash, NoFaultAfterCommit
<1>6. CASE UNCHANGED vars
  BY <1>6, <1>s DEF vars, database, updaterVars, cache
<1>7. QED  BY <1>1, <1>2, <1>3, <1>4, <1>5, <1>6 DEF Next

LEMMA StepResponseConsistent ==
    TypeInv /\ LockInv /\ ReadInv /\ CacheInv /\ ResponseConsistent /\ [Next]_vars
        => ResponseConsistent'
<1> SUFFICES ASSUME TypeInv, LockInv, ReadInv, CacheInv, ResponseConsistent,
                    [Next]_vars
             PROVE  ResponseConsistent'
  OBVIOUS
<1>1. CASE seen' = seen
  BY <1>1 DEF ResponseConsistent
<1>2. ASSUME NEW r \in Readers, Reply(r)
      PROVE  ResponseConsistent'
  <2>1. \A s \in Readers \ {r} : seen'[s] = seen[s]
    BY <1>2 DEF Reply, TypeInv, TypeOK
  <2>2. \/ seen'[r] = seen[r]
        \/ /\ request[r].kind # "head"
           /\ seen'[r].nodes = request[r].nodes
           /\ seen'[r].smh = smh
    BY <1>2 DEF Reply, TypeInv, TypeOK
  <2>3. request[r].kind # "head" => request[r].nodes = db.nodes
    BY <1>2 DEF Reply, ReadInv
  \* The reader holds the read lock: no release is between commit and cache.
  <2>4. readers # {} /\ server = "up"
    BY <1>2 DEF Reply, LockInv, ReaderLocked, TypeInv, Present
  <2>5. \A u \in Updaters : upc[u] \notin Committed
    BY <2>4, ConstantsAssumption DEF LockInv, WriterLocked
  <2>6. smh.root = db.nodes
    BY <2>4, <2>5 DEF CacheInv
  <2>7. QED  BY <2>1, <2>2, <2>3, <2>6 DEF ResponseConsistent
<1>3. QED  BY <1>1, <1>2, StepSeen

\* While nothing fails between the commit of a release and the update of the
\* cache, the SMH of every answer signs the version of its nodes.
THEOREM ResponsesAreConsistent ==
    NoFaultAfterCommit => (Spec => []ResponseConsistent)
<1> SUFFICES ASSUME NoFaultAfterCommit PROVE Spec => []ResponseConsistent
  OBVIOUS
<1> DEFINE IInv == /\ TypeInv /\ LockInv /\ StoreInv /\ ReadInv
                   /\ BootInv /\ CacheInv /\ ResponseConsistent
<1>1. Init => IInv
  <2>1. Init => StoreInv
    BY DEF Init, StoreInv, StoredIn, ImportedTree, NoUpdate, EmptyTables, EmptyTree
  <2>2. Init => ReadInv /\ ResponseConsistent
    BY DEF Init, ReadInv, ResponseConsistent, NoRequest
  <2>3. Init => BootInv /\ CacheInv
    BY DEF Init, BootInv, CacheInv
  <2>4. QED  BY InitInv, <2>1, <2>2, <2>3
<1>2. IInv /\ [Next]_vars => IInv'
  BY StepTypeInv, StepLockInv, StepStoreInv, StepReadInv, StepBootInv,
     StepCacheInv, StepResponseConsistent
<1>3. QED  BY <1>1, <1>2, PTL DEF Spec

---------------------------------------------------------------------------
(* What a transaction changes, from the tables it began with.              *)

LEMMA AddContents ==
    ASSUME NEW tables \in Tables, NEW batch \in Batches
    PROVE  /\ AddNewCertificates(tables, batch).next
                = [rooted |-> TRUE, certs |-> tables.next.certs \cup batch]
           /\ AddNewCertificates(tables, batch).next.certs = tables.next.certs \cup batch
           /\ AddNewCertificates(tables, batch).certificates = tables.certificates \cup batch
BY DEF AddNewCertificates, Tables, Tree

LEMMA RemovalContents ==
    ASSUME NEW tables \in Tables, NEW t \in Nat
    PROVE  /\ RemoveExpiredCertificates(tables, t) \in Tables
           /\ RemoveExpiredCertificates(tables, t).next
                = [tables.next EXCEPT !.certs = @ \ ExpiredCertificates(tables, t)]
           /\ RemoveExpiredCertificates(tables, t).certificates
                = tables.certificates \ ExpiredCertificates(tables, t)
<1> DEFINE expired == ExpiredCertificates(tables, t)
<1>1. RemoveExpiredCertificates(tables, t) =
        [tables EXCEPT !.next = [tables.next EXCEPT !.certs = tables.next.certs \ expired],
                       !.certificates = tables.certificates \ expired]
  <2> HIDE DEF expired
  <2>1. RemoveExpiredCertificates(tables, t) =
          [tables EXCEPT !.next.certs = tables.next.certs \ expired,
                         !.certificates = tables.certificates \ expired]
    BY DEF RemoveExpiredCertificates, expired
  <2>2. QED  BY <2>1 DEF Tables, Tree
<1>2. RemoveExpiredCertificates(tables, t) \in Tables
  BY TablesTypes
<1> HIDE DEF expired
<1>3. QED  BY <1>1, <1>2 DEF Tables, Tree, expired

LEMMA SwapContents ==
    ASSUME NEW tables \in Tables
    PROVE  /\ SwapTables(tables).nodes = tables.next
           /\ SwapTables(tables).next = tables.next
           /\ SwapTables(tables).certificates = tables.certificates
BY DEF SwapTables, Tables

\* A transaction is one insertion, or one removal of what expired with, in the
\* end, the swap, from the committed tables; the draft signs the new root.
Transaction(u) ==
    /\ upc[u] \in {"add", "remove"} => update[u].tx = db
    /\ upc[u] = "commitInsert" =>
          \E batch \in Batches : update[u].tx = AddNewCertificates(db, batch)
    /\ upc[u] \in {"indices", "swap"} =>
          update[u].tx = RemoveExpiredCertificates(db, clock)
    /\ upc[u] \in {"lock", "wlock", "commit"} =>
          /\ update[u].tx = SwapTables(RemoveExpiredCertificates(db, clock))
          /\ update[u].draft.root = update[u].tx.nodes
    /\ upc[u] = "append" => update[u].draft.root = db.nodes
    /\ upc[u] \in ReleaseSteps => update[u].stamp = clock /\ clock > 0

ReleaseInv ==
    /\ clock <= MaxClock
    /\ db.nodes.certs \subseteq db.next.certs
    /\ \A u \in Updaters : Transaction(u)

\* A step of one updater that leaves the committed tables alone.
LEMMA OneTransaction ==
    ASSUME NEW u \in Updaters, ReleaseInv, db' = db, clock' = clock,
           \A v \in Updaters \ {u} : upc'[v] = upc[v] /\ update'[v] = update[v],
           Transaction(u)'
    PROVE  ReleaseInv'
<1>1. ASSUME NEW v \in Updaters, v # u PROVE Transaction(v)'
  <2>1. Transaction(v) /\ upc'[v] = upc[v] /\ update'[v] = update[v]
    BY <1>1 DEF ReleaseInv
  <2>2. QED  BY ONLY <2>1, db' = db, clock' = clock DEF Transaction
<1>2. QED  BY <1>1 DEF ReleaseInv

LEMMA StepReleaseInv ==
    TypeInv /\ LockInv /\ ReleaseInv /\ [Next]_vars => ReleaseInv'
<1> SUFFICES ASSUME TypeInv, LockInv, ReleaseInv, [Next]_vars PROVE ReleaseInv'
  OBVIOUS
<1>s. ASSUME UNCHANGED <<db, upc, update, clock>>
      PROVE  ReleaseInv'
  BY <1>s DEF ReleaseInv, Transaction
<1>1. CASE Boot
  <2>1. /\ \A u \in Updaters : upc[u] = "idle" \/ clock' = clock
        /\ clock' <= MaxClock
    BY <1>1, ConstantsAssumption
       DEF ReleaseInv, TypeInv, TypeOK, Present, Boot, Start, BootSign, BootPoll, BootLatest,
           BootServe, BootExit
  <2>2. UNCHANGED <<db, upc, update>>
    BY <1>1 DEF Boot, Start, BootSign, BootPoll, BootLatest, BootServe,
                    BootExit, RequestVars, database, updaterVars
  <2>3. QED  BY <2>1, <2>2 DEF ReleaseInv, Transaction
<1>2. CASE \E r \in Readers : Arrive(r) \/ ReaderStep(r)
  BY <1>2, <1>s DEF Arrive, ReaderStep, RLock, Select, ScanDone,
        SelectCertificates, QueryError, Reply, WriteSide, updaterVars
<1>3. ASSUME NEW u \in Updaters, UpdaterStep(u)
      PROVE  ReleaseInv'
  <2> USE DEF Goto, TypeInv, TypeOK
  <2>0. /\ update[u] \in Update /\ update[u].tx \in Tables /\ update[u].stamp \in Nat
        /\ db \in Tables /\ clock \in Nat /\ MaxClock \in Nat
    BY ConstantsAssumption DEF Update
  <2>t. Transaction(u) /\ clock <= MaxClock /\ db.nodes.certs \subseteq db.next.certs
    BY DEF ReleaseInv
  \* No other updater runs.
  <2>1. upc[u] # "idle" => \A v \in Updaters \ {u} : upc[v] = "idle"
    BY DEF LockInv, UpdateLocked
  <2>2. CASE InsertBegin(u)
    <3>1. /\ db' = db /\ clock' = clock /\ update'[u].tx = db /\ upc'[u] = "add"
          /\ \A v \in Updaters \ {u} : upc'[v] = upc[v] /\ update'[v] = update[v]
      BY <2>0, <2>2 DEF InsertBegin, Begin, Update
    <3>2. Transaction(u)'
      BY ONLY <3>1 DEF Transaction, ReleaseSteps
    <3>3. QED  BY <3>1, <3>2, OneTransaction
  <2>3. CASE ReleaseBegin(u)
    <3>1. /\ db' = db /\ update'[u].tx = db /\ upc'[u] = "remove" /\ update'[u].stamp = clock'
          /\ \A v \in Updaters \ {u} : upc'[v] = upc[v] /\ update'[v] = update[v]
          /\ clock' > 0 /\ clock' <= MaxClock
      BY <2>0, <2>3 DEF ReleaseBegin, Begin, Update
    <3>2. \A v \in Updaters \ {u} : upc[v] = "idle"
      BY <2>3, ConstantsAssumption
         DEF ReleaseBegin, Begin, TryLockSucceeds, LockInv, UpdateLocked
    <3>3. QED  BY <2>t, <3>1, <3>2 DEF ReleaseInv, Transaction
  <2>4. CASE InsertAdd(u)
    <3>1. PICK batch \in Batches :
            update' = [update EXCEPT ![u].tx = AddNewCertificates(@, batch)]
      BY <2>4 DEF InsertAdd
    <3>2. update'[u].tx = AddNewCertificates(db, batch)
      BY <2>0, <2>t, <2>4, <3>1 DEF Update, InsertAdd, Transaction
    <3>3. /\ db' = db /\ clock' = clock /\ upc'[u] = "commitInsert"
          /\ \A v \in Updaters \ {u} : upc'[v] = upc[v] /\ update'[v] = update[v]
      BY <2>4, <3>1 DEF InsertAdd
    <3>4. Transaction(u)'
      BY ONLY <3>2, <3>3 DEF Transaction, ReleaseSteps
    <3>5. QED  BY <3>3, <3>4, OneTransaction
  <2>5. CASE InsertCommit(u)
    <3>1. /\ db'.nodes = db.nodes /\ db'.next = update[u].tx.next /\ clock' = clock
          /\ upc[u] = "commitInsert"
      BY <2>5 DEF InsertCommit, Return, Tables
    <3>2. db'.nodes.certs \subseteq db'.next.certs
      <4>1. PICK batch \in Batches : update[u].tx = AddNewCertificates(db, batch)
        BY <2>t, <3>1 DEF Transaction
      <4>2. update[u].tx.next.certs = db.next.certs \cup batch
        <5>1. AddNewCertificates(db, batch).next.certs = db.next.certs \cup batch
          BY <2>0, AddContents
        <5>2. QED  BY <4>1, <5>1
      <4>3. QED  BY <2>t, <3>1, <4>2
    <3>3. \A v \in Updaters : upc'[v] = "idle"
      BY <2>1, <2>5 DEF InsertCommit, Return
    <3>4. QED  BY <2>t, <3>1, <3>2, <3>3 DEF ReleaseInv, Transaction
  <2>6. CASE RemoveExpired(u)
    <3>1. /\ update'[u].tx = RemoveExpiredCertificates(db, clock) /\ update'[u].stamp = clock
          /\ clock > 0
      BY <2>0, <2>t, <2>6 DEF RemoveExpired, Update, Transaction
    <3>2. /\ db' = db /\ clock' = clock /\ upc'[u] = "indices"
          /\ \A v \in Updaters \ {u} : upc'[v] = upc[v] /\ update'[v] = update[v]
      BY <2>6 DEF RemoveExpired
    <3>3. Transaction(u)'
      BY ONLY <3>1, <3>2 DEF Transaction, ReleaseSteps
    <3>4. QED  BY <3>2, <3>3, OneTransaction
  <2>7. CASE SwapAndSign(u)
    <3> DEFINE swapped == SwapTables(update[u].tx)
    <3>1. /\ update'[u].tx = swapped /\ update'[u].stamp = update[u].stamp
          /\ update'[u].draft = CreateNewSMH(swapped, update[u].stamp)
      BY <2>0, <2>7 DEF SwapAndSign, Update
    <3>2. update'[u].draft.root = update'[u].tx.nodes
      BY <3>1 DEF CreateNewSMH
    <3>3. /\ db' = db /\ clock' = clock /\ upc[u] = "swap" /\ upc'[u] = "lock"
          /\ \A v \in Updaters \ {u} : upc'[v] = upc[v] /\ update'[v] = update[v]
      BY <2>7 DEF SwapAndSign
    <3>4. /\ update'[u].tx = SwapTables(RemoveExpiredCertificates(db, clock))
          /\ update'[u].stamp = clock /\ clock > 0
      BY <2>t, <3>1, <3>3 DEF Transaction
    <3> HIDE DEF swapped
    <3>5. Transaction(u)'
      BY ONLY <3>2, <3>3, <3>4 DEF Transaction, ReleaseSteps
    <3>6. QED  BY <3>3, <3>5, OneTransaction
  <2>8. CASE ReleaseCommit(u) \/ CommitLost(u)
    <3>1. /\ db' = update[u].tx /\ clock' = clock /\ upc[u] = "commit"
          /\ upc'[u] \in {"append", "idle"}
          /\ upc'[u] = "append" => update' = update
      BY <2>8 DEF ReleaseCommit, CommitLost, Return
    <3>2. \A v \in Updaters \ {u} : upc'[v] = "idle"
      BY <2>1, <2>8 DEF ReleaseCommit, CommitLost, Return
    <3>3. db'.nodes = db'.next
      <4>1. update[u].tx = SwapTables(RemoveExpiredCertificates(db, clock))
        BY <2>t, <3>1 DEF Transaction
      <4>2. RemoveExpiredCertificates(db, clock) \in Tables
        BY <2>0, RemovalContents
      <4>3. QED  BY <3>1, <4>1, <4>2, SwapContents
    <3>4. QED  BY <2>t, <3>1, <3>2, <3>3 DEF ReleaseInv, Transaction
  <2>9. CASE \/ DropIndices(u) \/ LockCall(u) \/ LockAcquire(u)
             \/ AppendSignedMapHead(u) \/ UpdateSCH(u)
    <3>1. /\ UNCHANGED <<db, update, clock>>
          /\ \A v \in Updaters \ {u} : upc'[v] = upc[v]
          /\ upc[u] \in ReleaseSteps /\ upc'[u] \notin {"add", "remove", "commitInsert", "append"}
          /\ upc'[u] \in {"indices", "swap"} => upc[u] \in {"indices", "swap"}
          /\ upc'[u] \in {"lock", "wlock", "commit"}
                => upc[u] \in {"lock", "wlock", "commit"}
      BY <2>9 DEF DropIndices, LockCall, LockAcquire, AppendSignedMapHead,
                  UpdateSCH, database
    <3>2. Transaction(u)'
      BY ONLY <2>t, <3>1 DEF Transaction, ReleaseSteps
    <3>3. QED  BY <3>1, <3>2, OneTransaction
  <2>10. CASE Poll(u)
    <3>1. update'[u].stamp = update[u].stamp
      BY <2>0, <2>10 DEF Poll, Update
    <3>2. /\ db' = db /\ clock' = clock /\ upc[u] = "poll" /\ upc'[u] = "publish"
          /\ \A v \in Updaters \ {u} : upc'[v] = upc[v] /\ update'[v] = update[v]
      BY <2>10 DEF Poll
    <3>3. Transaction(u)'
      BY ONLY <2>t, <3>1, <3>2 DEF Transaction, ReleaseSteps
    <3>4. QED  BY <3>2, <3>3, OneTransaction
  <2>11. ASSUME Return(u), db' = db
         PROVE  ReleaseInv'
    <3>1. /\ upc'[u] = "idle" /\ clock' = clock
          /\ \A v \in Updaters \ {u} : upc'[v] = upc[v] /\ update'[v] = update[v]
      BY <2>11 DEF Return
    <3>2. Transaction(u)'
      BY ONLY <3>1 DEF Transaction, ReleaseSteps
    <3>3. QED  BY <2>11, <3>1, <3>2, OneTransaction
  <2>12. QED
    BY <1>3, <2>2, <2>3, <2>4, <2>5, <2>6, <2>7, <2>8, <2>9, <2>10, <2>11
       DEF UpdaterStep, UpdateStep, UpdateFault, RemovalRejected, ReleaseReturn,
           UpdateError
<1>4. CASE Integrate
  BY <1>4, <1>s DEF Integrate, RequestVars, database, updaterVars
<1>5. CASE Crash
  BY <1>5 DEF Crash, ReleaseInv, Transaction, NoUpdate, Update, EmptyTables
<1>6. CASE UNCHANGED vars
  BY <1>6, <1>s DEF vars, database, updaterVars
<1>7. QED  BY <1>1, <1>2, <1>3, <1>4, <1>5, <1>6 DEF Next

\* The three steps that commit a transaction.
LEMMA StepTables ==
    TypeInv /\ [Next]_vars =>
        \/ db' = db
        \/ \E u \in Updaters :
              /\ upc[u] = "commitInsert"
              /\ db'.nodes = db.nodes
              /\ db'.next = update[u].tx.next /\ db'.certificates = update[u].tx.certificates
        \/ \E u \in Updaters : upc[u] = "commit" /\ db' = update[u].tx
<1> SUFFICES ASSUME TypeInv, [Next]_vars, db' # db
             PROVE  \E u \in Updaters :
                      \/ /\ upc[u] = "commitInsert"
                         /\ db'.nodes = db.nodes
                         /\ db'.next = update[u].tx.next
                         /\ db'.certificates = update[u].tx.certificates
                      \/ upc[u] = "commit" /\ db' = update[u].tx
  OBVIOUS
<1>1. ~Boot /\ ~Integrate /\ ~Crash /\ ~UNCHANGED vars
  BY DEF Boot, Start, BootSign, BootPoll, BootLatest, BootServe, BootExit,
         Integrate, Crash, RequestVars, database, vars
<1>2. ~\E r \in Readers : Arrive(r) \/ ReaderStep(r)
  BY DEF Arrive, ReaderStep, RLock, Select, ScanDone, SelectCertificates,
         QueryError, Reply, WriteSide
<1>3. PICK u \in Updaters : UpdaterStep(u)
  BY <1>1, <1>2 DEF Next
<1>4. InsertCommit(u) \/ ReleaseCommit(u) \/ CommitLost(u)
  BY <1>3 DEF UpdaterStep, InsertBegin, ReleaseBegin, Begin, DropIndices,
        UpdateStep, UpdateFault, InsertAdd, RemoveExpired, RemovalRejected,
        SwapAndSign, LockCall, LockAcquire, AppendSignedMapHead, Poll,
        UpdateSCH, ReleaseReturn, UpdateError, database
<1>5. CASE InsertCommit(u)
  BY <1>5 DEF InsertCommit, TypeInv, TypeOK, Tables
<1>6. CASE ReleaseCommit(u) \/ CommitLost(u)
  BY <1>6 DEF ReleaseCommit, CommitLost
<1>7. QED  BY <1>4, <1>5, <1>6

ReleasesInv == TypeInv /\ LockInv /\ StoreInv /\ ReleaseInv

LEMMA InitReleasesInv == Init => ReleasesInv
<1>1. Init => StoreInv
  BY DEF Init, StoreInv, StoredIn, ImportedTree, NoUpdate, EmptyTables, EmptyTree
<1>2. Init => ReleaseInv
  BY ConstantsAssumption DEF Init, ReleaseInv, Transaction
<1>3. QED  BY InitInv, <1>1, <1>2 DEF ReleasesInv

LEMMA StepReleasesInv == ReleasesInv /\ [Next]_vars => ReleasesInv'
BY StepTypeInv, StepLockInv, StepStoreInv, StepReleaseInv DEF ReleasesInv

\* The committed tables change by whole insertions and whole releases.
Inserted(batch) ==
    /\ db'.nodes = db.nodes
    /\ db'.next = [rooted |-> TRUE, certs |-> db.next.certs \cup batch]
    /\ db'.certificates = db.certificates \cup batch

Released(expired) ==
    /\ db'.next = [db.next EXCEPT !.certs = @ \ expired]
    /\ db'.nodes = db'.next
    /\ db'.certificates = db.certificates \ expired

LEMMA StepDatabase ==
    ReleasesInv /\ [Next]_vars =>
        \/ db' = db
        \/ \E batch \in Batches : Inserted(batch)
        \/ clock \in 1..MaxClock /\ Released(ExpiredCertificates(db, clock))
<1> SUFFICES ASSUME ReleasesInv, [Next]_vars, db' # db
             PROVE  \/ \E batch \in Batches : Inserted(batch)
                    \/ clock \in 1..MaxClock /\ Released(ExpiredCertificates(db, clock))
  OBVIOUS
<1>0. db \in Tables /\ clock \in Nat /\ MaxClock \in Nat
  BY ConstantsAssumption DEF ReleasesInv, TypeInv, TypeOK
<1>1. PICK u \in Updaters :
        \/ /\ upc[u] = "commitInsert"
           /\ db'.nodes = db.nodes
           /\ db'.next = update[u].tx.next
           /\ db'.certificates = update[u].tx.certificates
        \/ upc[u] = "commit" /\ db' = update[u].tx
  BY StepTables DEF ReleasesInv
<1>2. CASE upc[u] = "commitInsert"
  <2>1. PICK batch \in Batches : update[u].tx = AddNewCertificates(db, batch)
    BY <1>2 DEF ReleasesInv, ReleaseInv, Transaction
  <2>2. /\ update[u].tx.next = [rooted |-> TRUE, certs |-> db.next.certs \cup batch]
        /\ update[u].tx.certificates = db.certificates \cup batch
    <3>1. /\ AddNewCertificates(db, batch).next
                = [rooted |-> TRUE, certs |-> db.next.certs \cup batch]
          /\ AddNewCertificates(db, batch).certificates = db.certificates \cup batch
      BY <1>0, AddContents
    <3>2. QED  BY <2>1, <3>1
  <2>3. QED  BY <1>1, <1>2, <2>2 DEF Inserted
<1>3. CASE upc[u] = "commit"
  <2> DEFINE kept == RemoveExpiredCertificates(db, clock)
  <2>1. db' = SwapTables(kept) /\ clock > 0 /\ clock <= MaxClock
    BY <1>1, <1>3 DEF ReleasesInv, ReleaseInv, Transaction
  <2>2. /\ kept \in Tables
        /\ kept.next = [db.next EXCEPT !.certs = @ \ ExpiredCertificates(db, clock)]
        /\ kept.certificates = db.certificates \ ExpiredCertificates(db, clock)
    BY <1>0, RemovalContents
  <2> HIDE DEF kept
  <2>3. db'.nodes = kept.next /\ db'.next = kept.next /\ db'.certificates = kept.certificates
    BY <1>0, <2>1, <2>2, SwapContents
  <2>4. QED  BY <1>0, <2>1, <2>2, <2>3 DEF Released
<1>4. QED  BY <1>1, <1>2, <1>3

\* What has expired is what the table 'certificates' says, and every listed
\* certificate is in it.
LEMMA OnlyExpired ==
    ReleasesInv => /\ \A c \in ExpiredCertificates(db, clock) : NotAfter[c] < clock
                   /\ \A c \in db.next.certs \ ExpiredCertificates(db, clock) : NotAfter[c] >= clock
                   /\ db.nodes.certs \subseteq db.next.certs
                   /\ db.next \in Tree /\ db.nodes \in Tree
BY ConstantsAssumption
   DEF ReleasesInv, StoreInv, StoredIn, ReleaseInv, Transaction, ExpiredCertificates, TypeInv, TypeOK,
       Tables, Tree

\* Whatever fails, a certificate is staged, published and can be fetched until
\* a release finds it expired.
THEOREM CertificatesAreKept == Spec => NoCertificateLost
<1>1. ReleasesInv /\ [Next]_vars =>
        [\A c \in Certs :
            /\ c \in db.next.certs \ db'.next.certs => NotAfter[c] < clock
            /\ c \in db.nodes.certs \ db'.nodes.certs => NotAfter[c] < clock
            /\ c \in db.certificates \ db'.certificates => NotAfter[c] < clock]_db
  <2> SUFFICES ASSUME ReleasesInv, [Next]_vars, NEW c \in Certs
               PROVE  /\ c \in db.next.certs \ db'.next.certs => NotAfter[c] < clock
                      /\ c \in db.nodes.certs \ db'.nodes.certs => NotAfter[c] < clock
                      /\ c \in db.certificates \ db'.certificates => NotAfter[c] < clock
    OBVIOUS
  <2>1. CASE db' = db
    BY <2>1
  <2>2. CASE \E batch \in Batches : Inserted(batch)
    BY <2>2 DEF Inserted
  <2>3. CASE Released(ExpiredCertificates(db, clock))
    <3>1. /\ db'.next.certs = db.next.certs \ ExpiredCertificates(db, clock)
          /\ db'.nodes.certs = db.next.certs \ ExpiredCertificates(db, clock)
          /\ db'.certificates = db.certificates \ ExpiredCertificates(db, clock)
      BY <2>3, OnlyExpired DEF Released, Tree
    <3>2. QED  BY <3>1, OnlyExpired
  <2>4. QED  BY <2>1, <2>2, <2>3, StepDatabase
<1>2. QED  BY <1>1, InitReleasesInv, StepReleasesInv, PTL DEF Spec, NoCertificateLost

\* Whatever fails, a release publishes nothing that had expired when it began.
THEOREM NothingExpiredIsReleased == Spec => NothingExpiredReleased
<1>1. ReleasesInv /\ [Next]_vars =>
        [db'.nodes # db.nodes => \A c \in db'.nodes.certs : NotAfter[c] >= clock]_db
  <2> SUFFICES ASSUME ReleasesInv, [Next]_vars, db'.nodes # db.nodes
               PROVE  \A c \in db'.nodes.certs : NotAfter[c] >= clock
    OBVIOUS
  <2>1. Released(ExpiredCertificates(db, clock))
    BY StepDatabase DEF Inserted
  <2>2. db'.nodes.certs = db.next.certs \ ExpiredCertificates(db, clock)
    BY <2>1, OnlyExpired DEF Released, Tree
  <2>3. QED  BY <2>2, OnlyExpired
<1>2. QED  BY <1>1, InitReleasesInv, StepReleasesInv, PTL DEF Spec, NothingExpiredReleased

\* Whatever fails, only committed roots are sent to the log.
THEOREM CommittedRootsAreLogged == Spec => LogsCommittedRoots
<1>1. ReleasesInv /\ [Next]_vars =>
        [Len(queue') > Len(queue) => queue'[Len(queue')].root = db.nodes]_queue
  <2> SUFFICES ASSUME ReleasesInv, [Next]_vars, Len(queue') > Len(queue)
               PROVE  queue'[Len(queue')].root = db.nodes
    OBVIOUS
  <2>1. queue \in Seq(SMH)
    BY DEF ReleasesInv, TypeInv, TypeOK
  <2>2. CASE BootSign
    <3>1. queue' = Append(queue, smh') /\ smh'.root = db.nodes
      BY <2>2 DEF BootSign, CreateNewSMH
    <3>2. QED  BY <2>1, <3>1, AppendProperties
  <2>3. ASSUME NEW u \in Updaters, AppendSignedMapHead(u)
        PROVE  queue'[Len(queue')].root = db.nodes
    <3>1. queue' = Append(queue, update[u].draft) /\ update[u].draft.root = db.nodes
      BY <2>3 DEF AppendSignedMapHead, ReleasesInv, ReleaseInv, Transaction
    <3>2. update[u].draft \in SMH
      BY <2>3 DEF AppendSignedMapHead, ReleasesInv, TypeInv, Present
    <3>3. QED  BY <2>1, <3>1, <3>2, AppendProperties
  <2>4. CASE Integrate
    BY <2>1, <2>4, HeadTailProperties DEF Integrate
  <2>5. CASE queue' = queue
    BY <2>1, <2>5
  <2>6. BootSign \/ (\E u \in Updaters : AppendSignedMapHead(u)) \/ Integrate \/ queue' = queue
    BY DEF Next, Boot, Start, BootPoll, BootLatest, BootServe, BootExit, Crash,
         Arrive, ReaderStep, RLock, Select, ScanDone, SelectCertificates, QueryError, Reply,
         UpdaterStep, InsertBegin, ReleaseBegin, Begin, DropIndices,
         UpdateStep, UpdateFault, InsertAdd, InsertCommit, RemoveExpired, RemovalRejected,
         SwapAndSign, LockCall, LockAcquire, ReleaseCommit, Poll, CommitLost,
         UpdateSCH, ReleaseReturn, UpdateError, Return, WriteSide, trillian, vars
  <2>7. QED  BY <2>2, <2>3, <2>4, <2>5, <2>6
<1>2. QED  BY <1>1, InitReleasesInv, StepReleasesInv, PTL DEF Spec, LogsCommittedRoots
---------------------------------------------------------------------------
(* What a connection sees never goes back.                                 *)

\* Any head in the log bounds what was seen: its last leaf is the newest, and
\* what is signed later is newer still.
LEMMA LogBounds ==
    ASSUME TypeInv, OrderInv, NEW leaf, NEW n, Included(leaf, n)
    PROVE  /\ leaf \in SMH /\ leaf.timestamp \in Nat
           /\ \A t \in Nat : Before(Leaves, t) => leaf.timestamp < t
           /\ leaf.timestamp <= log[Len(log)].timestamp
<1>1. log \in Seq(SMH) /\ queue \in Seq(SMH)
  BY DEF TypeInv, TypeOK
<1>2. PICK i \in 1..Len(log) : log[i] = leaf
  BY DEF Included
<1>3. /\ Leaves \in Seq(SMH)
      /\ Len(log) \in Nat /\ Len(queue) \in Nat
      /\ Len(Leaves) = Len(log) + Len(queue)
      /\ \A j \in 1..Len(log) : Leaves[j] = log[j] /\ log[j] \in SMH
  BY <1>1, ConcatProperties, LenProperties, ElementOfSeq DEF Leaves
<1>4. \A x \in SMH : x.timestamp \in Nat
  BY DEF SMH
<1>5. i \in 1..Len(Leaves) /\ Len(log) \in 1..Len(Leaves) /\ Len(log) \in 1..Len(log)
  BY <1>2, <1>3
<1>6. leaf.timestamp <= log[Len(log)].timestamp
  <2>1. CASE i = Len(log)
    BY <1>2, <1>3, <1>4, <1>5, <2>1
  <2>2. CASE i < Len(log)
    BY <1>2, <1>3, <1>4, <1>5, <2>2 DEF OrderInv, Sorted
  <2>3. QED  BY <1>2, <1>3, <2>1, <2>2
<1>7. \A t \in Nat : Before(Leaves, t) => leaf.timestamp < t
  BY <1>2, <1>3, <1>5 DEF Before
<1>8. QED  BY <1>2, <1>3, <1>4, <1>6, <1>7

Drafted == Signed \cup {"poll", "publish"}

\* What every connection has seen is no newer than what the server is about to
\* send, nor than what a release is about to cache.
SeenInv ==
    /\ server \in {"latest", "prove", "up"} =>
          \A r \in Readers : seen[r] # None => seen[r].sch <= sch
    /\ server \in {"prove", "up"} =>
          \A r \in Readers : seen[r] # None => seen[r].smh.timestamp <= smh.timestamp
    /\ \A u \in Updaters :
          /\ upc[u] \in Drafted => smh.timestamp <= update[u].draft.timestamp
          /\ upc[u] = "publish" => sch <= update[u].sch

LEMMA StepSeenInv ==
    TypeInv /\ LockInv /\ HeadInv /\ HeadsCertified /\ OrderInv /\ SeenInv /\ [Next]_vars
        => SeenInv'
<1> SUFFICES ASSUME TypeInv, LockInv, HeadInv, HeadsCertified, OrderInv, SeenInv, [Next]_vars
             PROVE  SeenInv'
  OBVIOUS
<1> USE DEF SeenInv, Drafted, Signed
<1>0. /\ sch \in Nat /\ Len(log) \in Nat
      /\ \A x \in SMH : x.timestamp \in Nat
      /\ \A r \in Readers : seen[r] # None =>
            seen[r].sch \in Nat /\ seen[r].smh \in SMH
      /\ \A u \in Updaters : update[u] \in Update /\ update[u].stamp \in Nat
  BY LenProperties DEF TypeInv, TypeOK, Answer, SMH, Update
<1>1. \A r \in Readers : seen[r] # None =>
        seen[r].sch <= Len(log) /\ Included(seen[r].smh, seen[r].sch)
  BY DEF HeadsCertified
<1>s. ASSUME UNCHANGED <<server, smh, sch, seen, upc, update>>
      PROVE  SeenInv'
  BY <1>s
<1>2. CASE Boot
  <2>1. /\ UNCHANGED <<seen, upc, update>>
        /\ \A u \in Updaters : upc[u] = "idle"
    BY <1>2 DEF Boot, Start, BootSign, BootPoll, BootLatest, BootServe, BootExit,
                RequestVars, readerVars, updaterVars, TypeInv, Present
  <2>2. CASE Start \/ BootPoll
    <3>1. sch' = Len(log) /\ server' \in {"sign", "latest"}
      BY <2>2 DEF Start, BootPoll
    <3>2. QED  BY <1>1, <2>1, <3>1
  <2>3. CASE BootLatest
    <3>1. /\ sch' = sch /\ smh' = log[Len(log)] /\ server = "latest" /\ server' = "prove"
      BY <2>3 DEF BootLatest, LatestLeaf
    <3>2. \A r \in Readers : seen[r] # None =>
            seen[r].smh.timestamp <= log[Len(log)].timestamp
      BY <1>1, LogBounds
    <3>3. QED  BY <2>1, <3>1, <3>2
  <2>4. CASE BootSign \/ BootExit
    BY <2>1, <2>4 DEF BootSign, BootExit
  <2>5. CASE BootServe
    BY <2>1, <2>5 DEF BootServe
  <2>6. QED  BY <1>2, <2>2, <2>3, <2>4, <2>5 DEF Boot
<1>3. ASSUME NEW r \in Readers, Arrive(r) \/ ReaderStep(r)
      PROVE  SeenInv'
  <2>1. /\ UNCHANGED <<server, smh, sch, upc, update>>
        /\ seen' = seen \/ Reply(r)
    BY <1>3 DEF Arrive, ReaderStep, RLock, Select, ScanDone, SelectCertificates,
                QueryError, Reply, WriteSide, cache, updaterVars
  <2>2. CASE seen' = seen
    BY <1>s, <2>1, <2>2
  <2>3. CASE Reply(r)
    <3>1. \A s \in Readers \ {r} : seen'[s] = seen[s]
      BY <2>3 DEF Reply, TypeInv, TypeOK
    <3>2. seen'[r] = seen[r] \/ (seen'[r].sch = sch /\ seen'[r].smh = smh)
      BY <2>3 DEF Reply, TypeInv, TypeOK
    <3>3. smh \in SMH
      BY <2>3 DEF Reply, TypeInv, Present
    <3>4. QED  BY <1>0, <2>1, <3>1, <3>2, <3>3
  <2>4. QED  BY <2>1, <2>2, <2>3
<1>4. ASSUME NEW u \in Updaters, UpdaterStep(u)
      PROVE  SeenInv'
  <2> USE DEF Goto
  <2>1. /\ upc \in [Updaters -> {"idle"} \cup InsertSteps \cup ReleaseSteps]
        /\ update \in [Updaters -> Update]
    BY DEF TypeInv, TypeOK
  \* No other updater runs.
  <2>2. upc[u] # "idle" => \A v \in Updaters \ {u} : upc[v] = "idle"
    BY DEF LockInv, UpdateLocked
  <2>3. server' = server /\ seen' = seen
    BY <1>4 DEF UpdaterStep, InsertBegin, ReleaseBegin, Begin, DropIndices, UpdateStep,
         UpdateFault, InsertAdd, InsertCommit, RemoveExpired, RemovalRejected,
         SwapAndSign, LockCall, LockAcquire, ReleaseCommit, AppendSignedMapHead,
         Poll, UpdateSCH, ReleaseReturn, CommitLost, UpdateError, Return, ReadSide, readerVars
  <2>4. CASE UpdateSCH(u)
    <3>1. /\ smh' = update[u].draft /\ sch' = update[u].sch
          /\ upc[u] = "publish" /\ upc'[u] = "return" /\ update' = update
          /\ \A v \in Updaters \ {u} : upc'[v] = upc[v]
      BY <2>1, <2>4 DEF UpdateSCH
    <3>2. /\ server = "up" /\ smh \in SMH /\ update[u].draft \in SMH /\ update[u].sch \in Nat
      BY <3>1, <1>0 DEF TypeInv, Present, Update
    <3>3. QED  BY <1>0, <2>2, <2>3, <3>1, <3>2
  <2>5. CASE SwapAndSign(u)
    <3>1. /\ update'[u].draft.timestamp = update[u].stamp
          /\ upc[u] = "swap" /\ upc'[u] = "lock" /\ UNCHANGED <<smh, sch>>
          /\ \A v \in Updaters \ {u} : upc'[v] = upc[v] /\ update'[v] = update[v]
      BY <1>0, <2>1, <2>5 DEF SwapAndSign, CreateNewSMH, Update, cache
    <3>2. server = "up"
      BY <3>1 DEF TypeInv, Present
    <3>3. Included(smh, sch)
      BY <3>2 DEF HeadInv
    <3>4. Before(Leaves, update[u].stamp)
      BY <3>1 DEF OrderInv, Releasing
    <3>5. smh.timestamp <= update[u].stamp
      BY <1>0, <3>3, <3>4, LogBounds
    <3>6. QED  BY <2>2, <2>3, <3>1, <3>5
  <2>6. CASE Poll(u)
    <3>1. /\ update'[u].draft = update[u].draft /\ update'[u].sch = Len(log)
          /\ upc[u] = "poll" /\ upc'[u] = "publish" /\ UNCHANGED <<smh, sch>>
          /\ \A v \in Updaters \ {u} : upc'[v] = upc[v] /\ update'[v] = update[v]
      BY <1>0, <2>1, <2>6 DEF Poll, Update, cache
    <3>2. sch <= Len(log)
      BY <3>1 DEF HeadInv, TypeInv, Present
    <3>3. QED  BY <2>2, <2>3, <3>1, <3>2
  <2>7. ASSUME /\ UNCHANGED <<smh, sch>>
               /\ upc'[u] \notin Drafted
               /\ \A v \in Updaters \ {u} : upc'[v] = upc[v] /\ update'[v] = update[v]
        PROVE  SeenInv'
    BY <2>3, <2>7
  <2>8. CASE \/ LockCall(u) \/ LockAcquire(u) \/ ReleaseCommit(u) \/ AppendSignedMapHead(u)
    <3>1. /\ upc[u] \in Signed /\ upc'[u] # "publish" /\ UNCHANGED <<smh, sch, update>>
          /\ \A v \in Updaters \ {u} : upc'[v] = upc[v]
      BY <2>1, <2>8 DEF LockCall, LockAcquire, ReleaseCommit, AppendSignedMapHead, cache
    <3>2. QED  BY <2>3, <3>1
  <2>9. CASE \/ InsertBegin(u) \/ ReleaseBegin(u) \/ InsertAdd(u) \/ RemoveExpired(u)
             \/ DropIndices(u)
    <3>1. /\ UNCHANGED <<smh, sch>>
          /\ upc'[u] \notin Drafted
          /\ \A v \in Updaters \ {u} : upc'[v] = upc[v] /\ update'[v] = update[v]
      BY <2>1, <2>9 DEF InsertBegin, ReleaseBegin, Begin, InsertAdd, RemoveExpired,
                        DropIndices, cache
    <3>2. QED  BY <2>7, <3>1
  <2>10. CASE Return(u)
    <3>1. /\ UNCHANGED <<smh, sch>>
          /\ upc'[u] \notin Drafted
          /\ \A v \in Updaters \ {u} : upc'[v] = upc[v] /\ update'[v] = update[v]
      BY <2>1, <2>10 DEF Return, cache
    <3>2. QED  BY <2>7, <3>1
  <2>11. QED
    BY <1>4, <2>4, <2>5, <2>6, <2>8, <2>9, <2>10
       DEF UpdaterStep, UpdateStep, UpdateFault, InsertCommit, RemovalRejected, ReleaseReturn,
           CommitLost, UpdateError
<1>5. CASE Integrate
  BY <1>5, <1>s DEF Integrate, RequestVars, cache, readerVars, updaterVars
<1>6. CASE Crash
  BY <1>6 DEF Crash
<1>7. CASE UNCHANGED vars
  BY <1>7, <1>s DEF vars, cache, readerVars, updaterVars
<1>8. QED  BY <1>2, <1>3, <1>4, <1>5, <1>6, <1>7 DEF Next

\* Neither the consistency tree nor the map head of a connection's answers goes
\* back, across releases that fail, crashes and restarts.
THEOREM HeadsNeverReturn == Spec => HeadsNeverGoBack
<1> DEFINE IInv == TypeInv /\ LockInv /\ HeadInv /\ HeadsCertified /\ OrderInv /\ SeenInv
<1>1. Init => IInv
  BY InitInv DEF Init, HeadInv, HeadsCertified, SeenInv, Drafted, Signed
<1>2. IInv /\ [Next]_vars => IInv'
  BY StepTypeInv, StepLockInv, StepHeadInv, StepHeadsCertified, StepOrderInv, StepSeenInv
<1>3. IInv /\ [Next]_vars =>
        [\A r \in Readers : seen[r] # None =>
            /\ seen'[r].sch >= seen[r].sch
            /\ seen'[r].smh.timestamp >= seen[r].smh.timestamp]_seen
  <2> SUFFICES ASSUME IInv, [Next]_vars, seen' # seen, NEW r \in Readers, seen[r] # None
               PROVE  /\ seen'[r].sch >= seen[r].sch
                      /\ seen'[r].smh.timestamp >= seen[r].smh.timestamp
    OBVIOUS
  <2>1. PICK s \in Readers : Reply(s)
    BY StepSeen
  <2>2. /\ server = "up" /\ smh \in SMH
        /\ seen[r].sch \in Nat /\ seen[r].smh.timestamp \in Nat
    BY <2>1 DEF Reply, TypeInv, TypeOK, Present, Answer, SMH
  <2>3. \/ seen'[r] = seen[r]
        \/ seen'[r].sch = sch /\ seen'[r].smh = smh
    BY <2>1 DEF Reply, TypeInv, TypeOK
  <2>4. seen[r].sch <= sch /\ seen[r].smh.timestamp <= smh.timestamp
    BY <2>2 DEF SeenInv
  <2>5. sch \in Nat /\ smh.timestamp \in Nat
    BY <2>2 DEF TypeInv, TypeOK, SMH
  <2>6. QED  BY <2>2, <2>3, <2>4, <2>5
<1>4. QED  BY <1>1, <1>2, <1>3, PTL DEF Spec, HeadsNeverGoBack

---------------------------------------------------------------------------
(* The server implements MapService.                                       *)

\* What an answer that is about to be sent may hold.
ServeInv ==
    \A r \in Readers :
        /\ rpc[r] \in {"certificates", "reply"} /\ request[r].kind # "head"
              => request[r].nodes.rooted
        /\ rpc[r] = "certificates" => request[r].kind = "full"
        /\ rpc[r] = "reply" /\ request[r].kind # "full" => request[r].certificates = {}

LEMMA StepServeInv == TypeInv /\ ReadInv /\ ServeInv /\ [Next]_vars => ServeInv'
<1> SUFFICES ASSUME TypeInv, ReadInv, ServeInv, [Next]_vars PROVE ServeInv'
  OBVIOUS
<1>s. ASSUME UNCHANGED <<rpc, request>> PROVE ServeInv'
  BY <1>s DEF ServeInv
<1>1. CASE Boot \/ Integrate \/ UNCHANGED vars
  BY <1>1, <1>s DEF Boot, Start, BootSign, BootPoll, BootLatest, BootServe, BootExit,
                    Integrate, RequestVars, readerVars, vars
<1>2. ASSUME NEW r \in Readers, Arrive(r) \/ ReaderStep(r)
      PROVE  ServeInv'
  <2> USE DEF TypeInv, TypeOK
  <2>0. request[r] \in Request
    OBVIOUS
  <2>1. CASE Arrive(r) \/ QueryError(r) \/ Reply(r)
    <3>1. /\ rpc'[r] \notin {"certificates", "reply"}
          /\ \A s \in Readers \ {r} : rpc'[s] = rpc[s] /\ request'[s] = request[s]
      BY <2>1 DEF Arrive, QueryError, Reply, Done
    <3>2. QED  BY <3>1 DEF ServeInv
  <2>2. CASE RLock(r)
    <3>1. /\ request' = request /\ request[r].certificates = {}
          /\ rpc'[r] = "reply" => request[r].kind = "head"
          /\ rpc'[r] # "certificates"
          /\ \A s \in Readers \ {r} : rpc'[s] = rpc[s]
      BY <2>2 DEF RLock, ReadInv
    <3>2. QED  BY <3>1 DEF ServeInv
  <2>3. CASE Select(r)
    <3>1. /\ rpc'[r] = "scan"
          /\ \A s \in Readers \ {r} : rpc'[s] = rpc[s] /\ request'[s] = request[s]
      BY <2>3 DEF Select
    <3>2. QED  BY <3>1 DEF ServeInv
  <2>4. CASE ScanDone(r)
    <3>1. /\ request' = request /\ request[r].certificates = {} /\ request[r].nodes.rooted
          /\ rpc'[r] = "certificates" => request[r].kind = "full"
          /\ \A s \in Readers \ {r} : rpc'[s] = rpc[s]
      BY <2>4 DEF ScanDone, ReadInv
    <3>2. QED  BY <3>1 DEF ServeInv
  <2>5. CASE SelectCertificates(r)
    <3>1. request[r].kind = "full" /\ request[r].nodes.rooted
      BY <2>5 DEF SelectCertificates, ServeInv
    <3>2. request'[r].kind = request[r].kind /\ request'[r].nodes = request[r].nodes
      BY <2>0, <2>5 DEF SelectCertificates, Request
    <3>3. /\ rpc'[r] = "reply"
          /\ \A s \in Readers \ {r} : rpc'[s] = rpc[s] /\ request'[s] = request[s]
      BY <2>5 DEF SelectCertificates
    <3>4. QED  BY <3>1, <3>2, <3>3 DEF ServeInv
  <2>6. QED  BY <1>2, <2>1, <2>2, <2>3, <2>4, <2>5 DEF ReaderStep
<1>3. CASE \E u \in Updaters : UpdaterStep(u)
  BY <1>3, <1>s DEF UpdaterStep, InsertBegin, ReleaseBegin, Begin, DropIndices, UpdateStep,
       UpdateFault, InsertAdd, InsertCommit, RemoveExpired, RemovalRejected,
       SwapAndSign, LockCall, LockAcquire, ReleaseCommit, AppendSignedMapHead,
       Poll, UpdateSCH, ReleaseReturn, CommitLost, UpdateError, Return, ReadSide, readerVars
<1>4. CASE Crash
  BY <1>4 DEF Crash, ServeInv
<1>5. QED  BY <1>1, <1>2, <1>3, <1>4 DEF Next

ServiceInv == ReleasesInv /\ ReadInv /\ BootInv /\ CacheInv /\ ServeInv

LEMMA StepService ==
    ServiceInv /\ [Next]_vars => [Service!ServiceNext]_(Service!serviceVars)
<1> SUFFICES ASSUME ServiceInv, [Next]_vars
             PROVE  Service!ServiceNext \/ UNCHANGED Service!serviceVars
  OBVIOUS
<1>1. CASE seen' = seen
  <2>1. CASE db' = db
    BY <1>1, <2>1 DEF Service!serviceVars
  <2>2. ASSUME NEW batch \in Batches, Inserted(batch)
        PROVE  Service!Insert
    BY <1>1, <2>2 DEF Service!Insert, Inserted
  <2>3. ASSUME clock \in 1..MaxClock, Released(ExpiredCertificates(db, clock))
        PROVE  Service!Release
    BY <1>1, <2>3 DEF Service!Release, Released, ExpiredCertificates
  <2>4. QED  BY <2>1, <2>2, <2>3, StepDatabase DEF ServiceInv, Service!ServiceNext
<1>2. ASSUME NEW r \in Readers, Reply(r), seen' # seen
      PROVE  Service!Answer(r)
  <2>1. /\ request[r].kind # "head" /\ rpc[r] = "reply" /\ db' = db
        /\ seen' = [seen EXCEPT ![r] = [nodes |-> request[r].nodes,
                                       certificates |-> request[r].certificates,
                                       full |-> request[r].kind = "full",
                                       smh |-> smh, sch |-> sch, proof |-> proof]]
    BY <1>2 DEF Reply, WriteSide
  <2>2. request[r].nodes = db.nodes /\ db.nodes.rooted
    BY <2>1 DEF ServiceInv, ReadInv, ServeInv
  <2>3. request[r].certificates \in {{}, db.nodes.certs}
    BY <2>1, <2>2 DEF ServiceInv, ReadInv, ServeInv
  <2>4. smh.root = db.nodes
    <3>1. readers # {} /\ server = "up"
      BY <2>1 DEF ServiceInv, ReleasesInv, LockInv, ReaderLocked, TypeInv, Present
    <3>2. \A u \in Updaters : upc[u] \notin Committed
      BY <3>1, ConstantsAssumption DEF ServiceInv, ReleasesInv, LockInv, WriterLocked
    <3>3. QED  BY <3>1, <3>2 DEF ServiceInv, CacheInv
  <2>5. seen \in [Readers -> Answer \cup {None}] /\ seen'[r] \in Answer
    <3>1. TypeInv /\ TypeInv'
      BY StepTypeInv DEF ServiceInv, ReleasesInv
    <3>2. seen'[r] # None
      <4>1. /\ smh \in SMH /\ proof \in InclusionProof /\ sch \in Nat
            /\ request[r] \in Request
        BY <2>1, <3>1 DEF TypeInv, TypeOK, Present
      <4>2. [nodes |-> request[r].nodes, certificates |-> request[r].certificates,
             full |-> request[r].kind = "full",
             smh |-> smh, sch |-> sch, proof |-> proof] \in Answer
        BY <4>1 DEF Answer, Request
      <4>3. QED  BY <2>1, <3>1, <4>2, NoneAssumption DEF TypeInv, TypeOK
    <3>3. QED  BY <3>1, <3>2 DEF TypeInv, TypeOK
  <2>6. Delivered(seen'[r]) = [nodes |-> db.nodes, head |-> db.nodes,
                               certificates |-> request[r].certificates]
    <3>1. seen'[r].nodes = db.nodes /\ seen'[r].smh = smh
          /\ seen'[r].certificates = request[r].certificates
      BY <2>1, <2>2, <2>5
    <3>2. QED  BY <2>4, <2>5, <3>1, NoneAssumption DEF Delivered
  <2>7. [s \in Readers |-> Delivered(seen'[s])]
          = [[s \in Readers |-> Delivered(seen[s])] EXCEPT
                ![r] = [nodes |-> db.nodes, head |-> db.nodes,
                        certificates |-> request[r].certificates]]
    <3>1. \A s \in Readers \ {r} : seen'[s] = seen[s]
      BY <2>1, <2>5
    <3>2. QED  BY <2>6, <3>1
  <2>8. QED  BY <2>1, <2>2, <2>3, <2>7 DEF Service!Answer, Delivered
<1>3. QED  BY <1>1, <1>2, StepSeen DEF Service!ServiceNext

\* While nothing fails between the commit of a release and the update of the
\* cache, the handlers with their locks, transactions and log implement the
\* service that MapService describes.
THEOREM ServiceIsImplemented == NoFaultAfterCommit => (Spec => ImplementsService)
<1> SUFFICES ASSUME NoFaultAfterCommit PROVE Spec => ImplementsService
  OBVIOUS
<1>1. Init => ServiceInv
  BY InitReleasesInv
     DEF Init, ServiceInv, ReadInv, BootInv, CacheInv, ServeInv, NoRequest
<1>2. Init => Service!ServiceInit
  BY DEF Init, Service!ServiceInit, ImportedTree, Delivered
<1>3. ServiceInv /\ [Next]_vars => ServiceInv'
  BY StepReleasesInv, StepReadInv, StepBootInv, StepCacheInv, StepServeInv
     DEF ServiceInv, ReleasesInv
<1>4. QED
  BY <1>1, <1>2, <1>3, StepService, PTL DEF Spec, ImplementsService, Service!ServiceSpec
=============================================================================
