---------------------- MODULE ThroughputClient_proofs ----------------------
(***************************************************************************)
(* What the throughput client prints is complete, for any number of        *)
(* threads, however they are scheduled and however long it runs.           *)
(***************************************************************************)
EXTENDS ThroughputClient, FiniteSetTheorems, TLAPS

USE ThreadsAssumption DEF ThreadsAssumption

Started == {"loop", "request", "unlock"}
Sent == {"unlock", "done"}

\* The two barriers: who is where while main is where.
BarrierInv ==
    /\ clock > 0 /\ passed \subseteq ready
    /\ \A t \in Threads : t \in ready => thread[t] # "prepare"
    /\ main = "wait" => stopTime = 0 /\ \A t \in Threads : thread[t] \in {"prepare", "rlock"}
    /\ main # "wait" => stopTime > RunningTime /\ passed = Threads
    /\ holder <=> main \notin {"sleep", "lock"}
    /\ \A t \in Threads : t \in readers <=> thread[t] \in Started
    /\ holder => readers = {}

\* Whose results are where.
ResultsInv ==
    /\ \A t \in Threads : t \in results \cup collected <=> thread[t] \in Sent
    /\ \A t \in Threads : thread[t] \in Sent => clock > stopTime
    /\ main = "reported" => collected = Threads
    /\ main = "fatal" => results = {} /\ collected # Threads

\* How far the latencies are ahead of the counts.
CountsInv ==
    \A t \in Threads :
        /\ counted[t] <= measured[t] /\ measured[t] <= counted[t] + 2
        /\ thread[t] \in {"prepare", "rlock"} => counted[t] = measured[t]
        /\ thread[t] = "loop" /\ clock < stopTime => counted[t] = measured[t]
        /\ thread[t] = "loop" /\ clock = stopTime => measured[t] <= counted[t] + 1
        /\ thread[t] = "request" => sent[t] <= stopTime /\ measured[t] <= counted[t] + 1
        /\ thread[t] = "request" /\ sent[t] < stopTime => counted[t] = measured[t]

Inv == TypeOK /\ BarrierInv /\ ResultsInv /\ CountsInv
-----------------------------------------------------------------------------
LEMMA InitInv == Init => Inv
<1> SUFFICES ASSUME Init PROVE Inv
  OBVIOUS
<1>1. TypeOK
  BY DEF Init, TypeOK
<1>2. \A t \in Threads : thread[t] = "prepare" /\ counted[t] = 0 /\ measured[t] = 0
  BY DEF Init
<1>3. BarrierInv /\ ResultsInv
  BY <1>2 DEF Init, BarrierInv, ResultsInv, Started, Sent
<1>4. CountsInv
  BY <1>2 DEF CountsInv
<1> QED BY <1>1, <1>3, <1>4 DEF Inv

\* A set of threads as large as the set of all threads is the set of all.
LEMMA AllCounted ==
    ASSUME NEW S \in SUBSET Threads
    PROVE  Cardinality(S) = Cardinality(Threads) <=> S = Threads
<1>1. IsFiniteSet(Threads)
  OBVIOUS
<1>2. Cardinality(S) = Cardinality(Threads) => S = Threads
  BY <1>1, FS_Subset
<1> QED BY <1>2

LEMMA MainInv == Inv /\ Main => Inv'
<1> SUFFICES ASSUME Inv, Main PROVE Inv'
  OBVIOUS
<1> USE DEF Inv, TypeOK, BarrierInv, ResultsInv, CountsInv, lock, counters
<1>1. ASSUME NEW t \in Threads, WaitReady(t) PROVE Inv'
  BY <1>1 DEF WaitReady
<1>2. ASSUME NEW t \in Threads, Collect(t) PROVE Inv'
  BY <1>2 DEF Collect
<1>3. CASE Release
  <2>1. main = "wait" /\ \A t \in Threads : thread[t] \in {"prepare", "rlock"}
    BY <1>3 DEF Release
  <2>0. RunningTime \in Nat /\ clock \in Nat /\ clock > 0 /\ stopTime' = clock + RunningTime
    BY <1>3 DEF Release
  <2>2. TypeOK' /\ stopTime' > RunningTime
    <3>1. stopTime' \in Nat /\ stopTime' > RunningTime
      BY ONLY <2>0
    <3> QED BY <1>3, <3>1 DEF Release
  <2>3. BarrierInv'
    BY <1>3, <2>1, <2>2 DEF Release, Started
  <2>4. ResultsInv'
    BY <1>3, <2>1 DEF Release, Sent
  <2>5. CountsInv'
    BY <1>3, <2>1 DEF Release
  <2> QED BY <2>2, <2>3, <2>4, <2>5
<1>4. CASE LockCall
  BY <1>4 DEF LockCall
<1>5. CASE LockAcquire
  BY <1>5 DEF LockAcquire, WriterAdmitted
<1>6. CASE Report
  <2>1. Cardinality(collected) = Cardinality(Threads) <=> collected = Threads
    BY AllCounted
  <2>2. main = "collect" /\ results = {}
    BY <1>6 DEF Report
  <2>3. CASE collected = Threads
    <3>1. main' = "reported"
      BY <1>6, <2>1, <2>3 DEF Report
    <3> QED BY <1>6, <2>2, <2>3, <3>1 DEF Report
  <2>4. CASE collected # Threads
    <3>1. main' = "fatal"
      BY <1>6, <2>1, <2>4 DEF Report
    <3> QED BY <1>6, <2>2, <2>4, <3>1 DEF Report
  <2> QED BY <2>3, <2>4
<1> QED BY <1>1, <1>2, <1>3, <1>4, <1>5, <1>6 DEF Main

LEMMA ThreadInv == ASSUME NEW t \in Threads PROVE Inv /\ Thread(t) => Inv'
<1> SUFFICES ASSUME Inv, Thread(t) PROVE Inv'
  OBVIOUS
<1> USE DEF Inv, TypeOK, BarrierInv, ResultsInv, CountsInv, lock, counters, Started, Sent
<1>0. Running
  BY DEF Thread
<1>1. CASE Ready(t)
  BY <1>0, <1>1 DEF Ready, Running
<1>2. CASE RLock(t)
  BY <1>0, <1>2 DEF RLock, ReadersAdmitted, Running
<1>3. CASE Send(t)
  BY <1>0, <1>3 DEF Send, Running
<1>4. CASE Receive(t)
  BY <1>0, <1>4 DEF Receive, Running
<1>5. CASE SendResults(t)
  BY <1>0, <1>5 DEF SendResults, Running
<1>6. CASE RUnlock(t)
  BY <1>0, <1>6 DEF RUnlock, Running
<1> QED BY <1>1, <1>2, <1>3, <1>4, <1>5, <1>6 DEF Thread

LEMMA TickInv == Inv /\ Tick => Inv'
BY DEF Tick, Inv, TypeOK, BarrierInv, ResultsInv, CountsInv, lock, counters, Started, Sent

LEMMA StepInv == Inv /\ [Next]_vars => Inv'
<1> SUFFICES ASSUME Inv, [Next]_vars PROVE Inv'
  OBVIOUS
<1>1. CASE UNCHANGED vars
  BY <1>1 DEF vars, lock, counters, Inv, TypeOK, BarrierInv, ResultsInv, CountsInv
<1> QED BY <1>1, MainInv, ThreadInv, TickInv DEF Next

LEMMA AlwaysInv == Spec => []Inv
BY InitInv, StepInv, PTL DEF Spec

(* Every variable of the client keeps its type.                            *)
THEOREM ClientTypeCorrect == Spec => []TypeOK
<1>1. Inv => TypeOK
  BY DEF Inv
<1> QED BY <1>1, AlwaysInv, PTL

(* The report has the results of all threads over the whole time.          *)
THEOREM ReportsAreComplete == Spec => []ReportIsComplete
<1>1. Inv => ReportIsComplete
  <2> SUFFICES ASSUME Inv, main = "reported" PROVE ReportIsComplete
    BY DEF ReportIsComplete
  <2>1. collected = Threads /\ stopTime > RunningTime /\ holder /\ readers = {}
    BY DEF Inv, ResultsInv, BarrierInv
  <2>2. \A t \in Threads : thread[t] \in Sent /\ thread[t] \notin Started /\ clock > stopTime
    BY <2>1 DEF Inv, ResultsInv, BarrierInv
  <2> QED BY <2>1, <2>2 DEF Inv, CountsInv, ReportIsComplete, Started, Sent
<1> QED BY <1>1, AlwaysInv, PTL

(* The sanity check fails only for threads that came late.                 *)
THEOREM OnlyLateThreads == Spec => []OnlyLateThreadsMissing
<1>1. Inv => OnlyLateThreadsMissing
  <2> SUFFICES ASSUME Inv, main \in {"collect", "reported", "fatal"}
               PROVE  OnlyLateThreadsMissing
    BY DEF OnlyLateThreadsMissing
  <2>1. holder /\ readers = {} /\ passed = Threads
    BY DEF Inv, BarrierInv
  <2>2. \A t \in Threads : thread[t] \in Sent \/ thread[t] = "rlock"
    BY <2>1 DEF Inv, TypeOK, BarrierInv, Started, Sent
  <2>3. \A t \in Threads : t \in collected \cup results \/ thread[t] = "rlock"
    BY <2>2 DEF Inv, ResultsInv
  <2>4. main = "fatal" => \E t \in Threads : thread[t] = "rlock"
    BY <2>3 DEF Inv, TypeOK, ResultsInv
  <2> QED BY <2>3, <2>4 DEF OnlyLateThreadsMissing
<1> QED BY <1>1, AlwaysInv, PTL
=============================================================================
