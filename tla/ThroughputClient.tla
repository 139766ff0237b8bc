------------------------- MODULE ThroughputClient -------------------------
(***************************************************************************)
(* The measurement of a server's throughput                                *)
(* (cmd/geopki-client-throughput): main starts one goroutine per thread,   *)
(* holds them at a barrier until all are ready, lets them send requests    *)
(* until a common stop time, and adds up what each counted.                *)
(*                                                                         *)
(* The barrier is one locked mutex per thread and runningMutex, a          *)
(* read/write lock: main releases it to start the threads, sleeps so that  *)
(* they can take it for reading, and locks it again to wait for them.      *)
(***************************************************************************)
EXTENDS Integers, FiniteSets

CONSTANTS
    Threads,
    RunningTime   \* the length of the measurement, in ticks of the clock

ASSUME ThreadsAssumption ==
    /\ IsFiniteSet(Threads) /\ Threads # {}
    /\ RunningTime \in Nat \ {0}

VARIABLES
    clock,      \* the time, from when main reads it
    main,       \* the control point of main
    stopTime,   \* the global variable; 0 is its zero value
    ready,      \* threads that have unlocked their readyMutex
    passed,     \* the readyMutexes that main has locked again
    holder,     \* runningMutex: main holds it for writing,
    waiting,    \*   main has called Lock and waits,
    readers,    \*   the threads that hold it for reading
    thread,     \* each thread's control point
    sent,       \* when it sent its request
    counted,    \* the requests it counted, successful or failed
    measured,   \* the latencies it recorded
    results,    \* the channel: threads whose results are in it
    collected   \* threads whose results main has added up

lock == <<holder, waiting, readers>>
counters == <<sent, counted, measured>>
vars == <<clock, main, stopTime, ready, passed, lock, thread, counters, results, collected>>

Init ==
    /\ clock = 1
    /\ main = "wait" /\ stopTime = 0
    /\ ready = {} /\ passed = {}
    /\ holder = TRUE /\ waiting = FALSE /\ readers = {}
    /\ thread = [t \in Threads |-> "prepare"]
    /\ sent = [t \in Threads |-> 0]
    /\ counted = [t \in Threads |-> 0]
    /\ measured = [t \in Threads |-> 0]
    /\ results = {} /\ collected = {}
-----------------------------------------------------------------------------
(* main *)

\* Locking the readyMutex of one thread after the other.
WaitReady(t) ==
    /\ main = "wait" /\ t \in ready \ passed
    /\ passed' = passed \cup {t}
    /\ UNCHANGED <<clock, main, stopTime, ready, lock, thread, counters, results, collected>>

\* The stop time, then Unlock.
Release ==
    /\ main = "wait" /\ passed = Threads
    /\ stopTime' = clock + RunningTime
    /\ holder' = FALSE
    /\ main' = "sleep"
    /\ UNCHANGED <<clock, ready, passed, waiting, readers, thread, counters, results, collected>>

\* Lock after the sleep: it keeps new readers out.  Nothing makes sure that
\* every thread has run by then.
LockCall ==
    /\ main = "sleep"
    /\ waiting' = TRUE
    /\ main' = "lock"
    /\ UNCHANGED <<clock, stopTime, ready, passed, holder, readers, thread, counters, results, collected>>

\* Mutant: main does not wait for the readers.
WriterAdmitted_BesideReaders == TRUE

WriterAdmitted == readers = {}

LockAcquire ==
    /\ main = "lock" /\ WriterAdmitted
    /\ holder' = TRUE /\ waiting' = FALSE
    /\ main' = "collect"
    /\ UNCHANGED <<clock, stopTime, ready, passed, readers, thread, counters, results, collected>>

Collect(t) ==
    /\ main = "collect" /\ t \in results
    /\ results' = results \ {t}
    /\ collected' = collected \cup {t}
    /\ UNCHANGED <<clock, main, stopTime, ready, passed, lock, thread, counters>>

\* Mutant: the number of results is not checked.
Report_Unchecked ==
    /\ main = "collect" /\ results = {}
    /\ main' = "reported"
    /\ UNCHANGED <<clock, stopTime, ready, passed, lock, thread, counters, results, collected>>

\* The channel is empty: the number of results is right, or log.Fatalf.
Report ==
    /\ main = "collect" /\ results = {}
    /\ main' = IF Cardinality(collected) = Cardinality(Threads) THEN "reported" ELSE "fatal"
    /\ UNCHANGED <<clock, stopTime, ready, passed, lock, thread, counters, results, collected>>
-----------------------------------------------------------------------------
(* A thread.  It ends with the process. *)

Running == main \notin {"reported", "fatal"}

\* The queries are converted and the readyMutex unlocked.
Ready(t) ==
    /\ thread[t] = "prepare"
    /\ ready' = ready \cup {t}
    /\ thread' = [thread EXCEPT ![t] = "rlock"]
    /\ UNCHANGED <<clock, main, stopTime, passed, lock, counters, results, collected>>

\* A writer that waits keeps new readers out.
ReadersAdmitted == ~holder /\ ~waiting

RLock(t) ==
    /\ thread[t] = "rlock" /\ ReadersAdmitted
    /\ readers' = readers \cup {t}
    /\ thread' = [thread EXCEPT ![t] = "loop"]
    /\ UNCHANGED <<clock, main, stopTime, ready, passed, holder, waiting, counters, results, collected>>

\* Another request, up to the stop time.
Send(t) ==
    /\ thread[t] = "loop" /\ clock <= stopTime
    /\ sent' = [sent EXCEPT ![t] = clock]
    /\ thread' = [thread EXCEPT ![t] = "request"]
    /\ UNCHANGED <<clock, main, stopTime, ready, passed, lock, counted, measured, results, collected>>

\* The answer or an error, some time later: counted if it came in time.
Receive(t) ==
    /\ thread[t] = "request" /\ clock > sent[t]
    /\ measured' = [measured EXCEPT ![t] = @ + 1]
    /\ counted' = IF clock < stopTime THEN [counted EXCEPT ![t] = @ + 1] ELSE counted
    /\ thread' = [thread EXCEPT ![t] = "loop"]
    /\ UNCHANGED <<clock, main, stopTime, ready, passed, lock, sent, results, collected>>

\* Mutant: one place too few.
Capacity_OneLess == Cardinality(Threads) - 1

Capacity == Cardinality(Threads)

\* Past the stop time; a full channel blocks.
SendResults(t) ==
    /\ thread[t] = "loop" /\ clock > stopTime
    /\ Cardinality(results) < Capacity
    /\ results' = results \cup {t}
    /\ thread' = [thread EXCEPT ![t] = "unlock"]
    /\ UNCHANGED <<clock, main, stopTime, ready, passed, lock, counters, collected>>

RUnlock(t) ==
    /\ thread[t] = "unlock"
    /\ readers' = readers \ {t}
    /\ thread' = [thread EXCEPT ![t] = "done"]
    /\ UNCHANGED <<clock, main, stopTime, ready, passed, holder, waiting, counters, results, collected>>
-----------------------------------------------------------------------------
\* Time is compared with the stop time only: it does not matter when main is
\* still waiting, nor how far beyond the stop time it is.
Tick ==
    /\ main # "wait" /\ clock <= stopTime
    /\ clock' = clock + 1
    /\ UNCHANGED <<main, stopTime, ready, passed, lock, thread, counters, results, collected>>

Main == (\E t \in Threads : WaitReady(t) \/ Collect(t)) \/ Release \/ LockCall \/ LockAcquire \/ Report

Thread(t) ==
    /\ Running
    /\ Ready(t) \/ RLock(t) \/ Send(t) \/ Receive(t) \/ SendResults(t) \/ RUnlock(t)

Next == Main \/ (\E t \in Threads : Thread(t)) \/ Tick

Spec == Init /\ [][Next]_vars

\* The runtime schedules every goroutine that can run, a request ends with an
\* answer or an error, and time passes.
FairSpec == Spec /\ WF_vars(Main) /\ WF_vars(Tick) /\ \A t \in Threads : WF_vars(Thread(t))
-----------------------------------------------------------------------------
(* The type of every variable. *)
TypeOK ==
    /\ clock \in Nat /\ stopTime \in Nat
    /\ main \in {"wait", "sleep", "lock", "collect", "reported", "fatal"}
    /\ ready \subseteq Threads /\ passed \subseteq Threads
    /\ holder \in BOOLEAN /\ waiting \in BOOLEAN /\ readers \subseteq Threads
    /\ thread \in [Threads -> {"prepare", "rlock", "loop", "request", "unlock", "done"}]
    /\ sent \in [Threads -> Nat] /\ counted \in [Threads -> Nat] /\ measured \in [Threads -> Nat]
    /\ results \subseteq Threads /\ collected \subseteq Threads

(* What is printed is the result of all threads over the whole time: no    *)
(* report before the stop time, none that lacks a thread, and none with a  *)
(* thread that may still count.  The latencies exceed the counts by two a  *)
(* thread at most: a request that is under way at the stop time, and one   *)
(* that is sent exactly then.                                              *)
ReportIsComplete ==
    main = "reported" =>
        /\ collected = Threads
        /\ clock > stopTime /\ stopTime > RunningTime
        /\ \A t \in Threads : /\ thread[t] = "done"
                              /\ counted[t] <= measured[t] /\ measured[t] <= counted[t] + 2

(* Once main has the lock again, the results of every thread that ever had *)
(* it for reading are collected or in the channel: the sanity check can    *)
(* fail only because a thread had not taken the lock when main came back   *)
(* for it.                                                                 *)
OnlyLateThreadsMissing ==
    main \in {"collect", "reported", "fatal"} =>
        /\ \A t \in Threads : t \in collected \cup results \/ thread[t] = "rlock"
        /\ main = "fatal" => \E t \in Threads : thread[t] = "rlock"

(* The program ends: neither a thread that is late nor a channel that is   *)
(* full makes main wait for ever.                                          *)
MainEnds == <>~Running
=============================================================================
