--------------------------- MODULE CircomParallel ---------------------------
(***************************************************************************)
(* The threads of the generated witness calculator (verifier.cpp).  The    *)
(* component StarkVerifier sets the inputs of its parallel subcomponents;  *)
(* the last input of one starts a thread that computes it (..._run_parallel).*)
(* numThread counts the threads, under numThreadMutex; a thread that ends  *)
(* notifies the condition variable ntcvs, on which the component waits     *)
(* when there are maxThread of them.  It joins them all before it releases *)
(* their memory.                                                           *)
(***************************************************************************)
EXTENDS Integers, FiniteSets

CONSTANTS NChild,     \* the parallel subcomponents are 1..NChild
          NInputs,    \* how many inputs each has
          maxThread   \* Circom_CalcWit::maxThread

ASSUME ThreadsAssumption ==
  NChild \in Nat /\ NInputs \in Nat \ {0} /\ maxThread \in Nat \ {0}

Child == 1..NChild
Main == 0

VARIABLES
  main,         \* where StarkVerifier_run is
  current,      \* the subcomponent it is starting, or joins next
  inputCounter, \* inputs of each subcomponent not set yet
  thread,       \* where the thread of each subcomponent is; "none": not started
  numThread,    \* Circom_CalcWit::numThread
  read,         \* the value of numThread a thread read and is about to decrement
  mutex         \* who holds numThreadMutex: {}, {Main} or {c}

vars == <<main, current, inputCounter, thread, numThread, read, mutex>>

Init ==
  /\ main = "inputs"
  /\ current = 0
  /\ inputCounter = [c \in Child |-> NInputs]
  /\ thread = [c \in Child |-> "none"]
  /\ numThread = 0
  /\ read = [c \in Child |-> 0]
  /\ mutex = {}

-----------------------------------------------------------------------------
\* StarkVerifier_75_run.  In which order it sets the inputs depends on the
\* circuit: any order.
SetInput(c) ==
  /\ main = "inputs"
  /\ inputCounter[c] > 0
  /\ inputCounter' = [inputCounter EXCEPT ![c] = @ - 1]
  /\ IF inputCounter[c] = 1
     THEN main' = "start" /\ current' = c
     ELSE UNCHANGED <<main, current>>
  /\ UNCHANGED <<thread, numThread, read, mutex>>

\* sbct[cmp_index_ref] = std::thread(...): the thread runs before it is counted.
StartThread ==
  /\ main = "start"
  /\ thread' = [thread EXCEPT ![current] = "run"]
  /\ main' = "lock"
  /\ UNCHANGED <<current, inputCounter, numThread, read, mutex>>

\* std::unique_lock<std::mutex> lkt(ctx->numThreadMutex)
Lock ==
  /\ main = "lock" /\ mutex = {}
  /\ mutex' = {Main}
  /\ main' = "check"
  /\ UNCHANGED <<current, inputCounter, thread, numThread, read>>

\* ntcvs.wait(lkt, ...) returns and the thread is counted.  The faulty variant
\* lets one thread too many in.
MayGoOnOneMore == numThread <= maxThread
MayGoOn == numThread < maxThread

Count ==
  /\ main = "check"
  /\ MayGoOn
  /\ numThread' = numThread + 1
  /\ mutex' = {}
  /\ main' = "inputs"
  /\ UNCHANGED <<current, inputCounter, thread, read>>

\* ... or releases the mutex and waits.
Wait ==
  /\ main = "check"
  /\ ~MayGoOn
  /\ mutex' = {}
  /\ main' = "waiting"
  /\ UNCHANGED <<current, inputCounter, thread, numThread, read>>

\* Condition variables may wake up for no reason.
SpuriousWakeup ==
  /\ main = "waiting"
  /\ main' = "lock"
  /\ UNCHANGED <<current, inputCounter, thread, numThread, read, mutex>>

\* Every subcomponent was started: the loop that joins them begins.
AllStarted ==
  /\ main = "inputs"
  /\ \A c \in Child : inputCounter[c] = 0
  /\ main' = "join" /\ current' = 1
  /\ UNCHANGED <<inputCounter, thread, numThread, read, mutex>>

\* sbct[i].join() returns when thread i has ended (the faulty variant detaches it).
DetachThread ==
  /\ main = "join" /\ current <= NChild
  /\ current' = current + 1
  /\ UNCHANGED <<main, inputCounter, thread, numThread, read, mutex>>
Join ==
  /\ main = "join" /\ current <= NChild
  /\ thread[current] = "ended"
  /\ current' = current + 1
  /\ UNCHANGED <<main, inputCounter, thread, numThread, read, mutex>>

\* release_memory_component of every subcomponent.
Release ==
  /\ main = "join" /\ current > NChild
  /\ main' = "done"
  /\ UNCHANGED <<current, inputCounter, thread, numThread, read, mutex>>

-----------------------------------------------------------------------------
\* The thread of subcomponent c: a ..._run_parallel.
\* Its body computes the subcomponent's signals from its inputs.
Compute(c) ==
  /\ thread[c] = "run" /\ main # "aborted"
  /\ thread' = [thread EXCEPT ![c] = "lock"]
  /\ UNCHANGED <<main, current, inputCounter, numThread, read, mutex>>

\* numThreadMutex.lock(), and numThread is read.  The faulty variant does not
\* take the mutex.
ReadUnlocked(c) ==
  /\ thread[c] = "lock" /\ main # "aborted"
  /\ read' = [read EXCEPT ![c] = numThread]
  /\ thread' = [thread EXCEPT ![c] = "unlock"]
  /\ UNCHANGED <<main, current, inputCounter, numThread, mutex>>
LockAndRead(c) ==
  /\ thread[c] = "lock" /\ main # "aborted"
  /\ mutex = {}
  /\ mutex' = {c}
  /\ read' = [read EXCEPT ![c] = numThread]
  /\ thread' = [thread EXCEPT ![c] = "unlock"]
  /\ UNCHANGED <<main, current, inputCounter, numThread>>

\* numThread is written, and numThreadMutex.unlock().
WriteAndUnlock(c) ==
  /\ thread[c] = "unlock" /\ main # "aborted"
  /\ numThread' = read[c] - 1
  /\ mutex' = {}
  /\ thread' = [thread EXCEPT ![c] = "notify"]
  /\ UNCHANGED <<main, current, inputCounter, read>>

\* ntcvs.notify_one(): nothing happens if nobody waits.
\* (Faulty variant: only the last thread notifies.)
wakeUpWhenIdle == main' = IF main = "waiting" /\ numThread = 0 THEN "lock" ELSE main
wakeUp == main' = IF main = "waiting" THEN "lock" ELSE main

Notify(c) ==
  /\ thread[c] = "notify" /\ main # "aborted"
  /\ wakeUp
  /\ thread' = [thread EXCEPT ![c] = "release"]
  /\ UNCHANGED <<current, inputCounter, numThread, read, mutex>>

\* It releases its own subcomponents and ends.
ReleaseOwn(c) ==
  /\ thread[c] = "release" /\ main # "aborted"
  /\ thread' = [thread EXCEPT ![c] = "ended"]
  /\ UNCHANGED <<main, current, inputCounter, numThread, read, mutex>>

\* A constraint of the circuit fails, in a thread or in the component: the
\* assert aborts the process.
Abort ==
  /\ main = "inputs" \/ (main # "aborted" /\ \E c \in Child : thread[c] = "run")
  /\ main' = "aborted"
  /\ UNCHANGED <<current, inputCounter, thread, numThread, read, mutex>>

Ended == main \in {"done", "aborted"} /\ UNCHANGED vars

MainStep == \/ (\E c \in Child : SetInput(c)) \/ StartThread \/ Lock \/ Count \/ Wait
            \/ AllStarted \/ Join \/ Release
ThreadStep(c) == \/ Compute(c) \/ LockAndRead(c) \/ WriteAndUnlock(c)
                 \/ Notify(c) \/ ReleaseOwn(c)

Next == \/ MainStep \/ (\E c \in Child : ThreadStep(c))
        \/ SpuriousWakeup \/ Abort \/ Ended

\* The operating system runs every thread that can run, and a mutex that is
\* free again and again is granted in the end to a thread that asks for it
\* (strong fairness: a component that wakes up spuriously for ever would
\* otherwise keep it busy).  Nothing forces a spurious wakeup or an abort.
Fairness ==
  /\ WF_vars(MainStep)
  /\ \A c \in Child : WF_vars(ThreadStep(c)) /\ SF_vars(LockAndRead(c))

Spec == Init /\ [][Next]_vars
FairSpec == Spec /\ Fairness
-----------------------------------------------------------------------------
Counting == {"lock", "check", "waiting"}   \* main has started current, not counted it
Working == {"run", "lock", "unlock"}
Alive == {c \in Child : thread[c] \in Working}
Decremented == {c \in Child : thread[c] \in {"notify", "release", "ended"}}

TypeOK ==
  /\ main \in {"inputs", "start", "join", "done", "aborted"} \cup Counting
  /\ current \in 0..(NChild + 1)
  /\ inputCounter \in [Child -> 0..NInputs]
  /\ thread \in [Child -> Working \cup {"none", "notify", "release", "ended"}]
  /\ numThread \in -1..maxThread
  /\ read \in [Child -> -1..maxThread]
  /\ mutex \in {{}, {Main}} \cup {{c} : c \in Child}

\* No increment or decrement of numThread is lost: it is the number of threads
\* alive, but for the one StarkVerifier_run has started and not counted yet.
\* (It is -1 when that one ends first, and no other is alive.)
NumThreadCounts ==
  main # "aborted" =>
    numThread = Cardinality(Alive) - (IF main \in Counting THEN 1 ELSE 0)

\* maxThread bounds what is counted, and a thread starts before it is counted:
\* maxThread + 1 subcomponents are computed at a time, never more.
BoundedThreads == Cardinality(Alive) <= maxThread + 1

\* StarkVerifier_run never sleeps on ntcvs with nobody left to notify it.
WaitingHasAWaker ==
  main = "waiting" => \E c \in Child : thread[c] \in Working \cup {"notify"}

\* The memory of the subcomponents is released when no thread of theirs runs.
ReleasedAfterTheThreads ==
  main = "done" => \A c \in Child : thread[c] = "ended"

\* The inductive invariant.  Of the mutex: who holds it, and that what a thread
\* has read is still the value of numThread.
MutexInv ==
  /\ mutex = {Main} <=> main = "check"
  /\ \A c \in Child : mutex = {c} <=> thread[c] = "unlock"
  /\ \A c \in Child : thread[c] = "unlock" => read[c] = numThread

\* Of the component: a thread is started once all the inputs are set, at once,
\* and the loop of the joins is behind the threads that have ended.
StartInv ==
  /\ main \in {"start"} \cup Counting => current \in Child
  /\ main \in Counting => thread[current] # "none"
  /\ main = "start" => thread[current] = "none" /\ inputCounter[current] = 0
  /\ \A c \in Child : thread[c] # "none" => inputCounter[c] = 0
  /\ \A c \in Child :
       inputCounter[c] = 0 /\ thread[c] = "none" => main = "start" /\ c = current
  /\ main \in {"join", "done"} =>
       /\ \A c \in Child : /\ thread[c] # "none"
                           /\ c < current => thread[c] = "ended"
       /\ main = "done" => current = NChild + 1

IInv == /\ TypeOK
        /\ BoundedThreads
        /\ main # "aborted" => MutexInv /\ StartInv /\ NumThreadCounts /\ WaitingHasAWaker

\* The threads compute each subcomponent once, at most maxThread + 1 at a time,
\* and the component waits for all of them: CircomParallel implements ForkJoin.
Abstract == INSTANCE ForkJoin WITH
  Limit    <- maxThread + 1,
  parent   <- IF main \in {"done", "aborted"} THEN main ELSE "running",
  working  <- Alive,
  computed <- Decremented
ForkJoinSpec == Abstract!Spec

\* StarkVerifier_run always ends: no wakeup is lost and nobody waits on nobody.
Ends == Abstract!Liveness
=============================================================================
