---------------------------- MODULE CircomProofs ----------------------------
(***************************************************************************)
(* Proofs about the witness of the circom circuit.  The threads of the     *)
(* witness calculator, for any number of subcomponents, of inputs and of   *)
(* threads: the inductive invariant IInv, the safety properties of         *)
(* CircomParallel that follow from it, and that CircomParallel implements  *)
(* ForkJoin.  The loading of the inputs, for any keys, hashes, sizes and   *)
(* size of the table: the inductive invariant LoadInv, and the properties  *)
(* of CalcWit that follow from it.                                         *)
(***************************************************************************)
EXTENDS CircomParallel, CalcWit, FiniteSetTheorems, TLAPS

\* An action is one of the component, one of a thread, or ends the process.
Inv == MutexInv /\ StartInv /\ NumThreadCounts /\ WaitingHasAWaker

-----------------------------------------------------------------------------
\* Alive is a finite set: counting it makes sense.
LEMMA AliveFinite ==
  /\ IsFiniteSet(Alive)
  /\ Cardinality(Alive) \in Nat
<1>1. IsFiniteSet(Child)
  BY ThreadsAssumption, FS_Interval DEF Child
<1>2. Alive \subseteq Child
  BY DEF Alive
<1> QED
  BY <1>1, <1>2, FS_Subset, FS_CardinalityType

\* The same in the next state.
LEMMA AliveFiniteNext ==
  /\ IsFiniteSet(Alive')
  /\ Cardinality(Alive') \in Nat
<1>1. IsFiniteSet(Child)
  BY ThreadsAssumption, FS_Interval DEF Child
<1>2. Alive' \subseteq Child
  BY DEF Alive
<1> QED
  BY <1>1, <1>2, FS_Subset, FS_CardinalityType

\* StartThread adds the thread it starts to those alive.
LEMMA StartThreadCounts ==
  ASSUME TypeOK, Inv, main # "aborted", StartThread
  PROVE  /\ Alive' = Alive \cup {current}
         /\ Cardinality(Alive') = Cardinality(Alive) + 1
<1>1. current \in Child /\ thread[current] = "none"
  BY DEF StartThread, Inv, StartInv
<1>2. Alive' = Alive \cup {current}
  BY <1>1 DEF Alive, StartThread, TypeOK, Working
<1>3. current \notin Alive
  BY <1>1 DEF Alive, Working
<1> QED
  BY <1>2, <1>3, AliveFinite, FS_AddElement

\* WriteAndUnlock removes the thread from those alive.
LEMMA WriteAndUnlockCounts ==
  ASSUME TypeOK, NEW c \in Child, WriteAndUnlock(c)
  PROVE  /\ Alive' = Alive \ {c}
         /\ Cardinality(Alive') = Cardinality(Alive) - 1
         /\ Cardinality(Alive) >= 1
<1>1. c \in Alive
  BY DEF Alive, WriteAndUnlock, Working
<1>2. Alive' = Alive \ {c}
  BY DEF Alive, WriteAndUnlock, TypeOK, Working
<1>3. Cardinality(Alive') = Cardinality(Alive) - 1
  BY <1>1, <1>2, AliveFinite, FS_RemoveElement
<1> QED
  BY <1>2, <1>3, AliveFinite, AliveFiniteNext

\* No other action changes which threads are alive.
LEMMA AliveUnchanged ==
  ASSUME TypeOK, main # "aborted",
         \/ \E c \in Child : \/ SetInput(c) \/ Compute(c) \/ LockAndRead(c)
                             \/ Notify(c) \/ ReleaseOwn(c)
         \/ Lock \/ Count \/ Wait \/ AllStarted \/ Join \/ Release
         \/ SpuriousWakeup \/ Abort \/ Ended
  PROVE  Alive' = Alive
<1>1. ASSUME NEW c \in Child, Compute(c) PROVE Alive' = Alive
  BY <1>1 DEF Alive, Compute, TypeOK, Working
<1>2. ASSUME NEW c \in Child, LockAndRead(c) PROVE Alive' = Alive
  BY <1>2 DEF Alive, LockAndRead, TypeOK, Working
<1>3. ASSUME NEW c \in Child, Notify(c) PROVE Alive' = Alive
  BY <1>3 DEF Alive, Notify, TypeOK, Working
<1>4. ASSUME NEW c \in Child, ReleaseOwn(c) PROVE Alive' = Alive
  BY <1>4 DEF Alive, ReleaseOwn, TypeOK, Working
<1>5. CASE thread' = thread
  BY <1>5 DEF Alive
<1> QED
  BY <1>1, <1>2, <1>3, <1>4, <1>5
  DEF SetInput, Lock, Count, Wait, AllStarted, Join, Release,
      SpuriousWakeup, Abort, Ended, vars

-----------------------------------------------------------------------------
\* Every step keeps the types; numThread stays within -1..maxThread because it
\* counts (NumThreadCounts) and because Count waits for numThread < maxThread.
LEMMA TypeStep ==
  ASSUME IInv, [Next]_vars
  PROVE  TypeOK'
<1> USE ThreadsAssumption
<1>a. TypeOK
  BY DEF IInv
<1>1. ASSUME NEW c \in Child, SetInput(c) PROVE TypeOK'
  <2>1. inputCounter' \in [Child -> 0..NInputs]
    BY <1>1, <1>a DEF SetInput, TypeOK
  <2>2. main' \in {main, "start"} /\ current' \in {current, c} /\ c \in 0..(NChild + 1)
    BY <1>1 DEF SetInput, Child
  <2> QED
    BY <1>1, <1>a, <2>1, <2>2 DEF SetInput, TypeOK
<1>2. ASSUME NEW c \in Child, Compute(c) PROVE TypeOK'
  BY <1>2, <1>a DEF Compute, TypeOK, Child, Main, Working, Counting
<1>3. ASSUME NEW c \in Child, LockAndRead(c) PROVE TypeOK'
  BY <1>3, <1>a DEF LockAndRead, TypeOK, Child, Main, Working, Counting
<1>4. ASSUME NEW c \in Child, WriteAndUnlock(c) PROVE TypeOK'
  <2>1. read[c] = numThread /\ numThread >= 0
    <3>1. main # "aborted"
      BY <1>4 DEF WriteAndUnlock
    <3>2. Cardinality(Alive) >= 1
      BY <1>4, <1>a, WriteAndUnlockCounts
    <3>3. numThread \in Int /\ (main \in Counting \/ main \notin Counting)
      BY <1>a DEF TypeOK
    <3>4. read[c] = numThread
      BY <1>4, <3>1 DEF IInv, MutexInv, WriteAndUnlock
    <3> QED
      BY <3>1, <3>2, <3>3, <3>4, AliveFinite DEF IInv, NumThreadCounts
  <2> QED
    BY <1>4, <1>a, <2>1 DEF WriteAndUnlock, TypeOK, Child, Main, Working, Counting
<1>5. ASSUME NEW c \in Child, Notify(c) PROVE TypeOK'
  BY <1>5, <1>a DEF Notify, wakeUp, TypeOK, Child, Main, Working, Counting
<1>6. ASSUME NEW c \in Child, ReleaseOwn(c) PROVE TypeOK'
  BY <1>6, <1>a DEF ReleaseOwn, TypeOK, Child, Main, Working, Counting
<1>7. CASE StartThread
  <2>1. current \in Child
    BY <1>7 DEF IInv, StartInv, StartThread
  <2> QED
    BY <1>7, <1>a, <2>1 DEF StartThread, TypeOK, Child, Main, Working, Counting
<1>8. CASE Lock
  BY <1>8, <1>a DEF Lock, TypeOK, Child, Main, Working, Counting
<1>9. CASE Count
  BY <1>9, <1>a DEF Count, MayGoOn, TypeOK, Child, Main, Working, Counting
<1>10. CASE Wait
  BY <1>10, <1>a DEF Wait, TypeOK, Child, Main, Working, Counting
<1>11. CASE AllStarted
  BY <1>11, <1>a DEF AllStarted, TypeOK, Child, Main, Working, Counting
<1>12. CASE Join
  BY <1>12, <1>a DEF Join, TypeOK, Child, Main, Working, Counting
<1>13. CASE Release
  BY <1>13, <1>a DEF Release, TypeOK, Child, Main, Working, Counting
<1>14. CASE SpuriousWakeup
  BY <1>14, <1>a DEF SpuriousWakeup, TypeOK, Child, Main, Working, Counting
<1>15. CASE Abort
  BY <1>15, <1>a DEF Abort, TypeOK, Child, Main, Working, Counting
<1>16. CASE UNCHANGED vars
  BY <1>16, <1>a DEF vars, TypeOK, Child, Main, Working, Counting
<1> QED
  BY <1>1, <1>2, <1>3, <1>4, <1>5, <1>6, <1>7, <1>8, <1>9, <1>10, <1>11, <1>12, <1>13,
     <1>14, <1>15, <1>16
  DEF Next, MainStep, ThreadStep, Ended

\* Distinct holders of the mutex are distinct values of it.
LEMMA Holders ==
  /\ \A c, d \in Child : {c} = {d} <=> c = d
  /\ \A c \in Child : {c} # {Main} /\ {c} # {}
  /\ {Main} # {}
BY DEF Child, Main

\* Every step keeps the mutex with whoever is between its lock and its unlock,
\* so the value a thread has read of numThread cannot change under it.
LEMMA MutexStep ==
  ASSUME IInv, [Next]_vars, main' # "aborted"
  PROVE  MutexInv'
<1> USE ThreadsAssumption, Holders
<1>a. TypeOK /\ (main # "aborted" => MutexInv)
  BY DEF IInv
<1>1. ASSUME NEW c \in Child, SetInput(c) PROVE MutexInv'
  BY <1>1, <1>a DEF SetInput, MutexInv, TypeOK, Counting
<1>2. ASSUME NEW c \in Child, Compute(c) PROVE MutexInv'
  BY <1>2, <1>a DEF Compute, MutexInv, TypeOK, Counting
<1>3. ASSUME NEW c \in Child, LockAndRead(c) PROVE MutexInv'
  <2>1. \A d \in Child : thread[d] # "unlock"
    BY <1>3, <1>a DEF LockAndRead, MutexInv
  <2>2. main # "check" /\ main' # "check"
    BY <1>3, <1>a DEF LockAndRead, MutexInv
  <2>3. \A d \in Child : thread'[d] = "unlock" <=> d = c
    BY <1>3, <1>a, <2>1 DEF LockAndRead, TypeOK
  <2>4. mutex' = {c} /\ read'[c] = numThread'
    BY <1>3, <1>a DEF LockAndRead, TypeOK
  <2> QED
    BY <2>2, <2>3, <2>4 DEF MutexInv
<1>4. ASSUME NEW c \in Child, WriteAndUnlock(c) PROVE MutexInv'
  BY <1>4, <1>a DEF WriteAndUnlock, MutexInv, TypeOK, Counting
<1>5. ASSUME NEW c \in Child, Notify(c) PROVE MutexInv'
  BY <1>5, <1>a DEF Notify, wakeUp, MutexInv, TypeOK, Counting
<1>6. ASSUME NEW c \in Child, ReleaseOwn(c) PROVE MutexInv'
  BY <1>6, <1>a DEF ReleaseOwn, MutexInv, TypeOK, Counting
<1>7. CASE StartThread
  <2>1. current \in Child /\ thread[current] = "none" /\ main # "check" /\ main' # "check"
    BY <1>7 DEF StartThread, IInv, StartInv
  <2>2. \A c \in Child : thread'[c] = "unlock" <=> thread[c] = "unlock"
    BY <1>7, <1>a, <2>1 DEF StartThread, TypeOK
  <2> QED
    BY <1>7, <1>a, <2>1, <2>2 DEF StartThread, MutexInv
<1>8. CASE Lock
  BY <1>8, <1>a DEF Lock, MutexInv, TypeOK, Counting
<1>9. CASE Count
  BY <1>9, <1>a DEF Count, MayGoOn, MutexInv, TypeOK, Counting
<1>10. CASE Wait
  BY <1>10, <1>a DEF Wait, MayGoOn, MutexInv, TypeOK, Counting
<1>11. CASE AllStarted
  BY <1>11, <1>a DEF AllStarted, MutexInv, TypeOK, Counting
<1>12. CASE Join
  BY <1>12, <1>a DEF Join, MutexInv, TypeOK, Counting
<1>13. CASE Release
  BY <1>13, <1>a DEF Release, MutexInv, TypeOK, Counting
<1>14. CASE SpuriousWakeup
  BY <1>14, <1>a DEF SpuriousWakeup, MutexInv, TypeOK, Counting
<1>15. CASE Abort
  BY <1>15 DEF Abort
<1>16. CASE UNCHANGED vars
  BY <1>16, <1>a DEF vars, MutexInv, TypeOK, Counting
<1> QED
  BY <1>1, <1>2, <1>3, <1>4, <1>5, <1>6, <1>7, <1>8, <1>9,
     <1>10, <1>11, <1>12, <1>13, <1>14, <1>15, <1>16
  DEF Next, MainStep, ThreadStep, Ended

\* Every step keeps a thread started exactly when all its inputs are set.
LEMMA StartStep ==
  ASSUME IInv, [Next]_vars, main' # "aborted"
  PROVE  StartInv'
<1> USE ThreadsAssumption
<1>a. TypeOK /\ (main # "aborted" => StartInv)
  BY DEF IInv
<1>1. ASSUME NEW c \in Child, SetInput(c) PROVE StartInv'
  BY <1>1, <1>a DEF SetInput, StartInv, TypeOK, Child, Counting
<1>2. ASSUME NEW c \in Child, Compute(c) PROVE StartInv'
  BY <1>2, <1>a DEF Compute, StartInv, TypeOK, Child, Counting
<1>3. ASSUME NEW c \in Child, LockAndRead(c) PROVE StartInv'
  BY <1>3, <1>a DEF LockAndRead, StartInv, TypeOK, Child, Counting
<1>4. ASSUME NEW c \in Child, WriteAndUnlock(c) PROVE StartInv'
  BY <1>4, <1>a DEF WriteAndUnlock, StartInv, TypeOK, Child, Counting
<1>5. ASSUME NEW c \in Child, Notify(c) PROVE StartInv'
  BY <1>5, <1>a DEF Notify, wakeUp, StartInv, TypeOK, Child, Counting
<1>6. ASSUME NEW c \in Child, ReleaseOwn(c) PROVE StartInv'
  BY <1>6, <1>a DEF ReleaseOwn, StartInv, TypeOK, Child, Counting
<1>7. CASE StartThread
  <2>1. current \in Child /\ thread[current] = "none" /\ inputCounter[current] = 0
    BY <1>7, <1>a DEF StartThread, StartInv, TypeOK
  <2>2. thread'[current] = "run" /\ \A c \in Child : c # current => thread'[c] = thread[c]
    BY <1>7, <1>a, <2>1 DEF StartThread, TypeOK
  <2>3. main = "start" /\ main' = "lock" /\ current' = current /\ inputCounter' = inputCounter
    BY <1>7 DEF StartThread
  <2> QED
    BY <1>a, <2>1, <2>2, <2>3 DEF StartInv, Counting
<1>8. CASE Lock
  BY <1>8, <1>a DEF Lock, StartInv, TypeOK, Child, Counting
<1>9. CASE Count
  BY <1>9, <1>a DEF Count, MayGoOn, StartInv, TypeOK, Child, Counting
<1>10. CASE Wait
  BY <1>10, <1>a DEF Wait, MayGoOn, StartInv, TypeOK, Child, Counting
<1>11. CASE AllStarted
  BY <1>11, <1>a DEF AllStarted, StartInv, TypeOK, Child, Counting
<1>12. CASE Join
  BY <1>12, <1>a DEF Join, StartInv, TypeOK, Child, Counting
<1>13. CASE Release
  BY <1>13, <1>a DEF Release, StartInv, TypeOK, Child, Counting
<1>14. CASE SpuriousWakeup
  BY <1>14, <1>a DEF SpuriousWakeup, StartInv, TypeOK, Child, Counting
<1>15. CASE Abort
  BY <1>15 DEF Abort
<1>16. CASE UNCHANGED vars
  BY <1>16, <1>a DEF vars, StartInv, TypeOK, Child, Counting
<1> QED
  BY <1>1, <1>2, <1>3, <1>4, <1>5, <1>6, <1>7, <1>8, <1>9,
     <1>10, <1>11, <1>12, <1>13, <1>14, <1>15, <1>16
  DEF Next, MainStep, ThreadStep, Ended

\* Every step keeps numThread equal to the number of threads alive, but for the
\* one started and not counted: each start, each count and each end by one.
LEMMA CountStep ==
  ASSUME IInv, [Next]_vars, main' # "aborted"
  PROVE  NumThreadCounts'
<1>a. TypeOK /\ (main # "aborted" => Inv)
  BY DEF IInv, Inv
<1>b. Cardinality(Alive) \in Nat /\ numThread \in Int
  BY <1>a, AliveFinite DEF TypeOK
<1>c. main # "aborted" =>
        numThread = Cardinality(Alive) - (IF main \in Counting THEN 1 ELSE 0)
  BY <1>a DEF Inv, NumThreadCounts
<1>1. CASE StartThread
  <2>1. Cardinality(Alive') = Cardinality(Alive) + 1
    BY <1>1, <1>a, StartThreadCounts DEF StartThread
  <2>2. numThread' = numThread /\ main = "start" /\ main' = "lock"
    BY <1>1 DEF StartThread
  <2> QED
    BY <1>b, <1>c, <2>1, <2>2 DEF NumThreadCounts, Counting
<1>2. ASSUME NEW c \in Child, WriteAndUnlock(c) PROVE NumThreadCounts'
  <2>1. Cardinality(Alive') = Cardinality(Alive) - 1
    BY <1>2, <1>a, WriteAndUnlockCounts
  <2>2. read[c] = numThread
    BY <1>2, <1>a DEF WriteAndUnlock, Inv, MutexInv
  <2>3. numThread' = numThread - 1 /\ main' = main /\ main # "aborted"
    BY <1>2, <2>2 DEF WriteAndUnlock
  <2> QED
    BY <1>b, <1>c, <2>1, <2>3 DEF NumThreadCounts
<1>3. CASE Count
  <2>1. Alive' = Alive
    BY <1>3, <1>a, AliveUnchanged DEF Count
  <2>2. numThread' = numThread + 1 /\ main = "check" /\ main' = "inputs"
    BY <1>3 DEF Count
  <2> QED
    BY <1>b, <1>c, <2>1, <2>2 DEF NumThreadCounts, Counting
<1>4. ASSUME Alive' = Alive, numThread' = numThread, main # "aborted",
             main \in Counting <=> main' \in Counting
      PROVE  NumThreadCounts'
  BY <1>4, <1>c DEF NumThreadCounts, Counting
<1>5. ASSUME NEW c \in Child,
             SetInput(c) \/ Compute(c) \/ LockAndRead(c) \/ Notify(c) \/ ReleaseOwn(c)
      PROVE  NumThreadCounts'
  <2>1. main # "aborted" /\ numThread' = numThread
    BY <1>5 DEF SetInput, Compute, LockAndRead, Notify, ReleaseOwn
  <2>2. main \in Counting <=> main' \in Counting
    BY <1>5 DEF SetInput, Compute, LockAndRead, Notify, wakeUp, ReleaseOwn, Counting
  <2> QED
    BY <1>4, <1>5, <1>a, <2>1, <2>2, AliveUnchanged
<1>6. CASE Lock \/ Wait \/ AllStarted \/ Join \/ Release \/ SpuriousWakeup
  <2>1. main # "aborted" /\ numThread' = numThread
    BY <1>6 DEF Lock, Wait, AllStarted, Join, Release, SpuriousWakeup
  <2>2. main \in Counting <=> main' \in Counting
    BY <1>6 DEF Lock, Wait, AllStarted, Join, Release, SpuriousWakeup, Counting
  <2> QED
    BY <1>4, <1>6, <1>a, <2>1, <2>2, AliveUnchanged
<1>7. CASE Abort
  BY <1>7 DEF Abort
<1>8. CASE UNCHANGED vars
  BY <1>8, <1>c DEF vars, NumThreadCounts, Alive, Counting
<1> QED
  BY <1>1, <1>2, <1>3, <1>5, <1>6, <1>7, <1>8 DEF Next, MainStep, ThreadStep, Ended

\* Every step keeps at most maxThread + 1 threads alive: those numThread counts,
\* and the one it does not count yet.
LEMMA BoundedStep ==
  ASSUME IInv, [Next]_vars
  PROVE  BoundedThreads'
<1>1. CASE main' # "aborted"
  <2>1. numThread' = Cardinality(Alive') - (IF main' \in Counting THEN 1 ELSE 0)
    BY <1>1, CountStep DEF NumThreadCounts, Counting
  <2>2. numThread' \in Int /\ numThread' <= maxThread
    BY TypeStep, ThreadsAssumption DEF TypeOK
  <2> QED
    BY <2>1, <2>2, AliveFiniteNext, ThreadsAssumption DEF BoundedThreads
<1>2. CASE Abort \/ UNCHANGED vars
  BY <1>2 DEF Abort, vars, IInv, BoundedThreads, Alive
<1>3. CASE main' = "aborted" /\ ~Abort /\ ~UNCHANGED vars
  BY <1>3
  DEF Next, MainStep, ThreadStep, Ended, SetInput, StartThread, Lock, Count, Wait,
      AllStarted, Join, Release, SpuriousWakeup, Compute, LockAndRead,
      WriteAndUnlock, Notify, wakeUp, ReleaseOwn
<1> QED
  BY <1>1, <1>2, <1>3

\* Every step keeps a thread that will notify the component while it waits: it
\* waits because numThread counts one at least, and only a thread that notifies
\* it stops being one.
LEMMA WakerStep ==
  ASSUME IInv, [Next]_vars, main' # "aborted"
  PROVE  WaitingHasAWaker'
<1> DEFINE Waker(c) == thread[c] \in Working \cup {"notify"}
<1>a. TypeOK /\ (main # "aborted" => Inv)
  BY DEF IInv, Inv
<1>1. CASE Wait
  <2>1. numThread = Cardinality(Alive) - 1 /\ numThread >= maxThread
    BY <1>1, <1>a, ThreadsAssumption
    DEF Wait, MayGoOn, Inv, NumThreadCounts, Counting, TypeOK
  <2>2. Alive # {}
    BY <2>1, AliveFinite, FS_EmptySet, ThreadsAssumption
  <2>3. PICK c \in Child : thread[c] \in Working
    BY <2>2 DEF Alive
  <2>4. thread'[c] \in Working
    BY <1>1, <2>3 DEF Wait
  <2> QED
    BY <2>4 DEF WaitingHasAWaker
<1>2. ASSUME main' = "waiting", main = "waiting",
             \A c \in Child : Waker(c) => Waker(c)'
      PROVE  WaitingHasAWaker'
  <2>1. PICK c \in Child : Waker(c)
    BY <1>2, <1>a DEF Inv, WaitingHasAWaker
  <2>2. Waker(c)'
    BY <1>2, <2>1
  <2> QED
    BY <2>2 DEF WaitingHasAWaker
<1>3. ASSUME NEW c \in Child,
             Compute(c) \/ LockAndRead(c) \/ WriteAndUnlock(c) \/ ReleaseOwn(c)
      PROVE  WaitingHasAWaker'
  <2>1. main' = main
    BY <1>3 DEF Compute, LockAndRead, WriteAndUnlock, ReleaseOwn
  <2>2. \A d \in Child : Waker(d) => Waker(d)'
    BY <1>3, <1>a DEF Compute, LockAndRead, WriteAndUnlock, ReleaseOwn, TypeOK, Working
  <2> QED
    BY <1>2, <2>1, <2>2 DEF WaitingHasAWaker
<1>4. ASSUME NEW c \in Child, SetInput(c) \/ Notify(c)
      PROVE  WaitingHasAWaker'
  BY <1>4 DEF SetInput, Notify, wakeUp, WaitingHasAWaker
<1>5. CASE StartThread \/ Lock \/ Count \/ AllStarted \/ Join \/ Release \/ SpuriousWakeup
           \/ Abort
  BY <1>5
  DEF StartThread, Lock, Count, AllStarted, Join, Release, SpuriousWakeup, Abort,
      WaitingHasAWaker
<1>6. CASE UNCHANGED vars
  BY <1>6, <1>a DEF vars, Inv, WaitingHasAWaker
<1> QED
  BY <1>1, <1>3, <1>4, <1>5, <1>6 DEF Next, MainStep, ThreadStep, Ended

-----------------------------------------------------------------------------
\* The inductive invariant holds of the initial states.
LEMMA InvariantInit == Init => IInv
<1> SUFFICES ASSUME Init PROVE IInv
  OBVIOUS
<1>1. TypeOK
  BY ThreadsAssumption DEF Init, TypeOK, Child, Main
<1>2. Alive = {} /\ Cardinality(Alive) = 0
  <2>1. Alive = {}
    BY DEF Init, Alive, Working
  <2> QED
    BY <2>1, FS_EmptySet
<1>3. BoundedThreads /\ NumThreadCounts
  BY <1>2, ThreadsAssumption DEF Init, BoundedThreads, NumThreadCounts, Counting
<1>4. MutexInv
  BY Holders DEF Init, MutexInv
<1>5. StartInv
  BY ThreadsAssumption DEF Init, StartInv, Counting
<1>6. WaitingHasAWaker
  BY DEF Init, WaitingHasAWaker
<1> QED
  BY <1>1, <1>3, <1>4, <1>5, <1>6 DEF IInv

\* The witness calculator keeps its inductive invariant: the mutex protects
\* numThread, numThread counts the threads, and the component never waits for a
\* notification nobody will send.
THEOREM Invariant == Spec => []IInv
<1>1. IInv /\ [Next]_vars => IInv'
  <2> SUFFICES ASSUME IInv, [Next]_vars PROVE IInv'
    OBVIOUS
  <2> QED
    BY TypeStep, BoundedStep, MutexStep, StartStep, CountStep, WakerStep DEF IInv
<1> QED
  BY <1>1, InvariantInit, PTL DEF Spec

\* The types of CircomParallel: numThread never leaves -1..maxThread.
THEOREM TypeCorrect == Spec => []TypeOK
<1>1. IInv => TypeOK
  BY DEF IInv
<1> QED
  BY <1>1, Invariant, PTL

\* No update of numThread is lost.
THEOREM Counted == Spec => []NumThreadCounts
<1>1. IInv => NumThreadCounts
  BY DEF IInv, NumThreadCounts
<1> QED
  BY <1>1, Invariant, PTL

\* At most maxThread + 1 threads of subcomponents are alive.
THEOREM Bounded == Spec => []BoundedThreads
<1>1. IInv => BoundedThreads
  BY DEF IInv
<1> QED
  BY <1>1, Invariant, PTL

\* No wakeup is lost: a waiting component has a thread that will notify it.
THEOREM Woken == Spec => []WaitingHasAWaker
<1>1. IInv => WaitingHasAWaker
  BY DEF IInv, WaitingHasAWaker
<1> QED
  BY <1>1, Invariant, PTL

\* The memory of the subcomponents outlives their threads.
THEOREM Released == Spec => []ReleasedAfterTheThreads
<1>1. IInv => ReleasedAfterTheThreads
  <2> SUFFICES ASSUME IInv PROVE ReleasedAfterTheThreads
    OBVIOUS
  <2>1. main = "done" => StartInv /\ current = NChild + 1
    BY DEF IInv, StartInv
  <2> QED
    BY <2>1, ThreadsAssumption DEF StartInv, ReleasedAfterTheThreads, Child
<1> QED
  BY <1>1, Invariant, PTL

-----------------------------------------------------------------------------
\* ForkJoin implemented: initially no subcomponent is alive or computed.
LEMMA AbstractInit == Init => Abstract!Init
BY DEF Init, Abstract!Init, Alive, Decremented, Working

\* Steps that end no thread and start none are stuttering steps of ForkJoin.
LEMMA Stutters ==
  ASSUME TypeOK, main # "aborted",
         \/ \E c \in Child : \/ SetInput(c) \/ Compute(c) \/ LockAndRead(c)
                             \/ Notify(c) \/ ReleaseOwn(c)
         \/ Lock \/ Count \/ Wait \/ AllStarted \/ Join \/ SpuriousWakeup
  PROVE  UNCHANGED Abstract!vars
<1>1. Alive' = Alive
  BY AliveUnchanged
<1>2. ASSUME NEW c \in Child,
             SetInput(c) \/ Compute(c) \/ LockAndRead(c) \/ Notify(c) \/ ReleaseOwn(c)
      PROVE  Decremented' = Decremented
  <2>1. \A d \in Child : thread'[d] \in {"notify", "release", "ended"}
                         <=> thread[d] \in {"notify", "release", "ended"}
    BY <1>2 DEF SetInput, Compute, LockAndRead, Notify, ReleaseOwn, TypeOK
  <2> QED
    BY <2>1 DEF Decremented
<1>3. ASSUME Lock \/ Count \/ Wait \/ AllStarted \/ Join \/ SpuriousWakeup
      PROVE  Decremented' = Decremented
  BY <1>3 DEF Lock, Count, Wait, AllStarted, Join, SpuriousWakeup, Decremented
<1>4. Decremented' = Decremented
  BY <1>2, <1>3
<1>5. \/ main \notin {"done", "aborted"} /\ main' \notin {"done", "aborted"}
      \/ main' = main
  BY DEF SetInput, Compute, LockAndRead, Notify, wakeUp, ReleaseOwn,
         Lock, Count, Wait, AllStarted, Join, SpuriousWakeup
<1> QED
  BY <1>1, <1>4, <1>5 DEF Abstract!vars

\* Every step of the threads maps to a step of ForkJoin or to a stutter.
LEMMA AbstractStep ==
  ASSUME IInv, [Next]_vars
  PROVE  [Abstract!Next]_(Abstract!vars)
<1>a. TypeOK /\ (main # "aborted" => Inv)
  BY DEF IInv, Inv
<1>1. CASE StartThread
  <2>1. /\ Alive' = Alive \cup {current}
        /\ current \in Child /\ thread[current] = "none"
    BY <1>1, <1>a, StartThreadCounts DEF StartThread, Inv, StartInv
  <2>2. current \notin Alive \cup Decremented /\ Decremented' = Decremented
    BY <1>1, <1>a, <2>1 DEF StartThread, Alive, Decremented, Working, TypeOK
  <2>3. Cardinality(Alive) < maxThread + 1
    BY <1>1, <1>a, AliveFinite, ThreadsAssumption
    DEF StartThread, Inv, NumThreadCounts, Counting, TypeOK
  <2>4. main = "start" /\ main' = "lock"
    BY <1>1 DEF StartThread
  <2>5. Abstract!Cardinality(Alive) = Cardinality(Alive)
    BY DEF Cardinality, Abstract!Cardinality
  <2>6. Abstract!Start(current)
    BY <2>1, <2>2, <2>3, <2>4, <2>5 DEF Abstract!Start
  <2> QED
    BY <2>1, <2>6 DEF Abstract!Next
<1>2. ASSUME NEW c \in Child, WriteAndUnlock(c)
      PROVE  Abstract!Next
  <2>1. Alive' = Alive \ {c}
    BY <1>2, <1>a, WriteAndUnlockCounts
  <2>2. Decremented' = Decremented \cup {c} /\ c \in Alive
    BY <1>2, <1>a DEF WriteAndUnlock, Alive, Decremented, Working, TypeOK
  <2>3. main' = main /\ main \notin {"done", "aborted"}
    BY <1>2, <1>a, ThreadsAssumption
    DEF WriteAndUnlock, Inv, StartInv, Child, TypeOK
  <2>4. Abstract!Finish(c)
    BY <2>1, <2>2, <2>3 DEF Abstract!Finish
  <2> QED
    BY <2>4 DEF Abstract!Next
<1>3. CASE Release
  <2>1. \A c \in Child : thread[c] = "ended"
    BY <1>3, <1>a, ThreadsAssumption DEF Release, Inv, StartInv, Child, TypeOK
  <2>2. Decremented = Child /\ Decremented' = Decremented /\ Alive' = Alive
    BY <1>3, <2>1 DEF Release, Decremented, Alive
  <2>3. main = "join" /\ main' = "done"
    BY <1>3 DEF Release
  <2>4. Abstract!Join
    BY <2>2, <2>3 DEF Abstract!Join
  <2> QED
    BY <2>4 DEF Abstract!Next
<1>4. CASE Abort
  <2>1. main # "done" /\ main # "aborted" /\ main' = "aborted"
    BY <1>4, <1>a, ThreadsAssumption DEF Abort, Inv, StartInv, Child, TypeOK
  <2>2. Alive' = Alive /\ Decremented' = Decremented
    BY <1>4 DEF Abort, Alive, Decremented
  <2>3. Abstract!Abort
    BY <2>1, <2>2 DEF Abstract!Abort
  <2> QED
    BY <2>3 DEF Abstract!Next
<1>5. ASSUME NEW c \in Child,
             SetInput(c) \/ Compute(c) \/ LockAndRead(c) \/ Notify(c) \/ ReleaseOwn(c)
      PROVE  UNCHANGED Abstract!vars
  <2>1. main # "aborted"
    BY <1>5 DEF SetInput, Compute, LockAndRead, Notify, ReleaseOwn
  <2> QED
    BY <1>5, <1>a, <2>1, Stutters
<1>6. CASE Lock \/ Count \/ Wait \/ AllStarted \/ Join \/ SpuriousWakeup
  <2>1. main # "aborted"
    BY <1>6 DEF Lock, Count, Wait, AllStarted, Join, SpuriousWakeup
  <2> QED
    BY <1>6, <1>a, <2>1, Stutters
<1>7. CASE UNCHANGED vars
  BY <1>7 DEF vars, Abstract!vars, Alive, Decremented
<1> QED
  BY <1>1, <1>2, <1>3, <1>4, <1>5, <1>6, <1>7
  DEF Next, MainStep, ThreadStep, Ended

\* The threads, the mutex and the condition variable implement ForkJoin: each
\* subcomponent is computed once, and the component is done when all are.
THEOREM Refinement == Spec => ForkJoinSpec
BY AbstractInit, AbstractStep, Invariant, PTL
DEF Spec, ForkJoinSpec, Abstract!Spec

-----------------------------------------------------------------------------
\* The image of a finite set under a function is finite.
LEMMA ImageFinite ==
  ASSUME NEW S, IsFiniteSet(S), NEW f, DOMAIN f = S
  PROVE  IsFiniteSet({f[x] : x \in S})
<1> DEFINE T == {f[x] : x \in S}
<1> DEFINE g == [x \in S |-> f[x]]
<1>1. g \in Surjection(S, T)
  BY DEF Surjection
<1> QED
  BY <1>1, FS_Surjection

\* The keys of the object are finitely many.
LEMMA KeysFinite == IsFiniteSet(Key)
<1> DEFINE f == [x \in 1..Len(Keys) |-> Keys[x]]
<1>1. IsFiniteSet(1..Len(Keys))
  BY CalcWitAssumption, FS_Interval
<1>2. IsFiniteSet({f[x] : x \in 1..Len(Keys)})
  BY <1>1, ImageFinite
<1>3. Key = {f[x] : x \in 1..Len(Keys)}
  BY DEF Key
<1> QED
  BY <1>2, <1>3

\* The inputs are pairs of a signal and the number of one of its values.
LEMMA InputsAre ==
  ASSUME NEW size, NEW s, NEW x
  PROVE  <<s, x>> \in InputsOf(size) <=> s \in DOMAIN size /\ x \in 0..(size[s] - 1)
BY DEF InputsOf

LEMMA InputsArePairs ==
  ASSUME NEW size, NEW input \in InputsOf(size)
  PROVE  \E s \in DOMAIN size : \E x \in 0..(size[s] - 1) : input = <<s, x>>
BY DEF InputsOf

LEMMA InputsFinite ==
  ASSUME NEW D \in SUBSET Key, NEW size \in [D -> Sizes]
  PROVE  IsFiniteSet(InputsOf(size))
<1> DEFINE ofSignal == [s \in D |-> {<<s, x>> : x \in 0..(size[s] - 1)}]
<1> DEFINE all == {ofSignal[s] : s \in D}
<1>1. IsFiniteSet(D)
  BY KeysFinite, FS_Subset
<1>2. IsFiniteSet(all)
  BY <1>1, ImageFinite
<1>3. ASSUME NEW s \in D
      PROVE  IsFiniteSet(ofSignal[s])
  <2> DEFINE f == [x \in 0..(size[s] - 1) |-> <<s, x>>]
  <2>1. size[s] - 1 \in Int
    <3>1. size[s] \in Sizes
      OBVIOUS
    <3>2. size[s] \in Nat
      BY <3>1, CalcWitAssumption
    <3> QED
      BY <3>2
  <2>2. IsFiniteSet(0..(size[s] - 1))
    BY <2>1, FS_Interval
  <2>3. IsFiniteSet({f[x] : x \in 0..(size[s] - 1)})
    BY <2>2, ImageFinite
  <2>4. ofSignal[s] = {f[x] : x \in 0..(size[s] - 1)}
    OBVIOUS
  <2> QED
    BY <2>3, <2>4
<1>4. \A T \in all : IsFiniteSet(T)
  BY <1>3
<1>5. InputsOf(size) = UNION all
  BY DEF InputsOf
<1> HIDE DEF all
<1> QED
  BY <1>2, <1>4, <1>5, FS_UNION

-----------------------------------------------------------------------------
\* The loop over the table finds at most one slot, and in it a signal of the hash.
LEMMA SlotFound ==
  ASSUME CircuitInv, NEW h \in Hashes, NEW p \in getInputSignalHashPosition(h)
  PROVE  /\ p \in 0..(n - 1)
         /\ circuit.InputHashMap[p] \in Signals
         /\ fnv1a[circuit.InputHashMap[p]] = h
         /\ \A q \in getInputSignalHashPosition(h) : q = p
<1>1. h \in Nat \ {0}
  BY CalcWitAssumption
<1>2. n \in Nat \ {0, 1}
  BY CalcWitAssumption
<1>3. PICK d \in 0..(n - 1) : /\ p = probe(h, d) /\ SlotHash(p) = h
                              /\ \A e \in 0..(d - 1) : SlotHash(probe(h, e)) # h
  BY DEF getInputSignalHashPosition
<1>4. p \in 0..n
  <2>1. h % n \in 0..(n - 1) /\ (h % n) + 1 \in 0..n
    BY <1>1, <1>2
  <2>2. (h % n) + d \in Int /\ ((h % n) + d) % n \in 0..(n - 1)
    BY <1>1, <1>2, <2>1
  <2> QED
    BY <1>3, <2>1, <2>2, <1>2 DEF probe
<1>5. p # n
  <2>1. circuit.beyond \in {0, -1}
    BY DEF CircuitInv, Garbage
  <2> QED
    BY <1>1, <1>3, <2>1 DEF SlotHash
<1>6. p \in 0..(n - 1)
  BY <1>2, <1>4, <1>5
<1>7. circuit.InputHashMap[p] \in Signals \cup {NoKey}
  BY <1>6 DEF CircuitInv
<1>8. circuit.InputHashMap[p] # NoKey /\ fnv1a[circuit.InputHashMap[p]] = h
  BY <1>1, <1>3, <1>5 DEF SlotHash
<1>9. ASSUME NEW q \in getInputSignalHashPosition(h)
      PROVE  q = p
  <2>1. PICK c \in 0..(n - 1) : /\ q = probe(h, c) /\ SlotHash(q) = h
                                /\ \A e \in 0..(c - 1) : SlotHash(probe(h, e)) # h
    BY DEF getInputSignalHashPosition
  <2>2. ~(c < d) /\ ~(d < c)
    <3>1. c < d => c \in 0..(d - 1)
      BY <1>2
    <3>2. d < c => d \in 0..(c - 1)
      BY <1>2
    <3> QED
      BY <1>3, <2>1, <3>1, <3>2
  <2>3. c = d
    BY <2>2, <1>2
  <2> QED
    BY <1>3, <2>1, <2>3
<1> QED
  BY <1>6, <1>7, <1>8, <1>9

\* The key in hand has a hash.
LEMMA KeyInHand ==
  ASSUME CircuitInv, PlaceInv, it <= Len(Keys)
  PROVE  /\ Keys[it] \in DOMAIN j /\ Keys[it] \in Key
         /\ keyHash \in Hashes
         /\ j[Keys[it]] \in Nat \ {0}
BY CalcWitAssumption DEF CircuitInv, PlaceInv, keyHash

\* The current key has one signal, of its hash and of its number of values.
LEMMA SignalInHand ==
  ASSUME CircuitInv, PlaceInv, pc = "set",
         NEW p \in getInputSignalHashPosition(keyHash)
  PROVE  /\ circuit.InputHashMap[p] \in Signals
         /\ fnv1a[circuit.InputHashMap[p]] = keyHash
         /\ circuit.size[circuit.InputHashMap[p]] = j[Keys[it]]
<1>1. it <= Len(Keys)
  BY DEF PlaceInv
<1>2. keyHash \in Hashes
  BY <1>1, KeyInHand
<1>3. PICK q \in getInputSignalHashPosition(keyHash) :
        circuit.size[circuit.InputHashMap[q]] = j[Keys[it]]
  BY DEF PlaceInv
<1>4. q = p
  BY <1>2, SlotFound
<1> QED
  BY <1>2, <1>3, <1>4, SlotFound

\* The inputs that have no value are finitely many.
LEMMA UnassignedFinite ==
  ASSUME CircuitInv
  PROVE  /\ IsFiniteSet(Inputs)
         /\ IsFiniteSet({x \in Inputs : ~Assigned(x)})
<1>1. IsFiniteSet(Inputs)
  BY InputsFinite DEF CircuitInv
<1>2. {x \in Inputs : ~Assigned(x)} \in SUBSET Inputs
  OBVIOUS
<1> QED
  BY <1>1, <1>2, FS_Subset

-----------------------------------------------------------------------------
\* What the steps leave alone.
LEMMA CircuitStep ==
  ASSUME CircuitInv, [LoadNext]_loadVars
  PROVE  CircuitInv' /\ Inputs' = Inputs
<1>1. UNCHANGED <<circuit, fnv1a, j>>
  BY DEF LoadNext, loadVars, LookUpKey, SetInputSignal, SetInputSignalAborts, NextKey, Loaded, LoadEnded
<1>2. Inputs' = Inputs
  BY DEF LoadNext, loadVars, LookUpKey, SetInputSignal, SetInputSignalAborts, NextKey, Loaded, LoadEnded,
         Inputs
<1> QED
  BY <1>1, <1>2 DEF CircuitInv, Signals

\* Setting a value: which input gets it, and what is left to be set.
LEMMA SetStep ==
  ASSUME LoadTypeOK, CircuitInv, PlaceInv, SetInputSignal
  PROVE  \E s \in Signals :
           /\ fnv1a[s] = fnv1a[Keys[it]] /\ circuit.size[s] = j[Keys[it]]
           /\ <<s, i>> \in Inputs /\ ~Assigned(<<s, i>>)
           /\ signalValues' = [signalValues EXCEPT ![<<s, i>>] = Keys[it]]
           /\ Keys[it] \in Key
<1>1. PICK p \in getInputSignalHashPosition(keyHash) :
        /\ MayAssign(<<circuit.InputHashMap[p], i>>)
        /\ signalValues' = [signalValues EXCEPT ![<<circuit.InputHashMap[p], i>>] = Keys[it]]
  BY DEF SetInputSignal
<1> DEFINE s == circuit.InputHashMap[p]
<1>2. pc = "set" /\ i < j[Keys[it]]
  BY DEF SetInputSignal
<1>3. s \in Signals /\ fnv1a[s] = keyHash /\ circuit.size[s] = j[Keys[it]]
  BY <1>2, SignalInHand
<1>4. Keys[it] \in Key /\ j[Keys[it]] \in Nat
  BY <1>2, KeyInHand DEF PlaceInv
<1>5. i \in 0..(circuit.size[s] - 1)
  BY <1>2, <1>3, <1>4 DEF LoadTypeOK
<1>6. <<s, i>> \in Inputs
  BY <1>3, <1>5, InputsAre DEF CircuitInv, Signals
<1>7. ~Assigned(<<s, i>>)
  BY <1>1 DEF MayAssign
<1> QED
  BY <1>1, <1>3, <1>4, <1>6, <1>7 DEF keyHash

\* One input fewer is left.
LEMMA LoadCountStep ==
  ASSUME LoadTypeOK, CircuitInv, PlaceInv, SetInputSignal
  PROVE  /\ inputSignalAssignedCounter \in Nat \ {0}
         /\ inputSignalAssignedCounter' = Cardinality({x \in Inputs' : ~Assigned(x)'})
<1> DEFINE left == {x \in Inputs : ~Assigned(x)}
<1> DEFINE leftNext == {x \in Inputs' : ~Assigned(x)'}
<1>1. PICK s \in Signals :
        /\ <<s, i>> \in Inputs /\ ~Assigned(<<s, i>>)
        /\ signalValues' = [signalValues EXCEPT ![<<s, i>>] = Keys[it]]
        /\ Keys[it] \in Key
  BY SetStep
<1> DEFINE input == <<s, i>>
<1>2. Keys[it] # NoKey
  BY <1>1, CalcWitAssumption
<1>3. leftNext = left \ {input}
  <2>1. Inputs' = Inputs
    BY <1>1 DEF Inputs
  <2>2. ASSUME NEW x \in Inputs
        PROVE  Assigned(x)' <=> Assigned(x) \/ x = input
    BY <1>1, <1>2 DEF Assigned, Inputs
  <2> QED
    BY <2>1, <2>2
<1>4. input \in left
  BY <1>1
<1>5. IsFiniteSet(left)
  BY UnassignedFinite
<1>6. Cardinality(left) = inputSignalAssignedCounter
  BY DEF LoadTypeOK
<1>7. Cardinality(leftNext) = Cardinality(left) - 1
  BY <1>3, <1>4, <1>5, FS_RemoveElement
<1>8. Cardinality(left) \in Nat /\ Cardinality(left) # 0
  BY <1>4, <1>5, FS_CardinalityType, FS_EmptySet
<1>9. inputSignalAssignedCounter' = inputSignalAssignedCounter - 1
  BY DEF SetInputSignal
<1> QED
  BY <1>6, <1>7, <1>8, <1>9

-----------------------------------------------------------------------------
\* At the start no input has a value, and there is one at least.
LEMMA LoadInitInv == LoadInit => LoadInv
<1> SUFFICES ASSUME LoadInit PROVE LoadInv
  OBVIOUS
<1>1. PICK signals \in SUBSET Key, hash \in [Key -> Hashes] :
        /\ Cardinality(signals) \in 1..(n - 1)
        /\ \A k, l \in signals : hash[k] = hash[l] => k = l
        /\ fnv1a = hash
        /\ \E size \in [signals -> Sizes], map \in Tables(hash, signals),
              beyond \in {0, Garbage} :
             /\ circuit = [size |-> size, InputHashMap |-> map, beyond |-> beyond]
             /\ signalValues = [input \in InputsOf(size) |-> NoKey]
  BY DEF LoadInit
<1>2. PICK size \in [signals -> Sizes], map \in Tables(hash, signals), beyond \in {0, Garbage} :
        /\ circuit = [size |-> size, InputHashMap |-> map, beyond |-> beyond]
        /\ signalValues = [input \in InputsOf(size) |-> NoKey]
  BY <1>1
<1>3. /\ pc = "key" /\ i = 0 /\ runs = 0
      /\ it \in 1..(Len(Keys) + 1) /\ Follows(0, it)
      /\ inputSignalAssignedCounter = Cardinality(Inputs)
  BY DEF LoadInit
<1>4. Signals = signals /\ circuit.size = size /\ Inputs = InputsOf(circuit.size)
  BY <1>2 DEF Signals, Inputs
<1>5. signals # {}
  <2>1. Cardinality({}) = 0 /\ n \in Int
    BY FS_EmptySet, CalcWitAssumption
  <2>2. 0 \notin 1..(n - 1)
    BY <2>1
  <2> QED
    BY <1>1, <2>1, <2>2
<1>6. DOMAIN j \in SUBSET Key /\ j \in [DOMAIN j -> Sizes]
  <2>1. PICK K \in SUBSET Key : j \in [K -> Sizes]
    BY DEF LoadInit
  <2> QED
    BY <2>1
<1>7. CircuitInv
  <2>1. map \in [0..(n - 1) -> signals \cup {NoKey}]
    BY DEF Tables
  <2>2. circuit \in [size : [signals -> Sizes], beyond : {0, Garbage},
                      InputHashMap : [0..(n - 1) -> signals \cup {NoKey}]]
    BY <1>2, <2>1
  <2> QED
    BY <1>1, <1>4, <1>5, <1>6, <2>2 DEF CircuitInv
<1>8. \A x \in Inputs : ~Assigned(x)
  BY <1>2 DEF Assigned, Inputs
<1>9. LoadTypeOK
  <2>1. signalValues \in [Inputs -> Key \cup {NoKey}]
    BY <1>2 DEF Inputs
  <2>2. {x \in Inputs : ~Assigned(x)} = Inputs
    BY <1>8
  <2> QED
    BY <1>3, <2>1, <2>2 DEF LoadTypeOK
<1>10. PlaceInv
  BY <1>3 DEF PlaceInv, Follows
<1>11. SignalInv
  <2>1. ASSUME NEW s \in Signals
        PROVE  HasBefore(s, 0, NoKey)
    <3>1. ASSUME NEW y \in 0..(circuit.size[s] - 1)
          PROVE  signalValues[<<s, y>>] = NoKey
      <4>1. <<s, y>> \in InputsOf(circuit.size)
        BY InputsAre DEF Signals
      <4> QED
        BY <1>2, <1>4, <4>1
    <3> QED
      BY <3>1 DEF HasBefore
  <2> QED
    BY <1>3, <2>1 DEF SignalInv, IsBeingSet
<1>12. RunInv
  <2>1. PICK s \in signals : TRUE
    BY <1>5
  <2>2. circuit.size[s] \in Nat \ {0}
    BY <1>4, CalcWitAssumption
  <2>3. 0 \in 0..(circuit.size[s] - 1)
    BY <2>2
  <2>4. <<s, 0>> \in Inputs
    BY <1>4, <2>3, InputsAre DEF Signals
  <2>5. inputSignalAssignedCounter # 0
    BY <1>3, <1>7, <2>4, UnassignedFinite, FS_EmptySet
  <2> QED
    BY <1>3, <2>5 DEF RunInv
<1> QED
  BY <1>7, <1>9, <1>10, <1>11, <1>12 DEF LoadInv

-----------------------------------------------------------------------------
\* Each conjunct of the invariant is kept.
LEMMA LoadTypeStep == LoadInv /\ [LoadNext]_loadVars => LoadTypeOK'
<1> SUFFICES ASSUME LoadInv, [LoadNext]_loadVars PROVE LoadTypeOK'
  OBVIOUS
<1>1. LoadTypeOK /\ CircuitInv /\ PlaceInv /\ RunInv
  BY DEF LoadInv
<1>2. CASE UNCHANGED <<signalValues, inputSignalAssignedCounter, runs>>
  <2>1. /\ pc' \in {"key", "set", "witness", "aborted", "thrown", "exited"}
        /\ it' \in 1..(Len(Keys) + 1) /\ i' \in Nat
    <3>1. CASE LookUpKey
      BY <1>1, <3>1 DEF LookUpKey, LoadTypeOK
    <3>2. CASE SetInputSignal
      BY <1>1, <3>2 DEF SetInputSignal, LoadTypeOK
    <3>3. CASE SetInputSignalAborts
      BY <1>1, <3>3 DEF SetInputSignalAborts, LoadTypeOK
    <3>4. CASE NextKey
      BY <1>1, <3>4 DEF NextKey, LoadTypeOK
    <3>5. CASE Loaded
      BY <1>1, <3>5 DEF Loaded, CheckRemainingInputs, LoadTypeOK
    <3>6. CASE UNCHANGED loadVars
      BY <1>1, <3>6 DEF loadVars, LoadTypeOK
    <3> QED
      BY <3>1, <3>2, <3>3, <3>4, <3>5, <3>6 DEF LoadNext, LoadEnded
  <2>2. Inputs' = Inputs /\ \A x : Assigned(x)' <=> Assigned(x)
    BY <1>2 DEF Inputs, Assigned
  <2> QED
    BY <1>1, <1>2, <2>1, <2>2 DEF LoadTypeOK
<1>3. CASE SetInputSignal
  <2>1. PICK s \in Signals : /\ <<s, i>> \in Inputs
                             /\ signalValues' = [signalValues EXCEPT ![<<s, i>>] = Keys[it]]
                             /\ Keys[it] \in Key
    BY <1>1, <1>3, SetStep
  <2>2. signalValues' \in [Inputs' -> Key \cup {NoKey}]
    BY <1>1, <2>1 DEF LoadTypeOK, Inputs
  <2>3. inputSignalAssignedCounter' = Cardinality({x \in Inputs' : ~Assigned(x)'})
    BY <1>1, <1>3, LoadCountStep
  <2>4. runs' \in {0, 1}
    <3>1. runs = 0
      BY <1>1, <1>3, LoadCountStep DEF RunInv
    <3> QED
      BY <1>3, <3>1 DEF SetInputSignal, tryRunCircuit
  <2>5. i' \in Nat /\ it' = it /\ pc' = pc
    BY <1>1, <1>3 DEF SetInputSignal, LoadTypeOK
  <2> QED
    BY <1>1, <2>2, <2>3, <2>4, <2>5 DEF LoadTypeOK
<1> QED
  BY <1>2, <1>3 DEF LoadNext, loadVars, LookUpKey, SetInputSignalAborts, NextKey, Loaded, LoadEnded

LEMMA PlaceStep == LoadInv /\ [LoadNext]_loadVars => PlaceInv'
<1> SUFFICES ASSUME LoadInv, [LoadNext]_loadVars PROVE PlaceInv'
  OBVIOUS
<1>1. LoadTypeOK /\ CircuitInv /\ PlaceInv
  BY DEF LoadInv
<1>2. UNCHANGED <<circuit, fnv1a, j>>
  BY DEF LoadNext, loadVars, LookUpKey, SetInputSignal, SetInputSignalAborts, NextKey, Loaded, LoadEnded
<1>4. CASE LookUpKey
  <2>1. it' = it /\ i' = 0 /\ it <= Len(Keys)
    BY <1>4 DEF LookUpKey
  <2>2. keyHash' = keyHash /\ j[Keys[it]] \in Nat
    BY <1>1, <1>2, <2>1, KeyInHand DEF keyHash
  <2>3. pc' = "set" => \E p \in getInputSignalHashPosition(keyHash) :
                         circuit.size[circuit.InputHashMap[p]] = j[Keys[it]]
    BY <1>4 DEF LookUpKey
  <2>4. getInputSignalHashPosition(keyHash)' = getInputSignalHashPosition(keyHash)
    BY <1>2, <2>2 DEF getInputSignalHashPosition, SlotHash
  <2> QED
    BY <1>1, <1>2, <2>1, <2>2, <2>3, <2>4 DEF PlaceInv
<1>5. CASE SetInputSignal
  <2>1. it' = it /\ i' = i + 1 /\ pc = "set" /\ i < j[Keys[it]]
    BY <1>5 DEF SetInputSignal
  <2>2. keyHash' = keyHash /\ j[Keys[it]] \in Nat /\ i + 1 <= j[Keys[it]]
    <3>1. j[Keys[it]] \in Nat
      BY <1>1, <2>1, KeyInHand DEF PlaceInv
    <3> QED
      BY <1>1, <1>2, <2>1, <3>1 DEF keyHash, LoadTypeOK
  <2>4. getInputSignalHashPosition(keyHash)' = getInputSignalHashPosition(keyHash)
    BY <1>2, <2>2 DEF getInputSignalHashPosition, SlotHash
  <2> QED
    BY <1>1, <1>2, <2>1, <2>2, <2>4 DEF PlaceInv
<1>6. CASE SetInputSignalAborts
  BY <1>1, <1>2, <1>6 DEF SetInputSignalAborts, PlaceInv
<1>7. CASE NextKey
  BY <1>2, <1>7 DEF NextKey, Follows, PlaceInv
<1>8. CASE Loaded
  BY <1>1, <1>2, <1>8 DEF Loaded, CheckRemainingInputs, PlaceInv
<1>9. CASE UNCHANGED loadVars
  <2>1. getInputSignalHashPosition(keyHash)' = getInputSignalHashPosition(keyHash)
    BY <1>9 DEF getInputSignalHashPosition, SlotHash, keyHash, loadVars
  <2> QED
    BY <1>1, <1>9, <2>1 DEF loadVars, PlaceInv
<1> QED
  BY <1>4, <1>5, <1>6, <1>7, <1>8, <1>9 DEF LoadNext, LoadEnded

LEMMA RunStep == LoadInv /\ [LoadNext]_loadVars => RunInv'
<1> SUFFICES ASSUME LoadInv, [LoadNext]_loadVars PROVE RunInv'
  OBVIOUS
<1>1. LoadTypeOK /\ CircuitInv /\ PlaceInv /\ RunInv
  BY DEF LoadInv
<1>2. CASE LookUpKey
  BY <1>1, <1>2 DEF LookUpKey, RunInv
<1>3. CASE SetInputSignal
  <2>1. inputSignalAssignedCounter \in Nat \ {0} /\ runs = 0
    BY <1>1, <1>3, LoadCountStep DEF RunInv
  <2>2. pc' = "set"
    BY <1>3 DEF SetInputSignal
  <2> QED
    BY <1>3, <2>1, <2>2 DEF SetInputSignal, tryRunCircuit, RunInv
<1>4. CASE SetInputSignalAborts
  BY <1>1, <1>4 DEF SetInputSignalAborts, RunInv
<1>5. CASE NextKey
  BY <1>1, <1>5 DEF NextKey, RunInv
<1>6. CASE Loaded
  BY <1>1, <1>6 DEF Loaded, CheckRemainingInputs, RunInv
<1>7. CASE UNCHANGED loadVars
  BY <1>1, <1>7 DEF loadVars, RunInv
<1> QED
  BY <1>2, <1>3, <1>4, <1>5, <1>6, <1>7 DEF LoadNext, LoadEnded

\* Between keys, a signal that was being set has all its values.
LEMMA SignalStep == LoadInv /\ [LoadNext]_loadVars => SignalInv'
<1> SUFFICES ASSUME LoadInv, [LoadNext]_loadVars, pc' \in {"key", "set", "witness"}, NEW s \in Signals'
             PROVE  (IF IsBeingSet(s) THEN Source(s, Keys[it]) /\ HasBefore(s, i, Keys[it])
                     ELSE \/ HasBefore(s, 0, NoKey)
                          \/ \E k \in Key : Source(s, k) /\ HasBefore(s, circuit.size[s], k))'
  BY DEF SignalInv
<1>1. LoadTypeOK /\ CircuitInv /\ PlaceInv /\ SignalInv
  BY DEF LoadInv
<1>2. UNCHANGED <<circuit, fnv1a, j>> /\ s \in Signals
  BY DEF LoadNext, loadVars, LookUpKey, SetInputSignal, SetInputSignalAborts, NextKey, Loaded, LoadEnded,
         Signals
<1>3. circuit.size[s] \in Nat \ {0}
  BY <1>1, <1>2, CalcWitAssumption DEF CircuitInv
<1>4. \A k : Source(s, k)' <=> Source(s, k)
  BY <1>2 DEF Source
<1>5. CASE LookUpKey
  <2>1. pc = "key" /\ i' = 0 /\ signalValues' = signalValues
    BY <1>5 DEF LookUpKey
  <2>2. ~IsBeingSet(s) /\ ~IsBeingSet(s)'
    BY <2>1 DEF IsBeingSet
  <2>3. \A x, k : HasBefore(s, x, k)' <=> HasBefore(s, x, k)
    BY <1>2, <2>1 DEF HasBefore
  <2> QED
    BY <1>1, <1>2, <1>4, <2>1, <2>2, <2>3 DEF SignalInv
<1>6. CASE SetInputSignal
  <2>1. PICK t \in Signals :
          /\ fnv1a[t] = fnv1a[Keys[it]] /\ circuit.size[t] = j[Keys[it]]
          /\ <<t, i>> \in Inputs /\ ~Assigned(<<t, i>>)
          /\ signalValues' = [signalValues EXCEPT ![<<t, i>>] = Keys[it]]
          /\ Keys[it] \in Key
    BY <1>1, <1>6, SetStep
  <2>2. pc = "set" /\ pc' = "set" /\ it' = it /\ i' = i + 1 /\ i \in Nat
    BY <1>1, <1>6 DEF SetInputSignal, LoadTypeOK
  <2>3. CASE s # t
    <3>1. fnv1a[s] # fnv1a[Keys[it]]
      BY <1>1, <1>2, <2>1, <2>3 DEF CircuitInv
    <3>2. ~IsBeingSet(s) /\ ~IsBeingSet(s)'
      BY <1>2, <2>2, <3>1 DEF IsBeingSet
    <3>3. \A y : <<s, y>> # <<t, i>>
      BY <2>3
    <3>4. \A x, k : HasBefore(s, x, k)' <=> HasBefore(s, x, k)
      <4>1. \A y \in 0..(circuit.size[s] - 1) : signalValues'[<<s, y>>] = signalValues[<<s, y>>]
        <5>1. \A y \in 0..(circuit.size[s] - 1) : <<s, y>> \in Inputs
          BY <1>1, <1>2, InputsAre DEF CircuitInv, Signals
        <5> QED
          BY <2>1, <3>3, <5>1 DEF Inputs
      <4> QED
        BY <1>2, <4>1 DEF HasBefore
    <3> QED
      BY <1>1, <1>2, <1>4, <2>2, <3>2, <3>4 DEF SignalInv
  <2>4. CASE s = t
    <3>1. IsBeingSet(s)'
      BY <1>2, <2>1, <2>2, <2>4 DEF IsBeingSet
    <3>2. Source(s, Keys[it])
      BY <1>1, <2>1, <2>2, <2>4 DEF Source, PlaceInv
    <3>3. Keys[it] # NoKey
      BY <2>1, CalcWitAssumption
    <3>4. i \in 0..(circuit.size[s] - 1)
      BY <1>1, <2>1, <2>4, InputsAre DEF CircuitInv
    <3>5. signalValues[<<s, i>>] = NoKey
      BY <2>1, <2>4 DEF Assigned
    <3>6. HasBefore(s, i, Keys[it])
      <4>1. CASE i > 0
        BY <1>1, <1>2, <2>1, <2>2, <2>4, <4>1 DEF SignalInv, IsBeingSet
      <4>2. CASE i = 0
        <5>1. ~IsBeingSet(s)
          BY <4>2 DEF IsBeingSet
        <5>2. PICK k : \/ HasBefore(s, 0, NoKey)
                       \/ k \in Key /\ HasBefore(s, circuit.size[s], k)
          BY <1>1, <1>2, <2>2, <5>1 DEF SignalInv
        <5>3. ~(k \in Key /\ HasBefore(s, circuit.size[s], k))
          BY <3>4, <3>5, <1>3, CalcWitAssumption DEF HasBefore
        <5>4. HasBefore(s, 0, NoKey)
          BY <5>2, <5>3
        <5> QED
          BY <4>2, <5>4 DEF HasBefore
      <4> QED
        BY <2>2, <4>1, <4>2
    <3>7. HasBefore(s, i, Keys[it])'
      <4>1. ASSUME NEW y \in 0..(circuit.size[s] - 1)
            PROVE  signalValues'[<<s, y>>] = IF y < i + 1 THEN Keys[it] ELSE NoKey
        <5>1. <<s, y>> \in Inputs
          BY <1>1, <1>2, InputsAre DEF CircuitInv, Signals
        <5>2. CASE y = i
          BY <2>1, <2>2, <2>4, <5>1, <5>2 DEF Inputs
        <5>3. CASE y # i
          <6>1. <<s, y>> # <<t, i>>
            BY <5>3
          <6>2. signalValues'[<<s, y>>] = signalValues[<<s, y>>]
            BY <2>1, <5>1, <6>1 DEF Inputs
          <6>3. y < i + 1 <=> y < i
            BY <2>2, <5>3
          <6> QED
            BY <3>6, <6>2, <6>3 DEF HasBefore
        <5> QED
          BY <5>2, <5>3
      <4> QED
        BY <1>2, <2>2, <4>1 DEF HasBefore
    <3> QED
      BY <1>4, <2>2, <3>1, <3>2, <3>7
  <2> QED
    BY <2>3, <2>4
<1>7. CASE SetInputSignalAborts
  BY <1>7 DEF SetInputSignalAborts
<1>8. CASE NextKey
  <2>1. pc = "set" /\ pc' = "key" /\ i = j[Keys[it]] /\ signalValues' = signalValues
    BY <1>8 DEF NextKey
  <2>2. ~IsBeingSet(s)'
    BY <2>1 DEF IsBeingSet
  <2>3. \A x, k : HasBefore(s, x, k)' <=> HasBefore(s, x, k)
    BY <1>2, <2>1 DEF HasBefore
  <2>4. CASE IsBeingSet(s)
    <3>1. Source(s, Keys[it]) /\ HasBefore(s, i, Keys[it])
      BY <1>1, <1>2, <2>1, <2>4 DEF SignalInv
    <3>2. i = circuit.size[s]
      BY <2>1, <3>1 DEF Source
    <3>3. Keys[it] \in Key
      BY <1>1, <2>1, KeyInHand DEF PlaceInv
    <3> QED
      BY <1>2, <1>4, <2>2, <2>3, <3>1, <3>2, <3>3
  <2>5. CASE ~IsBeingSet(s)
    BY <1>1, <1>2, <1>4, <2>1, <2>2, <2>3, <2>5 DEF SignalInv
  <2> QED
    BY <2>4, <2>5
<1>9. CASE Loaded \/ UNCHANGED loadVars
  <2>1. pc \in {"key", "set", "witness"}
    BY <1>9 DEF Loaded, loadVars
  <2>2. UNCHANGED <<it, i, signalValues>> /\ (pc' = "set" <=> pc = "set")
    BY <1>9 DEF Loaded, CheckRemainingInputs, loadVars
  <2>3. IsBeingSet(s)' <=> IsBeingSet(s)
    BY <1>2, <2>2 DEF IsBeingSet
  <2>4. \A x, k : HasBefore(s, x, k)' <=> HasBefore(s, x, k)
    BY <1>2, <2>2 DEF HasBefore
  <2> QED
    BY <1>1, <1>2, <1>4, <2>1, <2>2, <2>3, <2>4 DEF SignalInv
<1> QED
  BY <1>5, <1>6, <1>7, <1>8, <1>9 DEF LoadNext, LoadEnded

-----------------------------------------------------------------------------
\* The invariant holds throughout: what is left is counted, each signal has no
\* value or all of one key, and the circuit has run when none is left.
THEOREM LoadInvariant == LoadSpec => []LoadInv
<1>1. LoadInv /\ [LoadNext]_loadVars => LoadInv'
  BY LoadTypeStep, CircuitStep, PlaceStep, SignalStep, RunStep DEF LoadInv
<1> QED
  BY LoadInitInv, <1>1, PTL DEF LoadSpec

\* The circuit has run exactly when all its inputs have a value: none is left to
\* be set just when the set of those without one is empty.
LEMMA NoneLeft ==
  ASSUME LoadInv
  PROVE  inputSignalAssignedCounter = 0 <=> \A x \in Inputs : Assigned(x)
<1>1. IsFiniteSet({x \in Inputs : ~Assigned(x)})
  BY UnassignedFinite DEF LoadInv
<1>2. inputSignalAssignedCounter = Cardinality({x \in Inputs : ~Assigned(x)})
  BY DEF LoadInv, LoadTypeOK
<1>3. inputSignalAssignedCounter = 0 <=> {x \in Inputs : ~Assigned(x)} = {}
  BY <1>1, <1>2, FS_EmptySet
<1> QED
  BY <1>3

\* setInputSignal runs the circuit in the call that sets the last of its inputs,
\* whatever the object and the table.
THEOREM Runs == LoadSpec => []RunsOnAllItsInputs
<1>1. LoadInv => RunsOnAllItsInputs
  BY NoneLeft DEF LoadInv, RunInv, RunsOnAllItsInputs
<1> QED
  BY LoadInvariant, <1>1, PTL

\* No call of setInputSignal changes a value, or runs the circuit again, after
\* it has run.
THEOREM Stays == LoadSpec => InputsStayAsTheyRan
<1>1. LoadInv /\ [LoadNext]_loadVars => [runs = 1 => UNCHANGED <<signalValues, runs>>]_loadVars
  <2> SUFFICES ASSUME LoadInv, [LoadNext]_loadVars, runs = 1
               PROVE  UNCHANGED <<signalValues, runs>>
    OBVIOUS
  <2>1. ~SetInputSignal
    BY LoadCountStep DEF LoadInv, RunInv
  <2> QED
    BY <2>1 DEF LoadNext, loadVars, LookUpKey, SetInputSignalAborts, NextKey, Loaded, LoadEnded
<1> QED
  BY LoadInvariant, <1>1, PTL DEF LoadSpec, InputsStayAsTheyRan

\* getCommittedPols goes on to a witness only of a circuit that ran, each of
\* whose signals has its values from one key of the object, of its hash and size.
THEOREM Witness == LoadSpec => []WitnessOfTheObject
<1>1. LoadInv => WitnessOfTheObject
  <2> SUFFICES ASSUME LoadInv, pc = "witness", NEW x \in Inputs
               PROVE  /\ runs = 1
                      /\ fnv1a[signalValues[x]] = fnv1a[x[1]]
                      /\ signalValues[x] = signalValues[<<x[1], 0>>]
                      /\ j[signalValues[x]] = circuit.size[x[1]]
    BY DEF WitnessOfTheObject, LoadInv, RunInv
  <2>1. runs = 1 /\ Assigned(x)
    BY NoneLeft DEF LoadInv, RunInv
  <2>2. PICK s \in Signals : \E y \in 0..(circuit.size[s] - 1) : x = <<s, y>>
    BY InputsArePairs DEF LoadInv, CircuitInv, Signals
  <2>3. circuit.size[s] \in Nat \ {0}
    BY CalcWitAssumption DEF LoadInv, CircuitInv
  <2>4. ~HasBefore(s, 0, NoKey)
    BY <2>1, <2>2 DEF HasBefore, Assigned
  <2>5. PICK k \in Key : Source(s, k) /\ HasBefore(s, circuit.size[s], k)
    BY <2>4 DEF LoadInv, SignalInv, IsBeingSet
  <2>6. signalValues[x] = k /\ signalValues[<<s, 0>>] = k
    BY <2>2, <2>3, <2>5 DEF HasBefore
  <2> QED
    BY <2>1, <2>2, <2>5, <2>6 DEF Source
<1> QED
  BY LoadInvariant, <1>1, PTL

-----------------------------------------------------------------------------
\* A number below m is its own rest.
LEMMA SmallRest ==
  ASSUME NEW m \in Nat \ {0}, NEW x \in 0..(m - 1)
  PROVE  x % m = x
OBVIOUS

\* A quotient and its rest.
LEMMA QuotientAndRest ==
  ASSUME NEW m \in Nat \ {0}, NEW x \in Int
  PROVE  x \div m \in Int /\ x % m \in 0..(m - 1) /\ x = m * (x \div m) + (x % m)
OBVIOUS

\* Rests that differ by a multiple of m are equal.
LEMMA RestsDiffer ==
  ASSUME NEW m \in Nat \ {0}, NEW x \in 0..(m - 1), NEW y \in 0..(m - 1), NEW k \in Int,
         x = y + k * m
  PROVE  x = y
<1>1. CASE k >= 1
  <2>1. k * m >= 1 * m /\ k * m \in Int
    BY <1>1
  <2> QED
    BY <2>1
<1>2. CASE k <= -1
  <2>1. k * m <= (-1) * m /\ k * m \in Int
    BY <1>2
  <2> QED
    BY <2>1
<1>3. CASE k = 0
  BY <1>3
<1> QED
  BY <1>1, <1>2, <1>3

\* The rest of a sum is that of the sum of the rests.
LEMMA SumRest ==
  ASSUME NEW m \in Nat \ {0}, NEW h \in Nat, NEW e \in Nat
  PROVE  (h + e) % m \in 0..(m - 1) /\ ((h % m) + e) % m = (h + e) % m
<1> DEFINE q == h \div m
<1> DEFINE r == h % m
<1> DEFINE u == (h + e) \div m
<1> DEFINE v == (h + e) % m
<1> DEFINE w == (r + e) \div m
<1> DEFINE z == (r + e) % m
<1>1. q \in Int /\ r \in 0..(m - 1) /\ h = m * q + r
  OBVIOUS
<1>2. u \in Int /\ v \in 0..(m - 1) /\ h + e = m * u + v
  OBVIOUS
<1> HIDE DEF q, r, u, v
<1>3. w \in Int /\ z \in 0..(m - 1) /\ r + e = m * w + z
  <2>1. r + e \in Int
    BY <1>1
  <2> QED
    BY <2>1, QuotientAndRest
<1> HIDE DEF w, z
<1>4. (u - (q + w)) * m = m * u - (m * q + m * w)
  BY <1>1, <1>2, <1>3
<1>5. m * u \in Int /\ m * q \in Int /\ m * w \in Int /\ u - (q + w) \in Int
  BY <1>1, <1>2, <1>3
<1>6. z = v + (u - (q + w)) * m
  BY <1>1, <1>2, <1>3, <1>4, <1>5
<1>7. z = v
  BY <1>2, <1>3, <1>5, <1>6, RestsDiffer
<1> QED
  BY <1>2, <1>7 DEF v, z, r

\* From one place, two steps shorter than m lead to two rests.
LEMMA SameRest ==
  ASSUME NEW m \in Nat \ {0}, NEW h \in Nat, NEW d \in 0..(m - 1), NEW e \in 0..(m - 1),
         (h + d) % m = (h + e) % m
  PROVE  d = e
<1> DEFINE u == (h + d) \div m
<1> DEFINE v == (h + d) % m
<1> DEFINE w == (h + e) \div m
<1>1. u \in Int /\ v \in 0..(m - 1) /\ h + d = m * u + v
  OBVIOUS
<1>2. w \in Int /\ h + e = m * w + v
  OBVIOUS
<1> HIDE DEF u, v, w
<1>3. (u - w) * m = m * u - m * w /\ m * u \in Int /\ m * w \in Int /\ u - w \in Int
  BY <1>1, <1>2
<1>4. d = e + (u - w) * m
  BY <1>1, <1>2, <1>3
<1> QED
  BY <1>3, <1>4, RestsDiffer

\* The loop finds a signal of the table, but for one that shares the last slot.
LEMMA SignalFound ==
  ASSUME CircuitInv, LastSlotIsNotShared, NEW k \in Signals
  PROVE  \E p \in getInputSignalHashPosition(fnv1a[k]) : circuit.InputHashMap[p] = k
<1> DEFINE h == fnv1a[k]
<1> DEFINE slot(d) == (h + d) % n
<1>1. n \in Nat \ {0, 1} /\ h \in Nat \ {0} /\ h % n \in 0..(n - 1) /\ k # NoKey
  <2>1. k \in Key /\ h \in Hashes
    BY DEF CircuitInv
  <2>2. n \in Nat \ {0, 1} /\ h \in Nat \ {0} /\ k # NoKey
    BY <2>1, CalcWitAssumption
  <2> HIDE DEF h
  <2>3. h % n \in 0..(n - 1)
    BY <2>2
  <2> QED
    BY <2>2, <2>3
<1>2. PICK d \in 0..(n - 1) :
        /\ \A p \in 0..(n - 1) : circuit.InputHashMap[p] = k <=> p = slot(d)
        /\ \A e \in 0..(d - 1) : circuit.InputHashMap[slot(e)] # NoKey
  BY DEF CircuitInv, Tables
<1>3. \A e \in 0..(n - 1) : slot(e) \in 0..(n - 1) /\ ((h % n) + e) % n = slot(e)
  <2> SUFFICES ASSUME NEW e \in 0..(n - 1)
               PROVE  slot(e) \in 0..(n - 1) /\ ((h % n) + e) % n = slot(e)
    OBVIOUS
  <2>1. e \in Nat
    BY <1>1
  <2> HIDE DEF h
  <2> QED
    BY <1>1, <2>1, SumRest
<1>4. \A e \in 0..d : probe(h, e) = slot(e)
  <2> SUFFICES ASSUME NEW e \in 0..d PROVE probe(h, e) = slot(e)
    OBVIOUS
  <2>1. e \in 0..(n - 1) /\ slot(0) = h % n
    BY <1>1
  <2>2. CASE e # 1
    BY <1>3, <2>1, <2>2 DEF probe
  <2>3. CASE e = 1 /\ h % n # n - 1
    <3>1. (h % n) + 1 \in 0..(n - 1)
      BY <1>1, <2>3
    <3>2. ((h % n) + 1) % n = (h % n) + 1
      BY <1>1, <3>1, SmallRest
    <3> QED
      BY <1>3, <2>1, <2>3, <3>2 DEF probe
  <2>4. CASE e = 1 /\ h % n = n - 1
    <3>1. circuit.InputHashMap[n - 1] = k
      BY <2>4 DEF LastSlotIsNotShared, Signals
    <3>2. n - 1 = slot(d)
      BY <1>1, <1>2, <3>1
    <3>3. slot(0) = h % n /\ 0 \in 0..(n - 1)
      BY <1>1
    <3>4. d = 0
      <4>1. (h + d) % n = (h + 0) % n
        BY <2>4, <3>2, <3>3
      <4> HIDE DEF h
      <4> QED
        BY <1>1, <3>3, <4>1, SameRest
    <3> QED
      BY <2>4, <3>4
  <2> QED
    BY <2>2, <2>3, <2>4
<1>5. ASSUME NEW e \in 0..d
      PROVE  /\ probe(h, e) \in 0..(n - 1)
             /\ e = d => SlotHash(probe(h, e)) = h
             /\ e < d => SlotHash(probe(h, e)) # h /\ SlotHash(probe(h, e)) # 0
  <2>1. e \in 0..(n - 1) /\ probe(h, e) = slot(e) /\ slot(e) \in 0..(n - 1) /\ slot(e) # n
    BY <1>1, <1>3, <1>4
  <2> DEFINE l == circuit.InputHashMap[slot(e)]
  <2>2. e = d => l = k
    BY <1>2, <2>1
  <2>3. e < d => l # NoKey
    BY <1>1, <1>2
  <2>4. l \in Signals \cup {NoKey}
    BY <2>1 DEF CircuitInv
  <2>5. e < d => l # k
    <3>1. ASSUME e < d, l = k PROVE FALSE
      <4>1. slot(e) = slot(d)
        BY <1>2, <2>1, <3>1
      <4>2. e = d
        BY <1>1, <2>1, <4>1, SameRest
      <4> QED
        BY <1>1, <3>1, <4>2
    <3> QED
      BY <3>1
  <2>6. SlotHash(slot(e)) = IF l = NoKey THEN 0 ELSE fnv1a[l]
    BY <2>1 DEF SlotHash
  <2>7. l \in Signals => fnv1a[l] # 0
    <3>1. l \in Signals => fnv1a[l] \in Hashes
      BY DEF CircuitInv
    <3> QED
      BY <3>1, CalcWitAssumption
  <2>8. l \in Signals /\ l # k => fnv1a[l] # h
    BY DEF CircuitInv
  <2> HIDE DEF l
  <2> QED
    BY <1>1, <2>1, <2>2, <2>3, <2>4, <2>5, <2>6, <2>7, <2>8
<1>6. d \in 0..d /\ (\A e \in 0..(d - 1) : e \in 0..d /\ e < d)
      /\ (\A e \in 1..(d - 1) : e \in 0..d /\ e < d)
  BY <1>1
<1>7. probe(h, d) \in getInputSignalHashPosition(h)
  BY <1>5, <1>6 DEF getInputSignalHashPosition
<1>8. circuit.InputHashMap[probe(h, d)] = k
  BY <1>2, <1>3, <1>4, <1>6
<1> QED
  BY <1>7, <1>8

\* While an object that has the circuit's signals is loaded, the values set are
\* those of the keys before the current one, and the first i of that one.
IsSet(m, x) == m < it \/ (m = it /\ pc = "set" /\ x < i)
GoodObjectInv ==
  GoodObject /\ LastSlotIsNotShared =>
    /\ IsLoaded
    /\ pc = "witness" => it = Len(Keys) + 1
    /\ \A m \in 1..Len(Keys) : Keys[m] \in Signals =>
         \A x \in 0..(circuit.size[Keys[m]] - 1) : Assigned(<<Keys[m], x>>) <=> IsSet(m, x)

\* The loop finds the signal of the key in hand, and no other.
LEMMA GoodKeyFound ==
  ASSUME CircuitInv, PlaceInv, GoodObject, LastSlotIsNotShared, it <= Len(Keys)
  PROVE  /\ Keys[it] \in Signals /\ circuit.size[Keys[it]] = j[Keys[it]]
         /\ getInputSignalHashPosition(keyHash) # {}
         /\ \A p \in getInputSignalHashPosition(keyHash) : circuit.InputHashMap[p] = Keys[it]
<1>1. Keys[it] \in Signals /\ circuit.size[Keys[it]] = j[Keys[it]]
  BY KeyInHand DEF GoodObject, Signals
<1>2. PICK p \in getInputSignalHashPosition(keyHash) : circuit.InputHashMap[p] = Keys[it]
  BY <1>1, SignalFound DEF keyHash
<1>3. keyHash \in Hashes
  BY KeyInHand
<1> QED
  BY <1>1, <1>2, <1>3, SlotFound

\* Its next value has not been set.
LEMMA GoodValueIsFree ==
  ASSUME LoadInv, GoodObjectInv, GoodObject, LastSlotIsNotShared, pc = "set", i < j[Keys[it]]
  PROVE  /\ <<Keys[it], i>> \in Inputs /\ MayAssign(<<Keys[it], i>>)
         /\ i \in 0..(circuit.size[Keys[it]] - 1)
<1>1. LoadTypeOK /\ CircuitInv /\ PlaceInv /\ it <= Len(Keys)
  BY DEF LoadInv, PlaceInv
<1>2. Keys[it] \in Signals /\ circuit.size[Keys[it]] = j[Keys[it]] /\ j[Keys[it]] \in Nat
  BY <1>1, GoodKeyFound, KeyInHand
<1>3. it \in 1..Len(Keys) /\ i \in 0..(circuit.size[Keys[it]] - 1)
  BY <1>1, <1>2, CalcWitAssumption DEF LoadTypeOK
<1>4. <<Keys[it], i>> \in Inputs
  BY <1>1, <1>2, <1>3, InputsAre DEF CircuitInv, Signals
<1>5. ~IsSet(it, i)
  BY <1>3 DEF IsSet
<1>6. ~Assigned(<<Keys[it], i>>)
  BY <1>2, <1>3, <1>5 DEF GoodObjectInv
<1>7. inputSignalAssignedCounter > 0
  <2>1. IsFiniteSet({x \in Inputs : ~Assigned(x)})
    BY <1>1, UnassignedFinite
  <2>2. {x \in Inputs : ~Assigned(x)} # {}
    BY <1>4, <1>6
  <2>3. Cardinality({x \in Inputs : ~Assigned(x)}) \in Nat \ {0}
    BY <2>1, <2>2, FS_CardinalityType, FS_EmptySet
  <2> QED
    BY <1>1, <2>3 DEF LoadTypeOK
<1> QED
  BY <1>3, <1>4, <1>6, <1>7 DEF MayAssign

\* No key of it is refused, and each adds its values to those that are set.
LEMMA GoodObjectStep == LoadInv /\ GoodObjectInv /\ [LoadNext]_loadVars => GoodObjectInv'
<1> SUFFICES ASSUME LoadInv, GoodObjectInv, [LoadNext]_loadVars, (GoodObject /\ LastSlotIsNotShared)'
               PROVE  /\ IsLoaded'
                      /\ (pc = "witness" => it = Len(Keys) + 1)'
                      /\ \A m \in 1..Len(Keys) : Keys[m] \in Signals' =>
                           \A x \in 0..(circuit'.size[Keys[m]] - 1) :
                             Assigned(<<Keys[m], x>>)' <=> IsSet(m, x)'
  BY DEF GoodObjectInv
<1>1. LoadTypeOK /\ CircuitInv /\ PlaceInv
  BY DEF LoadInv
<1>2. UNCHANGED <<circuit, fnv1a, j>>
  BY DEF LoadNext, loadVars, LookUpKey, SetInputSignal, SetInputSignalAborts, NextKey, Loaded, LoadEnded
<1>3. GoodObject /\ LastSlotIsNotShared /\ Signals' = Signals
  BY <1>2 DEF GoodObject, LastSlotIsNotShared, Signals
<1>4. /\ IsLoaded /\ (pc = "witness" => it = Len(Keys) + 1)
      /\ \A m \in 1..Len(Keys) : Keys[m] \in Signals =>
           \A x \in 0..(circuit.size[Keys[m]] - 1) : Assigned(<<Keys[m], x>>) <=> IsSet(m, x)
  BY <1>3 DEF GoodObjectInv
<1>0. \A u, v, z \in Int : u < z /\ z < v => z \in (u + 1)..(v - 1)
  OBVIOUS
<1>5. Len(Keys) \in Nat /\ it \in 1..(Len(Keys) + 1) /\ i \in Nat
  BY <1>1, CalcWitAssumption DEF LoadTypeOK
<1>6. CASE LookUpKey
  <2>1. pc = "key" /\ it <= Len(Keys) /\ it' = it /\ i' = 0 /\ signalValues' = signalValues
    BY <1>6 DEF LookUpKey
  <2>2. pc' = "set"
    BY <1>1, <1>3, <1>6, <2>1, GoodKeyFound DEF LookUpKey
  <2>3. \A m \in 1..Len(Keys), x \in Nat : IsSet(m, x)' <=> IsSet(m, x)
    BY <1>5, <2>1, <2>2 DEF IsSet
  <2>4. \A x : Assigned(x)' <=> Assigned(x)
    BY <2>1 DEF Assigned
  <2>5. \A m : \A x \in 0..(circuit.size[m] - 1) : x \in Nat
    OBVIOUS
  <2> QED
    BY <1>2, <1>3, <1>4, <2>2, <2>3, <2>4, <2>5 DEF IsLoaded
<1>7. CASE SetInputSignal
  <2>1. pc = "set" /\ pc' = "set" /\ it' = it /\ i' = i + 1 /\ i < j[Keys[it]] /\ it <= Len(Keys)
    BY <1>1, <1>7 DEF SetInputSignal, PlaceInv
  <2>2. /\ Keys[it] \in Signals
        /\ \A p \in getInputSignalHashPosition(keyHash) : circuit.InputHashMap[p] = Keys[it]
    BY <1>1, <1>3, <2>1, GoodKeyFound
  <2>3. signalValues' = [signalValues EXCEPT ![<<Keys[it], i>>] = Keys[it]] /\ <<Keys[it], i>> \in Inputs
    BY <1>3, <1>7, <2>1, <2>2, GoodValueIsFree DEF SetInputSignal
  <2>4. Keys[it] # NoKey
    BY <1>1, <2>1, KeyInHand, CalcWitAssumption
  <2>5. ASSUME NEW m \in 1..Len(Keys), Keys[m] \in Signals,
               NEW x \in 0..(circuit.size[Keys[m]] - 1)
        PROVE  Assigned(<<Keys[m], x>>)' <=> IsSet(m, x)'
    <3>1. <<Keys[m], x>> \in Inputs
      BY <1>1, <2>5, InputsAre DEF CircuitInv, Signals
    <3>2. Assigned(<<Keys[m], x>>)' <=> Assigned(<<Keys[m], x>>) \/ <<Keys[m], x>> = <<Keys[it], i>>
      BY <2>3, <2>4, <3>1 DEF Assigned, Inputs
    <3>3. <<Keys[m], x>> = <<Keys[it], i>> <=> m = it /\ x = i
      <4>1. it \in 1..Len(Keys)
        BY <1>5, <2>1
      <4> QED
        BY <4>1, KeysAssumption
    <3>4. IsSet(m, x)' <=> IsSet(m, x) \/ (m = it /\ x = i)
      <4>1. x \in Int
        OBVIOUS
      <4> QED
        BY <1>5, <2>1, <4>1 DEF IsSet
    <3>5. Assigned(<<Keys[m], x>>) <=> IsSet(m, x)
      BY <1>4, <2>5
    <3> QED
      BY <3>2, <3>3, <3>4, <3>5
  <2> QED
    BY <1>2, <1>3, <2>1, <2>5 DEF IsLoaded
<1>8. CASE SetInputSignalAborts
  <2>1. pc = "set" /\ i < j[Keys[it]] /\ it <= Len(Keys)
    BY <1>1, <1>8 DEF SetInputSignalAborts, PlaceInv
  <2>2. \A p \in getInputSignalHashPosition(keyHash) : circuit.InputHashMap[p] = Keys[it]
    BY <1>1, <1>3, <2>1, GoodKeyFound
  <2>3. FALSE
    BY <1>3, <1>8, <2>1, <2>2, GoodValueIsFree DEF SetInputSignalAborts
  <2> QED
    BY <2>3
<1>9. CASE NextKey
  <2>1. pc = "set" /\ i = j[Keys[it]] /\ pc' = "key" /\ i' = i /\ signalValues' = signalValues
        /\ Follows(it, it') /\ it <= Len(Keys)
    BY <1>1, <1>9 DEF NextKey, PlaceInv
  <2>2. circuit.size[Keys[it]] = j[Keys[it]] /\ j[Keys[it]] \in Nat
    BY <1>1, <1>3, <2>1, GoodKeyFound, KeyInHand
  <2>3. ASSUME NEW m \in 1..Len(Keys), Keys[m] \in Signals,
               NEW x \in 0..(circuit.size[Keys[m]] - 1)
        PROVE  Assigned(<<Keys[m], x>>)' <=> IsSet(m, x)'
    <3>1. Assigned(<<Keys[m], x>>)' <=> Assigned(<<Keys[m], x>>)
      BY <2>1 DEF Assigned
    <3>2. m = it => x < i
      BY <2>1, <2>2
    <3>3. IsSet(m, x) <=> m <= it
      BY <1>5, <2>1, <3>2 DEF IsSet
    <3>4. ~(it < m /\ m < it')
      <4>1. Keys[m] \in DOMAIN j
        BY <1>3, <2>3 DEF GoodObject, Signals
      <4>2. it' \in (it + 1)..(Len(Keys) + 1)
        BY <2>1 DEF Follows
      <4>5. \A y \in (it + 1)..(it' - 1) : Keys[y] \notin DOMAIN j
        BY <2>1 DEF Follows
      <4>3. m \in Int /\ it \in Int /\ it' \in Int
        <5>1. Len(Keys) \in Int /\ it \in Int
          BY <1>5
        <5>2. m \in Int
          BY <5>1
        <5>3. it' \in Int
          BY <4>2, <5>1
        <5> QED
          BY <5>1, <5>2, <5>3
      <4>4. it < m /\ m < it' => m \in (it + 1)..(it' - 1)
        BY <1>0, <4>3, Zenon
      <4> QED
        BY <4>1, <4>4, <4>5
    <3>5. IsSet(m, x)' <=> m < it'
      BY <2>1 DEF IsSet
    <3>6. it' > it /\ it' \in Int
      BY <1>5, <2>1 DEF Follows
    <3>7. m <= it <=> m < it'
      BY <1>5, <3>4, <3>6
    <3> QED
      BY <1>4, <2>3, <3>1, <3>3, <3>5, <3>7
  <2> QED
    BY <1>2, <1>3, <2>1, <2>3 DEF IsLoaded
<1>10. CASE Loaded
  <2>1. pc = "key" /\ it > Len(Keys) /\ it' = it /\ i' = i /\ signalValues' = signalValues
    BY <1>10 DEF Loaded
  <2>2. it = Len(Keys) + 1
    BY <1>5, <2>1
  <2>3. ASSUME NEW input \in Inputs
        PROVE  Assigned(input)
    <3>1. PICK k \in Signals : \E x \in 0..(circuit.size[k] - 1) : input = <<k, x>>
      BY <1>1, InputsArePairs DEF CircuitInv, Signals
    <3>2. PICK m \in 1..Len(Keys) : k = Keys[m]
      BY <1>1 DEF CircuitInv, Key
    <3>3. \A x : IsSet(m, x)
      BY <1>5, <2>2 DEF IsSet
    <3> QED
      BY <1>4, <3>1, <3>2, <3>3
  <2>4. inputSignalAssignedCounter = 0
    BY <2>3, NoneLeft
  <2>5. pc' = "witness"
    BY <1>10, <2>4 DEF Loaded, CheckRemainingInputs
  <2>6. \A m, x : IsSet(m, x)' <=> IsSet(m, x)
    BY <2>1, <2>5 DEF IsSet
  <2>7. \A x : Assigned(x)' <=> Assigned(x)
    BY <2>1 DEF Assigned
  <2> QED
    BY <1>2, <1>3, <1>4, <2>1, <2>2, <2>5, <2>6, <2>7 DEF IsLoaded
<1>11. CASE UNCHANGED loadVars
  <2>1. UNCHANGED <<pc, it, i, signalValues>>
    BY <1>11 DEF loadVars
  <2>2. (\A m, x : IsSet(m, x)' <=> IsSet(m, x)) /\ \A x : Assigned(x)' <=> Assigned(x)
    BY <2>1 DEF IsSet, Assigned
  <2> QED
    BY <1>2, <1>3, <1>4, <2>1, <2>2 DEF IsLoaded
<1> QED
  BY <1>6, <1>7, <1>8, <1>9, <1>10, <1>11 DEF LoadNext, LoadEnded

\* An object with the signals of the circuit, in their sizes, is loaded to the end,
\* whatever the order of its keys and the table, if no signal shares its last slot.
THEOREM GoodObjects == LoadSpec => []GoodObjectIsLoaded
<1>1. LoadInit => GoodObjectInv
  <2> SUFFICES ASSUME LoadInit, GoodObject PROVE GoodObjectInv
    BY DEF GoodObjectInv
  <2>1. LoadInv
    BY LoadInitInv
  <2>2. /\ pc = "key" /\ Follows(0, it) /\ it \in 1..(Len(Keys) + 1) /\ Len(Keys) \in Nat
        /\ signalValues = [input \in Inputs |-> NoKey]
    BY CalcWitAssumption DEF LoadInit, Inputs
  <2>3. ASSUME NEW m \in 1..Len(Keys), Keys[m] \in Signals,
               NEW x \in 0..(circuit.size[Keys[m]] - 1)
        PROVE  ~Assigned(<<Keys[m], x>>) /\ ~IsSet(m, x)
    <3>1. <<Keys[m], x>> \in Inputs
      BY <2>1, <2>3, InputsAre DEF LoadInv, CircuitInv, Signals
    <3>2. Keys[m] \in DOMAIN j
      BY <2>3 DEF GoodObject, Signals
    <3>3. ~(m < it)
      BY <2>2, <3>2 DEF Follows
    <3> QED
      BY <2>2, <3>1, <3>3 DEF Assigned, IsSet
  <2> QED
    BY <2>2, <2>3 DEF GoodObjectInv, IsLoaded
<1>2. GoodObjectInv => GoodObjectIsLoaded
  BY DEF GoodObjectInv, GoodObjectIsLoaded
<1> QED
  BY LoadInvariant, GoodObjectStep, <1>1, <1>2, PTL DEF LoadSpec
=============================================================================
