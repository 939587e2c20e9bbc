------------------------- MODULE ThreadManagerProofs -------------------------
(* That stopThreads returns only when every thread has returned, for every *)
(* number of threads and whichever of them can fail.                       *)
EXTENDS ThreadManager, FiniteSetTheorems, TLAPS

\* The threads that have returned are a finite set of at most N, and all of
\* them if they are N.
LEMMA ReturnedSize ==
  ASSUME NEW S \in SUBSET Threads
  PROVE  /\ IsFiniteSet(S) /\ Cardinality(S) \in 0..N
         /\ Cardinality(S) >= N => S = Threads
<1>1. N \in Nat BY ThreadManagerAssumption
<1>2. IsFiniteSet(Threads) /\ Cardinality(Threads) = N
  BY <1>1, FS_Interval DEF Threads
<1>3. IsFiniteSet(S) /\ Cardinality(S) <= N
  BY <1>2, FS_Subset
<1>4. Cardinality(S) \in Nat BY <1>3, FS_CardinalityType
<1>5. S # Threads => Cardinality(S) # N
  BY <1>2, FS_Subset
<1> QED BY <1>1, <1>3, <1>4, <1>5

\* A thread more has returned.
LEMMA OneMore ==
  ASSUME NEW S \in SUBSET Threads, NEW t \in Threads \ S
  PROVE  Cardinality(S \cup {t}) = Cardinality(S) + 1
BY ReturnedSize, FS_AddElement

\* The step of a thread that has no notification keeps the invariant, if no
\* thread is new or returned that was not, nor the other way round.
LEMMA SameReturned ==
  ASSUME IInv, TypeOK', UNCHANGED <<caller, next, activeThreads>>,
         \A t \in Threads : /\ run'[t] = "new" <=> run[t] = "new"
                            /\ run'[t] = "returned" <=> run[t] = "returned"
  PROVE  IInv'
<1>1. Returned' = Returned BY DEF Returned
<1>2. StartedInv' BY DEF IInv, StartedInv
<1>3. CountInv' BY DEF IInv, CountInv
<1>4. WokenInv' BY <1>1 DEF IInv, WokenInv
<1> QED BY <1>2, <1>3, <1>4 DEF IInv

\* setRunning, keepWorking, leaveLoop, fail and notifyClosed keep it.
LEMMA ThreadInv ==
  ASSUME IInv, NEW t \in Threads, thread(t)
  PROVE  IInv'
<1>1. CASE setRunning(t)
  <2>1. TypeOK' BY <1>1 DEF IInv, TypeOK, setRunning
  <2> QED BY <1>1, <2>1, SameReturned DEF IInv, TypeOK, setRunning
<1>2. CASE keepWorking(t)
  <2>1. TypeOK' BY <1>2 DEF IInv, TypeOK, keepWorking, vars
  <2> QED BY <1>2, <2>1, SameReturned DEF keepWorking, vars
<1>3. CASE leaveLoop(t)
  <2>1. TypeOK' BY <1>3 DEF IInv, TypeOK, leaveLoop
  <2> QED BY <1>3, <2>1, SameReturned DEF IInv, TypeOK, leaveLoop
<1>4. CASE fail(t)
  <2>1. TypeOK' BY <1>4 DEF IInv, TypeOK, fail
  <2> QED BY <1>4, <2>1, SameReturned DEF IInv, TypeOK, fail
<1>5. CASE notifyClosed(t)
  <2>1. TypeOK' BY <1>5 DEF IInv, TypeOK, notifyClosed
  <2>2. t \notin Returned /\ Returned' = Returned \cup {t}
    BY <1>5 DEF notifyClosed, Returned, IInv, TypeOK
  <2>3. Cardinality(Returned') = Cardinality(Returned) + 1
    BY <2>2, OneMore DEF Returned
  <2>4. Cardinality(Returned) \in Nat BY ReturnedSize DEF Returned
  <2>5. StartedInv'
    BY <1>5 DEF notifyClosed, LockFree, StartedInv, IInv, TypeOK
  <2>6. CountInv'
    BY <1>5 DEF notifyClosed, LockFree, CountInv, IInv, TypeOK
  <2>7. WokenInv'
    <3>1. CASE caller = "waiting"
      BY <1>5, <2>3, <2>4, <3>1 DEF notifyClosed, WokenInv, IInv, TypeOK
    <3>2. CASE caller # "waiting"
      BY <1>5, <2>2, <2>3, <2>4, <3>2
         DEF notifyClosed, LockFree, WokenInv, IInv, TypeOK, Returned
    <3> QED BY <3>1, <3>2
  <2> QED BY <2>1, <2>5, <2>6, <2>7 DEF IInv
<1> QED BY <1>1, <1>2, <1>3, <1>4, <1>5 DEF thread

\* The steps of startThreads and of stopThreads keep it.
LEMMA ManagerInv ==
  ASSUME IInv, manager
  PROVE  IInv'
<1>0. /\ Cardinality(Returned) \in Nat
      /\ Cardinality(Returned) >= N => Returned = Threads
  <2>1. Returned \in SUBSET Threads BY DEF Returned
  <2> QED BY <2>1, ReturnedSize
<1> USE ThreadManagerAssumption DEF Threads
<1>1. CASE startNext
  <2>1. TypeOK' BY <1>1 DEF IInv, TypeOK, CountInv, startNext
  <2>2. StartedInv' BY <1>1 DEF IInv, TypeOK, StartedInv, startNext
  <2>3. CountInv' BY <1>1 DEF IInv, TypeOK, CountInv, startNext
  <2>4. WokenInv' BY <1>1 DEF WokenInv, startNext
  <2> QED BY <2>1, <2>2, <2>3, <2>4 DEF IInv
<1>2. CASE startDone
  <2>1. TypeOK' BY <1>2 DEF IInv, TypeOK, startDone
  <2>2. \A t \in Threads : run[t] # "new"
    BY <1>2 DEF IInv, TypeOK, StartedInv, startDone
  <2>3. StartedInv' BY <1>2, <2>2 DEF StartedInv, startDone
  <2>4. CountInv' BY <1>2, <2>2 DEF IInv, TypeOK, CountInv, startDone
  <2>5. WokenInv' BY <1>2 DEF WokenInv, startDone
  <2> QED BY <2>1, <2>3, <2>4, <2>5 DEF IInv
<1>3. CASE stopNext
  <2>1. TypeOK' BY <1>3 DEF IInv, TypeOK, stopNext
  <2>2. StartedInv' BY <1>3 DEF IInv, StartedInv, stopNext
  <2>3. CountInv' BY <1>3 DEF IInv, TypeOK, CountInv, stopNext
  <2>4. Returned' = Returned BY <1>3 DEF Returned, stopNext
  <2>5. WokenInv' BY <1>3, <2>4 DEF IInv, WokenInv, stopNext
  <2> QED BY <2>1, <2>2, <2>3, <2>5 DEF IInv
<1>4. CASE stopped
  <2>1. next \in 1..N /\ activeThreads = N + 1 - next
    BY <1>4 DEF IInv, TypeOK, CountInv, stopped
  <2>2. activeThreads' = N - next
    BY <1>4, <2>1 DEF stopped, counted
  <2>3. TypeOK' BY <1>4, <2>1, <2>2 DEF IInv, TypeOK, stopped
  <2>4. StartedInv' BY <1>4 DEF IInv, StartedInv, stopped
  <2>5. CountInv' BY <1>4, <2>1, <2>2 DEF CountInv, stopped
  <2>6. Returned' = Returned BY <1>4 DEF Returned, stopped
  <2>7. WokenInv' BY <1>0, <1>4, <2>1, <2>6 DEF IInv, WokenInv, stopped
  <2> QED BY <2>3, <2>4, <2>5, <2>7 DEF IInv
<1>5. CASE stopDone
  <2>1. TypeOK' BY <1>5 DEF IInv, TypeOK, stopDone
  <2>2. StartedInv' BY <1>5 DEF IInv, StartedInv, stopDone
  <2>3. CountInv' BY <1>5 DEF IInv, TypeOK, CountInv, stopDone
  <2>4. Returned' = Returned BY <1>5 DEF Returned, stopDone
  <2>5. WokenInv' BY <1>0, <1>5, <2>4 DEF IInv, WokenInv, stopDone
  <2> QED BY <2>1, <2>2, <2>3, <2>5 DEF IInv
<1> QED BY <1>1, <1>2, <1>3, <1>4, <1>5 DEF manager

\* The invariant holds from the start and is kept by every step.
THEOREM Invariance == Spec => []IInv
<1>1. Init => IInv
  BY ThreadManagerAssumption
     DEF Init, IInv, TypeOK, StartedInv, CountInv, WokenInv
<1>2. ASSUME IInv, [Next]_vars
      PROVE  IInv'
  <2> USE <1>2
  <2>1. CASE startThreads
    <3>1. TypeOK' BY <2>1, ThreadManagerAssumption DEF IInv, TypeOK, startThreads
    <3>2. StartedInv'
      BY <2>1, ThreadManagerAssumption DEF StartedInv, startThreads, Threads
    <3>3. CountInv'
      BY <2>1, ThreadManagerAssumption
         DEF IInv, CountInv, startThreads, Threads
    <3>4. WokenInv' BY <2>1 DEF WokenInv, startThreads
    <3> QED BY <3>1, <3>2, <3>3, <3>4 DEF IInv
  <2>2. CASE stopThreads
    <3>1. TypeOK' BY <2>2, ThreadManagerAssumption DEF IInv, TypeOK, stopThreads
    <3>2. StartedInv' BY <2>2 DEF StartedInv, stopThreads
    <3>3. CountInv'
      BY <2>2, ThreadManagerAssumption
         DEF IInv, CountInv, stopThreads, Threads
    <3>4. Cardinality(Returned') \in Nat BY <3>1, ReturnedSize DEF Returned
    <3>5. WokenInv' BY <2>2, <3>4 DEF WokenInv, stopThreads
    <3> QED BY <3>1, <3>2, <3>3, <3>5 DEF IInv
  <2>3. CASE addThreads
    <3>1. TypeOK' BY <2>3 DEF IInv, TypeOK, addThreads
    <3>2. StartedInv' BY <2>3 DEF StartedInv, addThreads
    <3>3. CountInv' BY <2>3 DEF IInv, CountInv, addThreads
    <3>4. WokenInv' BY <2>3 DEF WokenInv, addThreads
    <3> QED BY <3>1, <3>2, <3>3, <3>4 DEF IInv
  <2>4. CASE manager BY <2>4, ManagerInv
  <2>5. ASSUME NEW t \in Threads, thread(t)
        PROVE  IInv'
    BY <2>5, ThreadInv
  <2>6. CASE UNCHANGED vars
    <3>1. TypeOK' BY <2>6 DEF IInv, TypeOK, vars
    <3> QED BY <2>6, <3>1, SameReturned DEF vars
  <2> QED BY <2>1, <2>2, <2>3, <2>4, <2>5, <2>6 DEF Next
<1> QED BY <1>1, <1>2, PTL DEF Spec

\* Every variable of the manager and its threads keeps its type: the count of
\* active threads stays between zero and their number.
THEOREM CountInRange == Spec => []TypeOK
<1>1. IInv => TypeOK BY DEF IInv
<1> QED BY <1>1, Invariance, PTL

\* When stopThreads returns, every thread has returned.
THEOREM StopIsComplete == Spec => []StopMeansReturned
<1>1. IInv => StopMeansReturned
  BY DEF IInv, CountInv, WokenInv, StopMeansReturned, Returned
<1> QED BY <1>1, Invariance, PTL

=============================================================================
