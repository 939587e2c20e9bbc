---------------------------- MODULE ThreadManager ----------------------------
(***************************************************************************)
(* The threads of a component and the manager that starts and stops them   *)
(* (multithreading/managed_thread.py, multithreading/thread_manager.py),   *)
(* driven as bevali.py drives them: start, stop, and for the mining thread *)
(* a new thread before the next start.                                     *)
(*                                                                         *)
(* closeSignal is a condition variable on the manager's lock: its wait     *)
(* gives the lock up, and a notification that finds nobody waiting is      *)
(* gone.  What a thread does between two looks at its status is left out.  *)
(***************************************************************************)
EXTENDS Integers, FiniteSets

CONSTANTS
  N,         \* the number of threads, which are stopped in the order 1..N
  MayFail,   \* the threads whose target can end in an exception
  MaxRounds  \* bound: the number of times the threads are started

Threads == 1..N

ASSUME ThreadManagerAssumption ==
  N \in Nat \ {0} /\ MayFail \subseteq Threads /\ MaxRounds \in Nat

VARIABLES
  status,        \* what a thread's status says
  run,           \* where a thread really is
  caller,        \* where the thread that starts and stops the others is
  next,          \* the thread that the caller starts or stops next
  activeThreads, \* the manager's count
  rounds         \* the number of starts so far

vars == <<status, run, caller, next, activeThreads, rounds>>

Init ==
  /\ status = [t \in Threads |-> "INIT"]
  /\ run = [t \in Threads |-> "new"]
  /\ caller = "idle" /\ next = 1
  /\ activeThreads = 0
  /\ rounds = 0

\* The lock is the caller's while it starts threads, and while it stops them
\* except that wait gives it up.
LockFree == caller \notin {"starting", "stopping"}

-----------------------------------------------------------------------------
(* A managed thread: ManagedThread.run and the loop of its target.         *)

\* The first thing run does, whatever status stop has set before.
setRunning(t) ==
  /\ run[t] = "started"
  /\ status' = [status EXCEPT ![t] = "RUNNING"]
  /\ run' = [run EXCEPT ![t] = "running"]
  /\ UNCHANGED <<caller, next, activeThreads, rounds>>

\* The loop of the target sees its status.
leaveLoop(t) ==
  /\ run[t] = "running" /\ status[t] = "STOPPING"
  /\ run' = [run EXCEPT ![t] = "finally"]
  /\ UNCHANGED <<status, caller, next, activeThreads, rounds>>

\* The target ends in an exception, as rxThread does when it cannot bind.
fail(t) ==
  /\ t \in MayFail /\ run[t] = "running"
  /\ status' = [status EXCEPT ![t] = "ERROR"]
  /\ run' = [run EXCEPT ![t] = "finally"]
  /\ UNCHANGED <<caller, next, activeThreads, rounds>>

\* Mutant: the wrong condition variable.
notifyNobody(t) ==
  /\ run[t] = "finally" /\ LockFree
  /\ run' = [run EXCEPT ![t] = "returned"]
  /\ UNCHANGED <<status, caller, next, activeThreads, rounds>>

\* The finally clause: it takes the lock of closeSignal and notifies.
notifyClosed(t) ==
  /\ run[t] = "finally" /\ LockFree
  /\ run' = [run EXCEPT ![t] = "returned"]
  /\ caller' = IF caller = "waiting" THEN "notified" ELSE caller
  /\ UNCHANGED <<status, next, activeThreads, rounds>>

\* The loop goes round.
keepWorking(t) ==
  run[t] = "running" /\ status[t] # "STOPPING" /\ UNCHANGED vars

thread(t) ==
  \/ setRunning(t) \/ keepWorking(t) \/ leaveLoop(t) \/ fail(t)
  \/ notifyClosed(t)

-----------------------------------------------------------------------------
(* The thread that calls startThreads and stopThreads.                     *)

startThreads ==
  /\ caller = "idle" /\ rounds < MaxRounds
  /\ \A t \in Threads : run[t] = "new"
  /\ caller' = "starting" /\ next' = 1 /\ rounds' = rounds + 1
  /\ UNCHANGED <<status, run, activeThreads>>

startNext ==
  /\ caller = "starting" /\ next \in Threads
  /\ run' = [run EXCEPT ![next] = "started"]
  /\ activeThreads' = activeThreads + 1
  /\ next' = next + 1
  /\ UNCHANGED <<status, caller, rounds>>

startDone ==
  /\ caller = "starting" /\ next = N + 1
  /\ caller' = "idle"
  /\ UNCHANGED <<status, run, next, activeThreads, rounds>>

stopThreads ==
  /\ caller = "idle" /\ \A t \in Threads : run[t] # "new"
  /\ caller' = "stopping" /\ next' = 1
  /\ UNCHANGED <<status, run, activeThreads, rounds>>

\* Mutant: no wait.
stopNextAtOnce ==
  /\ caller = "stopping" /\ next \in Threads
  /\ status' = [status EXCEPT ![next] = "STOPPING"]
  /\ next' = next + 1
  /\ UNCHANGED <<run, caller, activeThreads, rounds>>

\* thread.stop() and closeSignal.wait()
stopNext ==
  /\ caller = "stopping" /\ next \in Threads
  /\ status' = [status EXCEPT ![next] = "STOPPING"]
  /\ caller' = "waiting"
  /\ UNCHANGED <<run, next, activeThreads, rounds>>

\* Mutant: the count is not kept.
uncounted(n) == n

counted(n) == IF n > 0 THEN n - 1 ELSE n

\* wait returns with the lock, and the thread is counted off.
stopped ==
  /\ caller = "notified"
  /\ activeThreads' = counted(activeThreads)
  /\ next' = next + 1
  /\ caller' = "stopping"
  /\ UNCHANGED <<status, run, rounds>>

\* stopThreads forgets the threads; stop_minning adds a new one.
stopDone ==
  /\ caller = "stopping" /\ next = N + 1
  /\ caller' = "returned"
  /\ UNCHANGED <<status, run, next, activeThreads, rounds>>

addThreads ==
  /\ caller = "returned"
  /\ caller' = "idle"
  /\ status' = [t \in Threads |-> "INIT"]
  /\ run' = [t \in Threads |-> "new"]
  /\ UNCHANGED <<next, activeThreads, rounds>>

manager == startNext \/ startDone \/ stopNext \/ stopped \/ stopDone

Next ==
  \/ startThreads \/ stopThreads \/ addThreads \/ manager
  \/ \E t \in Threads : thread(t)

Spec == Init /\ [][Next]_vars

\* The scheduler runs every thread and the caller once it is in a call.  The
\* application need not start or stop anything, and nothing has to fail.
Fairness ==
  /\ WF_vars(manager)
  /\ \A t \in Threads :
       WF_vars(setRunning(t) \/ leaveLoop(t) \/ notifyClosed(t))

LiveSpec == Spec /\ Fairness

-----------------------------------------------------------------------------
(* Properties.                                                             *)

\* The statuses and places are those of the code (ThreadStatus, ManagedThread),
\* and the manager never counts more threads than it has, however often they
\* are stopped and started again.
TypeOK ==
  /\ status \in [Threads -> {"INIT", "RUNNING", "STOPPING", "ERROR"}]
  /\ run \in [Threads -> {"new", "started", "running", "finally", "returned"}]
  /\ caller \in {"idle", "starting", "stopping", "waiting", "notified",
                 "returned"}
  /\ next \in 1..(N + 1)
  /\ activeThreads \in 0..N
  /\ rounds \in 0..MaxRounds

\* When stopThreads returns, every thread has returned and the count is zero,
\* so that sockets can be closed: though wait does not look at which thread
\* woke it, each thread wakes it at most once, and a failed one may do so out
\* of turn.
StopMeansReturned ==
  caller = "returned" =>
    activeThreads = 0 /\ \A t \in Threads : run[t] = "returned"

\* stopThreads returns when it is called with every thread in its loop, unless
\* one fails meanwhile: no notification comes before the wait that it is for.
StopReturns ==
  (caller = "stopping" /\ next = 1 /\ \A t \in Threads : run[t] = "running")
    ~> caller = "returned" \/ \E t \in MayFail : status[t] = "ERROR"

-----------------------------------------------------------------------------
(* The inductive invariant behind StopMeansReturned.                       *)

Returned == {t \in Threads : run[t] = "returned"}

\* Which threads have been started: those before next while they are being
\* started, and all or none of them otherwise.
StartedInv ==
  /\ caller = "starting" => \A t \in Threads : run[t] = "new" <=> t >= next
  /\ caller = "idle" => \/ \A t \in Threads : run[t] = "new"
                        \/ \A t \in Threads : run[t] # "new"
  /\ caller \notin {"starting", "idle"} => \A t \in Threads : run[t] # "new"

\* What the manager has counted.
CountInv ==
  /\ caller = "starting" => activeThreads = next - 1
  /\ caller = "idle" =>
       activeThreads = IF \A t \in Threads : run[t] = "new" THEN 0 ELSE N
  /\ caller \in {"stopping", "waiting", "notified"} =>
       activeThreads = N + 1 - next
  /\ caller \in {"waiting", "notified"} => next <= N
  /\ caller = "returned" => activeThreads = 0

\* Each wait that has ended was ended by a thread of its own.
WokenInv ==
  /\ caller \in {"stopping", "waiting"} => Cardinality(Returned) >= next - 1
  /\ caller = "notified" => Cardinality(Returned) >= next
  /\ caller = "returned" => Returned = Threads

IInv == TypeOK /\ StartedInv /\ CountInv /\ WokenInv

-----------------------------------------------------------------------------
(* What the users of the manager say of it and the code does not do.  The   *)
(* node, for one: "Stops all related threads" (bevali.py, 113), of a method *)
(* that ends in stopThreads.                                                *)

\* stopThreads returns, with all threads stopped, also when it comes so early
\* that a thread has not run its first line yet.
StopAlwaysReturns == caller = "stopping" ~> caller = "returned"

=============================================================================
