---------------------------- MODULE WaitCounter ----------------------------
(***************************************************************************)
(* The completion protocol of the thread pool: the main thread registers   *)
(* tasks on a WaitCounter (addBarrierTask increments it), the workers run  *)
(* them and decrement it (processTask, or handleTaskException after an     *)
(* exception), a follower task is blocked by the counter's done barrier    *)
(* (finishReconTask on m_ctuTaskCounter.donePtr()), and the main thread    *)
(* waits for the counter: with wait_nothrow() in Picture::waitForAllTasks, *)
(* with wait() in VVDecImpl::xAddGrain.                                    *)
(* A member function of WaitCounter is one step: it runs under m_lock.     *)
(***************************************************************************)
EXTENDS Integers, FiniteSets

CONSTANTS
  Tasks,     \* the tasks that share the counter
  MayThrow,  \* TRUE: a task's function or its ready check may throw
  CountMax   \* the largest unsigned value of m_count

ASSUME CounterAssumption ==
  /\ IsFiniteSet(Tasks)
  /\ MayThrow \in BOOLEAN
  /\ CountMax \in Nat /\ CountMax > Cardinality(Tasks)

VARIABLES
  task,      \* where each task is, see below
  count,     \* m_count
  locked,    \* m_done.m_lockState
  exc,       \* m_done.m_hasException
  follower,  \* the task behind donePtr(): "none", "waiting", "ran" or "failed"
  main,      \* the main thread, see below
  noThrow    \* it calls wait_nothrow(), not wait(); never changed

vars == <<task, count, locked, exc, follower, main, noThrow>>

(* A task:                                                                 *)
(*   new         not added                                                 *)
(*   waiting     in a slot, WAITING                                        *)
(*   running     a worker has it: RUNNING                                  *)
(*   thrown      its function or ready check threw                         *)
(*   flagged     handleTaskException has passed the exception on           *)
(*   decThrown   it succeeded, and the decrement threw                     *)
(*   decFlagged  handleTaskException has passed that exception on          *)
(*   done, failed   its slot is free again                                 *)
(* The main thread is "adding" tasks, "checking" the condition it waits    *)
(* for, "sleeping" in m_cond.wait, or has "returned" or "threw".           *)
Outstanding == {"waiting", "running", "thrown", "flagged"}
TaskPhases  == Outstanding \cup {"new", "decThrown", "decFlagged", "done", "failed"}
Unfinished  == {t \in Tasks : task[t] \in Outstanding}

Init ==
  /\ task = [t \in Tasks |-> "new"]
  /\ count = 0 /\ locked = FALSE /\ exc = FALSE
  /\ follower = "none"
  /\ main = "adding"
  /\ noThrow \in BOOLEAN
-----------------------------------------------------------------------------
\* A slip: operator++ does not lock the done barrier.
Add_NoLock(t) ==
  /\ main = "adding" /\ task[t] = "new" /\ ~exc
  /\ count' = count + 1
  /\ task' = [task EXCEPT ![t] = "waiting"]
  /\ UNCHANGED <<locked, exc, follower, main, noThrow>>

\* addBarrierTask: operator++ locks the done barrier, the slot becomes WAITING.
Add(t) ==
  /\ main = "adding" /\ task[t] = "new" /\ ~exc
  /\ locked' = TRUE
  /\ count' = count + 1
  /\ task' = [task EXCEPT ![t] = "waiting"]
  /\ UNCHANGED <<exc, follower, main, noThrow>>

\* operator++ throws when a task has failed already; the caller gives up.
AddThrows ==
  /\ main = "adding" /\ exc
  /\ \E t \in Tasks : task[t] = "new"
  /\ main' = IF noThrow THEN "checking" ELSE "threw"
  /\ UNCHANGED <<task, count, locked, exc, follower, noThrow>>

\* All tasks are added, and the one that is blocked by donePtr() last.
AllAdded ==
  /\ main = "adding" /\ \A t \in Tasks : task[t] # "new"
  /\ follower' = "waiting"
  /\ main' = "checking"
  /\ UNCHANGED <<task, count, locked, exc, noThrow>>
-----------------------------------------------------------------------------
\* notify_all() of m_cond.
Notify == main' = IF main = "sleeping" THEN "checking" ELSE main

\* --m_count on an unsigned integer.
Pred(c) == IF c = 0 THEN CountMax ELSE c - 1

\* findNextTask
Start(t) ==
  /\ task[t] = "waiting"
  /\ task' = [task EXCEPT ![t] = "running"]
  /\ UNCHANGED <<count, locked, exc, follower, main, noThrow>>

\* A slip: a function that returned false is taken for a finished one.
Reschedule_Counted(t) ==
  /\ task[t] = "running"
  /\ task' = [task EXCEPT ![t] = "waiting"]
  /\ count' = Pred(count)
  /\ UNCHANGED <<locked, exc, follower, main, noThrow>>

\* The task is not ready, or its function returned false.
Reschedule(t) ==
  /\ task[t] = "running"
  /\ task' = [task EXCEPT ![t] = "waiting"]
  /\ UNCHANGED <<count, locked, exc, follower, main, noThrow>>

\* processTask: the last task of the counter opens the barrier and wakes the
\* main thread.
Finish(t) ==
  /\ task[t] = "running" /\ Pred(count) = 0 /\ ~exc
  /\ task' = [task EXCEPT ![t] = "done"]
  /\ count' = 0 /\ locked' = FALSE
  /\ Notify
  /\ UNCHANGED <<exc, follower, noThrow>>

\* processTask: another task.
FinishEarlier(t) ==
  /\ task[t] = "running" /\ Pred(count) # 0
  /\ task' = [task EXCEPT ![t] = "done"]
  /\ count' = Pred(count)
  /\ UNCHANGED <<locked, exc, follower, main, noThrow>>

\* processTask: m_done.unlock() rethrows the exception of another task.
FinishThrows(t) ==
  /\ task[t] = "running" /\ Pred(count) = 0 /\ exc
  /\ task' = [task EXCEPT ![t] = "decThrown"]
  /\ count' = 0
  /\ UNCHANGED <<locked, exc, follower, main, noThrow>>

Throw(t) ==
  /\ MayThrow /\ task[t] = "running"
  /\ task' = [task EXCEPT ![t] = "thrown"]
  /\ UNCHANGED <<count, locked, exc, follower, main, noThrow>>

\* A slip: setException notifies nobody.
SetException_NoNotify(t) ==
  /\ task[t] \in {"thrown", "decThrown"}
  /\ task' = [task EXCEPT ![t] = IF @ = "thrown" THEN "flagged" ELSE "decFlagged"]
  /\ exc' = TRUE
  /\ UNCHANGED <<count, locked, follower, main, noThrow>>

\* handleTaskException: counter->setException(e).
SetException(t) ==
  /\ task[t] \in {"thrown", "decThrown"}
  /\ task' = [task EXCEPT ![t] = IF @ = "thrown" THEN "flagged" ELSE "decFlagged"]
  /\ exc' = TRUE
  /\ Notify
  /\ UNCHANGED <<count, locked, follower, noThrow>>

\* handleTaskException: --(*counter).  At zero m_done.unlock() rethrows the
\* exception, which is swallowed, and notify_all() is not reached.
HandlerDecrement(t) ==
  /\ task[t] \in {"flagged", "decFlagged"}
  /\ task' = [task EXCEPT ![t] = "failed"]
  /\ count' = Pred(count)
  /\ UNCHANGED <<locked, exc, follower, main, noThrow>>
-----------------------------------------------------------------------------
FollowerRuns ==
  /\ follower = "waiting" /\ ~exc /\ ~locked
  /\ follower' = "ran"
  /\ UNCHANGED <<task, count, locked, exc, main, noThrow>>

\* isBlocked() of the done barrier rethrows.
FollowerFails ==
  /\ follower = "waiting" /\ exc
  /\ follower' = "failed"
  /\ UNCHANGED <<task, count, locked, exc, main, noThrow>>

\* The predicates of wait_nothrow() and wait(), and the first with the second's.
Awaited_AnyException == count = 0 \/ exc
Awaited == count = 0 \/ (~noThrow /\ exc)

Check ==
  /\ main = "checking"
  /\ main' = IF ~Awaited THEN "sleeping"
             ELSE IF exc /\ ~noThrow THEN "threw" ELSE "returned"
  /\ UNCHANGED <<task, count, locked, exc, follower, noThrow>>

SpuriousWakeup ==
  /\ main = "sleeping"
  /\ main' = "checking"
  /\ UNCHANGED <<task, count, locked, exc, follower, noThrow>>
-----------------------------------------------------------------------------
Complete(t) ==
  \/ Finish(t) \/ FinishEarlier(t) \/ FinishThrows(t) \/ Throw(t)

Handle(t) == SetException(t) \/ HandlerDecrement(t)

Main == (\E t \in Tasks : Add(t)) \/ AddThrows \/ AllAdded \/ Check

Next ==
  \/ \E t \in Tasks : Start(t) \/ Reschedule(t) \/ Complete(t) \/ Handle(t)
  \/ FollowerRuns \/ FollowerFails
  \/ Main \/ SpuriousWakeup

\* The workers keep running what is in the slots, a function does not return
\* false for ever, and the main thread is scheduled.
Fairness ==
  /\ \A t \in Tasks : WF_vars(Start(t)) /\ SF_vars(Complete(t)) /\ WF_vars(Handle(t))
  /\ WF_vars(FollowerRuns \/ FollowerFails)
  /\ WF_vars(Main)

Spec == Init /\ [][Next]_vars /\ Fairness
-----------------------------------------------------------------------------
(* Properties.                                                             *)

TypeOK ==
  /\ task \in [Tasks -> TaskPhases]
  /\ count \in 0 .. CountMax
  /\ locked \in BOOLEAN /\ exc \in BOOLEAN
  /\ follower \in {"none", "waiting", "ran", "failed"}
  /\ main \in {"adding", "checking", "sleeping", "returned", "threw"}
  /\ noThrow \in BOOLEAN

\* The counter tells the registered tasks that are not over: addBarrierTask
\* counts a task before a worker can finish it.  With exceptions it may also have
\* wrapped around, and then only when every task is over.
CountCovers ==
  \/ count = Cardinality(Unfinished)
  \/ Unfinished = {} /\ exc

\* wait_nothrow(), and wait() that does not throw, return only when no function
\* of a task is running or can still be started.
WaitCoversTasks == main = "returned" => Unfinished = {}

\* Who may have touched the exception and the barrier: the strengthening that
\* makes CountCovers, WaitCoversTasks and FollowerAfterAll inductive.
ExceptionLeft ==
  /\ \A t \in Tasks : task[t] \in {"flagged", "decThrown", "decFlagged", "failed"} => exc
  /\ (\E t \in Tasks : task[t] \in {"decThrown", "decFlagged"}) => Unfinished = {}
BarrierHolds == Unfinished # {} => locked
AddedFirst ==
  /\ follower # "none" => \A t \in Tasks : task[t] # "new"
  /\ follower # "none" => main # "adding"

\* The task behind donePtr() runs only when all tasks have succeeded, although
\* the barrier opens each time the tasks added so far are over.
FollowerAfterAll == follower = "ran" => \A t \in Tasks : task[t] = "done"

IndInv ==
  /\ TypeOK /\ CountCovers /\ ExceptionLeft /\ BarrierHolds /\ AddedFirst
  /\ WaitCoversTasks /\ FollowerAfterAll

\* "Barrier::unlock() in the decrement operator throws, when the counter reaches
\* zero, so we catch it here" (handleTaskException): the exception of the
\* decrement stays without effect, a task decrements the counter once.
DecrementedOnce == count <= Cardinality(Tasks)

\* Picture::waitForAllTasks waits for the tasks: once they are over, it ends.
WaitEnds == <>(main \in {"returned", "threw"})

\* wait() ends whatever the tasks do, wait_nothrow() when no task throws.
WaitEndsUnlessThrown == (~noThrow \/ [](~exc)) => WaitEnds
=============================================================================
