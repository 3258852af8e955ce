------------------------- MODULE WaitCounter_proofs -------------------------
(***************************************************************************)
(* Proofs about WaitCounter, for any finite set of tasks, with and without *)
(* exceptions, for wait() and wait_nothrow().                              *)
(***************************************************************************)
EXTENDS WaitCounter, FiniteSetTheorems, TLAPS

LEMMA Size ==
  ASSUME NEW S \in SUBSET Tasks
  PROVE  /\ Cardinality(S) \in Nat
         /\ Cardinality(S) <= Cardinality(Tasks) /\ Cardinality(Tasks) < CountMax
         /\ Cardinality(S) = 0 <=> S = {}
         /\ \A t \in Tasks : t \notin S => Cardinality(S \cup {t}) = Cardinality(S) + 1
         /\ \A t \in S : Cardinality(S \ {t}) = Cardinality(S) - 1
<1>1. IsFiniteSet(S) /\ Cardinality(S) <= Cardinality(Tasks)
  BY CounterAssumption, FS_Subset
<1>2. Cardinality(S) \in Nat /\ Cardinality(Tasks) \in Nat
  BY <1>1, CounterAssumption, FS_CardinalityType
<1>3. Cardinality(S) = 0 <=> S = {}
  BY <1>1, FS_EmptySet
<1>4. \A t \in Tasks : t \notin S => Cardinality(S \cup {t}) = Cardinality(S) + 1
  BY <1>1, FS_AddElement
<1>5. \A t \in S : Cardinality(S \ {t}) = Cardinality(S) - 1
  BY <1>1, FS_RemoveElement
<1> QED
  BY <1>1, <1>2, <1>3, <1>4, <1>5, CounterAssumption

\* While a task is unfinished the counter is exact.
LEMMA ExactCount ==
  ASSUME IndInv
  PROVE  /\ Unfinished \subseteq Tasks
         /\ Unfinished # {} \/ ~exc => count = Cardinality(Unfinished)
         /\ count \in Nat
BY DEF IndInv, TypeOK, CountCovers, Unfinished

LEMMA InitIndInv == Init => IndInv
<1> SUFFICES ASSUME Init PROVE IndInv
  OBVIOUS
<1>1. Unfinished = {}
  BY DEF Init, Unfinished, Outstanding
<1>2. Cardinality(Unfinished) = 0
  BY <1>1, Size
<1>3. TypeOK
  <2>1. task \in [Tasks -> TaskPhases]
    BY DEF Init, TaskPhases
  <2>2. count \in 0 .. CountMax
    BY CounterAssumption DEF Init
  <2> QED
    BY <2>1, <2>2 DEF Init, TypeOK
<1>4. CountCovers /\ BarrierHolds
  BY <1>1, <1>2 DEF Init, CountCovers, BarrierHolds
<1>5. ExceptionLeft /\ AddedFirst /\ WaitCoversTasks /\ FollowerAfterAll
  BY <1>1 DEF Init, ExceptionLeft, AddedFirst, WaitCoversTasks, FollowerAfterAll
<1> QED
  BY <1>3, <1>4, <1>5 DEF IndInv

\* addBarrierTask.
LEMMA AddStep == ASSUME IndInv, NEW t \in Tasks, Add(t) PROVE IndInv'
<1>1. task \in [Tasks -> TaskPhases] /\ task' \in [Tasks -> TaskPhases]
  BY DEF Add, IndInv, TypeOK, TaskPhases, Outstanding
<1>2. Unfinished' = Unfinished \cup {t} /\ t \notin Unfinished
  BY <1>1 DEF Add, Unfinished, Outstanding
<1>3. count = Cardinality(Unfinished) /\ count' = Cardinality(Unfinished')
  BY <1>2, ExactCount, Size DEF Add
<1>4. Cardinality(Unfinished') \in 0 .. CountMax
  <2>1. Unfinished' \subseteq Tasks
    BY <1>2 DEF Unfinished
  <2> QED
    BY <2>1, Size, CounterAssumption
<1>5. TypeOK'
  BY <1>1, <1>3, <1>4 DEF Add, IndInv, TypeOK
<1>6. (ExceptionLeft /\ BarrierHolds /\ AddedFirst)'
  BY <1>1 DEF Add, IndInv, ExceptionLeft, BarrierHolds, AddedFirst
<1>7. (WaitCoversTasks /\ FollowerAfterAll)'
  BY DEF Add, IndInv, WaitCoversTasks, FollowerAfterAll, AddedFirst
<1> QED
  BY <1>3, <1>5, <1>6, <1>7 DEF IndInv, CountCovers

\* Steps of a task that do not count: it is taken, put back, or its exception is
\* passed on.
LEMMA UncountedStep ==
  ASSUME IndInv, NEW t \in Tasks, Start(t) \/ Reschedule(t) \/ Throw(t) \/ SetException(t)
  PROVE  IndInv'
<1> USE DEF Start, Reschedule, Throw, SetException
<1>1. task \in [Tasks -> TaskPhases] /\ task' \in [Tasks -> TaskPhases]
  BY DEF IndInv, TypeOK, TaskPhases, Outstanding
<1>2. /\ UNCHANGED <<count, locked, follower>>
      /\ \A u \in Tasks : u # t => task'[u] = task[u]
      /\ exc => exc' /\ exc' \in BOOLEAN
      /\ task[t] # "new" /\ task'[t] # "new" /\ task[t] # "done"
  BY <1>1 DEF IndInv, TypeOK
<1>3. main' = main \/ (main = "sleeping" /\ main' = "checking")
  BY DEF Notify
<1>4. Unfinished' = Unfinished
  BY <1>1 DEF Unfinished, Outstanding
<1>5. TypeOK'
  BY <1>1, <1>2, <1>3 DEF IndInv, TypeOK
<1>6. ExceptionLeft'
  BY <1>1, <1>4 DEF IndInv, ExceptionLeft
<1>7. CountCovers' /\ BarrierHolds'
  BY <1>2, <1>4 DEF IndInv, CountCovers, BarrierHolds
<1>8. (AddedFirst /\ WaitCoversTasks /\ FollowerAfterAll)'
  BY <1>2, <1>3, <1>4 DEF IndInv, AddedFirst, WaitCoversTasks, FollowerAfterAll
<1> QED
  BY <1>5, <1>6, <1>7, <1>8 DEF IndInv

\* Steps that decrement the counter for an unfinished task.
LEMMA CountedStep ==
  ASSUME IndInv, NEW t \in Tasks,
         Finish(t) \/ FinishEarlier(t) \/ FinishThrows(t)
           \/ (HandlerDecrement(t) /\ task[t] = "flagged")
  PROVE  IndInv'
<1> USE DEF Finish, FinishEarlier, FinishThrows, HandlerDecrement
<1>1. task \in [Tasks -> TaskPhases] /\ task' \in [Tasks -> TaskPhases]
  BY DEF IndInv, TypeOK, TaskPhases
<1>2. t \in Unfinished /\ Unfinished' = Unfinished \ {t}
  BY <1>1 DEF Unfinished, Outstanding
<1>3. /\ count = Cardinality(Unfinished)
      /\ Unfinished # {} /\ Unfinished \subseteq Tasks /\ Unfinished' \subseteq Tasks
  BY <1>2, ExactCount DEF Unfinished
<1>4. /\ Cardinality(Unfinished) \in Nat /\ Cardinality(Unfinished) # 0
      /\ Cardinality(Unfinished') = Cardinality(Unfinished) - 1
  BY <1>2, <1>3, Size
<1>5. count' = Cardinality(Unfinished')
  BY <1>3, <1>4 DEF Pred
<1>6. /\ UNCHANGED <<exc, follower>>
      /\ \A u \in Tasks : u # t => task'[u] = task[u]
      /\ task[t] # "new" /\ task'[t] # "new" /\ task[t] # "done"
      /\ task[t] = "flagged" => exc
  BY <1>1 DEF IndInv, ExceptionLeft
<1>7. main' = main \/ (main = "sleeping" /\ main' = "checking")
  BY DEF Notify
<1>8. Unfinished' = {} <=> Pred(count) = 0
  BY <1>3, <1>4, <1>5, Size DEF Pred
<1>9. locked' = locked \/ (Unfinished' = {} /\ locked' = FALSE)
  BY <1>8
<1>10. TypeOK'
  <2>1. count' \in 0 .. CountMax
    BY <1>3, <1>4, <1>5, Size, CounterAssumption
  <2> QED
    BY <1>1, <1>6, <1>7, <1>9, <2>1 DEF IndInv, TypeOK
<1>11. ExceptionLeft'
  BY <1>1, <1>2, <1>3, <1>6, <1>8 DEF IndInv, ExceptionLeft
<1>12. CountCovers' /\ BarrierHolds'
  BY <1>2, <1>5, <1>9 DEF IndInv, CountCovers, BarrierHolds
<1>13. (AddedFirst /\ WaitCoversTasks /\ FollowerAfterAll)'
  BY <1>2, <1>6, <1>7 DEF IndInv, AddedFirst, WaitCoversTasks, FollowerAfterAll
<1> QED
  BY <1>10, <1>11, <1>12, <1>13 DEF IndInv

\* The second decrement of a task whose first one threw: m_count wraps around.
LEMMA SecondDecrementStep ==
  ASSUME IndInv, NEW t \in Tasks, HandlerDecrement(t), task[t] = "decFlagged"
  PROVE  IndInv'
<1> USE DEF HandlerDecrement
<1>1. task \in [Tasks -> TaskPhases] /\ task' \in [Tasks -> TaskPhases]
  BY DEF IndInv, TypeOK, TaskPhases
<1>2. Unfinished = {} /\ Unfinished' = {} /\ exc /\ exc'
  BY <1>1 DEF IndInv, ExceptionLeft, Unfinished, Outstanding
<1>3. count' \in 0 .. CountMax
  BY CounterAssumption DEF IndInv, TypeOK, Pred
<1>4. TypeOK'
  BY <1>1, <1>3 DEF IndInv, TypeOK
<1>5. CountCovers' /\ ExceptionLeft' /\ BarrierHolds'
  BY <1>2 DEF CountCovers, ExceptionLeft, BarrierHolds
<1>6. (AddedFirst /\ WaitCoversTasks /\ FollowerAfterAll)'
  BY <1>1, <1>2 DEF IndInv, AddedFirst, WaitCoversTasks, FollowerAfterAll
<1> QED
  BY <1>4, <1>5, <1>6 DEF IndInv

\* The main thread, and the task behind the done barrier.
LEMMA OtherStep ==
  ASSUME IndInv, AddThrows \/ AllAdded \/ Check \/ SpuriousWakeup
                   \/ FollowerRuns \/ FollowerFails \/ UNCHANGED vars
  PROVE  IndInv'
<1> USE DEF AddThrows, AllAdded, Check, SpuriousWakeup, FollowerRuns, FollowerFails, vars
<1>1. UNCHANGED <<task, count, locked, exc>>
  OBVIOUS
<1>2. Unfinished' = Unfinished
  BY <1>1 DEF Unfinished
<1>3. TypeOK'
  BY <1>1 DEF IndInv, TypeOK
<1>4. CountCovers' /\ ExceptionLeft' /\ BarrierHolds' /\ AddedFirst'
  BY <1>1, <1>2 DEF IndInv, CountCovers, ExceptionLeft, BarrierHolds, AddedFirst
<1>5. WaitCoversTasks'
  <2>1. CASE main' = "returned" /\ main # "returned"
    <3>1. count = 0
      BY <2>1 DEF Awaited, IndInv, TypeOK
    <3>2. Unfinished = {}
      BY <3>1, ExactCount, Size
    <3> QED
      BY <1>2, <3>2 DEF WaitCoversTasks
  <2>2. CASE main = "returned" \/ main' # "returned"
    BY <1>2, <2>2 DEF IndInv, WaitCoversTasks
  <2> QED
    BY <2>1, <2>2
<1>6. FollowerAfterAll'
  <2>1. CASE FollowerRuns
    <3>1. Unfinished = {} /\ ~exc /\ \A t \in Tasks : task[t] # "new"
      BY <2>1 DEF IndInv, BarrierHolds, AddedFirst
    <3>2. ASSUME NEW t \in Tasks PROVE task[t] = "done"
      BY <3>1 DEF IndInv, TypeOK, TaskPhases, ExceptionLeft, Unfinished, Outstanding
    <3> QED
      BY <1>1, <3>2 DEF FollowerAfterAll
  <2>2. CASE ~FollowerRuns
    BY <1>1, <2>2 DEF IndInv, FollowerAfterAll
  <2> QED
    BY <2>1, <2>2
<1> QED
  BY <1>3, <1>4, <1>5, <1>6 DEF IndInv

LEMMA NextIndInv == IndInv /\ [Next]_vars => IndInv'
<1> SUFFICES ASSUME IndInv, [Next]_vars PROVE IndInv'
  OBVIOUS
<1>1. ASSUME NEW t \in Tasks, HandlerDecrement(t)
      PROVE  task[t] = "flagged" \/ task[t] = "decFlagged"
  BY <1>1 DEF HandlerDecrement
<1> QED
  BY <1>1, AddStep, UncountedStep, CountedStep, SecondDecrementStep, OtherStep
     DEF Next, Main, Complete, Handle

\* The strengthened invariant, from which the others follow.
THEOREM Inductive == Spec => []IndInv
BY InitIndInv, NextIndInv, PTL DEF Spec

\* m_count stays an unsigned integer, and every task is in one of its phases.
THEOREM TypeCorrect == Spec => []TypeOK
<1>1. IndInv => TypeOK
  BY DEF IndInv
<1> QED
  BY <1>1, Inductive, PTL

\* The counter is exact until it wraps around, and it wraps around only when
\* every task is over: it never lets go of a task.
THEOREM CounterCovers == Spec => []CountCovers
<1>1. IndInv => CountCovers
  BY DEF IndInv
<1> QED
  BY <1>1, Inductive, PTL

\* Picture::waitForAllTasks returns only when no task of the picture is running
\* or queued, whatever was thrown.
THEOREM WaitIsSafe == Spec => []WaitCoversTasks
<1>1. IndInv => WaitCoversTasks
  BY DEF IndInv
<1> QED
  BY <1>1, Inductive, PTL

\* finishReconTask runs only when all CTU tasks of the picture have succeeded.
THEOREM FollowerIsLast == Spec => []FollowerAfterAll
<1>1. IndInv => FollowerAfterAll
  BY DEF IndInv
<1> QED
  BY <1>1, Inductive, PTL
=============================================================================
