--------------------------- MODULE CtuTasks_proofs ---------------------------
(***************************************************************************)
(* Proofs about CtuTasks, for pictures of any size, any number of threads  *)
(* and any set of reference pictures.                                      *)
(***************************************************************************)
EXTENDS CtuTasks, TLAPS

-----------------------------------------------------------------------------
(* The partition of a line into tasks.                                     *)

\* A task has at least one CTU column and at most a whole line.
LEMMA ColPerTask == numColPerTask \in Nat \ {0} /\ numColPerTask <= WidthInCtus
<1> DEFINE k == AtLeast(NumThreads * (IF IsIntra THEN 2 ELSE 1), 1)
           q == WidthInCtus \div k
<1>1. k \in Nat \ {0}
  BY SizeAssumption DEF AtLeast
<1>2. q \in Int
  BY <1>1, SizeAssumption
<1>3. q + (IF IsIntra THEN 0 ELSE 1) \in Int
  BY <1>2, SizeAssumption
<1> HIDE DEF k, q
<1> QED
  BY <1>3, SizeAssumption DEF numColPerTask, AtLeast, AtMost, k, q

\* Division with remainder, for the width of a picture.
LEMMA WidthDivision ==
  LET n == numColPerTask  q == WidthInCtus \div n IN
  /\ q \in Nat
  /\ WidthInCtus % n \in 0 .. n - 1
  /\ WidthInCtus = n * q + (WidthInCtus % n)
<1> DEFINE n == numColPerTask
<1>1. n \in Nat \ {0} /\ WidthInCtus \in Nat
  BY ColPerTask, SizeAssumption
<1> HIDE DEF n
<1> SUFFICES /\ WidthInCtus \div n \in Nat
             /\ WidthInCtus % n \in 0 .. n - 1
             /\ WidthInCtus = n * (WidthInCtus \div n) + (WidthInCtus % n)
  BY DEF n
<1> QED
  BY <1>1, SMTT(30)

LEMMA TaskGrid == numTasksPerLine \in Nat \ {0} /\ LastCol \in Nat
<1> DEFINE n == numColPerTask
           q == WidthInCtus \div n
<1>1. /\ n \in Nat \ {0} /\ n <= WidthInCtus /\ q \in Nat
      /\ WidthInCtus % n \in 0 .. n - 1
      /\ WidthInCtus = n * q + (WidthInCtus % n)
      /\ numTasksPerLine = q + (IF WidthInCtus % n = 0 THEN 0 ELSE 1)
  BY ColPerTask, WidthDivision DEF numTasksPerLine
<1>2. q = 0 => WidthInCtus % n # 0
  <2> SUFFICES ASSUME q = 0, WidthInCtus % n = 0 PROVE FALSE
    OBVIOUS
  <2>1. n * 0 = 0
    BY <1>1
  <2> QED
    BY <1>1, <2>1, SizeAssumption
<1> HIDE DEF n, q
<1> QED
  BY <1>1, <1>2 DEF LastCol

LEMMA ProductMonotone ==
  ASSUME NEW a \in Nat, NEW b \in Nat, NEW n \in Nat, a <= b
  PROVE  a * n \in Nat /\ a * n <= b * n
<1>1. PICK d \in Nat : b = a + d
  <2>1. b - a \in Nat /\ b = a + (b - a)
    OBVIOUS
  <2> QED
    BY <2>1
<1>2. b * n = a * n + d * n
  BY <1>1
<1>3. a * n \in Nat /\ d * n \in Nat
  OBVIOUS
<1> QED
  BY <1>2, <1>3

\* No task starts behind the end of its line.
LEMMA TaskSize == ASSUME NEW x \in Tasks PROVE numCtus(x) \in Nat
<1> DEFINE n == numColPerTask
           q == WidthInCtus \div n
           r == WidthInCtus % n
<1>1. /\ n \in Nat \ {0} /\ q \in Nat /\ r \in Nat
      /\ WidthInCtus = n * q + r
      /\ numTasksPerLine = q + (IF r = 0 THEN 0 ELSE 1)
  BY ColPerTask, WidthDivision DEF numTasksPerLine
<1>2. x[2] \in 0 .. numTasksPerLine - 1
  BY DEF Tasks, Cols
<1> HIDE DEF n, q, r
<1>3. x[2] \in Nat /\ x[2] <= q
  BY <1>1, <1>2
<1>4. x[2] * n \in Nat /\ x[2] * n <= q * n
  BY <1>1, <1>3, ProductMonotone
<1>5. x[2] * n <= WidthInCtus
  BY <1>1, <1>4
<1>6. ctuStart(x) \in Nat /\ ctuStart(x) <= WidthInCtus
  BY <1>4, <1>5, SizeAssumption DEF ctuStart, n
<1>7. ctuEnd(x) \in Nat /\ ctuStart(x) <= ctuEnd(x)
  BY <1>1, <1>6, SizeAssumption DEF ctuEnd, AtMost, n
<1> QED
  BY <1>6, <1>7 DEF numCtus
-----------------------------------------------------------------------------
(* Type correctness.                                                       *)

LEMMA IterationsNat == ASSUME NEW x \in Tasks
                       PROVE  Iterations(x) \in Nat /\ Iterations(x)' \in Nat
BY TaskSize DEF Iterations

\* CtuDone stays in the stage, and so in the stage's loop bounds.
LEMMA ContinuesStage ==
  ASSUME NEW s \in TaskType, NEW i, NEW x \in Tasks
  PROVE  /\ ContState(s, i, x) \in TaskType
         /\ s = PRESAO <=> ContState(s, i, x) = PRESAO
         /\ s \in {SAO, SAO_cont} <=> ContState(s, i, x) \in {SAO, SAO_cont}
         /\ s = ALF <=> ContState(s, i, x) = ALF
BY DEF ContState, TaskType, MIDER, MIDER_cont, LF_INIT, INTER, INTRA, INTRA_cont,
       RSP, LF_V, LF_V_cont, LF_H, PRESAO, SAO, SAO_cont, ALF, DONE

LEMMA NextStateType == ASSUME NEW s \in TaskType PROVE NextState(s) \in TaskType
BY DEF NextState, TaskType, MIDER, MIDER_cont, LF_INIT, INTER, INTRA, INTRA_cont,
       RSP, LF_V, LF_V_cont, LF_H, PRESAO, SAO, SAO_cont, ALF, DONE

LEMMA InitTypeOK == Init => TypeOK
<1> SUFFICES ASSUME Init PROVE TypeOK
  OBVIOUS
<1>1. \A x \in Tasks : ctu[x] <= Iterations(x)
  BY IterationsNat DEF Init
<1>2. ctuState \in [Tasks -> TaskType] /\ ctu \in [Tasks -> Nat]
  BY DEF Init, TaskType, MIDER, DONE
<1>3. phase \in [Tasks -> Phases]
  BY DEF Init, Phases
<1> QED
  BY <1>1, <1>2, <1>3 DEF Init, TypeOK

\* The actions that only move a task between the pool and the threads.
LEMMA MoveTypeOK ==
  ASSUME TypeOK, NEW x \in Tasks,
         Schedule(x) \/ Take(x) \/ Requeue(x) \/ FailToTake(x) \/ FailInTask(x)
           \/ StartStage(x) \/ ReturnFalse(x) \/ KernelThrows(x)
  PROVE  TypeOK'
<1>1. UNCHANGED <<ctuState, ctu, parsed, parseError, refState, finish, main>>
  BY DEF Schedule, Take, Requeue, FailToTake, FailInTask, StartStage, ReturnFalse,
         KernelThrows, Fail
<1>2. phase' \in [Tasks -> Phases] /\ failed' \in BOOLEAN
  BY DEF TypeOK, Schedule, Take, Requeue, FailToTake, FailInTask, StartStage, ReturnFalse,
         KernelThrows, Fail, Phases, Queued, Held, Left
<1>3. \A y \in Tasks : Iterations(y)' = Iterations(y)
  BY <1>1 DEF Iterations
<1> QED
  BY <1>1, <1>2, <1>3 DEF TypeOK

LEMMA CtuDoneTypeOK == ASSUME TypeOK, NEW x \in Tasks, CtuDone(x) PROVE TypeOK'
<1> USE DEF CtuDone
<1>1. ctuState' \in [Tasks -> TaskType] /\ ctu' \in [Tasks -> Nat]
  BY ContinuesStage DEF TypeOK
<1>2. Iterations(x)' = Iterations(x)
  BY ContinuesStage DEF TypeOK, Iterations
<1>3. ctu'[x] <= Iterations(x)'
  BY <1>2, IterationsNat DEF TypeOK
<1>4. ASSUME NEW y \in Tasks, y # x PROVE ctu'[y] <= Iterations(y)'
  BY <1>4 DEF TypeOK, Iterations
<1> QED
  BY <1>1, <1>3, <1>4 DEF TypeOK

LEMMA StageDoneTypeOK == ASSUME TypeOK, NEW x \in Tasks, StageDone(x) PROVE TypeOK'
<1> USE DEF StageDone
<1>1. ctuState' \in [Tasks -> TaskType] /\ ctu' \in [Tasks -> Nat]
  BY NextStateType DEF TypeOK
<1>2. ctu'[x] <= Iterations(x)'
  BY IterationsNat DEF TypeOK
<1>3. ASSUME NEW y \in Tasks, y # x PROVE ctu'[y] <= Iterations(y)'
  BY <1>3 DEF TypeOK, Iterations
<1>4. phase' \in [Tasks -> Phases]
  BY DEF TypeOK, Phases, Held, Left
<1> QED
  BY <1>1, <1>2, <1>3, <1>4 DEF TypeOK

\* The parser, the reference pictures and the main thread leave the tasks alone.
LEMMA OthersTypeOK ==
  ASSUME TypeOK, Environment \/ ParseThrows \/ ScheduleFinish \/ ScheduleThrows
                   \/ Completion \/ UNCHANGED vars
  PROVE  TypeOK'
<1>1. UNCHANGED <<ctuState, ctu, phase, failed>>
  BY DEF Environment, ParseLine, RefExtended, ParseThrows, ScheduleFinish,
         ScheduleThrows, Completion, FinishRecon,
         FinishFails, ReconDone, CleanupOnException, vars
<1>2. \A y \in Tasks : Iterations(y)' = Iterations(y)
  BY <1>1 DEF Iterations
<1>3. /\ parsed' \subseteq Lines /\ parseError' \in BOOLEAN
      /\ refState' \in [RefPics -> {"blocked", "open", "error"}]
  BY DEF TypeOK, Environment, ParseLine, RefExtended, ParseThrows, ScheduleFinish,
         ScheduleThrows, Completion,
         FinishRecon, FinishFails, ReconDone, CleanupOnException, vars
<1>4. /\ finish' \in {"none", "waiting", "reconstructed", "failed"}
      /\ main' \in {"schedule", "waitRecon", "cleanup", "free"}
  BY DEF TypeOK, Environment, ParseLine, RefExtended, ParseThrows, ScheduleFinish,
         ScheduleThrows, Completion,
         FinishRecon, FinishFails, ReconDone, CleanupOnException, vars
<1> QED
  BY <1>1, <1>2, <1>3, <1>4 DEF TypeOK

LEMMA NextTypeOK == TypeOK /\ [Next]_vars => TypeOK'
BY MoveTypeOK, CtuDoneTypeOK, StageDoneTypeOK, OthersTypeOK
   DEF Next, TaskStep, Scheduling, IdleSearch

\* The states of tasks and pictures stay within their enumerations, and the loops
\* of a stage within the CTUs of the task, for every picture size, number of
\* threads and set of reference pictures.
THEOREM TypeCorrect == Spec => []TypeOK
BY InitTypeOK, NextTypeOK, PTL DEF Spec
-----------------------------------------------------------------------------
(* The stages' conditions.                                                 *)

LEMMA Grid ==
  ASSUME NEW x \in Tasks
  PROVE  /\ x = <<x[1], x[2]>> /\ x[1] \in Lines /\ x[2] \in Cols
         /\ \A c \in Cols : <<x[1], c>> \in Tasks
         /\ NotTop(x) => x[1] - 1 \in Lines
         /\ NotBottom(x) => x[1] + 1 \in Lines
         /\ NotLeft(x) => x[2] - 1 \in Cols
         /\ NotRight(x) => x[2] + 1 \in Cols
         /\ LastCol \in Cols
BY TaskGrid, SizeAssumption
   DEF Tasks, Lines, Cols, LastCol, NotTop, NotBottom, NotLeft, NotRight

\* What every step does: tasks advance, and an open barrier stays open.
Advance ==
  /\ \A l \in Lines, c \in Cols : St(l, c) \in Int /\ St(l, c)' \in Int /\ St(l, c) <= St(l, c)'
  /\ \A r \in RefPics : refState[r] = "open" => refState'[r] = "open"

LEMMA MiderPersists ==
  ASSUME NEW x \in Tasks, Advance, MiderReady(x) PROVE MiderReady(x)'
BY Grid DEF Advance, MiderReady, NotTop, NotLeft, NotRight, MIDER, MIDER_cont

LEMMA InterPersists ==
  ASSUME NEW x \in Tasks, Advance, InterReady(x) PROVE InterReady(x)'
<1>1. x[2] > 1 => x[2] - 2 \in Cols
  BY Grid, TaskGrid DEF Cols
<1> QED
  BY <1>1, Grid DEF Advance, InterReady, NotTop, INTER

LEMMA IntraPersists ==
  ASSUME NEW x \in Tasks, Advance, IntraReady(x) PROVE IntraReady(x)'
BY Grid DEF Advance, IntraReady, NotTop, NotLeft, NotRight, INTRA, INTRA_cont

LEMMA RspPersists ==
  ASSUME NEW x \in Tasks, Advance, RspReady(x) PROVE RspReady(x)'
BY Grid DEF Advance, RspReady, NotBottom, NotRight, RSP, INTRA_cont

LEMMA LfVPersists ==
  ASSUME NEW x \in Tasks, Advance, LfVReady(x) PROVE LfVReady(x)'
BY Grid DEF Advance, LfVReady, NotLeft, LF_V

LEMMA LfHPersists ==
  ASSUME NEW x \in Tasks, Advance, LfHReady(x) PROVE LfHReady(x)'
BY Grid DEF Advance, LfHReady, NotTop, NotRight, LF_H, LF_V_cont

LEMMA PresaoPersists ==
  ASSUME NEW x \in Tasks, Advance, PresaoReady(x) PROVE PresaoReady(x)'
BY Grid DEF Advance, PresaoReady, NotTop, NotBottom, PRESAO

LEMMA AlfPersists ==
  ASSUME NEW x \in Tasks, Advance, AlfReady(x) PROVE AlfReady(x)'
BY Grid DEF Advance, AlfReady, NotTop, NotBottom, NotLeft, NotRight, ALF, SAO_cont

\* A condition that holds is never invalidated by a later step.
LEMMA ReadyPersists ==
  ASSUME NEW x \in Tasks, NEW s \in TaskType, Advance, StageReady(s, x)
  PROVE  StageReady(s, x)'
BY MiderPersists, InterPersists, IntraPersists, RspPersists, LfVPersists, LfHPersists,
   PresaoPersists, AlfPersists
   DEF StageReady, MIDER, INTER, INTRA, RSP, LF_V, LF_H, PRESAO, ALF
-----------------------------------------------------------------------------
(* How the steps change the tasks.                                         *)

LEMMA NextStateLater ==
  ASSUME NEW s \in TaskType, s # DONE
  PROVE  /\ s < NextState(s)
         /\ \A t \in TaskType : s < t /\ t < NextState(s)
              => t \in {MIDER_cont, INTRA_cont, LF_V_cont, SAO_cont}
BY DEF NextState, TaskType, MIDER, MIDER_cont, LF_INIT, INTER, INTRA, INTRA_cont,
       RSP, LF_V, LF_V_cont, LF_H, PRESAO, SAO, SAO_cont, ALF, DONE

LEMMA ContStateLater ==
  ASSUME NEW s \in TaskType, NEW i, NEW x \in Tasks
  PROVE  /\ s <= ContState(s, i, x)
         /\ ContState(s, i, x) \in {s, MIDER_cont, INTRA_cont, LF_V_cont, SAO_cont}
         /\ \A t \in TaskType : s < t /\ t <= ContState(s, i, x)
              => t \in {MIDER_cont, INTRA_cont, LF_V_cont, SAO_cont}
BY DEF ContState, TaskType, MIDER, MIDER_cont, LF_INIT, INTER, INTRA, INTRA_cont,
       RSP, LF_V, LF_V_cont, LF_H, PRESAO, SAO, SAO_cont, ALF, DONE

\* A _cont state is no entry of ctuTask: it has no condition of its own.
LEMMA ContStateFree ==
  ASSUME NEW s \in {MIDER_cont, INTRA_cont, LF_V_cont, SAO_cont}, NEW x
  PROVE  StageReady(s, x)' = TRUE
BY DEF StageReady, MIDER, INTER, INTRA, RSP, LF_V, LF_H, PRESAO, ALF,
       MIDER_cont, INTRA_cont, LF_V_cont, SAO_cont

LEMMA TaskStates ==
  ASSUME TypeOK PROVE \A x \in Tasks : ctuState[x] \in TaskType /\ ctuState[x] \in Int
BY DEF TypeOK, TaskType, MIDER, DONE

\* In a step of the system at most one task moves.
LEMMA OneTaskMoves ==
  ASSUME TypeOK, [Next]_vars, NEW x \in Tasks
  PROVE  \/ UNCHANGED <<ctuState[x], phase[x]>>
         \/ ctuState'[x] = ctuState[x] /\ phase'[x] \notin {"kernel", "done"}
              /\ phase[x] # "done" /\ (phase'[x] = "failed" => failed')
         \/ StartStage(x) \/ CtuDone(x) \/ StageDone(x)
<1>1. ASSUME NEW y \in Tasks, TaskStep(y) \/ KernelThrows(y) \/ Schedule(y)
      PROVE  \/ UNCHANGED <<ctuState[x], phase[x]>>
             \/ ctuState'[x] = ctuState[x] /\ phase'[x] \notin {"kernel", "done"}
                  /\ phase[x] # "done" /\ (phase'[x] = "failed" => failed')
             \/ StartStage(x) \/ CtuDone(x) \/ StageDone(x)
  <2>1. CASE y = x
    BY <1>1, <2>1 DEF TypeOK, TaskStep, Take, Requeue, FailToTake, FailInTask, ReturnFalse,
                      KernelThrows, Fail, Schedule, Queued
  <2>2. CASE y # x
    BY <1>1, <2>2 DEF TypeOK, TaskStep, Take, Requeue, FailToTake, FailInTask, StartStage,
                      ReturnFalse, CtuDone, StageDone, KernelThrows, Fail, Schedule
  <2> QED
    BY <2>1, <2>2
<1>2. ASSUME Environment \/ ParseThrows \/ ScheduleFinish \/ ScheduleThrows \/ Completion
               \/ UNCHANGED vars
      PROVE  UNCHANGED <<ctuState, phase>>
  BY <1>2 DEF Environment, ParseLine, RefExtended, ParseThrows, ScheduleFinish,
              ScheduleThrows, Completion, FinishRecon,
              FinishFails, ReconDone, CleanupOnException, vars
<1> QED
  BY <1>1, <1>2 DEF Next, Scheduling, IdleSearch

LEMMA StepAdvances == ASSUME IndInv, [Next]_vars PROVE Advance
<1>1. TypeOK /\ TypeOK'
  BY NextTypeOK DEF IndInv
<1>2. ASSUME NEW x \in Tasks PROVE ctuState[x] <= ctuState'[x]
  <2>1. ctuState[x] \in TaskType /\ ctuState[x] \in Int
    BY <1>1, TaskStates
  <2>2. CASE CtuDone(x)
    BY <1>1, <2>1, <2>2, ContStateLater DEF CtuDone, TypeOK
  <2>3. CASE StageDone(x)
    <3>1. ctuState[x] # DONE
      BY <2>3 DEF StageDone, IndInv, Accounted
    <3>2. ctuState'[x] = NextState(ctuState[x])
      BY <1>1, <2>3 DEF StageDone, TypeOK
    <3>3. ctuState[x] < ctuState'[x] /\ ctuState'[x] \in Int
      BY <2>1, <3>1, <3>2, NextStateLater, NextStateType DEF TaskType, MIDER, DONE
    <3> QED
      BY <2>1, <3>3
  <2>4. CASE ctuState'[x] = ctuState[x]
    BY <2>1, <2>4
  <2> QED
    BY <1>1, <2>2, <2>3, <2>4, OneTaskMoves DEF StartStage
<1>3. ASSUME NEW r \in RefPics, refState[r] = "open" PROVE refState'[r] = "open"
  BY <1>1, <1>3 DEF TypeOK, Next, TaskStep, Take, Requeue, FailToTake, FailInTask, StartStage,
     ReturnFalse, CtuDone, StageDone, KernelThrows, Fail, Environment, ParseLine, RefExtended,
     ParseThrows, Scheduling, Schedule, ScheduleFinish, ScheduleThrows, Completion,
     FinishRecon, FinishFails, ReconDone, CleanupOnException,
     IdleSearch, vars
<1>4. ASSUME NEW l \in Lines, NEW c \in Cols
      PROVE  <<l, c>> \in Tasks /\ ctuState[<<l, c>>] \in Int /\ ctuState'[<<l, c>>] \in Int
  BY <1>1 DEF Tasks, TypeOK, TaskType, MIDER, DONE
<1> QED
  BY <1>2, <1>3, <1>4 DEF Advance, St

\* A stage is entered under its condition, or it is a _cont state without one.
LEMMA EnteredWhenReady ==
  ASSUME IndInv, [Next]_vars, NEW x \in Tasks, NEW s \in TaskType,
         StageOf(s, x)', ~StageOf(s, x)
  PROVE  s \in {MIDER_cont, INTRA_cont, LF_V_cont, SAO_cont} \/ StageReady(s, x)
<1>1. /\ TypeOK /\ ctuState[x] \in TaskType /\ ctuState[x] \in Int /\ s \in Int
      /\ ctuState'[x] \in Int
  BY TaskStates, NextTypeOK DEF IndInv, TypeOK, TaskType, MIDER, DONE
<1>2. CASE StartStage(x)
  <2>1. ctuState'[x] = ctuState[x] /\ StageReady(ctuState[x], x)
    BY <1>2 DEF StartStage, Ready
  <2>2. s = ctuState[x]
    BY <1>1, <2>1 DEF StageOf
  <2> QED
    BY <2>1, <2>2
<1>3. CASE CtuDone(x)
  <2>1. /\ phase[x] = "kernel" /\ ctuState'[x] = ContState(ctuState[x], ctu[x], x)
    BY <1>1, <1>3 DEF CtuDone, TypeOK
  <2>2. ctuState[x] < s /\ s <= ctuState'[x]
    BY <1>1, <2>1 DEF StageOf
  <2> QED
    BY <1>1, <2>1, <2>2, ContStateLater
<1>4. CASE StageDone(x)
  <2>1. /\ phase[x] = "kernel" /\ ctuState'[x] = NextState(ctuState[x])
        /\ phase'[x] \in {"next", "done"} /\ ctuState[x] # DONE
    BY <1>1, <1>4 DEF StageDone, TypeOK, IndInv, Accounted
  <2>2. ctuState[x] < s /\ s < ctuState'[x]
    BY <1>1, <2>1 DEF StageOf
  <2> QED
    BY <1>1, <2>1, <2>2, NextStateLater
<1>5. CASE UNCHANGED <<ctuState[x], phase[x]>>
  BY <1>5 DEF StageOf
<1>6. CASE ctuState'[x] = ctuState[x] /\ phase'[x] \notin {"kernel", "done"}
  BY <1>6 DEF StageOf
<1> QED
  BY <1>1, <1>2, <1>3, <1>4, <1>5, <1>6, OneTaskMoves

LEMMA GuardsStep == ASSUME IndInv, [Next]_vars PROVE GuardsPersist'
<1> SUFFICES ASSUME NEW x \in Tasks, NEW s \in TaskType, StageOf(s, x)'
             PROVE  StageReady(s, x)'
  BY DEF GuardsPersist
<1>1. CASE StageReady(s, x)
  BY <1>1, StepAdvances, ReadyPersists
<1>2. CASE s \in {MIDER_cont, INTRA_cont, LF_V_cont, SAO_cont}
  BY <1>2, ContStateFree
<1>3. CASE StageOf(s, x)
  BY <1>1, <1>3 DEF IndInv, GuardsPersist
<1> QED
  BY <1>1, <1>2, <1>3, EnteredWhenReady

LEMMA LineOrderStep == ASSUME IndInv, [Next]_vars PROVE LineOrder'
<1> SUFFICES ASSUME NEW x \in Tasks, NEW c \in Cols, c < x[2], StageOf(MIDER, x)'
             PROVE  St(x[1], c)' > MIDER_cont
  BY DEF LineOrder
<1>1. MIDER \in TaskType /\ MIDER \notin {MIDER_cont, INTRA_cont, LF_V_cont, SAO_cont}
  BY DEF TaskType, MIDER, DONE, MIDER_cont, INTRA_cont, LF_V_cont, SAO_cont
<1>2. St(x[1], c) > MIDER_cont
  <2>1. CASE StageOf(MIDER, x)
    BY <2>1 DEF IndInv, LineOrder
  <2>2. CASE ~StageOf(MIDER, x)
    <3> DEFINE y == <<x[1], x[2] - 1>>
    <3>1. x[2] \in Nat /\ c \in Nat /\ x[2] > 0 /\ x[2] - 1 \in Cols /\ y \in Tasks
      BY Grid, TaskGrid DEF Cols, NotLeft
    <3>2. ctuState[y] > MIDER_cont
      <4>1. StageReady(MIDER, x)
        BY <1>1, <2>2, EnteredWhenReady
      <4>2. MiderReady(x)
        BY <4>1 DEF StageReady, MIDER, INTER, INTRA, RSP, LF_V, LF_H, PRESAO, ALF
      <4> QED
        BY <3>1, <4>2 DEF MiderReady, NotLeft, St
    <3>3. CASE c = x[2] - 1
      BY <3>2, <3>3 DEF St
    <3>4. CASE c # x[2] - 1
      <4>1. StageOf(MIDER, y)
        BY <3>1, <3>2, TaskStates DEF StageOf, IndInv, MIDER, MIDER_cont
      <4>2. c < y[2] /\ y[1] = x[1]
        BY <3>1, <3>4
      <4> QED
        BY <3>1, <4>1, <4>2 DEF IndInv, LineOrder
    <3> QED
      BY <3>3, <3>4
  <2> QED
    BY <2>1, <2>2
<1> QED
  BY <1>2, StepAdvances, Grid DEF Advance, MIDER_cont

\* When no task is in the pool or with a thread, none comes back, unless
\* decompressPicture is still adding them.
LEMMA LeftStays ==
  ASSUME TypeOK, AllLeft, main # "schedule", [Next]_vars
  PROVE  AllLeft' /\ UNCHANGED <<ctuState, failed>>
<1>1. ASSUME NEW x \in Tasks, TaskStep(x) \/ KernelThrows(x) \/ Schedule(x) PROVE FALSE
  BY <1>1 DEF AllLeft, Left, TaskStep, Take, Requeue, FailToTake, FailInTask, StartStage,
              ReturnFalse, CtuDone, StageDone, KernelThrows, Schedule, Queued
<1>2. UNCHANGED <<ctuState, phase, failed>>
  BY <1>1 DEF Next, IdleSearch, Environment, ParseLine, RefExtended, ParseThrows, Scheduling,
              ScheduleFinish, ScheduleThrows, Completion, FinishRecon, FinishFails, ReconDone,
              CleanupOnException, vars
<1> QED
  BY <1>2 DEF AllLeft

\* A task that was added is not taken back.
LEMMA ScheduledStays == ASSUME TypeOK, AllScheduled, [Next]_vars PROVE AllScheduled'
<1>1. ASSUME NEW x \in Tasks, TaskStep(x) \/ KernelThrows(x) \/ Schedule(x)
      PROVE  AllScheduled'
  BY <1>1 DEF AllScheduled, TypeOK, TaskStep, Take, Requeue, FailToTake, FailInTask, StartStage,
              ReturnFalse, CtuDone, StageDone, KernelThrows, Fail, Schedule
<1>2. ASSUME UNCHANGED phase PROVE AllScheduled'
  BY <1>2 DEF AllScheduled
<1> QED
  BY <1>1, <1>2 DEF Next, IdleSearch, Environment, ParseLine, RefExtended, ParseThrows, Scheduling,
              ScheduleFinish, ScheduleThrows, Completion, FinishRecon, FinishFails, ReconDone,
              CleanupOnException, vars

\* An exception of the picture is not taken back.
LEMMA FailedStays == ASSUME failed, [Next]_vars PROVE failed'
BY DEF Next, TaskStep, Take, Requeue, FailToTake, FailInTask, StartStage, ReturnFalse,
       CtuDone, StageDone, KernelThrows, Fail, Environment, ParseLine, RefExtended,
       ParseThrows, Scheduling, Schedule, ScheduleFinish, ScheduleThrows, Completion,
       FinishRecon, FinishFails, ReconDone, CleanupOnException, IdleSearch, vars

LEMMA NotDoneTwice ==
  ASSUME NEW s \in TaskType, NEW i, NEW x
  PROVE  /\ NextState(s) = DONE <=> s \in {ALF, DONE}
         /\ ContState(s, i, x) = DONE <=> s = DONE
BY DEF NextState, ContState, TaskType, MIDER, MIDER_cont, LF_INIT, INTER, INTRA, INTRA_cont,
       RSP, LF_V, LF_V_cont, LF_H, PRESAO, SAO, SAO_cont, ALF, DONE

\* The steps that write finish and main.
LEMMA CompletionSteps ==
  ASSUME [Next]_vars
  PROVE  \/ UNCHANGED <<finish, main>>
         \/ ScheduleFinish \/ ScheduleThrows
         \/ FinishRecon \/ FinishFails \/ ReconDone \/ CleanupOnException
BY DEF Next, TaskStep, Take, Requeue, FailToTake, FailInTask, StartStage, ReturnFalse,
       CtuDone, StageDone, KernelThrows, Fail, Environment, ParseLine, RefExtended,
       ParseThrows, Scheduling, Schedule, Completion, IdleSearch, vars

LEMMA AccountedStep == ASSUME IndInv, [Next]_vars PROVE Accounted'
<1>1. TypeOK /\ TypeOK' /\ Accounted
  BY NextTypeOK DEF IndInv
<1>2. ASSUME NEW x \in Tasks
      PROVE  /\ phase'[x] = "done" <=> ctuState'[x] = DONE
             /\ phase'[x] = "failed" => failed'
  <2>1. ctuState[x] \in TaskType /\ (phase[x] = "done" <=> ctuState[x] = DONE)
        /\ (phase[x] = "failed" => failed)
    BY <1>1, TaskStates DEF Accounted
  <2>2. CASE UNCHANGED <<ctuState[x], phase[x]>>
    BY <2>1, <2>2, FailedStays
  <2>3. CASE StartStage(x)
    BY <1>1, <2>1, <2>3 DEF StartStage, TypeOK
  <2>4. CASE CtuDone(x)
    BY <1>1, <2>1, <2>4, NotDoneTwice DEF CtuDone, TypeOK
  <2>5. CASE StageDone(x)
    BY <1>1, <2>1, <2>5, NotDoneTwice DEF StageDone, TypeOK
  <2>6. CASE ctuState'[x] = ctuState[x] /\ phase'[x] \notin {"kernel", "done"}
             /\ phase[x] # "done" /\ (phase'[x] = "failed" => failed')
    BY <2>1, <2>6
  <2> QED
    BY <1>1, <2>2, <2>3, <2>4, <2>5, <2>6, OneTaskMoves
<1>3. finish' = "reconstructed" => AllLeft' /\ ~failed'
  <2>1. CASE finish = "reconstructed"
    BY <1>1, <2>1, LeftStays DEF Accounted
  <2>2. CASE FinishRecon
    BY <2>2 DEF FinishRecon, AllLeft
  <2>3. CASE finish # "reconstructed" /\ ~FinishRecon
    BY <2>3, CompletionSteps
       DEF ScheduleFinish, ScheduleThrows, FinishFails, ReconDone, CleanupOnException
  <2> QED
    BY <2>1, <2>2, <2>3
<1>4. /\ main' = "cleanup" => finish' = "failed"
      /\ main' = "schedule" <=> finish' = "none"
  BY <1>1, CompletionSteps
     DEF Accounted, ScheduleFinish, ScheduleThrows, FinishRecon, FinishFails, ReconDone,
         CleanupOnException
<1>5. finish' \in {"waiting", "reconstructed"} => AllScheduled'
  <2>1. ASSUME finish' \in {"waiting", "reconstructed"} PROVE AllScheduled
    BY <1>1, <2>1, CompletionSteps
       DEF Accounted, ScheduleFinish, ScheduleThrows, FinishRecon, FinishFails, ReconDone,
           CleanupOnException
  <2> QED
    BY <1>1, <2>1, ScheduledStays
<1>6. main' = "free" => AllLeft'
  <2>1. CASE main = "free"
    BY <1>1, <2>1, LeftStays DEF Accounted
  <2>2. CASE main # "free" /\ main' = "free"
    <3>1. AllLeft /\ main # "schedule"
      BY <1>1, <2>2, CompletionSteps
         DEF Accounted, TypeOK, ScheduleFinish, ScheduleThrows, FinishRecon, FinishFails,
             ReconDone, CleanupOnException
    <3> QED
      BY <1>1, <3>1, LeftStays
  <2> QED
    BY <2>1, <2>2
<1> QED
  BY <1>2, <1>3, <1>4, <1>5, <1>6 DEF Accounted

\* The loops of a stage move only with CtuDone and StageDone.
LEMMA LoopMoves ==
  ASSUME TypeOK, [Next]_vars, NEW x \in Tasks
  PROVE  CtuDone(x) \/ StageDone(x) \/ UNCHANGED <<ctuState[x], ctu[x]>>
<1>1. ASSUME NEW y \in Tasks, TaskStep(y) \/ KernelThrows(y) \/ Schedule(y)
      PROVE  CtuDone(x) \/ StageDone(x) \/ UNCHANGED <<ctuState[x], ctu[x]>>
  <2>1. CASE y = x
    BY <1>1, <2>1 DEF TaskStep, Take, Requeue, FailToTake, FailInTask, StartStage, ReturnFalse,
                      KernelThrows, Fail, Schedule
  <2>2. CASE y # x
    BY <1>1, <2>2 DEF TypeOK, TaskStep, Take, Requeue, FailToTake, FailInTask, StartStage,
                      ReturnFalse, CtuDone, StageDone, KernelThrows, Fail, Schedule
  <2> QED
    BY <2>1, <2>2
<1>2. ASSUME Environment \/ ParseThrows \/ ScheduleFinish \/ ScheduleThrows \/ Completion
               \/ UNCHANGED vars
      PROVE  UNCHANGED <<ctuState, ctu>>
  BY <1>2 DEF Environment, ParseLine, RefExtended, ParseThrows, ScheduleFinish,
              ScheduleThrows, Completion, FinishRecon,
              FinishFails, ReconDone, CleanupOnException, vars
<1> QED
  BY <1>1, <1>2 DEF Next, Scheduling, IdleSearch

LEMMA ContBegunStep == ASSUME IndInv, [Next]_vars PROVE ContBegun'
<1> USE DEF MIDER, MIDER_cont, LF_INIT, INTER, INTRA, INTRA_cont, RSP, LF_V, LF_V_cont,
            LF_H, PRESAO, SAO, SAO_cont, ALF, DONE
<1> SUFFICES ASSUME NEW x \in Tasks
             PROVE  /\ ctuState'[x] \in {MIDER_cont, INTRA_cont, LF_V_cont} => ctu'[x] > 0
                    /\ ctuState'[x] = SAO_cont => ctu'[x] > numCtus(x)
  BY DEF ContBegun, numCtus, ctuEnd, ctuStart
<1>1. ctu[x] \in Nat /\ numCtus(x) \in Nat /\ ctuState[x] \in TaskType
  BY TaskSize DEF IndInv, TypeOK
<1>2. CASE CtuDone(x)
  <2>1. ctu'[x] = ctu[x] + 1 /\ ctuState'[x] = ContState(ctuState[x], ctu[x], x)
    BY <1>2 DEF CtuDone, IndInv, TypeOK
  <2>2. ctuState'[x] = SAO_cont => ctuState[x] \in {SAO, SAO_cont} /\ ctu[x] >= numCtus(x)
    <3>1. ctuState[x] = SAO_cont => ctu[x] >= numCtus(x)
      BY <1>1 DEF IndInv, ContBegun
    <3> QED
      BY <1>1, <2>1, <3>1 DEF ContState, TaskType
  <2> QED
    BY <1>1, <2>1, <2>2
<1>3. CASE StageDone(x)
  <2>1. ctuState'[x] = NextState(ctuState[x])
    BY <1>3 DEF StageDone, IndInv, TypeOK
  <2>2. ctuState'[x] \notin {MIDER_cont, INTRA_cont, LF_V_cont, SAO_cont}
    BY <1>1, <2>1 DEF NextState, TaskType
  <2> QED
    BY <2>2
<1>4. CASE UNCHANGED <<ctuState[x], ctu[x]>>
  BY <1>4 DEF IndInv, ContBegun
<1> QED
  BY <1>2, <1>3, <1>4, LoopMoves DEF IndInv
-----------------------------------------------------------------------------
(* The inductive invariant and the properties.                             *)

LEMMA InitIndInv == Init => IndInv
<1> SUFFICES ASSUME Init PROVE IndInv
  OBVIOUS
<1>1. TypeOK
  BY InitTypeOK
<1>2. ASSUME NEW x \in Tasks, NEW s \in TaskType PROVE ~StageOf(s, x)
  BY <1>2 DEF Init, StageOf, TaskType, MIDER, DONE
<1>3. GuardsPersist
  BY <1>2 DEF GuardsPersist
<1>4. LineOrder
  BY <1>2 DEF LineOrder, TaskType, MIDER, DONE
<1>5. Accounted
  BY DEF Init, Accounted, MIDER, DONE
<1>6. ContBegun
  BY DEF Init, ContBegun, MIDER, MIDER_cont, INTRA_cont, LF_V_cont, SAO_cont
<1> QED
  BY <1>1, <1>3, <1>4, <1>5, <1>6 DEF IndInv

LEMMA NextIndInv == IndInv /\ [Next]_vars => IndInv'
BY NextTypeOK, GuardsStep, LineOrderStep, ContBegunStep, AccountedStep DEF IndInv

\* The strengthened invariant, from which the others follow.
THEOREM Inductive == Spec => []IndInv
BY InitIndInv, NextIndInv, PTL DEF Spec

\* What a stage's condition found stays true for as long as the task lives,
\* whatever the other threads do.
THEOREM ConditionsPersist == Spec => []GuardsPersist
<1>1. IndInv => GuardsPersist
  BY DEF IndInv
<1> QED
  BY <1>1, Inductive, PTL

\* No two tasks of a line derive motion at the same time: the history of the
\* line needs no lock.
THEOREM HistoryExclusive == Spec => []LineHistoryExclusive
<1>1. ASSUME IndInv, NEW x \in Tasks, NEW y \in Tasks, x[1] = y[1], InMider(x), InMider(y)
      PROVE  x = y
  <2>1. x[2] \in Nat /\ y[2] \in Nat /\ x[2] \in Cols /\ y[2] \in Cols
    BY Grid, TaskGrid DEF Cols
  <2>2. ASSUME NEW u \in Tasks, NEW v \in Tasks, u[1] = v[1], InMider(u), InMider(v),
               u[2] \in Cols, v[2] \in Cols, u[2] < v[2]
        PROVE  FALSE
    <3>1. StageOf(MIDER, v)
      BY <2>2 DEF StageOf, InMider, MIDER, MIDER_cont
    <3>2. St(u[1], u[2]) > MIDER_cont
      BY <1>1, <2>2, <3>1 DEF IndInv, LineOrder
    <3>3. ctuState[u] > MIDER_cont
      BY <3>2, Grid DEF St
    <3> QED
      BY <2>2, <3>3 DEF InMider, MIDER, MIDER_cont
  <2>3. ~(x[2] < y[2]) /\ ~(y[2] < x[2])
    BY <1>1, <2>1, <2>2
  <2>4. x[2] = y[2]
    BY <2>1, <2>3
  <2> QED
    BY <1>1, <2>4, Grid
<1>2. IndInv => LineHistoryExclusive
  BY <1>1 DEF LineHistoryExclusive
<1> QED
  BY <1>2, Inductive, PTL

\* DecLibRecon drops the task states of a picture, and takes the next one, only
\* when no thread runs a task of it and none can be taken, exceptions or not.
THEOREM QuietRelease == Spec => []ReleasedWhenQuiet
<1>1. IndInv => ReleasedWhenQuiet
  BY DEF IndInv, Accounted, ReleasedWhenQuiet
<1> QED
  BY <1>1, Inductive, PTL

\* A picture that is published as reconstructed went through all stages.
THEOREM CompletePublication == Spec => []PublishedComplete
<1>1. IndInv => PublishedComplete
  BY DEF IndInv, Accounted, PublishedComplete, AllScheduled, AllLeft, Left
<1> QED
  BY <1>1, Inductive, PTL
=============================================================================
