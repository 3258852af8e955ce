------------------------------ MODULE CtuTasks ------------------------------
(***************************************************************************)
(* The reconstruction of one picture by DecLibRecon: decompressPicture cuts *)
(* every CTU line into tasks of numColPerTask CTUs, the worker threads run  *)
(* ctuTask on them in any order, and the tasks synchronise only through     *)
(* their own states (ctuStates), the parse barriers of the CTU lines, the   *)
(* border-extension barriers of the reference pictures and the exception    *)
(* of m_ctuTaskCounter.  finishReconTask publishes the picture; the main    *)
(* thread waits for it and, after an error, for the tasks still queued,     *)
(* before the instance takes the next picture.                              *)
(***************************************************************************)
EXTENDS Integers, FiniteSets

CONSTANTS
  WidthInCtus,   \* cs.pcv->widthInCtus
  HeightInCtus,  \* cs.pcv->heightInCtus
  NumThreads,    \* m_numDecThreads
  IsIntra,       \* every slice of the picture is an intra slice
  DoALF,         \* CommonTaskParam::doALF
  RefPics,       \* the reference pictures whose borders are being extended
  MayFail        \* TRUE: parsing, kernels and border extension may throw

ASSUME SizeAssumption ==
  /\ WidthInCtus \in Nat \ {0}
  /\ HeightInCtus \in Nat \ {0}
  /\ NumThreads \in Nat
  /\ IsIntra \in BOOLEAN /\ DoALF \in BOOLEAN /\ MayFail \in BOOLEAN

VARIABLES
  ctuState,    \* CommonTaskParam::ctuStates, one TaskType per task
  ctu,         \* how many iterations of the current stage's loops are over
  phase,       \* where the pool and the thread that runs the task are
  parsed,      \* the lines whose last ctuParsedBarrier is unlocked
  parseError,  \* the parse barriers carry an exception
  refState,    \* refPicExtDepBarriers, one per reference picture
  failed,      \* m_ctuTaskCounter.hasException()
  finish,      \* reconDone: "none", "waiting", "reconstructed" or "failed"
  main         \* the main thread: "schedule", "waitRecon", "cleanup" or "free"

vars == <<ctuState, ctu, phase, parsed, parseError, refState, failed, finish, main>>
-----------------------------------------------------------------------------
(* enum TaskType; the code compares its values with < and <=. *)
MIDER      == 0
MIDER_cont == 1
LF_INIT    == 2
INTER      == 3
INTRA      == 4
INTRA_cont == 5
RSP        == 6
LF_V       == 7
LF_V_cont  == 8
LF_H       == 9
PRESAO     == 10
SAO        == 11
SAO_cont   == 12
ALF        == 13
DONE       == 14
TaskType   == MIDER .. DONE

(* The partition of a line into tasks. *)
AtMost(a, b)  == IF a < b THEN a ELSE b
AtLeast(a, b) == IF a > b THEN a ELSE b

numColPerTask ==
  AtLeast(AtMost(WidthInCtus,
                 WidthInCtus \div AtLeast(NumThreads * (IF IsIntra THEN 2 ELSE 1), 1)
                   + (IF IsIntra THEN 0 ELSE 1)),
          1)
numTasksPerLine ==
  WidthInCtus \div numColPerTask + (IF WidthInCtus % numColPerTask = 0 THEN 0 ELSE 1)

Lines == 0 .. HeightInCtus - 1
Cols  == 0 .. numTasksPerLine - 1
Tasks == Lines \X Cols
LastCol == numTasksPerLine - 1

ctuStart(x) == x[2] * numColPerTask
ctuEnd(x)   == AtMost(ctuStart(x) + numColPerTask, WidthInCtus)
numCtus(x)  == ctuEnd(x) - ctuStart(x)
-----------------------------------------------------------------------------
(* The conditions under which ctuTask goes on with each stage of task x; a *)
(* condition that does not hold makes it return false.                     *)
St(line, col) == ctuState[<<line, col>>]
NotTop(x)     == x[1] > 0
NotBottom(x)  == x[1] + 1 < HeightInCtus
NotLeft(x)    == x[2] > 0
NotRight(x)   == x[2] + 1 < numTasksPerLine

\* Plausible slips in the conditions below, kept to show that the properties
\* notice them: the left neighbour merely has begun; the right neighbour has not
\* been extended by prepareCTU; equality instead of order; a line that waits for
\* the next line to be past PRESAO.
MiderReady_LeftBegun(x) ==
  /\ NotLeft(x) => St(x[1], x[2] - 1) >= MIDER_cont
  /\ NotTop(x) => St(x[1] - 1, x[2]) > MIDER_cont

LfVReady_Equality(x) == NotLeft(x) => St(x[1], x[2] - 1) = LF_V

RspReady_NoBelowRight(x) ==
  /\ NotBottom(x) => St(x[1] + 1, x[2]) >= RSP
  /\ NotRight(x)  => St(x[1], x[2] + 1) >= INTRA_cont

PresaoReady_WaitBelow(x) ==
  IF x[2] = LastCol
  THEN /\ NotTop(x) => St(x[1] - 1, x[2]) > PRESAO
       /\ \A c \in Cols : /\ St(x[1], c) >= PRESAO
                          /\ NotBottom(x) => St(x[1] + 1, c) > PRESAO
  ELSE St(x[1], LastCol) > PRESAO

MiderReady(x) ==
  LET line == x[1]  col == x[2] IN
  /\ NotLeft(x) => St(line, col - 1) > MIDER_cont
  /\ NotTop(x) /\ NotRight(x)  => St(line - 1, col + 1) > MIDER
  /\ NotTop(x) /\ ~NotRight(x) => St(line - 1, col) > MIDER_cont

\* The first two conditions only shape the wave-front of intra pictures.
InterReady(x) ==
  LET line == x[1]  col == x[2] IN
  /\ IsIntra /\ col > 1    => St(line, col - 2) > INTER
  /\ IsIntra /\ NotTop(x)  => St(line - 1, col) > INTER
  /\ \A r \in RefPics : refState[r] = "open"

IntraReady(x) ==
  LET line == x[1]  col == x[2] IN
  /\ NotLeft(x) => St(line, col - 1) > INTRA_cont
  /\ NotTop(x) /\ NotRight(x)  => St(line - 1, col + 1) > INTRA
  /\ NotTop(x) /\ ~NotRight(x) => St(line - 1, col) > INTRA_cont

RspReady(x) ==
  LET line == x[1]  col == x[2] IN
  /\ NotBottom(x) /\ NotRight(x) => St(line + 1, col + 1) >= INTRA_cont
  /\ NotBottom(x) => St(line + 1, col) >= RSP
  /\ NotRight(x)  => St(line, col + 1) >= INTRA_cont

LfVReady(x) == NotLeft(x) => St(x[1], x[2] - 1) >= LF_V

LfHReady(x) ==
  LET line == x[1]  col == x[2] IN
  /\ NotTop(x) => St(line - 1, col) >= LF_H
  /\ NotTop(x) /\ NotRight(x) => St(line - 1, col + 1) >= LF_V_cont
  /\ NotRight(x) => St(line, col + 1) >= LF_V_cont

\* The task of the last column handles the whole line, the others wait for it.
PresaoReady(x) ==
  LET line == x[1]  col == x[2] IN
  IF col = LastCol
  THEN /\ NotTop(x) => St(line - 1, col) > PRESAO
       /\ \A c \in Cols : /\ St(line, c) >= PRESAO
                          /\ NotBottom(x) => St(line + 1, c) >= PRESAO
  ELSE St(line, LastCol) > PRESAO

AlfReady(x) ==
  LET line == x[1]  col == x[2] IN
  DoALF =>
    /\ NotTop(x) =>
         /\ NotLeft(x)  => St(line - 1, col - 1) >= ALF
         /\ St(line - 1, col) >= ALF
         /\ NotRight(x) => St(line - 1, col + 1) >= SAO_cont
    /\ NotBottom(x) =>
         /\ NotLeft(x)  => St(line + 1, col - 1) >= ALF
         /\ St(line + 1, col) >= ALF
         /\ NotRight(x) => St(line + 1, col + 1) >= SAO_cont
    /\ NotLeft(x)  => St(line, col - 1) >= ALF
    /\ NotRight(x) => St(line, col + 1) >= SAO_cont

\* The guard of the stage that starts in state s; LF_INIT and SAO have none.
StageReady(s, x) ==
  CASE s = MIDER  -> MiderReady(x)
    [] s = INTER  -> InterReady(x)
    [] s = INTRA  -> IntraReady(x)
    [] s = RSP    -> RspReady(x)
    [] s = LF_V   -> LfVReady(x)
    [] s = LF_H   -> LfHReady(x)
    [] s = PRESAO -> PresaoReady(x)
    [] s = ALF    -> AlfReady(x)
    [] OTHER      -> TRUE

Ready(x) == StageReady(ctuState[x], x)

\* isBlocked() of a border-extension barrier rethrows the exception it carries.
RefThrows(x) == ctuState[x] = INTER /\ \E r \in RefPics : refState[r] = "error"
-----------------------------------------------------------------------------
(* One stage of a task: loops over its CTUs, which publish the _cont state *)
(* of the stage after every CTU, and then the state of the next stage.     *)
Iterations(x) ==
  CASE ctuState[x] = PRESAO            -> IF x[2] = LastCol THEN 1 ELSE 0
    [] ctuState[x] \in {SAO, SAO_cont} -> IF DoALF THEN 2 * numCtus(x) ELSE numCtus(x)
    [] ctuState[x] = ALF               -> IF DoALF THEN numCtus(x) ELSE 0
    [] OTHER                           -> numCtus(x)

\* The state after iteration i of the stage; SAO runs before the loop of
\* prepareCTU, which is the one that publishes SAO_cont.
ContState(s, i, x) ==
  CASE s \in {MIDER, MIDER_cont}             -> MIDER_cont
    [] s \in {INTRA, INTRA_cont}             -> INTRA_cont
    [] s \in {LF_V, LF_V_cont}               -> LF_V_cont
    [] s \in {SAO, SAO_cont} /\ i >= numCtus(x) -> SAO_cont
    [] OTHER                                 -> s

NextState(s) ==
  CASE s \in {MIDER, MIDER_cont} -> LF_INIT
    [] s = LF_INIT               -> INTER
    [] s = INTER                 -> INTRA
    [] s \in {INTRA, INTRA_cont} -> RSP
    [] s = RSP                   -> LF_V
    [] s \in {LF_V, LF_V_cont}   -> LF_H
    [] s = LF_H                  -> PRESAO
    [] s = PRESAO                -> SAO
    [] s \in {SAO, SAO_cont}     -> ALF
    [] OTHER                     -> DONE
-----------------------------------------------------------------------------
(* Phases of a task.                                                       *)
(*   new       not yet added by decompressPicture                         *)
(*   waiting   in the pool, its parse barrier not yet found unlocked       *)
(*   requeued  in the pool, its barriers checked and dropped               *)
(*   entry     found ready by a thread that is about to call ctuTask       *)
(*   kernel    in the loops of a stage                                     *)
(*   next      a stage is over, its thread falls through to the next one   *)
(*   done, failed   out of the pool                                        *)
Queued  == {"waiting", "requeued"}
Held    == {"entry", "kernel", "next"}
Left    == {"done", "failed"}
Phases  == {"new"} \cup Queued \cup Held \cup Left

ThreadFree == Cardinality({x \in Tasks : phase[x] \in Held}) < AtLeast(NumThreads, 1)

Init ==
  /\ ctuState = [x \in Tasks |-> MIDER]
  /\ ctu = [x \in Tasks |-> 0]
  /\ phase = [x \in Tasks |-> "new"]
  /\ parsed = {} /\ parseError = FALSE
  /\ refState = [r \in RefPics |-> "blocked"]
  /\ failed = FALSE
  /\ finish = "none"
  /\ main = "schedule"

\* decompressPicture() adds the tasks in zig-zag order while the workers run those
\* it has added already.
ZigZagBefore(y, x) == \/ y[1] + y[2] < x[1] + x[2]
                      \/ y[1] + y[2] = x[1] + x[2] /\ y[1] < x[1]

Schedule(x) ==
  /\ main = "schedule" /\ ~failed
  /\ phase[x] = "new" /\ \A y \in Tasks : phase[y] = "new" => ~ZigZagBefore(y, x)
  /\ phase' = [phase EXCEPT ![x] = "waiting"]
  /\ UNCHANGED <<ctuState, ctu, parsed, parseError, refState, failed, finish, main>>

AllScheduled == \A x \in Tasks : phase[x] # "new"

\* finishReconTask comes last, blocked by the done barrier of m_ctuTaskCounter.
ScheduleFinish ==
  /\ main = "schedule" /\ AllScheduled
  /\ finish' = "waiting" /\ main' = "waitRecon"
  /\ UNCHANGED <<ctuState, ctu, phase, parsed, parseError, refState, failed>>

\* A counter throws in addBarrierTask when one of its tasks has failed already,
\* m_ctuTaskCounter or the parse tasks' m_divTasksCounter (which gets the exception
\* after the barriers did): reconPicture() hands the exception to reconDone.
ScheduleThrows ==
  /\ main = "schedule"
  /\ \/ failed /\ ~AllScheduled
     \/ parseError /\ AllScheduled
  /\ finish' = "failed" /\ main' = "waitRecon"
  /\ UNCHANGED <<ctuState, ctu, phase, parsed, parseError, refState, failed>>

\* checkTaskReady() of a task with its barriers, and without them.
BarriersOpen(x) == phase[x] = "requeued" \/ (x[1] \in parsed /\ ~parseError)

\* findNextTask() takes a task whose barriers are open and whose stage is ready.
Take(x) ==
  /\ phase[x] \in Queued /\ ThreadFree
  /\ BarriersOpen(x) /\ ~failed /\ Ready(x)
  /\ phase' = [phase EXCEPT ![x] = "entry"]
  /\ UNCHANGED <<ctuState, ctu, parsed, parseError, refState, failed, finish, main>>

\* The barriers are open but the stage is not ready: the barriers are dropped
\* and the task goes back to the queue.
Requeue(x) ==
  /\ phase[x] = "waiting" /\ ThreadFree
  /\ BarriersOpen(x) /\ ~failed /\ ~Ready(x)
  /\ phase' = [phase EXCEPT ![x] = "requeued"]
  /\ UNCHANGED <<ctuState, ctu, parsed, parseError, refState, failed, finish, main>>

\* handleTaskException(): the counter takes the exception, the slot is freed.
Fail(x) ==
  /\ phase' = [phase EXCEPT ![x] = "failed"]
  /\ failed' = TRUE
  /\ UNCHANGED <<ctuState, ctu, parsed, parseError, refState, finish, main>>

\* A slip: the ready check does not look at the picture's exception.
FailToTake_BarriersOnly(x) ==
  /\ phase[x] \in Queued /\ ThreadFree
  /\ \/ phase[x] = "waiting" /\ parseError
     \/ BarriersOpen(x) /\ RefThrows(x)
  /\ Fail(x)

\* A barrier or the ready check throws in findNextTask().
FailToTake(x) ==
  /\ phase[x] \in Queued /\ ThreadFree
  /\ \/ phase[x] = "waiting" /\ parseError
     \/ BarriersOpen(x) /\ (failed \/ RefThrows(x))
  /\ Fail(x)

\* ctuTask() rethrows the picture's exception when it is entered, and the
\* exception of a reference picture before inter prediction.
FailInTask(x) ==
  /\ \/ phase[x] = "entry" /\ failed
     \/ phase[x] \in {"entry", "next"} /\ RefThrows(x)
  /\ Fail(x)

StartStage(x) ==
  /\ phase[x] \in {"entry", "next"}
  /\ phase[x] = "entry" => ~failed
  /\ Ready(x)
  /\ phase' = [phase EXCEPT ![x] = "kernel"]
  /\ UNCHANGED <<ctuState, ctu, parsed, parseError, refState, failed, finish, main>>

\* ctuTask() returns false and processTask() makes the task WAITING again.
ReturnFalse(x) ==
  /\ phase[x] = "next" /\ ~Ready(x)
  /\ phase' = [phase EXCEPT ![x] = "requeued"]
  /\ UNCHANGED <<ctuState, ctu, parsed, parseError, refState, failed, finish, main>>

CtuDone(x) ==
  /\ phase[x] = "kernel" /\ ctu[x] < Iterations(x)
  /\ ctuState' = [ctuState EXCEPT ![x] = ContState(@, ctu[x], x)]
  /\ ctu' = [ctu EXCEPT ![x] = @ + 1]
  /\ UNCHANGED <<phase, parsed, parseError, refState, failed, finish, main>>

\* A slip: the loop variable survives the stage.
StageDone_NoReset(x) ==
  /\ phase[x] = "kernel" /\ ctu[x] = Iterations(x)
  /\ ctuState' = [ctuState EXCEPT ![x] = NextState(@)]
  /\ phase' = [phase EXCEPT ![x] = IF ctuState[x] = ALF THEN "done" ELSE "next"]
  /\ UNCHANGED <<ctu, parsed, parseError, refState, failed, finish, main>>

StageDone(x) ==
  /\ phase[x] = "kernel" /\ ctu[x] = Iterations(x)
  /\ ctuState' = [ctuState EXCEPT ![x] = NextState(@)]
  /\ ctu' = [ctu EXCEPT ![x] = 0]
  /\ phase' = [phase EXCEPT ![x] = IF ctuState[x] = ALF THEN "done" ELSE "next"]
  /\ UNCHANGED <<parsed, parseError, refState, failed, finish, main>>

KernelThrows(x) ==
  /\ MayFail
  /\ phase[x] = "kernel" /\ ctu[x] < Iterations(x)
  /\ Fail(x)
-----------------------------------------------------------------------------
(* The parser, the border extension and the finishing of the picture.      *)

\* parseSlice() has unlocked the barriers of all CTUs of one more line; a CTU is
\* parsed after the one above it, or parsing throws.
ParseLine(l) ==
  /\ l \notin parsed /\ 0 .. l - 1 \subseteq parsed /\ ~parseError
  /\ parsed' = parsed \cup {l}
  /\ UNCHANGED <<ctuState, ctu, phase, parseError, refState, failed, finish, main>>

\* parseTask sets its exception on the barriers of all CTUs.
ParseThrows ==
  /\ MayFail /\ parsed # Lines /\ ~parseError
  /\ parseError' = TRUE
  /\ UNCHANGED <<ctuState, ctu, phase, parsed, refState, failed, finish, main>>

RefExtended(r) ==
  /\ refState[r] = "blocked"
  /\ \E s \in {"open"} \cup (IF MayFail THEN {"error"} ELSE {}) :
        refState' = [refState EXCEPT ![r] = s]
  /\ UNCHANGED <<ctuState, ctu, phase, parsed, parseError, failed, finish, main>>

\* No task is in the pool.  Without an exception m_ctuTaskCounter is zero exactly
\* then; behind one it is zero no earlier (WaitCounter's WaitIsSafe), but it can
\* wrap below zero or reach zero without waking the waiting thread, so that a wait
\* need not return although no task is left.
AllLeft == \A x \in Tasks : phase[x] \in {"new"} \cup Left

\* Slips: the barrier's exception is not looked at; nobody waits for the tasks.
FinishRecon_IgnoreException ==
  /\ finish = "waiting" /\ AllLeft
  /\ finish' = "reconstructed"
  /\ UNCHANGED <<ctuState, ctu, phase, parsed, parseError, refState, failed, main>>

CleanupOnException_NoWait ==
  /\ main = "cleanup"
  /\ main' = "free"
  /\ UNCHANGED <<ctuState, ctu, phase, parsed, parseError, refState, failed, finish>>

\* finishReconTask waits on the done barrier of m_ctuTaskCounter: it publishes
\* the picture when the barrier opens, and fails when it carries an exception.
FinishRecon ==
  /\ finish = "waiting" /\ ~failed /\ AllLeft
  /\ finish' = "reconstructed"
  /\ UNCHANGED <<ctuState, ctu, phase, parsed, parseError, refState, failed, main>>

FinishFails ==
  /\ finish = "waiting" /\ failed /\ ThreadFree
  /\ finish' = "failed"
  /\ UNCHANGED <<ctuState, ctu, phase, parsed, parseError, refState, failed, main>>

\* waitForPrevDecompressedPic() returns from reconDone.wait(); after an error it
\* cleans up before the instance is used again.
ReconDone ==
  /\ main = "waitRecon" /\ finish # "waiting"
  /\ main' = IF finish = "failed" THEN "cleanup" ELSE "free"
  /\ UNCHANGED <<ctuState, ctu, phase, parsed, parseError, refState, failed, finish>>

\* cleanupOnException() waits for all counters of the picture, the parse tasks'
\* included, before ctuStates is cleared.  wait_nothrow() of a counter with an
\* exception, here m_divTasksCounter with finishReconTask's at least, returns no
\* earlier than this guard allows and possibly never: the step is not among the
\* fair ones.
CleanupOnException ==
  /\ main = "cleanup"
  /\ AllLeft
  /\ parsed = Lines \/ parseError
  /\ main' = "free"
  /\ UNCHANGED <<ctuState, ctu, phase, parsed, parseError, refState, failed, finish>>
-----------------------------------------------------------------------------
TaskStep(x) ==
  \/ Take(x) \/ Requeue(x) \/ FailToTake(x) \/ FailInTask(x)
  \/ StartStage(x) \/ ReturnFalse(x) \/ CtuDone(x) \/ StageDone(x)

Environment ==
  \/ \E l \in Lines : ParseLine(l)
  \/ \E r \in RefPics : RefExtended(r)

Scheduling == (\E x \in Tasks : Schedule(x)) \/ ScheduleFinish \/ ScheduleThrows

Completion == FinishRecon \/ FinishFails \/ ReconDone \/ CleanupOnException

\* A worker that finds no task to take keeps searching (threadProc's idle loop).
IdleSearch == ThreadFree /\ UNCHANGED vars

Next ==
  \/ \E x \in Tasks : TaskStep(x) \/ KernelThrows(x)
  \/ Environment \/ ParseThrows
  \/ Scheduling \/ Completion
  \/ IdleSearch

\* Every worker keeps scanning the slots and running what it took; the parser
\* and the tasks of the reference pictures run in the same pool.  Nothing is
\* assumed of the wait in cleanupOnException().
Fairness ==
  /\ \A x \in Tasks : WF_vars(TaskStep(x))
  /\ WF_vars(Environment)
  /\ WF_vars(Scheduling) /\ WF_vars(FinishRecon \/ FinishFails \/ ReconDone)

Spec == Init /\ [][Next]_vars /\ Fairness
-----------------------------------------------------------------------------
(* Properties.                                                             *)

TypeOK ==
  /\ ctuState \in [Tasks -> TaskType]
  /\ ctu \in [Tasks -> Nat] /\ \A x \in Tasks : ctu[x] <= Iterations(x)
  /\ phase \in [Tasks -> Phases]
  /\ parsed \subseteq Lines /\ parseError \in BOOLEAN
  /\ refState \in [RefPics -> {"blocked", "open", "error"}]
  /\ failed \in BOOLEAN
  /\ finish \in {"none", "waiting", "reconstructed", "failed"}
  /\ main \in {"schedule", "waitRecon", "cleanup", "free"}

\* The kernel-level view of the tasks: which loop iteration of which stage of
\* which task runs the kernel j of CtuDataflow.
FirstState ==
  [mider |-> MIDER, lfInit |-> LF_INIT, inter |-> INTER, intra |-> INTRA, rsp |-> RSP,
   lfVer |-> LF_V, lfHor |-> LF_H, presao |-> PRESAO, sao |-> SAO, alfPrep |-> SAO,
   alf |-> ALF]
LastState ==
  [FirstState EXCEPT !.mider = MIDER_cont, !.intra = INTRA_cont, !.lfVer = LF_V_cont,
                     !.sao = SAO_cont, !.alfPrep = SAO_cont]

TaskOf(j) == <<j[2], j[3] \div numColPerTask>>
IterationOf(j) ==
  CASE j[1] = "presao"  -> 0
    [] j[1] = "alfPrep" -> numCtus(TaskOf(j)) + (j[3] % numColPerTask)
    [] OTHER            -> j[3] % numColPerTask

\* The task is behind the iteration of the job, or a thread is in it.
JobOver(j) ==
  LET x == TaskOf(j) IN
  \/ ctuState[x] > LastState[j[1]]
  \/ ctuState[x] >= FirstState[j[1]] /\ ctu[x] > IterationOf(j)
JobInWork(j) ==
  LET x == TaskOf(j) IN
  /\ ctuState[x] >= FirstState[j[1]] /\ ctuState[x] <= LastState[j[1]]
  /\ ctu[x] = IterationOf(j) /\ phase[x] = "kernel"
JobStatus(j) == IF JobOver(j) THEN "done" ELSE IF JobInWork(j) THEN "running" ELSE "idle"

DfJobs == INSTANCE CtuDataflow WITH status <- {}
Dataflow == INSTANCE CtuDataflow WITH status <- [j \in DfJobs!Jobs |-> JobStatus(j)]

\* Whatever the threads do, every kernel runs on final inputs and never
\* overwrites a sample another kernel still has to read: the task schedule
\* implements the CTU-level data flow (ctuTask's guards, which test the states
\* of whole tasks, are strong enough for the CTUs inside them).
ImplementsDataflow == Dataflow!DfSpec

\* The motion history of a line is one object that its tasks share without a
\* lock: no two of them derive motion at the same time.
InMider(x) == phase[x] = "kernel" /\ ctuState[x] \in {MIDER, MIDER_cont}
LineHistoryExclusive ==
  \A x, y \in Tasks : x[1] = y[1] /\ InMider(x) /\ InMider(y) => x = y

\* A stage's condition, once it let a task through, holds for good: no later
\* step of another task can invalidate what the task relied on.
StageOf(s, x) == ctuState[x] > s \/ (ctuState[x] = s /\ phase[x] = "kernel")
GuardsPersist ==
  \A x \in Tasks, s \in TaskType : StageOf(s, x) => StageReady(s, x)

\* ctuStates is cleared, or reused for the next picture, only when no thread
\* runs a task of this picture and none can be taken any more.
ReleasedWhenQuiet == main = "free" => AllLeft

\* A picture is published as reconstructed only when all its CTUs went through
\* all stages and nothing threw.
PublishedComplete ==
  finish = "reconstructed" => /\ \A x \in Tasks : ctuState[x] = DONE
                              /\ ~failed

\* What makes the safety properties inductive: the history of a line has passed
\* every task to the left of one that derives or has derived motion, a task that
\* left the pool either went through all stages or has left its exception in
\* m_ctuTaskCounter, finishReconTask is in the pool only after all other tasks, and
\* a picture that ended well has no task left; a _cont state tells that the first
\* CTU of the task is over.
LineOrder ==
  \A x \in Tasks : StageOf(MIDER, x) =>
    \A c \in Cols : c < x[2] => St(x[1], c) > MIDER_cont
ContBegun ==
  \A x \in Tasks :
    /\ ctuState[x] \in {MIDER_cont, INTRA_cont, LF_V_cont} => ctu[x] > 0
    /\ ctuState[x] = SAO_cont => ctu[x] > numCtus(x)
Accounted ==
  /\ \A x \in Tasks : /\ phase[x] = "done" <=> ctuState[x] = DONE
                      /\ phase[x] = "failed" => failed
  /\ main = "schedule" <=> finish = "none"
  /\ finish \in {"waiting", "reconstructed"} => AllScheduled
  /\ finish = "reconstructed" => AllLeft /\ ~failed
  /\ main = "cleanup" => finish = "failed"
  /\ main = "free" => AllLeft
IndInv == TypeOK /\ GuardsPersist /\ LineOrder /\ ContBegun /\ Accounted

\* The main thread gets its instance back when nothing throws: the tasks' mutual
\* waiting never closes a cycle, with any number of threads.
PictureEnds == <>(main = "free")

\* The tasks end whatever throws: every one of them leaves the pool, none waits for
\* ever for a neighbour, a line or a reference that failed, and finishReconTask
\* wakes the main thread, which is free or has only the wait of
\* cleanupOnException() left, with no task to wait for.
TasksEnd == <>[]( /\ AllLeft
                  /\ parsed = Lines \/ parseError
                  /\ main \in {"cleanup", "free"} )
=============================================================================
