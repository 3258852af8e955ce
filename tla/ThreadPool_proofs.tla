------------------------- MODULE ThreadPool_proofs -------------------------
(***************************************************************************)
(* Proofs about ThreadPool, for any finite set of workers, any number of   *)
(* tasks and any order between them.                                       *)
(***************************************************************************)
EXTENDS ThreadPool, FiniteSetTheorems, TLAPS

LEMMA Constants ==
  /\ NumTasks \in Nat /\ ChunkSize \in Nat \ {0} /\ MaxSlots \in Nat
  /\ MaxSlots >= NumTasks + ChunkSize
  /\ NoOne \notin Workers /\ 0 \notin Slots
  /\ \A n \in Nat : n <= MaxSlots => 1 .. n \subseteq Slots
BY PoolAssumption DEF Slots, NoOne

LEMMA InitIndInv == Init => PoolInv
<1> SUFFICES ASSUME Init PROVE PoolInv
  OBVIOUS
<1>1. TypeOK
  <2>1. ChunkSize \in 0 .. MaxSlots /\ 0 \in 0 .. NumTasks /\ 0 \in 0 .. MaxSlots
    BY Constants
  <2>2. 1 .. ChunkSize \subseteq Slots
    BY Constants
  <2> QED
    BY <2>1, <2>2 DEF Init, TypeOK
<1>2. Added = {} /\ \A s \in Slots : state[s] = "FREE"
  BY DEF Init, Added
<1>3. AddedInOrder
  BY <1>2, Constants DEF AddedInOrder
<1>4. SlotsFilled /\ HoldsSlot /\ SlotExclusive
  BY <1>2, Constants DEF Init, SlotsFilled, HoldsSlot, SlotExclusive, Holding
<1>5. RunsAfterDeps /\ FoundReady /\ SleepsOnlyWhenIdle
  BY DEF Init, RunsAfterDeps, FoundReady, SleepsOnlyWhenIdle
<1>6. PauseAlone /\ PauseSearch
  BY Constants DEF Init, PauseAlone, InPause, PauseSearch
<1> QED
  BY <1>1, <1>3, <1>4, <1>5, <1>6 DEF PoolInv

\* The next task is the one behind those that have been added.
LEMMA NextInOrder ==
  ASSUME AddedInOrder, Added # Tasks
  PROVE  /\ NextTask \in Tasks /\ NextTask \notin Added
         /\ \E n \in 0 .. NumTasks : Added \cup {NextTask} = 1 .. n
<1>1. PICK n \in 0 .. NumTasks : Added = 1 .. n
  BY DEF AddedInOrder
<1>2. n + 1 \in Tasks /\ n + 1 \notin Added /\ \A u \in 1 .. n + 1 - 1 : u \in Added
  BY <1>1, Constants DEF Tasks
<1>3. \A t \in Tasks : t \notin Added /\ (\A u \in 1 .. t - 1 : u \in Added) => t = n + 1
  BY <1>1, Constants DEF Tasks
<1>4. NextTask = n + 1
  BY <1>2, <1>3 DEF NextTask
<1>5. Added \cup {n + 1} = 1 .. n + 1 /\ n + 1 \in 0 .. NumTasks
  BY <1>1, <1>2, Constants DEF Tasks
<1> QED
  BY <1>2, <1>4, <1>5

\* What has been added stays as it is while no slot is filled and none is freed
\* whose task has not opened its barrier.
LEMMA AddedSame ==
  ASSUME content' = content, opened' = opened,
         \A s \in Slots : state'[s] = "FREE" <=> state[s] = "FREE"
  PROVE  Added' = Added
BY DEF Added

\* m_tasks.grow() is called only with every slot taken, and so never beyond the
\* number of tasks.
LEMMA GrowFits == ASSUME PoolInv, Grow PROVE numSlots' \in 0 .. MaxSlots
<1> DEFINE S == 1 .. numSlots
<1>1. NextTask \in Tasks /\ NextTask \notin Added
  BY NextInOrder DEF PoolInv, Grow
<1>2. numSlots \in 0 .. MaxSlots /\ S \subseteq Slots
  BY Constants DEF PoolInv, TypeOK
<1>3. \A s \in S : state[s] # "FREE" /\ content[s] \in Added
  BY <1>2 DEF Grow, FreeSlots, Added
<1>4. \A s \in S : content[s] \in Tasks \ {NextTask}
  BY <1>1, <1>2, <1>3 DEF PoolInv, SlotsFilled
<1>5. \A r, s \in S : content[r] = content[s] => r = s
  BY <1>2, <1>3 DEF PoolInv, SlotsFilled
<1>6. IsFiniteSet(Tasks) /\ Cardinality(Tasks) = NumTasks
  BY Constants, FS_Interval DEF Tasks
<1>7. /\ IsFiniteSet(Tasks \ {NextTask})
      /\ Cardinality(Tasks \ {NextTask}) = NumTasks - 1
  BY <1>1, <1>6, FS_RemoveElement
<1>8. IsFiniteSet(S) /\ Cardinality(S) = numSlots
  BY <1>2, Constants, FS_Interval
<1>9. [s \in S |-> content[s]] \in Injection(S, Tasks \ {NextTask})
  BY <1>4, <1>5 DEF Injection, IsInjective
<1>10. Cardinality(S) <= Cardinality(Tasks \ {NextTask})
  BY <1>7, <1>8, <1>9, FS_Injection
<1> QED
  BY <1>2, <1>7, <1>8, <1>10, Constants DEF Grow
-----------------------------------------------------------------------------
(* Types.                                                                  *)

\* The slot of a worker that has one.
LEMMA HeldSlot ==
  ASSUME PoolInv, NEW w \in Workers, pc[w] \in Holding
  PROVE  /\ hold[w] \in Slots /\ state[hold[w]] = "RUNNING"
         /\ content[hold[w]] \in Tasks
<1>1. hold[w] \in 0 .. MaxSlots /\ hold[w] # 0 /\ state[hold[w]] = "RUNNING"
  BY DEF PoolInv, TypeOK, HoldsSlot, SlotExclusive
<1>2. hold[w] \in Slots
  BY <1>1, Constants DEF Slots
<1> QED
  BY <1>1, <1>2 DEF PoolInv, SlotsFilled

\* Adding tasks and closing.
LEMMA MainTypeOK == ASSUME PoolInv, Add \/ Shutdown \/ Close PROVE TypeOK'
<1> USE DEF PoolInv, TypeOK
<1>1. CASE Grow
  BY <1>1, GrowFits DEF Grow, workerVars, lockVars
<1>2. CASE Prepare
  <2>1. NextTask \in 0 .. NumTasks
    BY <1>2, NextInOrder, Constants DEF Prepare, Tasks
  <2>2. FreeSlots \subseteq Slots
    BY Constants DEF FreeSlots
  <2> QED
    BY <1>2, <2>1, <2>2 DEF Prepare, workerVars, lockVars
<1>3. CASE Publish
  BY <1>3 DEF Publish, Published, Unpause
<1>4. CASE Shutdown
  BY <1>4 DEF Shutdown, slotVars, workerVars, lockVars
<1>5. CASE WakeForJoin
  BY <1>5 DEF WakeForJoin, Unpause, slotVars
<1>6. CASE Join
  BY <1>6 DEF Join, slotVars, workerVars, lockVars
<1> QED
  BY <1>1, <1>2, <1>3, <1>4, <1>5, <1>6 DEF Add, Close

LEMMA WorkerTypeOK ==
  ASSUME PoolInv, NEW w \in Workers, WorkerStep(w) \/ SpuriousWakeup(w) PROVE TypeOK'
<1> USE DEF PoolInv, TypeOK, slotVars, workerVars, lockVars
<1>1. 1 .. numSlots \subseteq Slots /\ 0 \in 0 .. MaxSlots /\ Slots \subseteq 0 .. MaxSlots
  BY Constants DEF Slots
<1>2. CASE Look(w)
  BY <1>1, <1>2 DEF Look
<1>3. CASE CheckReady(w)
  BY <1>3 DEF CheckReady, Release
<1>4. CASE CheckBlocked(w)
  BY <1>1, <1>4, HeldSlot DEF CheckBlocked
<1>5. CASE NothingFound(w)
  BY <1>5 DEF NothingFound, Release
<1>6. CASE Spin(w) \/ QueueUp(w) \/ BeginPause(w) \/ SpuriousWakeup(w) \/ Begin(w)
  BY <1>1, <1>6 DEF Spin, SearchAgain, QueueUp, BeginPause, SpuriousWakeup, Begin
<1>7. CASE LockIdle(w) \/ EnterPause(w) \/ Resume(w)
  BY <1>1, <1>7 DEF LockIdle, EnterPause, Resume, SearchAgain
<1>8. CASE OpenBarrier(w)
  BY <1>8, HeldSlot DEF OpenBarrier, Holding
<1>9. CASE FreeSlot(w)
  BY <1>1, <1>9, HeldSlot DEF FreeSlot, SearchAgain, Holding
<1>10. CASE Leave(w)
  BY <1>10 DEF Leave, Release
<1> QED
  BY <1>2, <1>3, <1>4, <1>5, <1>6, <1>7, <1>8, <1>9, <1>10 DEF WorkerStep
-----------------------------------------------------------------------------
(* The slots.                                                              *)

\* A step that keeps the tasks and neither takes nor frees a slot.
SlotsKept ==
  /\ content' = content /\ numSlots' = numSlots /\ opened' = opened
  /\ \A s \in Slots : state'[s] = "FREE" <=> state[s] = "FREE"

LEMMA SlotsKeptStep ==
  ASSUME PoolInv, SlotsKept
  PROVE  (AddedInOrder /\ SlotsFilled)'
<1>1. Added' = Added
  BY AddedSame DEF SlotsKept
<1>2. AddedInOrder'
  BY <1>1 DEF PoolInv, AddedInOrder
<1>3. SlotsFilled'
  BY DEF PoolInv, SlotsFilled, SlotsKept
<1> QED
  BY <1>2, <1>3

LEMMA GrowSlots == ASSUME PoolInv, Grow PROVE (AddedInOrder /\ SlotsFilled)'
<1>1. Added' = Added
  BY AddedSame DEF Grow
<1>2. AddedInOrder'
  BY <1>1 DEF PoolInv, AddedInOrder
<1>3. numSlots \in Nat /\ numSlots' >= numSlots
  BY Constants DEF PoolInv, TypeOK, Grow
<1>4. SlotsFilled'
  BY <1>3 DEF PoolInv, SlotsFilled, Grow, Slots
<1> QED
  BY <1>2, <1>4

LEMMA PrepareSlots == ASSUME PoolInv, Prepare PROVE (AddedInOrder /\ SlotsFilled)'
<1>1. PICK s \in FreeSlots :
        /\ state' = [state EXCEPT ![s] = "PREPARING"]
        /\ content' = [content EXCEPT ![s] = NextTask]
  BY DEF Prepare
<1>2. s \in Slots /\ s <= numSlots /\ state[s] = "FREE"
  <2>1. 1 .. numSlots \subseteq Slots
    BY Constants DEF PoolInv, TypeOK
  <2> QED
    BY <2>1, Constants DEF FreeSlots, PoolInv, TypeOK
<1>3. NextTask \in Tasks /\ NextTask \notin Added
  BY NextInOrder DEF PoolInv, Prepare
<1>4. /\ \A r \in Slots : r # s => state'[r] = state[r] /\ content'[r] = content[r]
      /\ state'[s] = "PREPARING" /\ content'[s] = NextTask
  BY <1>1, <1>2 DEF PoolInv, TypeOK
<1>5. Added' = Added \cup {NextTask}
  <2>1. \A r \in Slots : state'[r] # "FREE" <=> state[r] # "FREE" \/ r = s
    BY <1>2, <1>4
  <2> QED
    BY <1>2, <1>4, <2>1 DEF Added, Prepare
<1>6. AddedInOrder'
  BY <1>5, NextInOrder DEF PoolInv, AddedInOrder, Prepare
<1>7. \A r \in Slots : state[r] # "FREE" => content[r] # NextTask
  BY <1>3 DEF Added
<1>8. SlotsFilled'
  BY <1>2, <1>3, <1>4, <1>7 DEF PoolInv, SlotsFilled, Prepare
<1> QED
  BY <1>6, <1>8

LEMMA OpenBarrierSlots ==
  ASSUME PoolInv, NEW w \in Workers, OpenBarrier(w) PROVE (AddedInOrder /\ SlotsFilled)'
<1>1. hold[w] \in Slots /\ state[hold[w]] = "RUNNING"
  BY HeldSlot DEF OpenBarrier, Holding
<1>2. Added' = Added
  BY <1>1 DEF OpenBarrier, Added
<1>3. AddedInOrder'
  BY <1>2 DEF PoolInv, AddedInOrder
<1>4. SlotsFilled'
  BY DEF PoolInv, SlotsFilled, OpenBarrier
<1> QED
  BY <1>3, <1>4

LEMMA FreeSlotSlots ==
  ASSUME PoolInv, NEW w \in Workers, FreeSlot(w) PROVE (AddedInOrder /\ SlotsFilled)'
<1>1. hold[w] \in Slots /\ content[hold[w]] \in opened
  BY HeldSlot DEF FreeSlot, Holding, PoolInv, FoundReady
<1>2. /\ state'[hold[w]] = "FREE"
      /\ \A s \in Slots : s # hold[w] => state'[s] = state[s]
  BY <1>1 DEF FreeSlot, PoolInv, TypeOK
<1>3. Added' = Added
  BY <1>1, <1>2 DEF FreeSlot, Added
<1>4. AddedInOrder'
  BY <1>3 DEF PoolInv, AddedInOrder
<1>5. SlotsFilled'
  BY <1>2 DEF PoolInv, SlotsFilled, FreeSlot
<1> QED
  BY <1>4, <1>5

\* All others keep the slots as they are, or exchange WAITING and RUNNING.
LEMMA SlotsStep == ASSUME PoolInv, [Next]_vars PROVE (AddedInOrder /\ SlotsFilled)'
<1> USE DEF slotVars
<1>1. CASE Add
  <2>1. CASE Publish
    BY <2>1, SlotsKeptStep DEF Publish, Published, Prepared, SlotsKept, PoolInv, TypeOK
  <2> QED
    BY <1>1, <2>1, GrowSlots, PrepareSlots DEF Add
<1>2. CASE Shutdown \/ Close
  BY <1>2, SlotsKeptStep DEF Shutdown, Close, WakeForJoin, Join, SlotsKept
<1>3. ASSUME NEW w \in Workers, WorkerStep(w) \/ SpuriousWakeup(w)
      PROVE  (AddedInOrder /\ SlotsFilled)'
  <2>1. CASE Look(w)
    BY <2>1, SlotsKeptStep DEF Look, SlotsKept, PoolInv, TypeOK
  <2>2. CASE CheckBlocked(w)
    BY <2>2, SlotsKeptStep, HeldSlot DEF CheckBlocked, SlotsKept, Holding, PoolInv, TypeOK
  <2>3. CASE CheckReady(w) \/ NothingFound(w) \/ Spin(w) \/ QueueUp(w) \/ LockIdle(w)
    BY <2>3, SlotsKeptStep
    DEF CheckReady, NothingFound, Spin, QueueUp, LockIdle, SlotsKept
  <2>4. CASE BeginPause(w) \/ EnterPause(w) \/ Resume(w) \/ SpuriousWakeup(w)
    BY <2>4, SlotsKeptStep DEF BeginPause, EnterPause, Resume, SpuriousWakeup, SlotsKept
  <2>5. CASE Begin(w) \/ Leave(w)
    BY <2>5, SlotsKeptStep DEF Begin, Leave, SlotsKept
  <2> QED
    BY <1>3, <2>1, <2>2, <2>3, <2>4, <2>5, OpenBarrierSlots, FreeSlotSlots DEF WorkerStep
<1>4. CASE UNCHANGED vars
  BY <1>4, SlotsKeptStep DEF vars, SlotsKept
<1> QED
  BY <1>1, <1>2, <1>3, <1>4 DEF Next
-----------------------------------------------------------------------------
(* The workers and their slots.                                            *)

\* A step that neither gives a slot to a worker nor takes one away.
HoldKept ==
  /\ hold' = hold
  /\ \A s \in Slots : state'[s] = "RUNNING" <=> state[s] = "RUNNING"
  /\ \A w \in Workers :
       /\ pc'[w] \in Holding => pc[w] \in Holding
       /\ pc[w] \in Holding => pc'[w] \in Holding \cup {"exited"}
       /\ pc[w] = "exited" => pc'[w] = "exited"

LEMMA HoldKeptStep == ASSUME PoolInv, HoldKept PROVE (SlotExclusive /\ HoldsSlot)'
<1>1. \A w \in Workers : hold[w] # 0 => hold[w] \in Slots
  BY Constants DEF PoolInv, TypeOK, Slots
<1>2. SlotExclusive'
  BY <1>1 DEF PoolInv, SlotExclusive, HoldKept
<1>3. HoldsSlot'
  BY DEF PoolInv, HoldsSlot, HoldKept
<1> QED
  BY <1>2, <1>3

\* A slot that somebody holds is not WAITING.
LEMMA LookHold ==
  ASSUME PoolInv, NEW w \in Workers, Look(w) PROVE (SlotExclusive /\ HoldsSlot)'
<1>1. PICK s \in left[w] :
        IF state[s] = "WAITING"
        THEN /\ state' = [state EXCEPT ![s] = "RUNNING"]
             /\ hold' = [hold EXCEPT ![w] = s]
             /\ pc' = [pc EXCEPT ![w] = "check"]
        ELSE UNCHANGED <<state, hold, pc>>
  BY DEF Look
<1>2. CASE state[s] = "WAITING"
  <2>1. s \in Slots /\ s # 0 /\ 0 \notin Slots
    BY Constants DEF PoolInv, TypeOK
  <2>2. /\ hold'[w] = s /\ pc'[w] = "check" /\ state'[s] = "RUNNING"
        /\ \A r \in Slots : r # s => state'[r] = state[r]
        /\ \A v \in Workers : v # w => hold'[v] = hold[v] /\ pc'[v] = pc[v]
    BY <1>1, <1>2, <2>1 DEF PoolInv, TypeOK
  <2>3. \A v \in Workers : hold[v] # s /\ (hold[v] # 0 => hold[v] \in Slots)
    BY <1>2, Constants, <2>1 DEF PoolInv, SlotExclusive, TypeOK, Slots
  <2>4. hold[w] = 0
    BY DEF Look, PoolInv, HoldsSlot, Holding
  <2>5. SlotExclusive'
    BY <2>1, <2>2, <2>3 DEF PoolInv, SlotExclusive
  <2>6. HoldsSlot'
    BY <2>1, <2>2, <2>3, <2>4 DEF PoolInv, HoldsSlot, Holding
  <2> QED
    BY <2>5, <2>6
<1>3. CASE state[s] # "WAITING"
  BY <1>1, <1>3, HoldKeptStep DEF HoldKept, Holding
<1> QED
  BY <1>2, <1>3

\* The slot is given back.
LEMMA GiveBackHold ==
  ASSUME PoolInv, NEW w \in Workers, CheckBlocked(w) \/ FreeSlot(w)
  PROVE  (SlotExclusive /\ HoldsSlot)'
<1>1. hold[w] \in Slots /\ hold[w] # 0
  BY HeldSlot, Constants DEF CheckBlocked, FreeSlot, Holding
<1>2. /\ hold'[w] = 0 /\ pc'[w] = "search" /\ state'[hold[w]] # "RUNNING"
      /\ \A r \in Slots : r # hold[w] => state'[r] = state[r]
      /\ \A v \in Workers : v # w => hold'[v] = hold[v] /\ pc'[v] = pc[v]
  BY <1>1 DEF PoolInv, TypeOK, CheckBlocked, FreeSlot, SearchAgain
<1>3. \A v \in Workers : v # w => hold[v] # hold[w] /\ (hold[v] # 0 => hold[v] \in Slots)
  BY <1>1, Constants DEF PoolInv, SlotExclusive, TypeOK, Slots
<1>4. SlotExclusive'
  BY <1>1, <1>2, <1>3 DEF PoolInv, SlotExclusive
<1>5. HoldsSlot'
  BY <1>1, <1>2, <1>3 DEF PoolInv, HoldsSlot, Holding
<1> QED
  BY <1>4, <1>5

LEMMA HoldStep == ASSUME PoolInv, [Next]_vars PROVE (SlotExclusive /\ HoldsSlot)'
<1> USE DEF slotVars, workerVars, Holding
<1>1. CASE Add
  <2>1. CASE Grow
    BY <2>1, HoldKeptStep DEF Grow, HoldKept
  <2>2. CASE Prepare
    <3>1. FreeSlots \subseteq Slots
      BY Constants DEF FreeSlots, PoolInv, TypeOK
    <3> QED
      BY <2>2, <3>1, HoldKeptStep DEF Prepare, HoldKept, FreeSlots, PoolInv, TypeOK
  <2>3. CASE Publish
    BY <2>3, HoldKeptStep
    DEF Publish, Published, Prepared, Unpause, HoldKept, PoolInv, TypeOK
  <2> QED
    BY <1>1, <2>1, <2>2, <2>3 DEF Add
<1>2. CASE Shutdown \/ Close
  BY <1>2, HoldKeptStep DEF Shutdown, Close, WakeForJoin, Unpause, Join, HoldKept
<1>3. ASSUME NEW w \in Workers, WorkerStep(w) \/ SpuriousWakeup(w)
      PROVE  (SlotExclusive /\ HoldsSlot)'
  <2>1. CASE CheckReady(w) \/ NothingFound(w) \/ Spin(w) \/ QueueUp(w) \/ LockIdle(w)
    BY <2>1, HoldKeptStep
    DEF CheckReady, NothingFound, Spin, SearchAgain, QueueUp, LockIdle, HoldKept, PoolInv, TypeOK
  <2>2. CASE BeginPause(w) \/ EnterPause(w) \/ Resume(w) \/ SpuriousWakeup(w)
    BY <2>2, HoldKeptStep
    DEF BeginPause, EnterPause, SearchAgain, Resume, SpuriousWakeup, HoldKept, PoolInv, TypeOK
  <2>3. CASE Begin(w) \/ OpenBarrier(w) \/ Leave(w)
    BY <2>3, HoldKeptStep DEF Begin, OpenBarrier, Leave, HoldKept, PoolInv, TypeOK
  <2> QED
    BY <1>3, <2>1, <2>2, <2>3, LookHold, GiveBackHold DEF WorkerStep
<1>4. CASE UNCHANGED vars
  BY <1>4, HoldKeptStep DEF vars, HoldKept
<1> QED
  BY <1>1, <1>2, <1>3, <1>4 DEF Next
-----------------------------------------------------------------------------
(* The order of the tasks.                                                 *)

\* A step that closes no barrier, changes no slot in use, and finds no task.
FoundKept ==
  /\ opened \subseteq opened'
  /\ \A w \in Workers : pc[w] \in Holding =>
       hold'[w] = hold[w] /\ content'[hold[w]] = content[hold[w]]
  /\ \A w \in Workers : pc'[w] \in {"found", "run", "opened"} =>
       /\ pc[w] \in {"found", "run", "opened"}
       /\ pc'[w] = "opened" => pc[w] = "opened"

LEMMA FoundKeptStep == ASSUME PoolInv, FoundKept PROVE FoundReady'
BY DEF PoolInv, FoundReady, FoundKept, Holding

\* From now on the barriers behind the task are open, as CheckReady found them.
LEMMA CheckReadyFound == ASSUME PoolInv, NEW w \in Workers, CheckReady(w) PROVE FoundReady'
BY DEF CheckReady, Ready, PoolInv, TypeOK, FoundReady, slotVars

LEMMA OpenBarrierFound == ASSUME PoolInv, NEW w \in Workers, OpenBarrier(w) PROVE FoundReady'
BY DEF OpenBarrier, PoolInv, TypeOK, FoundReady

LEMMA FoundStep == ASSUME PoolInv, [Next]_vars PROVE FoundReady'
<1> USE DEF slotVars, workerVars, Holding
<1>1. CASE Add
  <2>1. CASE Grow
    BY <2>1, FoundKeptStep DEF Grow, FoundKept
  <2>2. CASE Prepare
    <3>1. \A s \in FreeSlots : state[s] = "FREE"
      BY DEF FreeSlots
    <3>2. \A w \in Workers : pc[w] \in Holding => hold[w] \in Slots /\ hold[w] \notin FreeSlots
      BY <3>1, HeldSlot
    <3> QED
      BY <2>2, <3>2, FoundKeptStep DEF Prepare, FoundKept, PoolInv, TypeOK
  <2>3. CASE Publish
    BY <2>3, FoundKeptStep DEF Publish, Unpause, FoundKept, PoolInv, TypeOK
  <2> QED
    BY <1>1, <2>1, <2>2, <2>3 DEF Add
<1>2. CASE Shutdown \/ Close
  BY <1>2, FoundKeptStep DEF Shutdown, Close, WakeForJoin, Unpause, Join, FoundKept
<1>3. ASSUME NEW w \in Workers, WorkerStep(w) \/ SpuriousWakeup(w) PROVE FoundReady'
  <2>1. CASE Look(w)
    BY <2>1, FoundKeptStep DEF Look, FoundKept, PoolInv, TypeOK
  <2>2. CASE CheckBlocked(w) \/ NothingFound(w) \/ Spin(w) \/ QueueUp(w) \/ LockIdle(w)
    BY <2>2
    DEF CheckBlocked, NothingFound, Spin, SearchAgain, QueueUp, LockIdle, FoundReady, PoolInv, TypeOK
  <2>3. CASE BeginPause(w) \/ EnterPause(w) \/ Resume(w) \/ SpuriousWakeup(w)
    BY <2>3, FoundKeptStep
    DEF BeginPause, EnterPause, SearchAgain, Resume, SpuriousWakeup, FoundKept, PoolInv, TypeOK
  <2>4. CASE Begin(w) \/ Leave(w)
    BY <2>4, FoundKeptStep DEF Begin, Leave, FoundKept, PoolInv, TypeOK
  <2>5. CASE FreeSlot(w)
    BY <2>5 DEF FreeSlot, SearchAgain, FoundReady, PoolInv, TypeOK
  <2> QED
    BY <1>3, <2>1, <2>2, <2>3, <2>4, <2>5, CheckReadyFound, OpenBarrierFound DEF WorkerStep
<1>4. CASE UNCHANGED vars
  BY <1>4, FoundKeptStep DEF vars, FoundKept
<1> QED
  BY <1>1, <1>2, <1>3, <1>4 DEF Next

LEMMA RunsAfterDepsStep == ASSUME PoolInv, [Next]_vars PROVE RunsAfterDeps'
BY FoundStep DEF FoundReady, RunsAfterDeps
-----------------------------------------------------------------------------
(* The pause.                                                              *)

\* While a worker is in the pause, what another one could do is blocked.
LEMMA OthersQueued ==
  ASSUME PoolInv, NEW w \in Workers, InPause(w), NEW v \in Workers, v # w
  PROVE  /\ pc[v] = "queued" /\ hold[v] = 0 /\ ~InPause(v)
         /\ idleOwner = w /\ pauseOwner # v
<1>1. idleOwner = w /\ pc[v] = "queued"
  BY DEF PoolInv, PauseAlone
<1>2. hold[v] = 0
  BY <1>1 DEF PoolInv, HoldsSlot, Holding
<1>3. pauseOwner # v /\ ~InPause(v)
  BY <1>1 DEF PoolInv, PauseAlone, InPause
<1> QED
  BY <1>1, <1>2, <1>3

\* Such a worker can take no step but LockIdle, and not even that one.
LEMMA OnlyThePausing ==
  ASSUME PoolInv, NEW v \in Workers, InPause(v),
         NEW w \in Workers, WorkerStep(w) \/ SpuriousWakeup(w)
  PROVE  w = v
<1> SUFFICES ASSUME w # v PROVE FALSE
  OBVIOUS
<1>1. pc[w] = "queued" /\ idleOwner # NoOne
  BY OthersQueued, Constants
<1> QED
  BY <1>1
  DEF WorkerStep, Look, CheckReady, CheckBlocked, NothingFound, Spin, QueueUp, LockIdle,
      BeginPause, EnterPause, Resume, Begin, OpenBarrier, FreeSlot, Leave, SpuriousWakeup

\* A step that brings nobody into the pause.
PauseKept ==
  /\ \A v \in Workers : InPause(v)' => InPause(v)
  /\ \A v \in Workers : pc[v] = "queued" => pc'[v] = "queued"
  /\ \A v \in Workers : InPause(v)' => idleOwner' = idleOwner
  /\ \A v \in Workers : pauseOwner' = v => pc'[v] \in {"search", "check"}

LEMMA PauseKeptStep == ASSUME PoolInv, PauseKept PROVE PauseAlone'
BY DEF PoolInv, PauseAlone, PauseKept

LEMMA MainPause == ASSUME PoolInv, Add \/ Shutdown \/ Close PROVE PauseAlone'
<1> USE DEF workerVars, lockVars
<1>1. CASE Grow \/ Prepare \/ Shutdown \/ Join
  BY <1>1 DEF Grow, Prepare, Shutdown, Join, PoolInv, PauseAlone, InPause
<1>2. CASE Publish \/ WakeForJoin
  <2>1. \A v \in Workers : /\ pc'[v] = IF pc[v] = "sleep" THEN "woken" ELSE pc[v]
                           /\ pauseOwner' # v /\ pauseOwner # v
    BY <1>2, Constants DEF Publish, WakeForJoin, Unpause
  <2>2. idleOwner' = idleOwner
    BY <1>2 DEF Publish, WakeForJoin
  <2> QED
    BY <2>1, <2>2, PauseKeptStep DEF PauseKept, InPause
<1> QED
  BY <1>1, <1>2 DEF Add, Close

\* A step of a worker that is not in the pause, or leaves it, or goes on in it.
LEMMA WorkerPause ==
  ASSUME PoolInv, NEW w \in Workers, WorkerStep(w) \/ SpuriousWakeup(w) PROVE PauseAlone'
<1> USE DEF slotVars, lockVars
<1> DEFINE Others == \A v \in Workers : v # w => pc'[v] = pc[v]
<1>1. Others /\ pc'[w] \in {"search", "check", "found", "run", "opened", "idle", "queued",
                            "pause", "sleep", "woken", "exited"}
  BY WorkerTypeOK
  DEF PoolInv, TypeOK, WorkerStep, Look, CheckReady, CheckBlocked, NothingFound, Spin, SearchAgain,
      QueueUp, LockIdle, BeginPause, EnterPause, Resume, Begin, OpenBarrier, FreeSlot, Leave,
      SpuriousWakeup
<1>2. \A v \in Workers : InPause(v) => v = w
  BY OnlyThePausing
<1>3. CASE BeginPause(w)
  <2>1. pauseOwner # w /\ pc'[w] = "pause"
    BY <1>3 DEF BeginPause, PoolInv, TypeOK, PauseAlone
  <2> QED
    BY <1>1, <1>2, <1>3, <2>1 DEF BeginPause, AllOthersQueued, PauseAlone, InPause
<1>4. CASE EnterPause(w) \/ Resume(w) \/ SpuriousWakeup(w)
  <2>1. InPause(w) /\ pc'[w] \in {"search", "woken"} /\ pauseOwner' \in {w, pauseOwner}
    BY <1>4 DEF EnterPause, Resume, SpuriousWakeup, SearchAgain, InPause, PoolInv, TypeOK
  <2>2. idleOwner' = idleOwner
    BY <1>4 DEF EnterPause, Resume, SpuriousWakeup
  <2>3. pauseOwner' = w => pc'[w] = "search"
    BY <1>4 DEF EnterPause, Resume, SpuriousWakeup, SearchAgain, PoolInv, TypeOK, PauseAlone
  <2> QED
    BY <1>1, <1>2, <2>1, <2>2, <2>3 DEF PoolInv, PauseAlone, InPause
<1>5. CASE Look(w) \/ CheckBlocked(w) \/ NothingFound(w) \/ CheckReady(w)
  <2>1. /\ pc[w] \in {"search", "check"}
        /\ pc'[w] \in {"search", "check", "found", "idle", "sleep"}
        /\ pc'[w] = "sleep" => pauseOwner = w
        /\ pauseOwner' \in {pauseOwner, NoOne}
        /\ pauseOwner' = w => pc'[w] \in {"search", "check"}
        /\ pc'[w] = "sleep" \/ pauseOwner' = w => idleOwner' = idleOwner
    BY <1>5, Constants
    DEF Look, CheckBlocked, NothingFound, CheckReady, Release, PoolInv, TypeOK
  <2> QED
    BY <1>1, <1>2, <2>1, Constants DEF PoolInv, PauseAlone, InPause
<1>6. CASE Spin(w) \/ QueueUp(w) \/ LockIdle(w) \/ Begin(w) \/ OpenBarrier(w) \/ FreeSlot(w)
           \/ Leave(w)
  <2>1. /\ pc[w] \notin {"search", "check", "pause", "sleep", "woken"}
        /\ pc'[w] \notin {"pause", "sleep", "woken"}
        /\ pauseOwner' = pauseOwner
    BY <1>6
    DEF Spin, QueueUp, LockIdle, Begin, OpenBarrier, FreeSlot, Leave, SearchAgain, PoolInv, TypeOK
  <2>2. ~InPause(w)
    BY <2>1 DEF PoolInv, PauseAlone, InPause
  <2> QED
    BY <1>1, <1>2, <2>1, <2>2 DEF PauseAlone, InPause
<1> QED
  BY <1>3, <1>4, <1>5, <1>6 DEF WorkerStep

LEMMA PauseStep == ASSUME PoolInv, [Next]_vars PROVE PauseAlone'
<1>1. CASE UNCHANGED vars
  BY <1>1 DEF vars, workerVars, lockVars, PoolInv, PauseAlone, InPause
<1> QED
  BY <1>1, MainPause, WorkerPause DEF Next
-----------------------------------------------------------------------------
(* No work while the pool sleeps.                                          *)

\* Adding a task is no matter before it is published, which needs the lock of
\* the pause and wakes the sleepers.
LEMMA MainSearch ==
  ASSUME PoolInv, Add \/ Shutdown \/ Close PROVE (PauseSearch /\ SleepsOnlyWhenIdle)'
<1> USE DEF slotVars, workerVars, lockVars, PoolInv, PauseSearch, SleepsOnlyWhenIdle, Ready
<1>1. CASE Grow \/ Shutdown \/ Join
  BY <1>1 DEF Grow, Shutdown, Join
<1>2. CASE Prepare
  <2>1. PICK s \in FreeSlots : /\ state' = [state EXCEPT ![s] = "PREPARING"]
                               /\ content' = [content EXCEPT ![s] = NextTask]
    BY <1>2 DEF Prepare
  <2>2. \A r \in Slots : state'[r] \in {"WAITING", "RUNNING"} =>
                           state'[r] = state[r] /\ content'[r] = content[r]
    BY <2>1 DEF TypeOK
  <2> QED
    BY <1>2, <2>2 DEF Prepare
<1>3. CASE Publish \/ WakeForJoin
  <2>1. \A w \in Workers : pauseOwner' # w /\ pc'[w] # "sleep"
    BY <1>3, Constants DEF Publish, WakeForJoin, Unpause
  <2> QED
    BY <2>1
<1> QED
  BY <1>1, <1>2, <1>3 DEF Add, Close

\* A step of a worker outside of the pause finds nobody in the pause.
LEMMA OutsideSearch ==
  ASSUME PoolInv, NEW w \in Workers, WorkerStep(w), ~InPause(w),
         pauseOwner' = pauseOwner, pc'[w] # "sleep",
         \A v \in Workers : v # w => pc'[v] = pc[v]
  PROVE  (PauseSearch /\ SleepsOnlyWhenIdle)'
<1>1. \A v \in Workers : pauseOwner' # v /\ pc'[v] # "sleep"
  BY OnlyThePausing DEF InPause
<1> QED
  BY <1>1 DEF PauseSearch, SleepsOnlyWhenIdle

\* The slots that the search of the pause has seen have no work, and nobody is at
\* work in a slot.
LEMMA NothingFoundSearch ==
  ASSUME PoolInv, NEW w \in Workers, NothingFound(w)
  PROVE  (PauseSearch /\ SleepsOnlyWhenIdle)'
<1> USE DEF slotVars
<1>1. \A v \in Workers : pauseOwner' # v
  <2>1. \A v \in Workers : pauseOwner = v => v = w
    BY OnlyThePausing DEF WorkerStep, InPause
  <2> QED
    BY <2>1, Constants DEF NothingFound, Release, PoolInv, TypeOK
<1>2. PauseSearch'
  BY <1>1 DEF PauseSearch
<1>3. CASE pauseOwner = w
  <2>1. \A v \in Workers : hold[v] = 0
    BY <1>3, OthersQueued DEF InPause, NothingFound, PoolInv, HoldsSlot, Holding
  <2>2. \A s \in Slots : state[s] # "RUNNING"
    BY <2>1, Constants DEF PoolInv, HoldsSlot
  <2>3. \A s \in Slots : state[s] = "WAITING" => ~Ready(content[s])
    BY <1>3 DEF NothingFound, PoolInv, PauseSearch
  <2> QED
    BY <1>2, <2>2, <2>3 DEF NothingFound, SleepsOnlyWhenIdle, Ready
<1>4. CASE pauseOwner # w
  <2>1. \A v \in Workers : pc'[v] # "sleep"
    BY <1>4, OnlyThePausing
    DEF NothingFound, WorkerStep, InPause, PoolInv, TypeOK
  <2> QED
    BY <1>2, <2>1 DEF SleepsOnlyWhenIdle
<1> QED
  BY <1>3, <1>4

LEMMA LookSearch ==
  ASSUME PoolInv, NEW w \in Workers, Look(w) PROVE (PauseSearch /\ SleepsOnlyWhenIdle)'
<1>1. \A v \in Workers : InPause(v) => v = w
  BY OnlyThePausing DEF WorkerStep
<1>2. \A v \in Workers : pc'[v] # "sleep"
  BY <1>1 DEF Look, InPause, PoolInv, TypeOK
<1>3. PauseSearch'
  <2> SUFFICES ASSUME pauseOwner = w PROVE PauseSearch'
    BY <1>1 DEF Look, lockVars, PauseSearch, InPause
  <2>1. PICK s \in left[w] :
          /\ left' = [left EXCEPT ![w] = @ \ {s}]
          /\ IF state[s] = "WAITING"
             THEN state' = [state EXCEPT ![s] = "RUNNING"] ELSE UNCHANGED state
    BY DEF Look
  <2>2. s \in Slots /\ left'[w] = left[w] \ {s} /\ state'[s] # "WAITING"
    BY <2>1 DEF PoolInv, TypeOK
  <2>3. \A r \in Slots : r # s => state'[r] = state[r]
    BY <2>1, <2>2 DEF PoolInv, TypeOK
  <2>4. content' = content /\ opened' = opened /\ pauseOwner' = pauseOwner
    BY DEF Look, lockVars
  <2> QED
    BY <2>2, <2>3, <2>4 DEF PoolInv, PauseSearch, Ready
<1> QED
  BY <1>2, <1>3 DEF SleepsOnlyWhenIdle

\* The slot goes back to WAITING because its task is not ready.
LEMMA CheckBlockedSearch ==
  ASSUME PoolInv, NEW w \in Workers, CheckBlocked(w)
  PROVE  (PauseSearch /\ SleepsOnlyWhenIdle)'
<1>1. \A v \in Workers : InPause(v) => v = w
  BY OnlyThePausing DEF WorkerStep
<1>2. \A v \in Workers : pc'[v] # "sleep"
  BY <1>1 DEF CheckBlocked, InPause, PoolInv, TypeOK
<1>3. hold[w] \in Slots
  BY HeldSlot DEF CheckBlocked, Holding
<1>4. PauseSearch'
  BY <1>3 DEF CheckBlocked, lockVars, PoolInv, TypeOK, PauseSearch, Ready
<1> QED
  BY <1>2, <1>4 DEF SleepsOnlyWhenIdle

\* The search of the pause is over, begins, or begins again.
LEMMA PauseMoveSearch ==
  ASSUME PoolInv, NEW w \in Workers,
         CheckReady(w) \/ EnterPause(w) \/ Resume(w) \/ SpuriousWakeup(w)
  PROVE  (PauseSearch /\ SleepsOnlyWhenIdle)'
<1> USE DEF slotVars, lockVars, SearchAgain
<1>1. \A v \in Workers : InPause(v) => v = w
  BY OnlyThePausing DEF WorkerStep
<1>2. \A v \in Workers : pc'[v] # "sleep"
  BY <1>1
  DEF CheckReady, EnterPause, Resume, SpuriousWakeup, InPause, PoolInv, TypeOK
<1>3. \A v \in Workers : pauseOwner' = v =>
        v = w /\ (EnterPause(w) \/ Resume(w))
  BY <1>1, Constants
  DEF CheckReady, EnterPause, Resume, SpuriousWakeup, Release, InPause, PoolInv, TypeOK, PauseAlone
<1>4. EnterPause(w) \/ Resume(w) =>
        /\ left'[w] = 1 .. numSlots
        /\ state' = state /\ content' = content /\ opened' = opened
  BY DEF EnterPause, Resume, PoolInv, TypeOK
<1>5. \A s \in Slots : state[s] = "WAITING" => s \in 1 .. numSlots
  BY Constants DEF PoolInv, TypeOK, SlotsFilled, Slots
<1>6. PauseSearch'
  BY <1>3, <1>4, <1>5 DEF PauseSearch
<1> QED
  BY <1>2, <1>6 DEF SleepsOnlyWhenIdle

LEMMA SearchStep == ASSUME PoolInv, [Next]_vars PROVE (PauseSearch /\ SleepsOnlyWhenIdle)'
<1> USE DEF slotVars, workerVars, lockVars
<1>1. ASSUME NEW w \in Workers, WorkerStep(w) PROVE (PauseSearch /\ SleepsOnlyWhenIdle)'
  <2>1. CASE Spin(w) \/ QueueUp(w) \/ LockIdle(w) \/ BeginPause(w) \/ Begin(w) \/ OpenBarrier(w)
             \/ FreeSlot(w) \/ Leave(w)
    <3>1. /\ pc[w] \in {"idle", "queued", "found", "run", "opened"}
          /\ pc'[w] # "sleep" /\ pauseOwner' = pauseOwner
          /\ \A v \in Workers : v # w => pc'[v] = pc[v]
      BY <2>1
      DEF Spin, QueueUp, LockIdle, BeginPause, Begin, OpenBarrier, FreeSlot, Leave, SearchAgain,
          PoolInv, TypeOK
    <3>2. ~InPause(w)
      BY <3>1 DEF PoolInv, PauseAlone, InPause
    <3> QED
      BY <1>1, <3>1, <3>2, OutsideSearch
  <2> QED
    BY <1>1, <2>1, LookSearch, NothingFoundSearch, CheckBlockedSearch, PauseMoveSearch
    DEF WorkerStep
<1>2. CASE UNCHANGED vars
  BY <1>2 DEF vars, PoolInv, PauseSearch, SleepsOnlyWhenIdle, Ready
<1> QED
  BY <1>1, <1>2, MainSearch, PauseMoveSearch DEF Next
-----------------------------------------------------------------------------
(* The theorems.                                                           *)

LEMMA NextIndInv == PoolInv /\ [Next]_vars => PoolInv'
<1> SUFFICES ASSUME PoolInv, [Next]_vars PROVE PoolInv'
  OBVIOUS
<1>1. TypeOK'
  <2>1. CASE UNCHANGED vars
    BY <2>1 DEF vars, slotVars, workerVars, lockVars, PoolInv, TypeOK
  <2> QED
    BY <2>1, MainTypeOK, WorkerTypeOK DEF Next
<1> QED
  BY <1>1, SlotsStep, HoldStep, FoundStep, RunsAfterDepsStep, PauseStep, SearchStep DEF PoolInv

\* The strengthened invariant of the pool.
THEOREM Inductive == Spec => []PoolInv
BY InitIndInv, NextIndInv, PTL DEF Spec

\* Two workers never have the same slot, from the compare-and-exchange of
\* findNextTask to the release in processTask.
THEOREM SlotsExclusive == Spec => []SlotExclusive
<1>1. PoolInv => SlotExclusive
  BY DEF PoolInv
<1> QED
  BY <1>1, Inductive, PTL

\* A task runs only when the barriers it was given are open, although they are
\* looked at only once.
THEOREM RunsInOrder == Spec => []RunsAfterDeps
<1>1. PoolInv => RunsAfterDeps
  BY DEF PoolInv
<1> QED
  BY <1>1, Inductive, PTL

\* No worker sleeps over a task that could run: the count that the pause reads
\* without a lock is backed by the idle mutex.
THEOREM SleepsWithoutWork == Spec => []SleepsOnlyWhenIdle
<1>1. PoolInv => SleepsOnlyWhenIdle
  BY DEF PoolInv
<1> QED
  BY <1>1, Inductive, PTL
=============================================================================
