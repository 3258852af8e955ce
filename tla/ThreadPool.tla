---------------------------- MODULE ThreadPool ----------------------------
(***************************************************************************)
(* The thread pool of the decoder: the main thread puts tasks into slots   *)
(* (addBarrierTask), the workers search the slots for a task whose         *)
(* barriers are open (findNextTask), run it, and when they find none first *)
(* spin, then queue up on m_idleMutex, and the one that owns it goes to    *)
(* sleep when all others are queued (PoolPause).  Shutting the pool down   *)
(* joins all workers.  A task is ready when the tasks it waits for have    *)
(* unlocked their done barriers; nothing else opens a barrier.             *)
(***************************************************************************)
EXTENDS Integers, FiniteSets

CONSTANTS
  Workers,   \* m_threads
  NumTasks,  \* the main thread adds the tasks 1 .. NumTasks in this order
  Deps,      \* Deps[t]: the tasks whose done barriers block t
  ChunkSize, \* slots per chunk of the queue
  MaxSlots   \* bound on the slots the queue grows to

Tasks == 1 .. NumTasks
Slots == 1 .. MaxSlots
NoOne == 0

ASSUME PoolAssumption ==
  /\ IsFiniteSet(Workers) /\ NoOne \notin Workers
  /\ NumTasks \in Nat /\ ChunkSize \in Nat \ {0} /\ MaxSlots \in Nat
  /\ MaxSlots >= NumTasks + ChunkSize
  /\ \A t \in Tasks : Deps[t] \subseteq 1 .. t - 1

VARIABLES
  state,      \* Slot::state
  content,    \* the task in each slot
  numSlots,   \* slots in the chunks of m_tasks
  opened,     \* the tasks whose done barrier is unlocked
  pc,         \* where each worker is, see below
  hold,       \* the slot a worker has set to RUNNING
  left,       \* the slots a search has not looked at yet
  idleOwner,  \* who owns m_idleMutex
  pauseOwner, \* who owns m_allThreadsWaitingMutex
  allWaiting, \* m_allThreadsWaiting
  exit,       \* m_exitThreads
  main        \* the main thread: "add", "prepared", "close", "joining" or "joined"

workerVars == <<pc, hold, left>>
lockVars   == <<idleOwner, pauseOwner, allWaiting>>
slotVars   == <<state, content, numSlots, opened>>
vars == <<slotVars, workerVars, lockVars, exit, main>>

(* A worker: "search" (in findNextTask), "check" (it evaluates the barriers *)
(* of the slot it holds), "found", "run", "opened" (the function is over    *)
(* and the barrier open), "idle" (found nothing), "queued" (counted in      *)
(* m_waitingForLockThreads, blocked by m_idleMutex), "pause" (counted all   *)
(* others), "sleep", "woken", "exited".                                     *)
Added == {content[s] : s \in {r \in Slots : state[r] # "FREE"}} \cup opened
NextTask == CHOOSE t \in Tasks : t \notin Added /\ \A u \in 1 .. t - 1 : u \in Added

\* checkTaskReady(); a slip: the barriers are dropped after the first look.
Ready_Dropped(t) == t \in Tasks
Ready(t) == Deps[t] \subseteq opened

Init ==
  /\ state = [s \in Slots |-> "FREE"] /\ content = [s \in Slots |-> 0]
  /\ numSlots = ChunkSize /\ opened = {}
  /\ pc = [w \in Workers |-> "search"] /\ hold = [w \in Workers |-> 0]
  /\ left = [w \in Workers |-> 1 .. ChunkSize]
  /\ idleOwner = NoOne /\ pauseOwner = NoOne /\ allWaiting = FALSE
  /\ exit = FALSE /\ main = "add"
-----------------------------------------------------------------------------
(* addBarrierTask.                                                         *)

FreeSlots == {s \in 1 .. numSlots : state[s] = "FREE"}

\* A slip: the queue grows although a slot is free.
Grow_Always ==
  /\ main = "add" /\ Added # Tasks
  /\ numSlots' = numSlots + ChunkSize
  /\ UNCHANGED <<state, content, opened, workerVars, lockVars, exit, main>>

\* m_tasks.grow(): all slots are taken.
Grow ==
  /\ main = "add" /\ Added # Tasks /\ FreeSlots = {}
  /\ numSlots' = numSlots + ChunkSize
  /\ UNCHANGED <<state, content, opened, workerVars, lockVars, exit, main>>

Prepare ==
  /\ main = "add" /\ Added # Tasks
  /\ \E s \in FreeSlots :
       /\ state' = [state EXCEPT ![s] = "PREPARING"]
       /\ content' = [content EXCEPT ![s] = NextTask]
  /\ main' = "prepared"
  /\ UNCHANGED <<numSlots, opened, workerVars, lockVars, exit>>

\* unpauseIfPaused()
Unpause ==
  /\ pauseOwner = NoOne
  /\ allWaiting' = FALSE
  /\ pc' = [w \in Workers |-> IF pc[w] = "sleep" THEN "woken" ELSE pc[w]]

Prepared == {s \in Slots : state[s] = "PREPARING"}
Published == [s \in Slots |-> IF s \in Prepared THEN "WAITING" ELSE state[s]]

\* A slip: the slot becomes WAITING without anybody being told.
Publish_NoUnpause ==
  /\ main = "prepared"
  /\ state' = Published
  /\ main' = "add"
  /\ UNCHANGED <<content, numSlots, opened, workerVars, lockVars, exit>>

\* The slot becomes WAITING under the lock of the pause.
Publish ==
  /\ main = "prepared"
  /\ Unpause
  /\ state' = Published
  /\ main' = "add"
  /\ UNCHANGED <<content, numSlots, opened, hold, left, idleOwner, pauseOwner, exit>>

\* shutdown() and the destructor: m_exitThreads is set, then the pool is woken.
Shutdown ==
  /\ main = "add" /\ ~exit
  /\ exit' = TRUE /\ main' = "close"
  /\ UNCHANGED <<slotVars, workerVars, lockVars>>

\* A slip: waitForThreads() joins without waking the pool.
WakeForJoin_Omitted ==
  /\ main = "close"
  /\ main' = "joining"
  /\ UNCHANGED <<slotVars, workerVars, lockVars, exit>>

WakeForJoin ==
  /\ main = "close"
  /\ Unpause
  /\ main' = "joining"
  /\ UNCHANGED <<slotVars, hold, left, idleOwner, pauseOwner, exit>>

Join ==
  /\ main = "joining" /\ \A w \in Workers : pc[w] = "exited"
  /\ main' = "joined"
  /\ UNCHANGED <<slotVars, workerVars, lockVars, exit>>
-----------------------------------------------------------------------------
(* findNextTask; it is also the predicate of the pause, which evaluates it  *)
(* with the lock held.                                                      *)

\* The search gives a slot up that is not WAITING, or grabs it.
Look(w) ==
  /\ pc[w] = "search"
  /\ \E s \in left[w] :
       /\ left' = [left EXCEPT ![w] = @ \ {s}]
       /\ IF state[s] = "WAITING"
          THEN /\ state' = [state EXCEPT ![s] = "RUNNING"]
               /\ hold' = [hold EXCEPT ![w] = s]
               /\ pc' = [pc EXCEPT ![w] = "check"]
          ELSE UNCHANGED <<state, hold, pc>>
  /\ UNCHANGED <<content, numSlots, opened, lockVars, exit, main>>

\* checkTaskReady() returned true: the search is over, and with it the pause and
\* the idle loop, which own the locks.
Release(w, owner) == IF owner = w THEN NoOne ELSE owner

CheckReady(w) ==
  /\ pc[w] = "check" /\ Ready(content[hold[w]])
  /\ pc' = [pc EXCEPT ![w] = "found"]
  /\ pauseOwner' = Release(w, pauseOwner) /\ idleOwner' = Release(w, idleOwner)
  /\ UNCHANGED <<slotVars, hold, left, allWaiting, exit, main>>

CheckBlocked(w) ==
  /\ pc[w] = "check" /\ ~Ready(content[hold[w]])
  /\ state' = [state EXCEPT ![hold[w]] = "WAITING"]
  /\ hold' = [hold EXCEPT ![w] = 0]
  /\ pc' = [pc EXCEPT ![w] = "search"]
  /\ UNCHANGED <<content, numSlots, opened, left, lockVars, exit, main>>

\* The search looked at all slots: outside of the pause the idle loop goes on;
\* in the pause the worker sleeps, unless the pool is being closed.
NothingFound(w) ==
  /\ pc[w] = "search" /\ left[w] = {}
  /\ pc' = [pc EXCEPT ![w] = IF pauseOwner = w /\ ~exit THEN "sleep" ELSE "idle"]
  /\ pauseOwner' = Release(w, pauseOwner)
  /\ UNCHANGED <<slotVars, hold, left, idleOwner, allWaiting, exit, main>>
-----------------------------------------------------------------------------
(* threadProc: the idle loop.                                              *)

SearchAgain(w) ==
  /\ pc' = [pc EXCEPT ![w] = "search"]
  /\ left' = [left EXCEPT ![w] = 1 .. numSlots]

Spin(w) ==
  /\ pc[w] = "idle" /\ ~exit
  /\ SearchAgain(w)
  /\ UNCHANGED <<slotVars, hold, lockVars, exit, main>>

\* After VVDEC_BUSY_WAIT_TIME_MIN.
QueueUp(w) ==
  /\ pc[w] = "idle" /\ ~exit /\ idleOwner # w
  /\ pc' = [pc EXCEPT ![w] = "queued"]
  /\ UNCHANGED <<slotVars, hold, left, lockVars, exit, main>>

LockIdle(w) ==
  /\ pc[w] = "queued" /\ idleOwner = NoOne
  /\ idleOwner' = w
  /\ pc' = [pc EXCEPT ![w] = "idle"]
  /\ UNCHANGED <<slotVars, hold, left, pauseOwner, allWaiting, exit, main>>

\* m_waitingForLockThreads against m_nrThreads - 1; a slip: off by one.
AllOthersQueued_ButOne(w) == Cardinality({v \in Workers \ {w} : pc[v] # "queued"}) <= 1
AllOthersQueued(w) == \A v \in Workers \ {w} : pc[v] = "queued"

\* After VVDEC_BUSY_WAIT_TIME_MAX: pauseIfAllOtherThreadsWaiting().
BeginPause(w) ==
  /\ pc[w] = "idle" /\ ~exit /\ idleOwner = w
  /\ AllOthersQueued(w)
  /\ pc' = [pc EXCEPT ![w] = "pause"]
  /\ UNCHANGED <<slotVars, hold, left, lockVars, exit, main>>

\* It takes the lock, and the predicate searches once more.
EnterPause(w) ==
  /\ pc[w] = "pause" /\ pauseOwner = NoOne
  /\ pauseOwner' = w /\ allWaiting' = TRUE
  /\ SearchAgain(w)
  /\ UNCHANGED <<slotVars, hold, idleOwner, exit, main>>

\* The worker was woken: it goes on, or evaluates the predicate again.
Resume(w) ==
  /\ pc[w] = "woken" /\ pauseOwner = NoOne
  /\ pauseOwner' = IF allWaiting THEN w ELSE NoOne
  /\ SearchAgain(w)
  /\ UNCHANGED <<slotVars, hold, idleOwner, allWaiting, exit, main>>

SpuriousWakeup(w) ==
  /\ pc[w] = "sleep"
  /\ pc' = [pc EXCEPT ![w] = "woken"]
  /\ UNCHANGED <<slotVars, hold, left, lockVars, exit, main>>
-----------------------------------------------------------------------------
(* processTask, and the end of a worker.                                   *)

Begin(w) ==
  /\ pc[w] = "found" /\ ~exit
  /\ pc' = [pc EXCEPT ![w] = "run"]
  /\ UNCHANGED <<slotVars, hold, left, lockVars, exit, main>>

\* A slip: the slot is given back before the done barrier is opened.
OpenBarrier_FreedFirst(w) ==
  /\ pc[w] = "run"
  /\ opened' = opened \cup {content[hold[w]]}
  /\ state' = [state EXCEPT ![hold[w]] = "FREE"]
  /\ pc' = [pc EXCEPT ![w] = "opened"]
  /\ UNCHANGED <<content, numSlots, hold, left, lockVars, exit, main>>

OpenBarrier(w) ==
  /\ pc[w] = "run"
  /\ opened' = opened \cup {content[hold[w]]}
  /\ pc' = [pc EXCEPT ![w] = "opened"]
  /\ UNCHANGED <<state, content, numSlots, hold, left, lockVars, exit, main>>

FreeSlot(w) ==
  /\ pc[w] = "opened"
  /\ state' = [state EXCEPT ![hold[w]] = "FREE"]
  /\ hold' = [hold EXCEPT ![w] = 0]
  /\ SearchAgain(w)
  /\ UNCHANGED <<content, numSlots, opened, lockVars, exit, main>>

\* A worker that finds m_exitThreads set returns and gives its lock up.
Leave(w) ==
  /\ exit /\ pc[w] \in {"idle", "found"}
  /\ pc' = [pc EXCEPT ![w] = "exited"]
  /\ idleOwner' = Release(w, idleOwner)
  /\ UNCHANGED <<slotVars, hold, left, pauseOwner, allWaiting, exit, main>>
-----------------------------------------------------------------------------
WorkerStep(w) ==
  \/ Look(w) \/ CheckReady(w) \/ CheckBlocked(w) \/ NothingFound(w)
  \/ Spin(w) \/ QueueUp(w) \/ LockIdle(w) \/ BeginPause(w) \/ EnterPause(w) \/ Resume(w)
  \/ Begin(w) \/ OpenBarrier(w) \/ FreeSlot(w) \/ Leave(w)

Add == Grow \/ Prepare \/ Publish
Close == WakeForJoin \/ Join

Next ==
  \/ \E w \in Workers : WorkerStep(w) \/ SpuriousWakeup(w)
  \/ Add \/ Shutdown \/ Close

\* The threads are scheduled, and a thread that keeps asking for a mutex that is
\* free again and again gets it.  The application need not close the decoder.
Fairness ==
  /\ \A w \in Workers : SF_vars(WorkerStep(w))
  /\ SF_vars(Add) /\ SF_vars(Close)

Spec == Init /\ [][Next]_vars /\ Fairness
-----------------------------------------------------------------------------
(* Properties.                                                             *)

TypeOK ==
  /\ state \in [Slots -> {"FREE", "PREPARING", "WAITING", "RUNNING"}]
  /\ content \in [Slots -> 0 .. NumTasks]
  /\ numSlots \in 0 .. MaxSlots /\ opened \subseteq Tasks
  /\ pc \in [Workers -> {"search", "check", "found", "run", "opened", "idle", "queued",
                         "pause", "sleep", "woken", "exited"}]
  /\ hold \in [Workers -> 0 .. MaxSlots] /\ left \in [Workers -> SUBSET Slots]
  /\ idleOwner \in Workers \cup {NoOne} /\ pauseOwner \in Workers \cup {NoOne}
  /\ allWaiting \in BOOLEAN /\ exit \in BOOLEAN
  /\ main \in {"add", "prepared", "close", "joining", "joined"}

\* When the pool sleeps and nobody is about to wake it, there is no work for it:
\* no task in the slots could run, and none is with another worker.
\* pauseIfAllOtherThreadsWaiting: "The only way how more work for the threads can
\* come in is if addBarrierTask is called".
SleepsOnlyWhenIdle ==
  \A w \in Workers : pc[w] = "sleep" =>
    /\ \A s \in Slots : state[s] = "WAITING" => ~(Deps[content[s]] \subseteq opened)
    /\ \A s \in Slots : state[s] # "RUNNING"

\* A slot belongs to at most one worker from the moment it is RUNNING until it is
\* FREE, so a task runs once and its slot is not refilled under the worker.
SlotExclusive ==
  /\ \A v, w \in Workers : hold[v] = hold[w] /\ hold[v] # 0 => v = w
  /\ \A w \in Workers : hold[w] # 0 => state[hold[w]] = "RUNNING"

\* A task runs only after the tasks behind its barriers.
RunsAfterDeps == \A w \in Workers : pc[w] = "run" => Deps[content[hold[w]]] \subseteq opened

\* What makes the three inductive.  The tasks are added in order, each to a slot
\* of its own inside the queue, and a slot that is RUNNING has its worker.
AddedInOrder == \E n \in 0 .. NumTasks : Added = 1 .. n
SlotsFilled ==
  \A s \in Slots : state[s] # "FREE" =>
    /\ s <= numSlots /\ content[s] \in Tasks
    /\ \A r \in Slots : state[r] # "FREE" /\ content[r] = content[s] => r = s
Holding == {"check", "found", "run", "opened"}
HoldsSlot ==
  /\ \A w \in Workers : pc[w] \in Holding => hold[w] # 0
  /\ \A w \in Workers : hold[w] # 0 => pc[w] \in Holding \cup {"exited"}
  /\ \A s \in Slots : state[s] = "RUNNING" => \E w \in Workers : hold[w] = s

\* A task that was found ready stays ready: barriers are not closed again.
FoundReady ==
  \A w \in Workers :
    /\ pc[w] \in {"found", "run", "opened"} => Deps[content[hold[w]]] \subseteq opened
    /\ pc[w] = "opened" => content[hold[w]] \in opened

\* From BeginPause on the worker has the idle lock and all others wait for it.
InPause(w) == pc[w] \in {"pause", "sleep", "woken"} \/ pauseOwner = w
PauseAlone ==
  \A w \in Workers :
    /\ InPause(w) => idleOwner = w /\ \A v \in Workers \ {w} : pc[v] = "queued"
    /\ pauseOwner = w => pc[w] \in {"search", "check"}

\* In the search of the pause the slots behind are not worth a second look:
\* addBarrierTask needs the lock of the pause to publish a task.
PauseSearch ==
  \A w \in Workers : pauseOwner = w =>
    \A s \in Slots \ left[w] : state[s] = "WAITING" => ~Ready(content[s])

PoolInv ==
  /\ TypeOK
  /\ AddedInOrder /\ SlotsFilled
  /\ SlotExclusive /\ HoldsSlot
  /\ RunsAfterDeps /\ FoundReady
  /\ PauseAlone /\ PauseSearch /\ SleepsOnlyWhenIdle

\* Every task that is added is run, unless the pool is closed.
TasksRun == <>(opened = Tasks \/ exit)

\* Closing the pool ends: no worker sleeps through it.
JoinEnds == exit ~> main = "joined"
=============================================================================
