# A TLA+ development for the VVC decoder

This directory models the parts of the decoder library (`src/source/Lib`) whose
correctness depends on more than one thread, one picture or one call: the
schedule of the reconstruction tasks, the completion protocol of the thread
pool and the pool itself, the decoder front end with its parser, its picture
list and its reconstruction instances, and the public interface. A few pure
algorithms at the edge of the library (start codes and emulation prevention,
entry points, the picture order count, the arithmetic decoder) are modelled as
operators and compared with what they stand for. TLC checks the models on small
instances, TLAPS proves the main safety results for all instances. The models
are written from the code; `PROJECT.json` says for every definition which lines
it models.

## The system

| Part | State it keeps | Operations | Talks to |
|---|---|---|---|
| Public API (`vvdec/vvdecimpl.cpp`) | decoder state, frame list with an iterator, frame storage | `decode`, `flush`, `frame_unref`, `reset`, `close` | `DecLib`, thread pool |
| NAL unit scanner (`vvdecimpl.cpp`) | - | start codes, emulation prevention of one access unit | `DecLib` |
| Decoder front end (`DecLib.cpp`) | two `DecLibRecon` instances used in turn, missing-output flag | `decode` a NAL unit, `reconPicture`, `flushPic`, `finishPicture` | parser, reconstruction, picture list |
| Parser front end (`DecLibParser.cpp`, `DecSlice.cpp`) | list of parsed pictures, current picture, parameter sets, POC state | `parse` a NAL unit, `getNextDecodablePicture`, lost-picture handling | thread pool (slice parsing tasks), picture list |
| Picture list (`PicListManager.cpp`, `Picture.cpp`) | all picture buffers with their flags | new buffer or reuse, output order, reference marking | everything that holds a picture |
| Picture reconstruction (`DecLibRecon.cpp`) | one task state per task, barriers of the picture | schedule, `ctuTask`, finish, clean up | thread pool, kernels |
| Reconstruction kernels (`DecCu.cpp`, `LoopFilter.cpp`, ...) | shared sample, motion and parameter buffers | one kernel per stage and CTU | - |
| Thread pool (`ThreadPool.cpp/.h`) | slots, locks of the idle loop and the pause | add, search, run, pause, shut down | all users of tasks |
| Completion counters (`ThreadPool.h`) | count, done barrier, exception | `++`, `--`, `wait`, `wait_nothrow`, `setException` | all users of tasks |
| Entropy decoder (`BinDecoder.cpp`, `Contexts.h`) | range, value, position; probability models | one bin, bins in bulk | syntax reader |
| Syntax readers, sample arithmetic, film grain, application | local | sequential | - |

A picture goes through the parts like this: the application hands in an access
unit, `VVDecImpl::decode` cuts it into NAL units and gives them to `DecLib` one by
one. The main thread parses slice headers and adds a parsing task per slice; it
asks the parser for the next picture that can be reconstructed and hands it to
one of two reconstruction instances, which first waits for its previous picture.
The instance adds one task per group of CTUs; the workers run each task through
its stages (motion derivation, filter strengths, inter, intra, reshaping,
deblocking twice, SAO twice, ALF), and the task gives its thread back whenever a
stage is not ready. `finishReconTask` publishes the picture. The main thread
finishes it, chooses the next picture for output, and `VVDecImpl` appends it to the
list of frames the application takes from and returns to.

What is hard:

- *Lock-free stage conditions.* The only synchronisation of the CTU tasks is one
  atomic state per task. Every condition is a hand-derived statement on whole
  tasks about what kernels on single CTUs read and overwrite.
- *Mutual waiting.* Tasks wait for neighbours in all directions; PRESAO for two
  full lines. A cycle would stop the decoder.
- *Exceptions.* They come from parsing, kernels, ready checks and barriers, on any
  thread, also while tasks are still being added, and must end in a released
  instance with no thread left behind, and once in the application.
- *Counters and wake-ups.* Barriers open and close while tasks are added; an
  exception takes other paths through the counter than a success.
- *Sleeping.* A worker decides to sleep from a counter it reads without a lock.
- *Pictures out of order.* Pictures are parsed ahead, reconstructed out of order,
  finished in yet another order and shown in display order, while some are lost or
  broken; five flags decide when a buffer is free.
- *A list shared with the application.* The iterator of the next frame stays in a
  list that decoding, flushing, returning frames and the implicit reset change.

`PROJECT.json` lists these and the others as hazards, at their lines, with the
properties that watch over them or the reason there is none.

## Modules

| Module | Models | |
|---|---|---|
| `CtuDataflow` | what reconstruction promises, per kernel and CTU | abstract |
| `CtuTasks` | `DecLibRecon`: scheduling, `ctuTask`, finishing, clean-up | implements `CtuDataflow` |
| `WaitCounter` | `WaitCounter`, its done barrier, `processTask`, `handleTaskException` | |
| `ThreadPool` | slots, search, idle loop, pause, growth, shutdown | |
| `FrameOrder` | what the decoder promises: every frame once, in display order, or an exception in its place | abstract |
| `PicList` | `PicListManager` and the state of a picture, as operators | used by `Decoder` |
| `Decoder` | `DecLib`, `DecLibParser` and the tasks of the pictures | implements `FrameOrder` |
| `DecoderProps` | the properties of `Decoder` | |
| `DecoderStream` | conforming streams, and the invariant of `Decoder` for them | |
| `VVDecApi` | `VVDecImpl`: states, frame list, reset | |
| `NalScan` | access unit to NAL units to payload; entry points | operators |
| `PicOrderCnt` | derivation of the picture order count | operators |
| `BinDecoder` | the arithmetic decoder, and the bitwise engine of the standard | operators |
| `CtuTasks_proofs`, `CtuDataflow_proofs`, `WaitCounter_proofs`, `ThreadPool_proofs`, `Decoder_proofs`, `DecoderStream_proofs`, `VVDecApi_proofs`, `Algorithms_proofs` | theorems | TLAPS |
| `MC...` | instances for TLC, with their `.cfg` files | |

Some modules have definitions called `..._Slip`, or with another suffix, next to a
definition of the code: the same with a plausible mistake. They are used nowhere;
with one of them in place of the original TLC refutes the property that
`PROJECT.json` pairs it with.

### CtuDataflow

State: the status of every job (kernel, line, column): idle, running or done.
One rule: a job may start only when its `Inputs` are done. `Inputs` is read off the
kernels: which CTUs' samples and motion they read and which they overwrite in
place. Three kinds of constraints are in it: reading a result that is not final
(intra prediction of the above-right CTU), overwriting what another kernel still
reads (inverse luma mapping against intra prediction; ALF output against SAO
input, both in `m_fltBuf`), and two kernels writing the same samples (the two
deblocking directions). A kernel may be aborted, its job is then idle again.

### CtuTasks

| Variable | Code |
|---|---|
| `ctuState` | `CommonTaskParam::ctuStates` |
| `ctu` | the loop variable of the stage a thread is in |
| `phase` | slot state of the task and the program counter of its thread |
| `parsed`, `parseError` | `ctuParsedBarrier` of the last CTU of each line, with exception |
| `refState` | `refPicExtDepBarriers` |
| `failed` | `m_ctuTaskCounter.hasException()` |
| `finish`, `main` | `reconDone` with `finishReconTask`; the main thread |

`MiderReady` ... `AlfReady` are the conditions of the switch in `ctuTask`, one
operator per case. The same switch serves `findNextTask` (as ready check: `Take`,
`Requeue`, `FailToTake`) and the run itself (`StartStage`, `ReturnFalse`,
`FailInTask`); between the two other threads move. `CtuDone` is one iteration of a
stage's loop with the `_cont` state it publishes, `StageDone` the state of the next
stage. The main thread adds the tasks one at a time in zig-zag order while workers
already run them (`Schedule`), and gives up when the counter throws
(`ScheduleThrows`). Parsing unlocks the lines from top to bottom (a CTU whose upper
neighbour is missing makes `parseSlice` throw), may throw at any point and then sets the exception on all
barriers. The border extension of a reference picture is one step that opens its
barrier or gives it an exception.

A wait for the tasks of a picture is the guard "no task is left" (`AllLeft`). As long as nothing is thrown that is
exactly when the counter lets the waiting thread go on (`WaitCounter`: `CountCovers`, `WaitEndsUnlessThrown`).
Behind an exception it goes on *no earlier* (`WaitCoversTasks`), which is all that the safety properties need, and
possibly never (`counter_lost_wakeup`, `counter_underflow`). `CleanupOnException`, where `wait_nothrow()` is
called behind an exception, is therefore not fair, and no property says that it happens.

### WaitCounter

Each member function of `WaitCounter` holds `m_lock`, so it is one step; the steps
between them are those of `addBarrierTask`, `findNextTask`, `processTask` and
`handleTaskException`. `m_count` is unsigned and wraps at `CountMax`. `m_cond` is the
pair `sleeping`/`checking` of the main thread, with spurious wake-ups allowed but
never relied on. The main thread is in `wait()` or in `wait_nothrow()`, which is
chosen in the initial state (`noThrow`). A follower task stands for `finishReconTask`
behind `donePtr()`.

### ThreadPool

Slots are `FREE`, `PREPARING`, `WAITING` or `RUNNING`; a search takes one look at every
slot in any order (the code starts at different slots and wraps around). Each
step of the idle loop, of the pause and of shutdown is one action; `m_idleMutex` and
`m_allThreadsWaitingMutex` are owners. The two busy-wait times are abstracted: a
worker may move on to the next kind of waiting at any time. The counter and the
exception paths of a task are in `WaitCounter`.

### PicList and Decoder

A picture is a record of the members that the control looks at; `PicList` has the
operations of `PicListManager` on the list of buffers as operators (`GetNewPicBuffer`,
`MarkUnused`, `GetNextOutputPic`, `ReleasePicture`). `Decoder` has one main thread, the
tasks in the pool and the application:

| Variable | Code |
|---|---|
| `setup`, `nal` | the coded pictures, what may fail, and the NAL unit that is next |
| `pic`, `list` | the `Picture` objects and `m_cPicList` |
| `dpb`, `parsePic`, `parseList`, `segment`, `started` | `m_dpbReferencePics`, `m_pcParsePic`, `m_parseFrameList`, `m_uiSliceSegmentIdx`, `m_pocRandomAccess` set |
| `instances` | the queue of `DecLibRecon`, `NoPic` for one without a picture |
| `main` | where the main thread is in `decode()` or `flushPic()`, with its locals |
| `first`, `tuneIn`, `held`, `out`, `reports` | `m_firstOutputPic`, `m_tuneInDelay`; the frames the application has and those it got; how often a failure was thrown out |

`FirstSlice`, `NextSlice`, `RejectSlice`, `SuffixSei` and `LoseNal` are the handling of a NAL unit
in `DecLibParser::parse`, with everything it calls: reference marking, a new buffer, the
parameter checks, the parse task. A missing reference is filled in by a step of its own in front
of them (`FillMissing`), one per reference, since workers go on in between and a buffer
may become free; its own check on the DPB can throw. Then
`decode()` goes on step by step, since workers move in between: `GetNextDecodable` chooses a
picture, `CleanUp` handles a broken one, `WaitForPrev` waits for the instance,
`BorderExtPic` and `Schedule` start the reconstruction, `FinishDone` and `Output` finish the
previous picture and choose a frame. `Flush`, `FlushNext`, `BlockAndFinish`, `FlushLast` and
`FlushOut` are `flushPic()`. The tasks of a picture are three kinds of steps: `ParseSlice` (in
the order the barriers of the slices impose), `Reconstruct` (all tasks of `CtuTasks`, which
shows that a picture ends either complete or with an exception) and `ExtendBorder`. Each may
fail when the setup says so. `Release` is the application giving a frame back. Taking a buffer again
(`ResetForUse`) leaves border extension tasks that are still in the pool where they are.

`waitForAllTasks()` is the guard `TasksDone`, as in `CtuTasks`: it passes no earlier than in the code. For a picture
with an exception in one of its three counters (`MayCarryException`) the code need not pass it at all.
`WaitsInVain` says when the main thread stands before such a wait, or is on its way into it; it is not fair there, so that the
models have the behaviours in which it stays. Only liveness depends on it.

`FrameOrder` is what all this is for: the pictures handed in (`coded`), the frames that are `due`, those that are
`out`, and the exceptions (`reports`). Its steps are `HandIn` (the first slice of a picture), `Show` (the next due
frame comes out) and `Throw`, which may take the next due frame with it. `DecoderStream` maps `due` to the pictures that
wait for output with the one that `flushPic` has chosen, so that nothing is dropped between the choice and the hand-over without a `Throw`.

A setup bounds the number of faults; `header` rejects a slice header, `contents` makes a check
behind `getNewPicBuffer()` throw, `lost` drops a NAL unit.

### VVDecApi

| Variable | Code |
|---|---|
| `eState`, `uiSeqNumber`, `uiSeqNumOutput` | the members of the same name |
| `rcFrameList`, `pcFrameNext` | `m_rcFrameList` and the iterator `m_pcFrameNext` |
| `storage` | the keys of `m_cFrameStorageMap` |
| `lib` | `DecLib` as seen from here: pictures in a queue, those locked for output; `lost` (a ghost) are those locked pictures that never reached the list |
| `pc`, `call`, `ret`, `frame` | the current call and what the last one returned |
| `held` | frames of the application |

The application calls `decode` with an access unit, without payload or with an
invalid one, `flush`, `frame_unref` and `close` in any order. A call is a sequence of
steps (one NAL unit, one round of `flush()`, one round of `reset()`) and may end with
an exception of `DecLib` of any of three kinds. `Catch` is `catchExceptions` and the error handling
behind it. A frame that is converted (8 bit output, film grain on a reference) has
storage of its own and returns its picture at once. `decode()` behind `flush()` runs `reset()`.

An exception may leave `flushPic()` when it has chosen, and locked, the picture to return
(`DecLib.cpp:265`, `283`): `FlushThrown` has both cases. The picture is then out of the queue and locked, and no node will
ever release it (`Lose`); a picture that `xAddPicture` refuses ends the same way.

Nothing is assumed of the application but that it does not call after `close` and returns no frame twice.
It may keep frames when it starts a new stream; `reset()` frees them (`api_new_stream`), and
returning one later is modelled as `objectUnref` not finding it. (The allocator may give a new node the address of a
freed one; then the code would free a frame of the new stream. A frame is identified with its picture here, which rules that
out.)

### NalScan, PicOrderCnt, BinDecoder

Pure functions of their input, written as operators, with what they are compared to in the
same module. `NalScan` has the loop that finds start codes, `xConvertPayloadToRBSP`, and
the part of the slice header that corrects the entry points; its reference is the
encoder side of H.266 annex B and 7.4.2 (`Escape`). `PicOrderCnt` has the branch of
`parseSliceHeader` for pictures without `ph_poc_msb_cycle_val`. `BinDecoder` has the operations
of the class on the record `[range, value, bitsNeeded, pos]`; its reference is the engine of
H.266 9.3.4.3 that renormalises bit by bit, and `Abs` maps one to the other. The masks of
`decodeBin` are written as the conditions they are.

## Runs

| Run | Instance | What it shows |
|---|---|---|
| `dataflow` | 3x3 CTUs, tasks of 2 and 1 CTUs, ALF, no exceptions | every interleaving of the tasks implements `CtuDataflow`; no circular waiting: the main thread gets the instance back |
| `failure` | 3x2 CTUs, a reference picture, exceptions anywhere | motion history exclusive, conditions persist, publication and release are right, in the end no task is left and the main thread is at the wait for them or behind it (`TasksEnd`) |
| `counter` | 3 tasks that may throw, `wait` and `wait_nothrow` | a wait returns only when no task is queued or running, the follower runs last, `wait` ends, `wait_nothrow` ends when nothing is thrown |
| `counter_lost_wakeup` | 1 task that may throw | *violated*: see below |
| `counter_underflow` | 2 tasks that may throw | *violated*: see below |
| `pool` | 3 workers, 2 tasks in a chain, 1 slot per chunk | slots exclusive, order of tasks, sleep only without work, no task is lost, closing the pool ends |
| `decoder_safety` | up to 10 pictures in two sequences, 2 instances, a lost or rejected NAL unit, a failing parse task, up to two failing tasks in pictures of several slices or not shown | buffers are taken and given out only when nobody needs them, references are complete, one owner per picture, assertions hold, frames in order, a locked buffer gets out of reach only with an exception of `flushPic`; the invariant of the proofs (`FrontEndInv`) holds |
| `decoder_failures` | pictures of several slices, with a hash or not, two failing tasks | the decoder implements `FrameOrder`, failures are thrown out; calls return and flushing comes to its end, or the main thread hangs in a wait for a failed picture whose tasks are all over |
| `decoder_undelivered` | a picture that fails a check behind `getNewPicBuffer()` | *violated*: see below |
| `decoder_filled_in` | a reference that never comes, a second sequence behind it, no faults | *violated*: see below |
| `api` | 3 pictures, access units of up to 2 NAL units, all exceptions, both error modes, frames kept over a reset | frames in order and once, valid until returned or until a reset, locks and storage accounted for, the loops of calls end, the invariant of the proofs holds; also evaluates `MCAlgorithms` |
| `api_new_stream` | 2 pictures, `decode()` behind `flush()`, no faults | *violated*: see below |

`MCAlgorithms` holds the comparisons of the pure algorithms as named assumptions, which TLC
evaluates with the run `api`: all payloads of up to five bytes over `{0, 1, 3, 4}`; all pairs of
short NAL units with long and short start codes; all cuts of a six-byte slice into a header
and two substreams; all counts in -20..20 for cycles up to 16; `update()` for *every* estimate,
rate and bin; bins one by one and in bulk after up to three other bins; the tiling of the
codes of `decodeRemAbsEP()`. Bytes above four act like four in emulation prevention, and no
operator remembers more than two bytes, so longer payloads repeat the same cases.

Bounds. The conditions of a task name its eight neighbours, PRESAO a whole line and
the one below: three lines, and a task with neighbours left or right, make every
condition matter; a 2-CTU task next to a 1-CTU task shows the difference between
conditions on tasks and on CTUs. Two threads are enough for every pair of steps that
can conflict. The runs are on pictures with inter prediction; the wave-front that an intra picture adds to the INTER
stage is in `InterReady` and in the proofs, which hold for every value of `IsIntra`, and has no liveness run. Three tasks on a counter give a first, a middle and a last one. Three workers are
the least for one that runs, one that owns the idle lock and one that queues for
it; two tasks in a chain give a task that is found and not ready. `CountMax = 7` is `UINT_MAX`;
`MaxSlots` is one more than the tasks can need.

In `Decoder` a sequence is a random access structure with one reordered picture, long
enough that buffers are reused (`Gop2Long`), short with a second sequence behind it
(`Gop2`), pictures of two or three slices, one in which pictures overtake others
(`Apart`), and two whose pictures are not shown, so that only tasks and references keep a buffer
(`Chain`, `Cut`). `MaxRefPicNum = 3` and the parse delay of at most three keep the list short;
`MaxBufs` is above what the list can need (`IndInv` of `Decoder` would fail
otherwise). `MaxOutOfOrderPics` is 3 in the code; `decoder_safety` uses 1 so that the forced
choice of the oldest picture happens in six pictures. In `VVDecApi` three pictures are enough
for a frame that is out, one that waits and one that is added, in one stream or in two.

`CHECK_DEADLOCK FALSE` is set where the modelled activity really ends: the main
thread of `WaitCounter` returns, the pool is closed and joined, the decoder object is
closed. In `decoder_safety` it is also set because a lost or rejected slice can leave the
decoder waiting for a task that was never added (below); the run that checks `CallsReturn`
does not set it. In `CtuTasks` idle workers keep searching.

### What the code does differently from what it says

- `counter_lost_wakeup`. When the *last* outstanding task of a counter fails,
  `setException` wakes the main thread while `m_count` is still one; the decrement to
  zero then throws in `m_done.unlock()` before `notify_all()`. A main thread in
  `wait_nothrow()` (`Picture::waitForAllTasks`) goes back to sleep and nobody wakes it.
  `wait()` is not affected (run `counter`).
- `counter_underflow`. When a task has failed and the last one succeeds, its decrement
  throws too, in `processTask`, and is handled as a failure of that task: the counter
  is decremented again, from zero to `UINT_MAX`. The run `counter` and the
  theorem `CounterCovers` show that this happens only after all tasks are over, so the
  wait stays safe, it just does not end.
- `decoder_undelivered`. A picture that fails a check behind `getNewPicBuffer()`
  (`xActivateParameterSets` or the reference lists) is in the picture list but with no
  owner that would finish it. `getNextOutputPic` stops at it, so pictures behind it are
  not delivered, although `flush` says it is done.
- `decoder_filled_in`. `Picture.h:201` says that `stillReferenced` is set as long as a picture in progress refers to this
  one. `markUnusedPicturesReusable` stops at the first picture that is not finished (`PicListManager.cpp:255`); a
  picture that was filled in for a lost reference is reconstructed and will never be finished. The pictures behind it,
  of the next sequence too, keep the flag when nothing is in progress any more, so that their buffers are not reused before
  the filled-in one leaves the list.
- `api_new_stream`. `decode()` behind `flush()` runs `reset()`, which frees every frame in the list
  (`vvdecimpl.cpp:217-226`), also those the application has not returned. `vvdec.h` names `vvdec_frame_unref` as
  what frees a picture and says nothing of frames becoming invalid in `vvdec_decode`. No fault is needed.

Some further statements of the code are contradicted by behaviours of the models. They
have a definition and no run; add it to a configuration to see the behaviour.

- In `DecoderProps`: `LockedIsHeld` (an exception leaves `flushPic` with a picture chosen and
  locked; `LocksLostByThrow` says that this is the only way), `SliceParsingStarted`
  (a lost slice leaves a reference without structures when its border is to be extended),
  `DependenciesFinish` (after a lost or rejected slice the decoder may wait for ever),
  `NotThrownBefore` and `AnotherPicture` (the assertion and the unchecked pointer in the error
  loop of `DecLib::decode`), `StructureComplete` (the structure of a picture is written while
  it is still parsed). With parse delay 0 a failure is reported at the slice and once more
  at the suffix SEI, which `ReportedAtMostOnce` allows. `constructRefPicLists` throws for an
  inactive missing reference (`Slice.cpp:486`), which only active ones are filled in for.
- In `DecoderProps` as well, with the setups of `decoder_safety`: `TasksCleared`. The code says of a failed
  picture "ensure all tasks are cleared from declibRecon" and waits for the counters of that picture;
  the border extension tasks it has added are counted by its references, stay in the pool, and the buffer
  of such a reference can be taken again before they have run. `FillPicNotInDpb`: a check of
  `prepareUnavailablePicture()` says that the buffer it takes is not in the DPB. It can be: the DPB is tidied by
  the marking for the next picture, which comes behind the filling, and a picture that is no reference, is
  not shown and has failed is finished in the error loop of `decode()` and free at once. The same
  check on the buffer of a coded picture comes behind the marking and always holds
  (theorem `NoAssertionFails`).
- In `VVDecApi`: `ValidOnlyOnSuccess` (`vvdec.h:585`: a picture is valid if the call returns success; `decode()`
  without payload flushes a picture, hands it out and returns `VVDEC_EOF`). `RestartNeedsReinit` (when the flush inside `reset()` ends with an exception, the
  states it sets are overwritten by the reset that goes on). `NoStaleFrame` is stated without
  faults: an exception in that flush, or a picture that could not be added, lets frames of
  the old stream come out of the new one. A picture that `xAddPicture` refuses stays
  locked (`lib.lost`, which `LocksAccounted` counts); it is reachable because `HLSyntaxReader.cpp:1517`
  checks `>` where its message says "shall be less than". `decode()` without payload gives null and
  `VVDEC_EOF` also when frames wait in the list.
- `NalScan`: zeros in front of a following start code stay with the NAL unit, and one that is
  no slice is then refused; a three-byte start code at the very end is not found.

## Fairness

- Workers scan and run for ever (`threadProc`), so the steps of a task are weakly
  fair (`CtuTasks`), as are the main thread, the parser and the border extension, which are
  tasks of the same pool. Kernels, and parsing of a CTU, terminate.
- In `WaitCounter` a task that is taken again and again eventually succeeds or throws
  (strong fairness of `Complete`): for the CTU tasks `PictureEnds` shows just that.
- In `ThreadPool` workers and the main thread are strongly fair: a thread that asks
  for a mutex which is free again and again gets it. Nothing is assumed about
  spurious wake-ups, nor that the application ever closes the pool.
- In `Decoder` (`FairSpec`) the main thread and the tasks are weakly fair, the application need
  not return frames. In `VVDecApi` a call that was started goes on, which takes the calls of `DecLib` in it for
  granted (`CallsReturn` says how far they are); the application may stop calling at any time.
- A wait for the tasks of a picture with an exception is not fair, in `CtuTasks` (`CleanupOnException`) and in `Decoder`
  (`WaitsInVain`): `wait_nothrow()` may not return then. So after a failure `TasksEnd` and `CallsReturn` leave
  the main thread in that wait as an outcome, and what they exclude is any other: a task that waits
  for a neighbour, a slice or a reference that will never be ready, or an error loop that goes round for ever.
- Throwing is never fair.

## Proofs

`CtuTasks_proofs`, for every picture size, number of threads and set of reference
pictures (assumption `SizeAssumption`: sizes are positive naturals, flags Boolean):

- `TypeCorrect`: needs that the partition of a line gives every task at least zero and
  at most a line of CTUs, a division argument (`ColPerTask`, `TaskGrid`, `TaskSize`).
- `Inductive`: `IndInv` is type correctness with `GuardsPersist`, `LineOrder`, `Accounted` and
  `ContBegun`. `GuardsPersist` is inductive because all conditions are lower bounds on states which only grow
  (`StepAdvances`), and because the `_cont` states have no condition of their own. A
  condition that tested for equality would break it. `LineOrder` (all tasks to the left
  are past motion derivation) is needed since the condition only names the next task to the left.
  `Accounted` ties phases, states and the exception together: a task that left the pool
  is done or has left an exception; `finishReconTask` is added last. `ContBegun`: a
  task in a `_cont` state is through with its first CTU.
- `ConditionsPersist`, `HistoryExclusive`, `QuietRelease`, `CompletePublication` follow.

`CtuDataflow_proofs` proves `Refines == Spec => ImplementsDataflow`: the schedule implements the
data flow for every picture, not only the 3x3 one. Every CTU belongs to one task of its line, its
neighbours to the same task or the one next to it (lemmas on columns and tasks). With `IndInv`,
the condition of each stage then gives, kernel by kernel, that the inputs of the CTU being worked
on are done; for neighbours on the right only the first CTU of the task matters, which is what the
`_cont` states and `ContBegun` are about. Each step of a task moves one job, starts or ends it.

`WaitCounter_proofs`, for every finite set of tasks and any `CountMax` above its size
(`CounterAssumption`): `Inductive`, `TypeCorrect`, `CounterCovers`, `WaitIsSafe`, `FollowerIsLast`. The
strengthening says that an exception on the way through the counter is already on
the barrier, that a decrement throws only when no task is left, and that the barrier
is locked while a task is outstanding. Cardinality is used through the facts of
`FiniteSetTheorems`.

`ThreadPool_proofs`, for any workers, tasks, order between them and chunk size: `Inductive` (of `PoolInv`),
`SlotsExclusive`, `RunsInOrder`, `SleepsWithoutWork`. Tasks are added one by one, so the map from tasks
in the pool to slots is injective, and the queue grows only when there are more tasks than slots
(`FS_Injection`). The last one is the hard one: the holder of the idle mutex is the only worker that
can pause (`PauseAlone`); while it counts the others, each of them is queued or waiting
behind a search that found nothing; and publishing a task needs the pause lock, so a task that
arrives after that search finds the worker before it sleeps (`PauseSearch`).

`Algorithms_proofs`, picture order count, for every even cycle and all integers: `DerivedInReach` (the result has the low
bits that were sent and is within half a cycle of the previous count) and `PocRecovered` (two
counts that close with equal low bits are equal).

`Algorithms_proofs`, arithmetic decoder, for every substream, decoder state and model: `BinStep`, `BinEPStep`, `BinTrmStep`
and `Starts` show that the decoder that reads bytes is a simulation of the engine that reads
bits. `Held` says which bits of the last byte wait below the offset; one bit of room keeps
it, inside a byte and across its end (`ShiftOne`); making room for n bits is making room for one
n times (`WidenTwice`); the range of the less probable symbol is such that the table gives
exactly the number of steps that renormalisation takes (`LpsRange`, `RenormBits`).

`Decoder_proofs`, for every stream, parse delay, bound on the buffers, number of instances and kind
and number of faults (`DecoderAssumption`: the parameters are naturals, headers have the fields of
`CodedPicture`). `Inductive` proves `IndInv`, from which follow `TypeCorrect`, `ExactlyOneOwner`,
`EveryPictureFinished`, `GrainInPlace`, `NoAssertionFails` and `ReusedOnlyUnused`. The property that matters
most, that a buffer is taken again only when nobody has it, is not inductive: `Reusable` looks at five
flags and the users are elsewhere. The parts of the invariant say why the flags are enough:

- `PicturesSound`: what holds of a picture alone. Parse tasks run in order and none is left when
  `parseDone` opens; a finished picture has no task of its own.
- `CallPlace`, `OwnersApart`, `OwnersState`: a picture passes from the parse list to the main thread, to an
  instance and back to the main thread, is in one place at a time, and how far it is tells where.
  A buffer that is `finished` is in none of them.
- `GivenUp`: what is in no place was reported by the parser. `ParsedLast`: as long as slices of a picture
  are to come it is the last of the parse list, so that taking pictures out of order never takes it.
- `CodingOrder`: a picture refers to none behind it in the parse list, so what is chosen to be
  reconstructed never waits for one that is not. `ReferencesKept`: whatever is to be
  reconstructed keeps `stillReferenced` set in its references; `MarkUnused` stops at the first unfinished
  picture and looks at all references of those in work, which is what this needs.
- `FramesLocked`: the application's frames are finished and locked.

On top of it `TasksTellProgress` proves a second layer, `ReadyInv`, and from that `ReferencesAreComplete`:
a picture is reconstructed only while all its references are complete. `borderExtPic` waits until the
reference has no task left (`waitForAllTasks`), which is also so of a picture that nobody has
begun, and takes one that is not reconstructed then for one that has failed. `TasksTell` says why it is: a
picture with an instance is being reconstructed or has failed; one that was given up before its first
slice was parsed has a task that waits for that slice, so the wait never ends (`DependenciesFinish`
above); borders are extended only of pictures that are reconstructed. `Calm`, `QuietStep`
and `SameTasks` carry this over the steps that leave the tasks alone, so that only those
that schedule, finish or give up a picture need an argument of their own.
The theorem asks that no picture of the stream refers to itself (`NoSelfReference`), which holds of every
valid stream and of all streams of the runs. The code checks it too, in `constructSingleRefPicList`, but only
behind the lookup in the list of reference pictures, when the picture may have been filled in as missing.

The proof has a lemma for each operator of `PicList` (what `GetNewPicBuffer` returns, what
`MarkUnused` and `GetNextOutputPic` change) and one per step of the main thread and of the workers. The
folds behind `SelectInSeq` and `RemoveAt` are used through their definitions on sequences.

`DecoderStream_proofs`, under the same `DecoderAssumption`, is about *conforming streams in which only tasks
fail* (`Conforming`): every parse and reconstruction task may throw, in any number, but no NAL unit is lost or
rejected by the main thread. `ConformingStream` is what the properties need of a stream, no more:

- the first picture is an IDR picture, and a picture refers to what the DPB has kept since
  (`StaysRef`): otherwise pictures are filled in or given up (`FillMissing`, `RejectSlice`), and
  `decoder_undelivered` shows what becomes of the output then;
- the picture order counts of a coded video sequence differ, and no more pictures are reordered than
  the SPS says: `getNextOutputPic` decides by these two alone;
- IDR pictures are shown. The code needs it: the range for output ends at an IDR picture that is still
  `neededForOutput` (`PicListManager.cpp:302` goes on before it looks at the NAL unit type of one that is not), so
  behind an IDR picture that is not shown the counts of two sequences are compared.

`FrontEndKept` proves `FrontEndInv`: the invariant of the first layer, and for such streams
`StreamInv`, which has one part for each question.

- `ParserInv`: which NAL unit is next and which picture it goes on with (`AtNal`); the picture list is in
  coding order and holds what the headers say, and the DPB has every picture that stays a reference
  (`PicturesInOrder`); nobody is given up (`NobodyLost`). It gives that no reference is ever missing and no slice
  refused, so the other parts need not look at those paths (lemmas `NothingLost`, `NothingRejected`).
- `OvertakenInv`, for `OvertakenBounded`: `skippedDecCount` falls along the parse list and is at least the
  number of pictures behind that were taken before. The limit is tested for the first picture only; that the
  first has the highest count is what makes this enough.
- `ReportsInv`, for `ReportedOnce` and `EveryFailureReported`. The number of times a picture was reported is tied to
  the flags from which `decode`, `finishPicture` and the parser decide to throw (`ReportsTell`): an error
  that was not thrown out yet will be (`Throws`), one that was is never thrown again but by the slices
  behind it (`MostReports`) and the wait for a hash (`HashSeen`).
- `OrderInv`, for `ShownInDisplayOrder` and `EverythingShown`: whatever was chosen for output comes before whatever
  was not (`Gone`, `Pending`). A picture is chosen among the finished ones in front of the first unfinished one,
  and the one with the lowest count; a picture with a lower one might be unfinished or not parsed yet. But
  it is chosen only when an IDR picture ends the range, behind which its sequence is over, or when more than
  `NumReorder` wait for output, and the late picture would be shown before all of them (`NextOutputNext`). A flush chooses when nothing more comes.

`ShowsFramesSafely` proves that the decoder implements `FrameOrder`, for every conforming stream: each step of `Decoder` is a
step of `FrameOrder` or a stutter (`FrameStep` in the lemma of each action). `OrderInv` gives that the frame which
`getNextOutputPic` chooses is the next one due (`FramesOutput`), and `OutPicNext` the same of one that `flushPic` has kept in
`outPic` while it decoded further pictures. The theorem says what the invariants on `out` cannot: no frame is
passed over but where an exception leaves the call (`GoesOnOrThrows`). This one case is real: `flushPic` loses
`outPic` when `reconPicture` throws, and the frame never comes. `FrameOrder` has no liveness; that frames
come at all is `CallsReturn`, by which flushing ends unless the main thread hangs behind a failure, with `AllDelivered`.

`FailuresReported` and `AllDelivered` are about the end of the stream; `EofEmpty` says that nobody has a picture then. Each
action has a lemma for each part (`...GoesOn`), and `StreamStep` puts them together.

`VVDecApi_proofs`, for any number of pictures and NAL units and all ways to fail (`SetupAssumption`):
`Inductive` (of `ApiInv`), `TypeCorrect`, `FramesInOrder`, `FramesStayValid`, `LocksKept`, `EofDrained`, `NoOldFrame`. Between the calls
the claim is simple, but decode, flush, reset and the calls that fail leave the list half-way; the
invariant has to say at every step how much is out. `OutUpTo(g)` does: the first g pictures are
out, the rest is in the list, and iterator and counter agree with g. `Numbered` and `CodingOrder` make the
list the tail of what the library gave; `HeldNodes` and `LockedNodes` tie the application's frames, the locks and
the storage to nodes of the list. Two kinds of pictures have none: a frame of an earlier stream that the application has
kept, and a locked picture that a failure has cut off. Both are older than everything in the queue and not in the list of this
stream, which is what the invariant says of them, so that no later step can take one for a frame of this stream. `FramesStayValid` is about the frames of the
current stream, whatever the calls are and whatever throws; what a reset does to the others is `api_new_stream`.
`LocksKept` counts the pictures cut off (`lib.lost`) and says that without faults there are none; `Drained` and `NewStream` are about flush and reset; `CallPlace` about
which step belongs to which call.

Only model-checked:

- liveness, which needs ENABLED and fairness: `PictureEnds`, `TasksEnd`, `WaitEndsUnlessThrown`, `TasksRun`, `JoinEnds`,
  `CallsReturn` and `ApiReturns`;
- in `Decoder`: `LocksLostByThrow`;
- `NalScan`, whose folds over sequences need induction over data; bins in bulk, the same; `update()`,
  whose inputs are finite and all evaluated.

## Not modelled

- Sample arithmetic, transforms, the syntax of `CABACReader`, parameter sets and SEI messages (sequential,
  numeric, far larger than TLC's reach); SIMD variants; film grain synthesis; the command line application.
- The pool without workers (`bypassTaskQueue`, `processTasksOnMainThread`), a sequential special case;
  two of its exception paths are listed as a hazard. The pool-level exception.
- In `Decoder`: `checkNoOutputPriorPics`, long-term references, CRA and GDR pictures with RASL pictures,
  mixed NAL unit types, subpictures, layers, `numThreads == 0`, the mode that stops at the first
  error, and failures in the header of a later slice. The exception of a parse task and the `error` flag
  of its picture are set in one step. Parameter set NAL units.
- In `VVDecApi`: film grain tasks and the exceptions that film grain or an allocation throws out of `xAddPicture`, the lookup of SEI messages, allocators of the application.
- In `BinDecoder`: what `InputBitstream` does at its end (it throws), and which model a bin uses.
- The memory order of atomics is taken as sequentially consistent, which is what the default operations
  used on the states provide. Of scheduling a picture, the allocations and the
  border extension that come before the first task are not steps of `CtuTasks`.

## Plan

1. `MainThreadPool`: the pool without workers and its exception paths.
2. `Decoder`: random access at CRA and GDR pictures, long-term references, and the mode that stops
   at the first error.
3. `FrontEndInv` for streams of which pictures are lost, where the order of output is still right.
4. The film grain tasks as users of `WaitCounter`.
