------------------------------ MODULE VVDecApi ------------------------------
(***************************************************************************)
(* The public interface (VVDecImpl): the states of the decoder object, the *)
(* list of frames between the library and the application with its         *)
(* iterator m_pcFrameNext, sequence numbers, and the reset that decode()   *)
(* runs behind a flushed stream.  The application calls from one thread;   *)
(* one NAL unit, one round of flush() or of reset() is one step.           *)
(* DecLib is the queue it looks like from here: pictures go in with the    *)
(* NAL units and come out in a fixed order, and a call may throw.          *)
(***************************************************************************)
EXTENDS Integers, Sequences, SequencesExt, FiniteSets

CONSTANTS
  MaxPics,   \* bound: pictures in all streams together
  MaxNals,   \* bound: NAL units in an access unit
  Setups     \* [tryContinue |-> ERR_HANDLING_TRY_CONTINUE, faults |-> what may fail]

FaultKind == {"recoverable", "fatal", "unsupported", "add"}
ASSUME SetupAssumption ==
  /\ MaxPics \in Nat /\ MaxNals \in Nat \ {0}
  /\ Setups \subseteq [tryContinue : BOOLEAN, faults : SUBSET FaultKind]

VARIABLES
  setup,          \* what the decoder was opened with, and the faults; constant
  eState,         \* m_eState
  rcFrameList,    \* m_rcFrameList: [pic, seq, converted]
  pcFrameNext,    \* m_pcFrameNext, as the picture of the node; NoPic for end()
  uiSeqNumber, uiSeqNumOutput,
  storage,        \* the keys of m_cFrameStorageMap
  lib,            \* DecLib: [queue, locked, coded], and a ghost, lost: the locked
                  \* pictures that never reached the list
  held,           \* the frames the application has
  pc, call,       \* where the current call is, see below
  ret, frame,     \* what the last call returned
  taken, shown,   \* ghosts: the pictures of this stream added to the list, and
                  \* those given to the application, in order
  oldest          \* ghost: the first picture of this stream

list == <<rcFrameList, storage, taken>>
next == <<pcFrameNext, uiSeqNumOutput>>
app  == <<held, shown, frame>>
vars == <<setup, eState, list, next, uiSeqNumber, lib, app, pc, call, ret, oldest>>

(* pc:  "app"    the application's turn                                    *)
(*      "nal"    the loop of decode(), "empty": decode() without payload   *)
(*      "flush"  the loop of flush()                                       *)
(*      "give"   the end of decode() and flush()                           *)
(*      "reset"  the loop of reset(), "clear": the rest of it              *)
(*      "closed" the decoder is gone                                       *)
(* call: what the application called, the NAL units left in its access     *)
(* unit, whether reset() is running, whether flush() failed to add one.    *)
NoPic == 0

Call(op, n) == [op |-> op, left |-> n, reset |-> FALSE, failed |-> FALSE]
Idle == Call("none", 0)

Init ==
  /\ setup \in Setups
  /\ eState = "INITIALIZED"
  /\ rcFrameList = <<>> /\ pcFrameNext = NoPic
  /\ uiSeqNumber = 0 /\ uiSeqNumOutput = 0
  /\ storage = {}
  /\ lib = [queue |-> <<>>, locked |-> {}, coded |-> 0, lost |-> {}]
  /\ held = {}
  /\ pc = "app" /\ call = Idle
  /\ ret = "OK" /\ frame = NoPic
  /\ taken = <<>> /\ shown = <<>> /\ oldest = 1
-----------------------------------------------------------------------------
(* The library.                                                            *)

\* DecLib::decode takes a NAL unit, the first one of a picture or another.
Fed ==
  {lib} \cup {[lib EXCEPT !.coded = n, !.queue = Append(@, n)] :
                n \in {lib.coded + 1} \cap 1..MaxPics}

\* It returns the next picture, locked for the application.
Output(l) == [l EXCEPT !.queue = Tail(@), !.locked = @ \cup {Head(l.queue)}]

\* The picture is locked and nobody gets to know of it.
Lose(l) == [Output(l) EXCEPT !.lost = @ \cup {Head(l.queue)}]

\* An exception of a later picture leaves flushPic() before it has chosen a
\* picture for output, or with the one that it has chosen.
FlushThrown == IF lib.queue = <<>> THEN {lib} ELSE {lib, Lose(lib)}

\* The exceptions it may leave with.
Throws == setup.faults \ {"add"}
-----------------------------------------------------------------------------
(* The list of frames.                                                     *)

\* The iterator at position i of a list, 0 for end(), as the picture of its node.
At(frames, i) == IF i = 0 THEN NoPic ELSE frames[i].pic

\* A slip: what was given out last is given out again.
FirstAfter_NotStrict(frames) ==
  At(frames, SelectInSeq(frames, LAMBDA f : f.seq >= uiSeqNumOutput))

\* Where xAddPicture finds the iterator at the end, it searches the first node
\* behind what was given out last.
FirstAfter(frames) ==
  At(frames, SelectInSeq(frames, LAMBDA f : f.seq > uiSeqNumOutput))

\* xAddPicture.  A converted frame (8 bit, film grain on a reference) has
\* storage of its own under its sequence number, and the picture goes back.
AddPicture(p, l, converted) ==
  LET frames == Append(rcFrameList, [pic |-> p, seq |-> uiSeqNumber, converted |-> converted])
  IN
  /\ rcFrameList' = frames
  /\ pcFrameNext' = CASE pcFrameNext # NoPic -> pcFrameNext
                      [] pcFrameNext = NoPic /\ uiSeqNumber = 0 -> frames[1].pic
                      [] OTHER -> FirstAfter(frames)
  /\ uiSeqNumber' = uiSeqNumber + 1
  /\ storage' = IF converted THEN storage \cup {uiSeqNumber} ELSE storage
  /\ lib' = IF converted THEN [l EXCEPT !.locked = @ \ {p}] ELSE l
  /\ taken' = Append(taken, p)
  /\ UNCHANGED uiSeqNumOutput

\* It gives up on a picture without samples; the picture stays locked.
AddFails(l) ==
  /\ "add" \in setup.faults
  /\ lib' = Lose(l)
  /\ UNCHANGED <<list, next, uiSeqNumber>>

\* The library returned no picture.
NoOutput(l) == lib' = l /\ UNCHANGED <<list, next, uiSeqNumber>>

\* xHandleOutput: the first picture ends the tuning in.
TunedIn == eState' = IF eState = "TUNING_IN" THEN "DECODING" ELSE eState

\* A slip: erase() is given the front of the list.
Find_Front(p) == IF rcFrameList = <<>> THEN 0 ELSE 1

\* The position of the node of picture p, 0 when there is none.
Find(p) == SelectInSeq(rcFrameList, LAMBDA f : f.pic = p)

\* ++m_pcFrameNext
Behind(p) == IF Find(p) = Len(rcFrameList) THEN NoPic ELSE rcFrameList[Find(p) + 1].pic

\* A slip: what was given out last is numbered as what comes next.
SequenceNumber_Next(p) == rcFrameList[Find(p)].seq + 1

SequenceNumber(p) == rcFrameList[Find(p)].seq

\* A slip: the library is not told.
Erase_NotLib(i) ==
  /\ storage' = storage \ {rcFrameList[i].seq}
  /\ rcFrameList' = RemoveAt(rcFrameList, i)
  /\ UNCHANGED <<lib, taken>>

\* vvdec_frame_reset, releasePicture and erase for the node at position i; a
\* node that was converted has given its picture back.
Erase(i) ==
  /\ storage' = storage \ {rcFrameList[i].seq}
  /\ lib' = IF rcFrameList[i].converted THEN lib
            ELSE [lib EXCEPT !.locked = @ \ {rcFrameList[i].pic}]
  /\ rcFrameList' = RemoveAt(rcFrameList, i)
  /\ UNCHANGED taken
-----------------------------------------------------------------------------
(* How a call goes on and ends.                                            *)

Return(r) == ret' = r /\ pc' = "app" /\ call' = Idle

\* The catch clauses of decode() and flush(), and catchExceptions for the rest.
Catch(k, s) ==
  IF k = "recoverable" /\ (s = "TUNING_IN" \/ setup.tryContinue)
  THEN eState' = s /\ ret' = "ERR_DEC_INPUT"
  ELSE IF k = "unsupported"
  THEN eState' = "NOT_SUPPORTED" /\ ret' = "ERR_NOT_SUPPORTED"
  ELSE eState' = "RESTART_REQUIRED" /\ ret' = "ERR_RESTART_REQUIRED"

\* The states in which decode() and flush() refuse at once.
NeedsReinit == eState \in {"RESTART_REQUIRED", "NOT_SUPPORTED"}
FlushRefuses == NeedsReinit \/ eState \in {"INITIALIZED", "FINALIZED"}

Refuse ==
  /\ Return(IF eState = "NOT_SUPPORTED" THEN "ERR_NOT_SUPPORTED"
                                        ELSE "ERR_RESTART_REQUIRED")
  /\ frame' = NoPic
  /\ UNCHANGED <<setup, eState, list, next, uiSeqNumber, lib, held, shown, oldest>>

\* decode() turns to its access unit, in state s.
EnterDecode(op, n, s) ==
  /\ eState' = IF s = "INITIALIZED" THEN "TUNING_IN" ELSE s
  /\ IF op = "invalid"
     THEN Return("ERR_DEC_INPUT")
     ELSE pc' = op /\ call' = Call(op, n) /\ UNCHANGED ret
-----------------------------------------------------------------------------
(* decode().                                                               *)

\* An access unit is invalid (no payload, no start code), empty (nothing used
\* of the payload) or has NAL units.
Unit(op, n) == IF op = "nal" THEN n > 0 ELSE n = 0

DecodeRefused == pc = "app" /\ NeedsReinit /\ Refuse

Decode(op, n) ==
  /\ pc = "app" /\ Unit(op, n)
  /\ eState \in {"INITIALIZED", "TUNING_IN", "DECODING"}
  /\ EnterDecode(op, n, eState)
  /\ frame' = NoPic
  /\ UNCHANGED <<setup, list, next, uiSeqNumber, lib, held, shown, oldest>>

\* A new stream, whatever frames of the old one the application still has.
DecodeAfterFlush(op, n) ==
  /\ pc = "app" /\ Unit(op, n)
  /\ eState \in {"FLUSHING", "FINALIZED"}
  /\ pc' = "reset" /\ call' = [Call(op, n) EXCEPT !.reset = TRUE]
  /\ frame' = NoPic
  /\ UNCHANGED <<setup, eState, list, next, uiSeqNumber, lib, held, shown, oldest, ret>>

\* The next NAL unit: DecLib::decode and xHandleOutput, unless its payload or its
\* header is not right.
DecodeNal ==
  /\ pc = "nal" /\ call.left > 0
  /\ \E l \in Fed :
       \/ /\ NoOutput(l)
          /\ call' = [call EXCEPT !.left = @ - 1]
          /\ UNCHANGED <<eState, pc, ret>>
       \/ /\ l.queue # <<>> /\ TunedIn
          /\ \E converted \in BOOLEAN : AddPicture(Head(l.queue), Output(l), converted)
          /\ call' = [call EXCEPT !.left = @ - 1]
          /\ UNCHANGED <<pc, ret>>
       \/ /\ l.queue # <<>> /\ TunedIn
          /\ AddFails(l)
          /\ Return("ERR_UNSPECIFIED")
       \/ /\ NoOutput(l) /\ pc' = "app" /\ call' = Idle
          /\ \E k \in Throws : Catch(k, eState)
       \/ /\ NoOutput(lib)
          /\ Return("ERR_UNSPECIFIED")
          /\ UNCHANGED eState
  /\ UNCHANGED <<setup, app, oldest>>

NalsDone ==
  /\ pc = "nal" /\ call.left = 0
  /\ pc' = "give"
  /\ UNCHANGED <<setup, eState, list, next, uiSeqNumber, lib, app, call, ret, oldest>>

\* Without payload decode() flushes one picture.
DecodeEmpty ==
  /\ pc = "empty"
  /\ \/ /\ lib.queue = <<>> /\ NoOutput(lib)
        /\ Return("EOF")
        /\ UNCHANGED eState
     \/ /\ lib.queue # <<>> /\ TunedIn
        /\ \/ \E converted \in BOOLEAN : AddPicture(Head(lib.queue), Output(lib), converted)
           \/ AddFails(lib)
        /\ pc' = "give"
        /\ UNCHANGED <<call, ret>>
     \/ /\ \E l \in FlushThrown : NoOutput(l)
        /\ pc' = "app" /\ call' = Idle
        /\ \E k \in Throws : Catch(k, eState)
  /\ UNCHANGED <<setup, app, oldest>>
-----------------------------------------------------------------------------
(* flush(), called by the application or by reset().                       *)

FlushRefused == pc = "app" /\ FlushRefuses /\ Refuse

Flush ==
  /\ pc = "app" /\ ~FlushRefuses
  /\ eState' = "FLUSHING"
  /\ pc' = "flush" /\ call' = Call("flush", 0)
  /\ frame' = NoPic
  /\ UNCHANGED <<setup, list, next, uiSeqNumber, lib, held, shown, oldest, ret>>

\* A slip: the end of the pictures does not end the loop.
GoesOn_ToList(q, frames) == frames = <<>>

\* The loop ends without a picture or when there is a frame in the list.
GoesOn(q, frames) == q # <<>> /\ frames = <<>>

FlushStep ==
  /\ pc = "flush"
  /\ \/ /\ \/ /\ lib.queue = <<>> /\ NoOutput(lib)
              /\ UNCHANGED call
           \/ /\ lib.queue # <<>>
              /\ \E converted \in BOOLEAN :
                   AddPicture(Head(lib.queue), Output(lib), converted)
              /\ UNCHANGED call
           \/ /\ lib.queue # <<>>
              /\ AddFails(lib)
              /\ call' = [call EXCEPT !.failed = TRUE]
        /\ pc' = IF GoesOn(lib.queue, rcFrameList') THEN "flush" ELSE "give"
        /\ UNCHANGED <<eState, ret>>
     \/ /\ \E l \in FlushThrown : NoOutput(l)
        /\ \E k \in Throws : Catch(k, eState)
        /\ IF call.reset THEN pc' = "clear" /\ UNCHANGED call
                         ELSE pc' = "app" /\ call' = Idle
  /\ UNCHANGED <<setup, app, oldest>>
-----------------------------------------------------------------------------
(* The end of decode() and flush(): the frame at pcFrameNext goes out.     *)

Advance ==
  /\ pcFrameNext # NoPic
  /\ uiSeqNumOutput' = SequenceNumber(pcFrameNext)
  /\ pcFrameNext' = Behind(pcFrameNext)

\* A slip: the last frame is taken for the end.
FlushOver_Early ==
  IF pcFrameNext = NoPic THEN TRUE ELSE Behind(pcFrameNext) = NoPic

\* flush() is over when nothing is left or a picture could not be added.
FlushOver == pcFrameNext = NoPic \/ call.failed

GiveFrame ==
  /\ pc = "give" /\ ~call.reset
  /\ Advance
  /\ frame' = pcFrameNext
  /\ held' = held \cup {pcFrameNext}
  /\ shown' = Append(shown, pcFrameNext)
  /\ eState' = IF call.op = "flush" /\ FlushOver THEN "FINALIZED" ELSE eState
  /\ Return(IF call.op = "empty" \/ (call.op = "flush" /\ FlushOver) THEN "EOF" ELSE "OK")
  /\ UNCHANGED <<setup, list, uiSeqNumber, lib, oldest>>

\* decode() asks for more when the access unit had slices.
GiveNothing ==
  /\ pc = "give" /\ ~call.reset /\ pcFrameNext = NoPic
  /\ IF call.op = "flush" THEN eState' = "FINALIZED" ELSE UNCHANGED eState
  /\ IF call.op = "nal" THEN \E r \in {"OK", "TRY_AGAIN"} : Return(r) ELSE Return("EOF")
  /\ UNCHANGED <<setup, list, next, uiSeqNumber, lib, app, oldest>>
-----------------------------------------------------------------------------
(* reset(), called by decode() and by uninit().                            *)

\* A slip: reset() does not flush.
ResetFlush_Omitted ==
  /\ pc = "reset" /\ pc' = "clear"
  /\ UNCHANGED <<setup, eState, list, next, uiSeqNumber, lib, app, call, ret, oldest>>

ResetFlush ==
  /\ pc = "reset"
  /\ IF FlushRefuses
     THEN pc' = "clear" /\ UNCHANGED <<eState, call>>
     ELSE pc' = "flush" /\ eState' = "FLUSHING" /\ call' = [call EXCEPT !.failed = FALSE]
  /\ UNCHANGED <<setup, list, next, uiSeqNumber, lib, app, ret, oldest>>

\* flush() returned a frame to reset(), which drops it: objectUnref.
ResetUnref ==
  /\ pc = "give" /\ call.reset
  /\ Advance
  /\ Erase(Find(pcFrameNext))
  /\ eState' = IF FlushOver THEN "FINALIZED" ELSE eState
  /\ pc' = IF FlushOver THEN "clear" ELSE "reset"
  /\ UNCHANGED <<setup, uiSeqNumber, app, call, ret, oldest>>

ResetFlushed ==
  /\ pc = "give" /\ call.reset /\ pcFrameNext = NoPic
  /\ eState' = "FINALIZED" /\ pc' = "clear"
  /\ UNCHANGED <<setup, list, next, uiSeqNumber, lib, app, call, ret, oldest>>

\* The rest of reset(): no frame stays; then the new stream, or the end.
ResetClear ==
  /\ pc = "clear"
  /\ lib' = [lib EXCEPT !.locked = @ \ {f.pic : f \in {g \in ToSet(rcFrameList) : ~g.converted}}]
  /\ rcFrameList' = <<>> /\ storage' = {} /\ pcFrameNext' = NoPic
  /\ uiSeqNumber' = 0 /\ uiSeqNumOutput' = 0
  /\ taken' = <<>> /\ shown' = <<>> /\ oldest' = lib.coded + 1
  /\ IF call.op = "close"
     THEN eState' = "UNINITIALIZED" /\ pc' = "closed" /\ UNCHANGED <<call, ret>>
     ELSE EnterDecode(call.op, call.left, "INITIALIZED")
  /\ UNCHANGED <<setup, held, frame>>
-----------------------------------------------------------------------------
\* vvdec_frame_unref, also of a frame that reset() has freed; the address of its
\* node is taken to be that of no other node.
Unref(p) ==
  /\ pc = "app" /\ p \in held
  /\ held' = held \ {p}
  /\ IF Find(p) = 0
     THEN ret' = "ERR_UNSPECIFIED" /\ UNCHANGED <<list, lib>>
     ELSE ret' = "OK" /\ Erase(Find(p))
  /\ UNCHANGED <<setup, eState, next, uiSeqNumber, pc, call, frame, shown, oldest>>

\* vvdec_decoder_close
Close ==
  /\ pc = "app"
  /\ pc' = "reset" /\ call' = [Call("close", 0) EXCEPT !.reset = TRUE]
  /\ UNCHANGED <<setup, eState, list, next, uiSeqNumber, lib, app, ret, oldest>>

Application ==
  \/ \E op \in {"invalid", "empty", "nal"}, n \in 0..MaxNals :
       Decode(op, n) \/ DecodeAfterFlush(op, n)
  \/ DecodeRefused \/ Flush \/ FlushRefused
  \/ \E p \in held : Unref(p)
  \/ Close

Step ==
  \/ DecodeNal \/ NalsDone \/ DecodeEmpty \/ FlushStep
  \/ GiveFrame \/ GiveNothing
  \/ ResetFlush \/ ResetUnref \/ ResetFlushed \/ ResetClear

Next == Application \/ Step

\* A call that was started goes on; the application is free to stop calling.
Spec == Init /\ [][Next]_vars /\ WF_vars(Step)
-----------------------------------------------------------------------------
(* Properties.                                                             *)

\* The ranges of the state.
TypeOK ==
  /\ setup \in Setups
  /\ eState \in {"INITIALIZED", "TUNING_IN", "DECODING", "FLUSHING", "FINALIZED",
                 "RESTART_REQUIRED", "NOT_SUPPORTED", "UNINITIALIZED"}
  /\ rcFrameList \in Seq([pic : 1..MaxPics, seq : 0..MaxPics, converted : BOOLEAN])
  /\ {pcFrameNext, uiSeqNumber, uiSeqNumOutput} \cup storage \subseteq 0..MaxPics
  /\ lib \in [queue : Seq(1..MaxPics), locked : SUBSET (1..MaxPics), coded : 0..MaxPics,
             lost : SUBSET (1..MaxPics)]
  /\ lib.locked \cup ToSet(lib.queue) \cup held \subseteq 1..lib.coded
  /\ pc \in {"app", "nal", "empty", "flush", "give", "reset", "clear", "closed"}
  /\ call \in [op : {"none", "nal", "empty", "flush", "close", "invalid"},
               left : 0..MaxNals, reset : BOOLEAN, failed : BOOLEAN]
  /\ {taken, shown} \subseteq Seq(1..MaxPics)

\* The application gets the frames of a stream in the order in which the library
\* returned them, every one once and none left out, however decode(), flush()
\* and unref are mixed; between the calls m_pcFrameNext stands at the oldest
\* frame it has not got, or at the end when there is none: never at an erased
\* node, never back at a frame that was given out and not returned.
ShownInOrder ==
  /\ IsPrefix(shown, taken)
  /\ pc = "app" =>
       pcFrameNext = At(rcFrameList,
                        SelectInSeq(rcFrameList, LAMBDA f : f.pic \notin ToSet(shown)))

\* A frame stays valid until the application returns it, whatever it calls and
\* whatever fails in it, as long as it does not close the decoder or start a new
\* stream with decode() behind flush().
HeldStayValid ==
  held \cap ToSet(shown) \subseteq {f.pic : f \in ToSet(rcFrameList)}

\* vvdec.h of vvdec_frame_unref: "This call is used to free the memory of an
\* picture which is not used anymore."  Until then the application uses it.
FreedByUnref == pc # "closed" => held \subseteq {f.pic : f \in ToSet(rcFrameList)}

\* Every picture the library locked for output is that of a node, so that it is
\* released with it, or one of those that failures have cut off from the list: an
\* exception that left flushPic() with it, or xAddPicture() that refused it, of
\* which there are none without faults.  Every storage is that of a converted frame.
LocksAccounted ==
  pc = "app" =>
    /\ lib.locked = {f.pic : f \in {g \in ToSet(rcFrameList) : ~g.converted}} \cup lib.lost
    /\ storage = {f.seq : f \in {g \in ToSet(rcFrameList) : g.converted}}
    /\ setup.faults = {} => lib.lost = {}

\* vvdec.h: flush is to be repeated "until all pending pictures has been
\* delivered to the caller, which is when the the function returns VVDEC_EOF": all
\* but those that a reported exception has cut off.
EofMeansDrained ==
  eState = "FINALIZED" /\ pc = "app" /\ "add" \notin setup.faults =>
    shown = taken /\ lib.queue = <<>>

\* reset() leaves nothing of the old stream: no frame of it comes out as one of
\* the new stream, when no exception ended the flush in it.
NoStaleFrame ==
  setup.faults = {} => \A i \in DOMAIN taken : taken[i] >= oldest

\* The parts of the inductive invariant.

\* Pictures come out of the library in the order in which they went in.
CodingOrder ==
  /\ \A i, j \in DOMAIN lib.queue : i < j => lib.queue[i] < lib.queue[j]
  /\ \A i, j \in DOMAIN taken : i < j => taken[i] < taken[j]
  /\ \A i \in DOMAIN taken :
       /\ i <= taken[i] /\ taken[i] <= lib.coded
       /\ \A j \in DOMAIN lib.queue : taken[i] < lib.queue[j]

\* The frames of the list are numbered in that order.
Numbered ==
  /\ uiSeqNumber = Len(taken)
  /\ \A i \in DOMAIN rcFrameList :
       /\ rcFrameList[i].seq < Len(taken)
       /\ rcFrameList[i].pic = taken[rcFrameList[i].seq + 1]
  /\ \A i, j \in DOMAIN rcFrameList : i < j => rcFrameList[i].seq < rcFrameList[j].seq

\* The first g pictures of the stream are out and the others are all in the
\* list, with m_pcFrameNext at the first of them.  reset() takes frames out
\* that the application does not see.
OutUpTo(g) ==
  /\ Len(shown) <= g /\ (call.reset \/ Len(shown) = g)
  /\ pcFrameNext = IF g = Len(taken) THEN NoPic ELSE taken[g + 1]
  /\ uiSeqNumOutput = IF g = 0 THEN 0 ELSE g - 1
  /\ \A n \in g..(Len(taken) - 1) : \E i \in DOMAIN rcFrameList : rcFrameList[i].seq = n
SomeOut == IsPrefix(shown, taken) /\ \E g \in 0..Len(taken) : OutUpTo(g)

\* Where a call can be.
CallPlace ==
  /\ pc \in {"reset", "clear"} => call.reset
  /\ call.reset => /\ pc \in {"reset", "flush", "give", "clear", "closed"}
                   /\ call.op \in {"invalid", "empty", "nal", "close"}
  /\ pc = "flush" => call.reset \/ call.op = "flush"
  /\ pc \in {"nal", "empty"} => call.op = pc
  /\ eState \in {"INITIALIZED", "FINALIZED"} => pc \in {"app", "reset", "clear"}

\* A frame that the application has is of this stream and has a node, or it is
\* of an earlier one; it is older than all that are to come.
HeldNodes ==
  \A p \in held :
    /\ \/ \E i \in DOMAIN rcFrameList :
            rcFrameList[i].pic = p /\ rcFrameList[i].seq < Len(shown)
       \/ \A i \in DOMAIN taken : taken[i] # p
    /\ \A j \in DOMAIN lib.queue : p < lib.queue[j]

\* LocksAccounted, within the calls as well; a picture cut off from the list is
\* older than all that are to come.
LockedNodes ==
  /\ \A p \in 1..MaxPics : p \in lib.locked <=>
       \/ p \in lib.lost
       \/ \E i \in DOMAIN rcFrameList : rcFrameList[i].pic = p /\ ~rcFrameList[i].converted
  /\ \A n \in 0..MaxPics : n \in storage <=>
       \E i \in DOMAIN rcFrameList : rcFrameList[i].seq = n /\ rcFrameList[i].converted
  /\ \A p \in lib.lost :
       /\ p <= lib.coded
       /\ \A i \in DOMAIN taken : taken[i] # p
       /\ \A j \in DOMAIN lib.queue : p < lib.queue[j]
  /\ setup.faults = {} => lib.lost = {}

\* A flush ends with a frame as long as there are pictures.
Drained ==
  "add" \notin setup.faults =>
    /\ ~call.failed
    /\ eState = "FINALIZED" => pcFrameNext = NoPic /\ lib.queue = <<>>
    /\ pc = "give" /\ (call.reset \/ call.op = "flush") /\ pcFrameNext = NoPic =>
         lib.queue = <<>>

\* Without faults reset() empties the library before the new stream.
NewStream ==
  setup.faults = {} =>
    /\ eState \notin {"RESTART_REQUIRED", "NOT_SUPPORTED"}
    /\ eState = "INITIALIZED" \/ pc = "clear" => lib.queue = <<>>
    /\ oldest <= lib.coded + 1
    /\ \A i \in DOMAIN taken : oldest <= taken[i]
    /\ \A i \in DOMAIN lib.queue : oldest <= lib.queue[i]

\* The invariant that the proofs use.
ApiInv ==
  /\ TypeOK /\ oldest \in Nat
  /\ CodingOrder /\ Numbered /\ SomeOut /\ CallPlace
  /\ HeldNodes /\ LockedNodes /\ Drained /\ NewStream

\* Every call returns: the loops of flush() and reset() end, when the calls of
\* DecLib in them do.
ApiReturns == pc # "app" ~> pc \in {"app", "closed"}

\* vvdec.h, decode: "A picture is valid if the decoder call returns success and
\* the Picture is not null."
ValidOnlyOnSuccess == pc = "app" /\ ret # "OK" => frame = NoPic

\* vvdecimpl.cpp: "restart required, please reinit."
RestartNeedsReinit ==
  [][eState = "RESTART_REQUIRED" => eState' \in {"RESTART_REQUIRED", "UNINITIALIZED"}]_eState
=============================================================================
