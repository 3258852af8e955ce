---------------------------- MODULE DecoderProps ----------------------------
(* What must hold of the decoder front end of module Decoder.               *)
EXTENDS Decoder

InList == ToSet(list)
\* The coded pictures on their way; a filled-in one has no cts.
Unfinished == {b \in InList : pic[b].progress < finished /\ pic[b].cts # 0}

Picture ==
  [ progress : init..finished, poc : Int, cts : Nat, idr : BOOLEAN,
    refs : SUBSET Bufs, dpbReferenceMark : BOOLEAN, stillReferenced : BOOLEAN,
    neededForOutput : BOOLEAN, lockedByApplication : BOOLEAN,
    wasLost : BOOLEAN, error : BOOLEAN, exceptionThrownOut : BOOLEAN,
    borderExtStarted : BOOLEAN, skippedDecCount : Nat,
    parseDone : BarrierState, reconDone : BarrierState,
    slices : Nat, complete : BOOLEAN,
    queue : SUBSET Nat, parsedSlices : SUBSET Nat, parseFailed : BOOLEAN,
    recon : BOOLEAN, border : BOOLEAN, borderFailed : BOOLEAN ]

ParserPc == {"idle", "fill", "sei"}
DecodePc == {"next", "clean", "output"}
ReconPc == {"recon", "ext", "finish"}
FlushPc == {"flushNext", "flushOut", "block", "flushLast"}
EndPc == {"eof", "null", "reported_before"}

\* The ranges of the state, every buffer once in the list, and that whatever
\* somebody has is in the list: a buffer is not deleted or lost.
TypeOK ==
  /\ setup \in Setups /\ nal \in (Nat \ {0}) \X (Nat \ {0})
  /\ pic \in [Bufs -> Picture]
  /\ list \in Seq(Bufs) /\ IsInjective(list) /\ InList = 1..Len(list)
  /\ dpb \subseteq InList /\ held \subseteq InList
  /\ parseList \in Seq(Bufs) /\ ToSet(parseList) \subseteq InList
  /\ parsePic \in InList \cup {NoPic}
  /\ segment \in Nat /\ started \in BOOLEAN
  /\ instances \in [1..Instances -> InList \cup {NoPic}]
  /\ first \in BOOLEAN /\ tuneIn \in Nat
  /\ main \in [pc : ParserPc \cup DecodePc \cup ReconPc \cup FlushPc \cup EndPc,
               cur : InList \cup {NoPic}, exc : BOOLEAN,
               done : InList \cup {NoPic}, outPic : InList \cup {NoPic},
               flushing : BOOLEAN]
  /\ out \in Seq(Nat) /\ reports \in [DOMAIN stream -> Nat] /\ faults \in Nat

\* Somebody still works on buffer b or counts on what it holds: a picture to
\* be reconstructed refers to it, it is to be parsed or reconstructed itself, a
\* reconstruction instance or the parser has it, the DPB keeps it for pictures
\* to come, it waits for output, or the application has it.
InUse(b) ==
  \/ \E x \in InList : pic[x].progress < reconstructed /\ b \in pic[x].refs
  \/ pic[b].queue # {} \/ pic[b].recon
  \/ b \in ToSet(instances) \cup ToSet(parseList)
  \/ pic[b].dpbReferenceMark \/ pic[b].neededForOutput
  \/ b \in held

\* A buffer is taken for another picture only when nobody uses it
\* (PicListManager::getNewPicBuffer looks at five flags instead).
ReuseOnlyUnused ==
  [][\A b \in InList : pic[b].progress = finished /\ pic'[b].progress # finished
                       => ~InUse(b)]_vars

\* While a picture is reconstructed all its reference pictures are complete,
\* although pictures are started out of order and while others are in work.
ReferencesComplete ==
  \A b \in InList : pic[b].recon =>
    \A r \in pic[b].refs : pic[r].progress >= reconstructed

\* Every slice gets through the checks of the parser on the main thread.
Accepted == setup.faults \subseteq {"parse", "recon"}

\* Who has a picture and will finish it: a place in m_parseFrameList, an
\* instance of DecLibRecon, or the main thread, before or after it is
\* reconstructed.
Owners(b) ==
  {<<"parsed", i>> : i \in {j \in DOMAIN parseList : parseList[j] = b}}
  \cup {<<"instance", i>> : i \in {j \in DOMAIN instances : instances[j] = b}}
  \cup {o \in {<<"next", 0>>} : main.cur = b /\ main.pc \in {"clean", "recon"}}
  \cup {o \in {<<"done", 0>>} : main.done = b}

\* Every picture that is not finished has exactly one owner, unless the parser
\* has given it up and said so: its exception was thrown out.
OneOwner ==
  \A b \in Unfinished :
    /\ \A o1, o2 \in Owners(b) : o1 = o2
    /\ Owners(b) = {} => pic[b].exceptionThrownOut

\* What the code asserts of a picture it takes in hand.  decode(): "The error
\* picture shouldn't be in reconstructing state yet." reconPicture():
\* "(Reused) Picture structure is still in progress in decLibRecon."
\* xActivateParameterSets(): "reused picture shouldn't be in decoded picture
\* buffer".
AssertionsHold ==
  /\ main.pc = "clean" => pic[main.cur].progress < reconstructing
  /\ main.pc = "recon" => main.cur \notin ToSet(instances)
  /\ AtSlice /\ nal[2] = 1 => Activate(Dpb, stream[nal[1]], nal[1]).ok

\* A picture in the parse list is overtaken by at most MAX_OUT_OF_ORDER_PICS
\* pictures behind it in coding order (getNextOutputPic relies on it when it
\* chooses the first picture).
Overtaking(b) ==
  {c \in (pic[b].cts + 1)..(nal[1] - 1) :
     ~\E x \in ToSet(parseList) : pic[x].cts = c}
OvertakenAtMost ==
  Accepted => \A b \in ToSet(parseList) : Cardinality(Overtaking(b)) <= MaxOutOfOrderPics

\* Every buffer that is locked for the application is one the application has
\* or is about to get, so that it can give it back.
LockedIsHeld ==
  \A b \in InList : pic[b].lockedByApplication => b \in held \cup {main.outPic}

\* A buffer that is locked for the application gets out of everybody's reach, so
\* that it is never taken again, in one way only: an exception leaves flushPic()
\* after it has chosen the picture, and takes no more than that one along.
Orphans ==
  {b \in InList : pic[b].lockedByApplication /\ b \notin held \cup {main.outPic}}
LocksLostByThrow ==
  [][\A b \in Orphans' \ Orphans :
       /\ b = main.outPic
       /\ main.flushing /\ main' = Idle /\ reports' # reports]_vars

\* A frame that leaves without stillReferenced may get its film grain in
\* place: no picture in work or to come reads it while it is held.
ReadLater(b) ==
  \/ pic[b].dpbReferenceMark
  \/ \E x \in Unfinished : pic[x].progress < reconstructed /\ b \in pic[x].refs
GrainInPlaceSafe ==
  \A b \in held : ~pic[b].stillReferenced => ~ReadLater(b)

\* Frames come out in display order also when pictures are lost or broken.
Cvs(p) == Cardinality({i \in 1..p : stream[i].idr})
OutputInOrder ==
  \A i, j \in DOMAIN out : i < j =>
    \/ Cvs(out[i]) < Cvs(out[j])
    \/ Cvs(out[i]) = Cvs(out[j]) /\ stream[out[i]].poc < stream[out[j]].poc

\* The exception of a failed picture is thrown out at most once, except that
\* every slice that comes in behind the failed one is answered with it, and
\* the wait for a picture hash once more.
ReportedAtMostOnce ==
  \A c \in DOMAIN reports :
    reports[c] <= (IF stream[c].slices > 2 THEN stream[c].slices - 1 ELSE 1)
                  + (IF stream[c].sei /\ ParseFrameDelay = 0 THEN 1 ELSE 0)

\* At the end of the stream every failure has been thrown out.
FailuresReported ==
  main.pc = "eof" =>
    \A b \in InList : pic[b].error /\ pic[b].cts # 0 => reports[pic[b].cts] >= 1

\* At the end of flushPic() every picture is finished but those that the parser
\* has given up, whose exceptions were thrown out.
AllFinished ==
  main.pc = "flushLast" => \A b \in Unfinished : pic[b].exceptionThrownOut

\* vvdec.h: the caller flushes "until all pending pictures has been delivered".
AllDelivered ==
  main.pc = "eof" => \A b \in InList : ~pic[b].neededForOutput

\* Picture.h: stillReferenced is "set as long as there is a picture in progress,
\* that references this one".  At the end of the stream none is, so that, when
\* markUnusedPicturesReusable() has looked once more, only the DPB keeps a picture.
StillReferencedInUse ==
  main.pc = "eof" =>
    \E P \in {MarkUnused(pic, list)} :
      \A b \in InList : P[b].stillReferenced => P[b].dpbReferenceMark

\* Every call of decode() and flushPic() returns, and the application that flushes
\* again and again comes to the end, whatever task fails; or the main thread is left
\* in a wait for the tasks of a picture that failed, all of which are over.
Hangs == \E b \in Bufs : /\ AwaitsTasksOf(b)
                         /\ MayCarryException(pic[b]) /\ TasksDone(pic[b])
CallsReturn == <>(main.pc = "eof") \/ <>[]Hangs

\* Assertions and comments of the code that some behaviour contradicts.

\* DecLibRecon.cpp asserts for every reference it extends: "Slice parsing should
\* have started, so all structures are there".
SliceParsingStarted ==
  main.pc = "ext" => \A r \in Unextended : pic[r].progress >= parsing

\* DecLibRecon.cpp of a failed picture: "ensure all tasks are cleared from
\* declibRecon".  The tasks it has added to extend the borders of its
\* references are left, when no other picture needs them.
TasksCleared ==
  main.pc = "ext" /\ main.done # NoPic /\ pic[main.done].error =>
    \A r \in pic[main.done].refs : pic[r].border =>
      \E x \in ToSet(instances) \ {NoPic} : r \in pic[x].refs

\* DecLibParser.cpp asserts of a buffer it fills in for a missing reference, as
\* of one for a coded picture: "reused picture shouldn't be in decoded picture
\* buffer".  The DPB still has the last picture then, when no picture refers to
\* it; that one may have failed and be finished already.
FillPicNotInDpb ==
  AtSlice /\ started /\ ~NoPicture /\ Missing(stream[nal[1]]) # {}
    => TakeBuffer(Dpb).ok

\* DecLibRecon.cpp: "can't make progress. some dependecy has not been
\* finished" when no task can run and the awaited picture is not done.  With
\* worker threads the main thread must not be left waiting then either.
DependenciesFinish ==
  main.pc \notin {"idle", "eof"} /\ ~ENABLED Workers => ENABLED Main

\* DecLib.cpp asserts of an exception that a parse task left: "The exception
\* shouldn't have been thrown out already."
NotThrownBefore == main.pc # "reported_before"

\* DecLib.cpp, behind a broken picture: "try again to get a picture, that we can
\* reconstruct now"; the result is used unchecked.
AnotherPicture == main.pc # "null"

\* CmdLineParser.h offers an "output structure file"; decompressPicture() writes
\* the coding units of the picture to it when it has scheduled the tasks, so the
\* picture must be parsed by then.
StructureComplete ==
  main.pc = "finish" /\ pic[main.cur].reconDone # "error" =>
    pic[main.cur].parseDone = "unlocked"
-----------------------------------------------------------------------------
(* The inductive invariant.                                                  *)

\* What holds of a picture alone: its parse tasks run in order and are over
\* when parseDone opens, and a finished picture has no tasks of its own.
SoundPicture(p) ==
  /\ p.dpbReferenceMark => p.stillReferenced
  /\ p.queue \cup p.parsedSlices \subseteq 1..p.slices
  /\ p.queue \cap p.parsedSlices = {}
  /\ \A s \in p.parsedSlices : 1..s \subseteq p.parsedSlices
  /\ p.parseDone # "locked" => p.queue = {}
  /\ p.parseDone = "unlocked" => p.complete \/ p.wasLost
  /\ p.parseDone = "error" => p.parseFailed \/ p.progress >= reconstructed
  /\ p.progress = finished => p.queue = {} /\ ~p.recon

PicturesSound ==
  /\ \A b \in Bufs : SoundPicture(pic[b]) /\ pic[b].refs \subseteq InList
  /\ \A b \in Bufs \ InList : pic[b] = FreshPicture

\* Where the main thread is, and what it holds there.
CallPlace ==
  /\ main.pc \in ParserPc \cup {"eof"} => main.cur = NoPic /\ ~main.flushing
  /\ main.pc \in DecodePc => ~main.flushing
  /\ main.pc \in FlushPc => main.flushing
  /\ main.flushing => ~MoreNals
  /\ ~main.flushing => main.outPic = NoPic
  /\ main.pc \notin {"ext", "finish"} => main.done = NoPic
  /\ main.pc \in {"clean", "recon"} => main.cur # NoPic
  /\ main.pc \in {"ext", "finish"} => main.cur \in ToSet(instances) \ {NoPic}
  /\ main.pc = "sei" => parsePic # NoPic
  /\ main.pc \in {"block", "flushLast"} => parseList = <<>> /\ main.outPic = NoPic
  /\ main.pc = "flushLast" => ToSet(instances) = {NoPic}

\* Pictures that wait for reconstruction, and those of the instances.
Waiting == ToSet(parseList)
           \cup {b \in {main.cur} : main.pc \in {"clean", "recon"}}
InWork == ToSet(instances) \ {NoPic}

OwnersApart ==
  /\ IsInjective(parseList)
  /\ \A i, j \in 1..Instances :
       instances[i] = instances[j] => i = j \/ instances[i] = NoPic
  /\ Waiting \cap InWork = {}
  /\ main.pc \in {"clean", "recon"} => main.cur \notin ToSet(parseList)
  /\ main.done \notin Waiting \cup InWork

\* How far a picture is says who has it, and its reconstruction is over when
\* reconDone is open.
OwnersState ==
  /\ \A b \in Waiting : /\ pic[b].progress \in {parsing, parsed}
                        /\ pic[b].reconDone = "locked"
  /\ \A b \in InWork :
       /\ pic[b].progress \in {reconstructing, reconstructed}
       /\ pic[b].reconDone = "unlocked" => pic[b].queue = {} /\ ~pic[b].recon
  /\ main.done # NoPic =>
       /\ pic[main.done].progress \in {reconstructing, reconstructed}
       /\ pic[main.done].queue = {} /\ ~pic[main.done].recon
  /\ \A b \in Bufs : pic[b].recon => b \in InWork

\* A picture nobody has was given up by the parser.
GivenUp ==
  \A b \in Unfinished \ (Waiting \cup InWork \cup {main.done}) :
    pic[b].exceptionThrownOut

\* As long as slices of a picture are to come it is the last of the parse list,
\* unless it was given up, and no other picture refers to it.
ParsedLast ==
  /\ parsePic # NoPic => ~pic[parsePic].wasLost /\ pic[parsePic].cts # 0
  /\ ~main.flushing /\ main.pc \in DecodePc \cup ReconPc =>
       parsePic # NoPic /\ pic[parsePic].complete
  /\ MoreNals /\ parsePic # NoPic /\ ~pic[parsePic].complete =>
       /\ parsePic \notin InWork /\ pic[parsePic].progress <= parsed
       /\ \A i \in DOMAIN parseList : parseList[i] = parsePic => i = Len(parseList)
       /\ \A x \in Bufs \ {parsePic} :
            parsePic \in pic[x].refs => pic[x].progress >= reconstructed

\* A picture in the parse list refers to none behind it, and the one taken to
\* none that is left.
CodingOrder ==
  /\ \A i, j \in DOMAIN parseList : parseList[j] \in pic[parseList[i]].refs => j <= i
  /\ main.pc \in {"clean", "recon", "ext"} =>
       pic[main.cur].refs \cap ToSet(parseList) = {}

\* What a picture to be reconstructed refers to keeps the flag.
ReferencesKept ==
  \A x \in Bufs : \A b \in pic[x].refs \ {x} :
    pic[x].progress < reconstructed => pic[b].stillReferenced

\* What the application has, or is about to get, is finished and locked.
FramesLocked ==
  \A b \in held \cup ({main.outPic} \ {NoPic}) :
    pic[b].progress = finished /\ pic[b].lockedByApplication

IndInv ==
  /\ TypeOK /\ PicturesSound /\ CallPlace /\ OwnersApart /\ OwnersState
  /\ GivenUp /\ ParsedLast /\ CodingOrder /\ ReferencesKept /\ FramesLocked
-----------------------------------------------------------------------------
(* The second layer, for ReferencesComplete.                                 *)

\* No picture refers to itself.
NoSelfReference ==
  \A s \in Setups : \A i \in DOMAIN s.coded :
    s.coded[i].idr \/ s.coded[i].poc \notin s.coded[i].active

\* A picture that somebody has, and the one that decompressPicture prepares.
InHand == Waiting \cup InWork \cup {main.done}
Prepared(b) == main.pc = "ext" /\ b = main.cur

\* What the tasks of a picture say of its progress, so that borderExtPic leaves
\* every reference reconstructed when it goes on: one that was given up has a
\* task that waits for a slice that never comes, one with an instance is being
\* reconstructed or has failed.
TasksTell(b) ==
  LET p == pic[b]
  IN /\ p.progress = init => p.queue = {} /\ p.parsedSlices = {} /\ ~p.parseFailed
     /\ b \notin InHand /\ p.progress \in {parsing, parsed, reconstructing} =>
          p.queue # {} /\ 1 \notin p.queue \cup p.parsedSlices
     /\ b \in InWork \cup {main.done} /\ ~Prepared(b) /\ p.progress < reconstructed =>
          p.recon \/ p.reconDone = "error"
     /\ Prepared(b) => p.progress = reconstructing /\ ~p.recon
     /\ p.recon => p.progress = reconstructing
     /\ p.borderExtStarted => p.progress >= reconstructed
     /\ b \notin p.refs

ReadyInv == (\A b \in Bufs : TasksTell(b)) /\ ReferencesComplete
=============================================================================
