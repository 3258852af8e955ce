------------------------------ MODULE Decoder ------------------------------
(***************************************************************************)
(* The decoder front end with a thread pool and error handling flag        *)
(* TRY_CONTINUE: the main thread (DecLib and DecLibParser) parses the      *)
(* slices of a stream, hands pictures to the instances of DecLibRecon,     *)
(* finishes them and passes them to the application; the workers parse     *)
(* slices, reconstruct pictures and extend the borders of references; the  *)
(* application gives the frames back.  CtuTasks is what one reconstruction *)
(* job does inside; here it is a job that ends.                            *)
(***************************************************************************)
EXTENDS PicList

CONSTANTS
  Setups,             \* what is decoded and how, see below
  MaxBufs,            \* bound on the buffers the list can grow to
  MaxRefPicNum,       \* iMaxRefPicNum, from the SPS
  Instances,          \* number of DecLibRecon objects, 2 in the code
  NumReorder,         \* numReorderPicsHighestTid, from the SPS
  MaxOutOfOrderPics   \* MAX_OUT_OF_ORDER_PICS, 3 in the code

FaultKinds == {"parse", "recon", "header", "contents", "lost"}

\* What the headers of a picture say: its picture order count, the entries of
\* its reference picture lists and the active ones among them, and the number
\* of its slices.
CodedPicture ==
  [poc : Int, idr : BOOLEAN, rpl : SUBSET Int, active : SUBSET Int,
   isRef : BOOLEAN, output : BOOLEAN, slices : Nat \ {0}, sei : BOOLEAN]

ASSUME DecoderAssumption ==
  /\ {MaxBufs, MaxRefPicNum, Instances} \subseteq Nat \ {0}
  /\ {NumReorder, MaxOutOfOrderPics} \subseteq Nat
  /\ \A s \in Setups : /\ s.coded \in Seq(CodedPicture)
                       /\ {s.delay, s.maxFaults} \subseteq Nat
                       /\ s.faults \subseteq FaultKinds

Bufs == 1..MaxBufs

VARIABLES
  setup,       \* the coded pictures, m_parseFrameDelay, the kinds of fault that
               \* may happen and a bound on their number
  nal,         \* <<p, s>>: the next NAL unit is slice s of picture p
  pic,         \* the pictures, per buffer
  list,        \* m_cPicList
  dpb,         \* m_dpbReferencePics
  parsePic,    \* m_pcParsePic
  parseList,   \* m_parseFrameList
  segment,     \* m_uiSliceSegmentIdx
  started,     \* m_pocRandomAccess was set by an IDR picture
  instances,   \* m_decLibRecon in its order, each with its m_currDecompPic
  first,       \* m_firstOutputPic
  tuneIn,      \* m_tuneInDelay
  main,        \* the main thread: pc, the picture it hands over, whether it
               \* saw an exception of its parsing, the picture it finishes,
               \* flushPic's outPic, and whether it is in flushPic
  held,        \* buffers of the frames that the application holds
  out,         \* cts of the pictures in the order they were output
  reports,     \* cts -> how often an exception of the picture was thrown out
  faults       \* number of faults so far

parserVars == <<dpb, parsePic, parseList, segment, started>>
outputVars == <<first, tuneIn, held, out>>
vars == <<setup, nal, pic, list, parserVars, instances, outputVars, main,
          reports, faults>>

stream == setup.coded
ParseFrameDelay == setup.delay

Idle == [pc |-> "idle", cur |-> NoPic, exc |-> FALSE, done |-> NoPic,
         outPic |-> NoPic, flushing |-> FALSE]

Init ==
  /\ setup \in Setups
  /\ nal = <<1, 1>>
  /\ pic = [b \in Bufs |-> FreshPicture]
  /\ list = <<>> /\ dpb = {} /\ parsePic = NoPic /\ parseList = <<>>
  /\ segment = 0 /\ started = FALSE
  /\ instances = [i \in 1..Instances |-> NoPic]
  /\ first = TRUE /\ tuneIn = 0 /\ main = Idle
  /\ held = {} /\ out = <<>>
  /\ reports = [c \in DOMAIN stream |-> 0]
  /\ faults = 0

Fails(kind) ==
  /\ kind \in setup.faults /\ faults < setup.maxFaults
  /\ faults' = faults + 1

Report(b) == IF b = NoPic \/ pic[b].cts = 0 THEN reports
             ELSE [reports EXCEPT ![pic[b].cts] = @ + 1]

\* Mutant: the picture does not remember that it was reported.
Thrown_Slip(P, b) == IF b = NoPic THEN P ELSE [P EXCEPT ![b].error = TRUE]

\* What parse() does with m_pcParsePic when an exception leaves it.
Thrown(P, b) ==
  IF b = NoPic THEN P
  ELSE [P EXCEPT ![b].error = TRUE, ![b].exceptionThrownOut = TRUE,
                 ![b].parseDone = IF @ = "error" THEN "locked" ELSE @]

-----------------------------------------------------------------------------
(* Parsing a slice NAL unit: DecLibParser::parse on the main thread.  D is   *)
(* the part of the state the helpers change; ok is FALSE when a buffer that  *)
(* is still in the DPB was taken, which throws.                              *)

Dpb == [pic |-> pic, list |-> list, dpb |-> dpb]

TakeBuffer(D) ==
  LET n == GetNewPicBuffer(D.pic, D.list, MaxRefPicNum + ParseFrameDelay)
  IN [pic |-> n.pic, list |-> n.list, dpb |-> D.dpb \cup {n.buf},
      buf |-> n.buf, ok |-> n.buf \notin D.dpb]

\* prepareUnavailablePicture
LostPicture(p, poc) ==
  [p EXCEPT !.poc = poc, !.wasLost = TRUE, !.slices = 1,
            !.dpbReferenceMark = TRUE, !.stillReferenced = TRUE,
            !.parseDone = "unlocked", !.reconDone = "unlocked",
            !.progress = reconstructed]

Available(D, poc) ==
  \E b \in D.dpb : D.pic[b].poc = poc /\ D.pic[b].dpbReferenceMark

\* checkThatAllRefPicsAreAvailable looks for the active entries that are not
\* in the DPB.
Missing(c) == {r \in c.active : ~c.idr /\ ~Available(Dpb, r)}

\* Mutant: what is not a reference any more stays in the DPB.
MarkReferences_Slip(D, c) ==
  LET keeps(b) == ~c.idr /\ D.pic[b].poc \in c.rpl \cup {c.poc}
  IN [D EXCEPT !.pic = [b \in Bufs |->
                          IF b \in D.dpb /\ ~keeps(b)
                          THEN [@[b] EXCEPT !.dpbReferenceMark = FALSE] ELSE @[b]]]

\* applyReferencePictureListBasedMarking
MarkReferences(D, c) ==
  LET keeps(b) == /\ ~c.idr /\ D.pic[b].dpbReferenceMark
                  /\ D.pic[b].poc \in c.rpl \cup {c.poc}
  IN [ pic  |-> [b \in Bufs |-> IF b \in D.dpb /\ ~keeps(b)
                                THEN [D.pic[b] EXCEPT !.dpbReferenceMark = FALSE]
                                ELSE D.pic[b]],
       list |-> D.list, dpb |-> {b \in D.dpb : keeps(b)} ]

\* The buffers that constructRefPicLists finds for the reference picture lists;
\* those of the active entries are what the slice refers to.
RefPics(D, pocs) ==
  {b \in D.dpb : D.pic[b].dpbReferenceMark /\ D.pic[b].poc \in pocs}

\* xActivateParameterSets for the first slice: the new picture p in its buffer.
NewPicture(q, c, p) ==
  [q EXCEPT !.poc = c.poc, !.cts = p, !.idr = c.idr,
            !.dpbReferenceMark = c.isRef, !.stillReferenced = c.isRef,
            !.slices = 1, !.complete = (c.slices = 1)]

Activate(D, c, p) ==
  LET T == TakeBuffer(MarkReferences(D, c))
  IN [ pic |-> [T.pic EXCEPT ![T.buf] = NewPicture(@, c, p)],
       list |-> T.list, dpb |-> T.dpb, buf |-> T.buf, ok |-> T.ok ]

\* What xDecodeSliceMain makes of the picture of the slice first.
WithSlice(q, c, p) ==
  [q EXCEPT !.poc = c.poc, !.cts = p,
            !.dpbReferenceMark = c.isRef, !.stillReferenced = c.isRef,
            !.neededForOutput = c.output]

BeginSlice(D, b, c, p) == [D EXCEPT !.pic[b] = WithSlice(@, c, p)]

\* "duplicate POC in DPB"
DuplicatePoc(D) ==
  \E x, y \in D.dpb : /\ x # y /\ D.pic[x].poc = D.pic[y].poc
                      /\ D.pic[x].dpbReferenceMark

\* xDecodeSliceMain up to the reference picture lists: an active entry is in the
\* list of the slice also when a check on it fails behind that.
SetUpSlice(D, b, c, p) ==
  LET E     == BeginSlice(D, b, c, p)
      found == IF c.idr \/ DuplicatePoc(E) THEN {} ELSE RefPics(E, c.rpl)
      P     == [x \in Bufs |-> IF x \in found
                               THEN [E.pic[x] EXCEPT !.stillReferenced = TRUE]
                               ELSE E.pic[x]]
  IN [P EXCEPT ![b].refs = @ \cup (found \cap RefPics(E, c.active))]

StartParsing(q) == [q EXCEPT !.progress = IF @ = init THEN parsing ELSE @]
AddParseTask(q, s) == [StartParsing(q) EXCEPT !.queue = @ \cup {s}]

\* No exception on the way to the parse task: no picture order count is there
\* twice, every entry is found, and the picture does not refer to itself.
RplHolds(D, b, c, p) ==
  \E E \in {BeginSlice(D, b, c, p)} :
    /\ ~DuplicatePoc(E)
    /\ ~c.idr => (\A r \in c.rpl : Available(E, r)) /\ c.poc \notin c.active

\* The NAL unit that follows: a slice, or the suffix SEI behind the last slice
\* (the picture hash), if the picture has one.
NalUnits(c) == c.slices + (IF c.sei THEN 1 ELSE 0)
NextNal ==
  IF nal[2] < NalUnits(stream[nal[1]]) THEN <<nal[1], nal[2] + 1>>
                                       ELSE <<nal[1] + 1, 1>>
AtSei == nal[2] > stream[nal[1]].slices

MoreNals == nal[1] \in DOMAIN stream

\* decode() asks for a picture to reconstruct when a picture is complete and
\* enough pictures are parsed ahead.
AfterSlice(complete, frames) ==
  [main EXCEPT !.pc =
     IF complete /\ Len(frames) > ParseFrameDelay THEN "next" ELSE "idle"]

\* The main thread is in parse() with a slice; "fill": it has filled in
\* pictures for references that are missing.
AtSlice ==
  /\ main.pc \in {"idle", "fill"} /\ ~main.flushing /\ MoreNals /\ ~AtSei

\* A lost NAL unit never reaches the decoder.
LoseNal ==
  /\ main.pc = "idle" /\ ~main.flushing /\ MoreNals
  /\ Fails("lost")
  /\ nal' = NextNal
  /\ UNCHANGED <<setup, pic, list, parserVars, instances, outputVars, main,
                 reports>>

\* m_pcParsePic after the first statement of xDecodeSliceHead
ParsePic == IF parsePic # NoPic /\ pic[parsePic].complete THEN NoPic
                                                          ELSE parsePic

\* m_uiSliceSegmentIdx for the slice
Segment == IF nal[2] = 1 THEN 0 ELSE segment + 1

\* A slice that is not the first one needs its picture and the slice before it.
NoPicture ==
  nal[2] > 1 /\ (ParsePic # NoPic => pic[ParsePic].slices < Segment)

\* The slice is dropped: nothing but discarded data before the first IDR
\* picture, an error in the header itself, or a slice without its picture.
RejectSlice ==
  /\ AtSlice /\ main.pc = "idle"
  /\ nal' = NextNal /\ parsePic' = ParsePic
  /\ LET skip == ~started /\ ~stream[nal[1]].idr
     IN \/ /\ skip /\ ~NoPicture
           /\ segment' = Segment
           /\ UNCHANGED <<pic, reports, faults>>
        \/ /\ \/ NoPicture /\ segment' = Segment /\ UNCHANGED faults
              \/ ~skip /\ segment' \in {segment, Segment} /\ Fails("header")
           /\ pic' = Thrown(pic, ParsePic)
           /\ reports' = Report(ParsePic)
  /\ UNCHANGED <<setup, list, dpb, parseList, started, instances, outputVars,
                 main>>


\* xDecodeSliceHead fills in a picture for a reference that is missing, one
\* after the other while the workers go on.  MaxBufs bounds the list.
FillMissing ==
  /\ AtSlice /\ started /\ ~NoPicture
  /\ \E r \in Missing(stream[nal[1]]) : \E T \in {TakeBuffer(Dpb)} :
       /\ T.buf \in Bufs
       /\ list' = T.list /\ dpb' = T.dpb
       /\ IF T.ok
          THEN /\ pic' = [T.pic EXCEPT ![T.buf] = LostPicture(@, r)]
               /\ main' = [main EXCEPT !.pc = "fill"]
               /\ UNCHANGED <<nal, segment, reports>>
          ELSE /\ pic' = Thrown(T.pic, ParsePic)
               /\ main' = Idle /\ nal' = NextNal /\ segment' = Segment
               /\ reports' = IF nal[2] = 1
                             THEN [reports EXCEPT ![nal[1]] = @ + 1]
                             ELSE Report(ParsePic)
  /\ parsePic' = ParsePic
  /\ UNCHANGED <<setup, parseList, started, instances, outputVars, faults>>

\* The first slice of a picture c.  It is put on m_parseFrameList unless a
\* check on the activated parameter sets or on the reference picture lists
\* fails.  A is the state behind the activation, S the one behind the main part.
FirstSlice ==
  /\ AtSlice /\ nal[2] = 1
  /\ \E c \in {stream[nal[1]]} :
     /\ started \/ c.idr
     /\ Missing(c) = {}
     /\ \E A \in {Activate(Dpb, c, nal[1])} : \E b \in {A.buf} \cap Bufs :
        \E S \in {SetUpSlice(A, b, c, nal[1])} :
        LET holds == A.ok /\ RplHolds(A, b, c, nal[1])
        IN /\ list' = A.list /\ dpb' = A.dpb /\ parsePic' = b
           /\ \/ /\ A.ok /\ Fails("contents")
                 /\ pic' = Thrown(A.pic, b) /\ main' = Idle
                 /\ reports' = [reports EXCEPT ![nal[1]] = @ + 1]
                 /\ UNCHANGED parseList
              \/ /\ ~holds
                 /\ pic' = Thrown(IF A.ok THEN S ELSE A.pic, b) /\ main' = Idle
                 /\ reports' = [reports EXCEPT ![nal[1]] = @ + 1]
                 /\ UNCHANGED <<parseList, faults>>
              \/ /\ holds
                 /\ pic' = [S EXCEPT ![b] = AddParseTask(@, 1)]
                 /\ parseList' = Append(parseList, b)
                 /\ main' = AfterSlice(A.pic[b].complete, parseList')
                 /\ UNCHANGED <<reports, faults>>
  /\ started' = TRUE
  /\ nal' = NextNal /\ segment' = Segment
  /\ UNCHANGED <<setup, instances, outputVars>>

AllocateSlice(q, s, last) == [q EXCEPT !.slices = s, !.complete = last]

\* A later slice of the picture.  Its parse task cannot be added when the task
\* of an earlier slice has failed already, the counter throws.
NextSlice ==
  /\ AtSlice /\ nal[2] > 1
  /\ started /\ ~NoPicture /\ Missing(stream[nal[1]]) = {}
  /\ LET b == ParsePic
         c == stream[nal[1]]
         s == pic[b].slices + 1
         D == [ pic  |-> [pic EXCEPT ![b] = AllocateSlice(@, s, nal[2] = c.slices)],
                list |-> list, dpb |-> dpb ]
         S == SetUpSlice(D, b, c, nal[1])
         holds == RplHolds(D, b, c, nal[1])
         added == holds /\ ~S[b].parseFailed
     IN /\ parsePic' = b
        /\ \/ /\ Fails("contents")
              /\ pic' = Thrown(D.pic, b)
              /\ reports' = Report(b) /\ main' = Idle
           \/ /\ ~added
              /\ pic' = Thrown(IF holds THEN [S EXCEPT ![b] = StartParsing(@)]
                                        ELSE S, b)
              /\ reports' = Report(b) /\ main' = Idle /\ UNCHANGED faults
           \/ /\ added
              /\ pic' = [S EXCEPT ![b] = AddParseTask(@, s)]
              /\ main' = AfterSlice(nal[2] = c.slices, parseList)
              /\ UNCHANGED <<reports, faults>>
  /\ nal' = NextNal /\ segment' = Segment
  /\ UNCHANGED <<setup, list, dpb, parseList, started, instances, outputVars>>

\* A suffix SEI: without parse delay the main thread waits in parse() until the
\* picture is reconstructed, and rethrows what failed in it.
SuffixSei ==
  /\ main.pc = "idle" /\ ~main.flushing /\ MoreNals /\ AtSei
  /\ LET waits == /\ parsePic # NoPic /\ ParseFrameDelay = 0
                  /\ ~pic[parsePic].error
     IN main' = [main EXCEPT !.pc = IF waits THEN "sei" ELSE "idle"]
  /\ nal' = NextNal
  /\ UNCHANGED <<setup, pic, list, parserVars, instances, outputVars, reports,
                 faults>>

WaitForHash ==
  /\ main.pc = "sei" /\ pic[parsePic].reconDone # "locked"
  /\ main' = Idle
  /\ reports' = IF pic[parsePic].reconDone = "error" THEN Report(parsePic)
                                                     ELSE reports
  /\ UNCHANGED <<setup, nal, pic, list, parserVars, instances, outputVars,
                 faults>>

-----------------------------------------------------------------------------
(* Choosing the picture to reconstruct: DecLib::decode and flushPic.         *)

\* All slices are parsed and all reference pictures are reconstructed.
Decodable(b) ==
  /\ pic[b].parseDone = "unlocked"
  /\ ~pic[b].wasLost /\ ~pic[b].error
  /\ \A r \in pic[b].refs : pic[r].progress >= reconstructed

\* Mutant: no picture waits too long to be overtaken again.
NextDecodable_Slip ==
  LET at == SelectInSeq(parseList, Decodable)
  IN IF ParseFrameDelay = 0 \/ pic[parseList[1]].error \/ at = 0 THEN 1 ELSE at

\* The place in m_parseFrameList of the picture getNextDecodablePicture takes.
NextDecodable ==
  LET oldest == pic[parseList[1]]
      at     == SelectInSeq(parseList, Decodable)
  IN IF \/ ParseFrameDelay = 0
        \/ oldest.skippedDecCount >= MaxOutOfOrderPics
        \/ oldest.error
        \/ at = 0
     THEN 1 ELSE at

\* Mutant: the front goes, whichever was chosen.
TakeDecodable_Slip(i) == parseList' = Tail(parseList) /\ UNCHANGED pic

TakeDecodable(i) ==
  /\ parseList' = RemoveAt(parseList, i)
  /\ pic' = [b \in Bufs |->
               IF \E j \in 1..(i - 1) : parseList[j] = b
               THEN [pic[b] EXCEPT !.skippedDecCount = @ + 1] ELSE pic[b]]

\* decode() with a picture that can be reconstructed, or with a broken one.
\* There may be none left after a broken one, then it dereferences null.
GetNextDecodable ==
  /\ main.pc = "next"
  /\ IF parseList = <<>>
     THEN /\ main' = [main EXCEPT !.pc = IF @ = "next" /\ main.cur = NoPic
                                         THEN "output" ELSE "null"]
          /\ UNCHANGED <<pic, parseList>>
     ELSE LET i == NextDecodable
              b == parseList[i]
              exc == pic[b].parseDone = "error"
              broken == pic[b].error \/ pic[b].wasLost \/ exc
          IN /\ TakeDecodable(i)
             /\ main' = [main EXCEPT !.cur = b, !.exc = exc,
                                     !.pc = IF broken THEN "clean" ELSE "recon"]
  /\ UNCHANGED <<setup, nal, list, dpb, parsePic, segment, started, instances,
                 outputVars, reports, faults>>

\* finishPicture: the error branch throws what the barriers hold unless the
\* picture has been reported; the other one marks the unused pictures first.
Broken(p) == p.wasLost \/ p.error \/ p.reconDone = "error"
Throws(p) == p.parseDone = "error" \/ p.reconDone = "error"

FinishedBroken(p) ==
  IF Throws(p)
  THEN [p EXCEPT !.progress = finished, !.reconDone = "unlocked",
                 !.error = TRUE, !.exceptionThrownOut = TRUE]
  ELSE [p EXCEPT !.progress = finished]

Finish(P, b) ==
  IF Broken(P[b]) THEN [P EXCEPT ![b] = FinishedBroken(@)]
  ELSE [MarkUnused(P, list) EXCEPT ![b] = [@ EXCEPT !.progress = finished]]

FinishThrows(p) == Broken(p) /\ Throws(p) /\ ~p.exceptionThrownOut

\* What the loop in decode() makes of a broken picture before it finishes it;
\* exc: it saw the exception of a parse task when it entered the loop.
Cleaned(p, exc) ==
  LET usable == IF p.progress < parsing
                THEN [p EXCEPT !.neededForOutput = FALSE,
                               !.dpbReferenceMark = TRUE,
                               !.stillReferenced = TRUE]
                ELSE p
  IN [usable EXCEPT !.error = p.error \/ exc,
                    !.parseDone = IF exc THEN "locked" ELSE @,
                    !.reconDone = "unlocked", !.progress = reconstructed]

Reported(p, exc) ==
  [p EXCEPT !.exceptionThrownOut = p.exceptionThrownOut \/ exc]

\* Mutant: a broken picture is tried again.
CleanUp_Retry ==
  /\ main.pc = "clean" /\ TasksDone(pic[main.cur])
  /\ main' = [main EXCEPT !.pc = "next"]
  /\ parseList' = <<main.cur>> \o parseList
  /\ UNCHANGED <<setup, nal, pic, list, dpb, parsePic, segment, started, instances,
                 outputVars, reports, faults>>

\* A parse task can still fail while the main thread waits for all tasks: that
\* exception is left to finishPicture.
CleanUp ==
  /\ main.pc = "clean" /\ TasksDone(pic[main.cur])
  /\ LET b == main.cur
         C == Cleaned(pic[b], main.exc)
         P == Finish([pic EXCEPT ![b] = C], b)
         thrown == main.exc \/ FinishThrows(C)
     IN /\ pic' = [P EXCEPT ![b] = Reported(@, main.exc)]
        /\ reports' = IF thrown THEN Report(b) ELSE reports
        /\ main' = IF main.exc /\ pic[b].exceptionThrownOut
                   THEN [main EXCEPT !.pc = "reported_before"]
                   ELSE IF thrown THEN Idle ELSE [main EXCEPT !.pc = "next"]
  /\ UNCHANGED <<setup, nal, list, parserVars, instances, outputVars, faults>>

-----------------------------------------------------------------------------
(* Reconstruction: DecLib::reconPicture and DecLibRecon.                     *)

\* waitForPrevDecompressedPic can return
Waited(b) ==
  b # NoPic =>
    /\ pic[b].reconDone # "locked"
    /\ pic[b].error \/ pic[b].reconDone = "error" => TasksDone(pic[b])

AfterWait(p) == [p EXCEPT !.error = p.error \/ p.reconDone = "error"]

WaitedPic(b) == [pic EXCEPT ![b] = AfterWait(@)]

\* Mutant: the picture of the front instance is not waited for.
WaitForPrev_Slip ==
  /\ main.pc = "recon"
  /\ pic' = [pic EXCEPT ![main.cur].progress = reconstructing]
  /\ main' = [main EXCEPT !.pc = "ext", !.done = instances[1]]
  /\ instances' = Append(Tail(instances), main.cur)
  /\ UNCHANGED <<setup, nal, list, parserVars, outputVars, reports, faults>>

\* The front instance gives its picture back, takes the next one and moves to
\* the end.
WaitForPrev ==
  /\ main.pc = "recon" /\ Waited(instances[1])
  /\ LET prev == instances[1]
         P    == IF prev = NoPic THEN pic ELSE WaitedPic(prev)
     IN /\ pic' = [P EXCEPT ![main.cur] = [@ EXCEPT !.progress = reconstructing]]
        /\ main' = [main EXCEPT !.pc = "ext", !.done = prev]
        /\ instances' = Append(Tail(instances), main.cur)
  /\ UNCHANGED <<setup, nal, list, parserVars, outputVars, reports, faults>>

\* Mutant: the exception of the reference is forgotten.
ForReference_Slip(p) ==
  [p EXCEPT !.borderExtStarted = TRUE, !.border = TRUE,
            !.reconDone = "unlocked", !.parseDone = "unlocked",
            !.progress = reconstructed, !.error = p.error \/ Throws(p)]

\* borderExtPic fills a reference that failed and leaves the exception on its
\* parseDone, so that finishPicture finds it.
ForReference(p) ==
  LET fails == p.progress < reconstructed /\ Throws(p)
      fixed == IF fails
               THEN [p EXCEPT !.error = TRUE, !.reconDone = "unlocked",
                              !.parseDone = "error",
                              !.progress = reconstructed]
               ELSE p
  IN [fixed EXCEPT !.borderExtStarted = TRUE, !.border = TRUE]

\* An exception leaves decompressPicture.
NotScheduled ==
  /\ pic' = [pic EXCEPT ![main.cur] =
               [@ EXCEPT !.error = TRUE, !.reconDone = "error"]]
  /\ main' = [main EXCEPT !.pc = "finish"]

Unextended == {r \in pic[main.cur].refs : ~pic[r].borderExtStarted}

\* Mutant: the main thread does not wait for the reference.
BorderExtPic_Slip(r) ==
  /\ main.pc = "ext" /\ r \in Unextended
  /\ pic' = [pic EXCEPT ![r].borderExtStarted = TRUE]
  /\ UNCHANGED <<setup, nal, list, parserVars, instances, outputVars, main,
                 reports, faults>>

\* The main thread waits for all tasks of a reference before it extends it; a
\* reference whose slices were never parsed fails an assertion.
BorderExtPic(r) ==
  /\ main.pc = "ext" /\ r \in Unextended /\ TasksDone(pic[r])
  /\ IF pic[r].progress < parsing
     THEN NotScheduled
     ELSE /\ pic' = [pic EXCEPT ![r] = ForReference(@)]
          /\ UNCHANGED main
  /\ UNCHANGED <<setup, nal, list, parserVars, instances, outputVars, reports,
                 faults>>

\* The counter of a reference whose border extension got an exception throws.
BorderExtFailed ==
  /\ main.pc = "ext"
  /\ \E r \in pic[main.cur].refs : pic[r].borderFailed
  /\ NotScheduled
  /\ UNCHANGED <<setup, nal, list, parserVars, instances, outputVars, reports,
                 faults>>

Scheduled(p) ==
  [p EXCEPT !.recon = TRUE, !.error = p.error \/ p.parseFailed,
            !.reconDone = IF p.parseFailed THEN "error" ELSE "locked"]

\* The rest of decompressPicture: the tasks are added; the finishing task can
\* not be when a parse task of the picture has failed, its counter throws.
Schedule ==
  /\ main.pc = "ext" /\ Unextended = {}
  /\ \A r \in pic[main.cur].refs : ~pic[r].borderFailed
  /\ pic' = [pic EXCEPT ![main.cur] = Scheduled(@)]
  /\ main' = [main EXCEPT !.pc = "finish"]
  /\ UNCHANGED <<setup, nal, list, parserVars, instances, outputVars, reports,
                 faults>>

\* finishPicture waits for all tasks of the picture before it throws.
FinishDone ==
  /\ main.pc = "finish"
  /\ LET b    == main.done
         next == [main EXCEPT !.pc = IF main.flushing THEN "flushOut" ELSE "output",
                              !.cur = NoPic, !.done = NoPic]
     IN IF b = NoPic
        THEN /\ main' = next
             /\ UNCHANGED <<pic, reports>>
        ELSE /\ Broken(pic[b]) /\ Throws(pic[b]) => TasksDone(pic[b])
             /\ pic' = Finish(pic, b)
             /\ IF FinishThrows(pic[b])
                THEN main' = Idle /\ reports' = Report(b)
                ELSE main' = next /\ UNCHANGED reports
  /\ UNCHANGED <<setup, nal, list, parserVars, instances, outputVars, faults>>

-----------------------------------------------------------------------------
(* Output: DecLib::decode, flushPic and the application.                     *)

NextOutput(flush) ==
  GetNextOutputPic(pic, list, flush, NumReorder, NumReorder + Instances + 1,
                   MaxOutOfOrderPics, first, tuneIn)

\* The picture is on its way to the application: it will not be chosen again.
Chosen(o) ==
  /\ pic' = o.pic /\ tuneIn' = o.tuneIn
  /\ first' = (first /\ o.out = NoPic)

Deliver(b) ==
  IF b = NoPic THEN UNCHANGED <<held, out>>
  ELSE /\ held' = held \cup {b}
       /\ out' = IF pic[b].cts = 0 THEN out ELSE Append(out, pic[b].cts)

\* decode() returns at most one picture.
Output ==
  /\ main.pc = "output"
  /\ LET o == NextOutput(FALSE) IN Chosen(o) /\ Deliver(o.out)
  /\ main' = Idle
  /\ UNCHANGED <<setup, nal, list, parserVars, instances, reports, faults>>

\* flushPic() is called when the stream is at its end, again and again.
Flush ==
  /\ main.pc = "idle" /\ ~MoreNals
  /\ LET o == NextOutput(FALSE)
     IN /\ Chosen(o)
        /\ main' = [Idle EXCEPT !.pc = "flushNext", !.outPic = o.out,
                                !.flushing = TRUE]
  /\ UNCHANGED <<setup, nal, list, parserVars, instances, held, out, reports,
                 faults>>

\* The loop of flushPic(): here a broken picture is reconstructed as well.
FlushNext ==
  /\ main.pc = "flushNext"
  /\ IF parseList = <<>>
     THEN /\ Deliver(main.outPic)
          /\ main' = IF main.outPic = NoPic
                     THEN [main EXCEPT !.pc = "block"] ELSE Idle
          /\ UNCHANGED <<pic, parseList>>
     ELSE LET i == NextDecodable
          IN /\ TakeDecodable(i)
             /\ main' = [main EXCEPT !.cur = parseList[i], !.pc = "recon"]
             /\ UNCHANGED <<held, out>>
  /\ UNCHANGED <<setup, nal, list, dpb, parsePic, segment, started, instances, first,
                 tuneIn, reports, faults>>

FlushOut ==
  /\ main.pc = "flushOut"
  /\ LET o == IF main.outPic = NoPic THEN NextOutput(FALSE)
              ELSE [pic |-> pic, tuneIn |-> tuneIn, out |-> main.outPic]
     IN /\ Chosen(o) /\ Deliver(o.out)
        /\ main' = IF o.out = NoPic THEN [main EXCEPT !.pc = "flushNext"]
                                    ELSE Idle
  /\ UNCHANGED <<setup, nal, list, parserVars, instances, reports, faults>>

\* Mutant: only the first instance is asked.
BlockAndFinish_Slip ==
  /\ main.pc = "block" /\ Waited(instances[1])
  /\ main' = [main EXCEPT !.pc = "flushLast"]
  /\ instances' = [instances EXCEPT ![1] = NoPic]
  /\ pic' = IF instances[1] = NoPic THEN pic
            ELSE Finish(WaitedPic(instances[1]), instances[1])
  /\ UNCHANGED <<setup, nal, list, parserVars, outputVars, reports, faults>>

\* blockAndFinishPictures( nullptr )
BlockAndFinish ==
  /\ main.pc = "block"
  /\ LET i == SelectInSeq(instances, LAMBDA b : b # NoPic)
     IN IF i = 0
        THEN /\ main' = [main EXCEPT !.pc = "flushLast"]
             /\ UNCHANGED <<pic, instances, reports>>
        ELSE LET b == instances[i]
             IN /\ Waited(b)
                /\ pic' = Finish(WaitedPic(b), b)
                /\ instances' = [instances EXCEPT ![i] = NoPic]
                /\ IF FinishThrows(WaitedPic(b)[b])
                   THEN main' = Idle /\ reports' = Report(b)
                   ELSE UNCHANGED <<main, reports>>
  /\ UNCHANGED <<setup, nal, list, parserVars, outputVars, faults>>

\* Mutant: what is held back for reordering is given up.
FlushLast_Slip ==
  /\ main.pc = "flushLast"
  /\ LET o == NextOutput(FALSE)
     IN /\ Chosen(o) /\ Deliver(o.out)
        /\ main' = [Idle EXCEPT !.pc = IF o.out = NoPic THEN "eof" ELSE "idle"]
  /\ UNCHANGED <<setup, nal, list, parserVars, instances, reports, faults>>

\* The end of flushPic(): the pictures left without regard to reordering, and
\* at the very end an EOS NAL unit restarts the parser.
FlushLast ==
  /\ main.pc = "flushLast"
  /\ LET o == NextOutput(FALSE)
         l == IF o.out = NoPic
              THEN GetNextOutputPic(o.pic, list, TRUE, NumReorder,
                                    NumReorder + Instances + 1,
                                    MaxOutOfOrderPics, first, o.tuneIn)
              ELSE o
     IN /\ pic' = l.pic /\ Deliver(l.out)
        /\ IF l.out = NoPic
           THEN /\ first' = TRUE /\ tuneIn' = 0 /\ started' = FALSE
                /\ main' = [Idle EXCEPT !.pc = "eof"]
           ELSE /\ first' = FALSE /\ tuneIn' = l.tuneIn
                /\ main' = Idle
                /\ UNCHANGED started
  /\ UNCHANGED <<setup, nal, list, dpb, parsePic, parseList, segment, instances,
                 reports, faults>>

\* The application gives a frame back.
Release(b) ==
  /\ main.pc \in {"idle", "eof"} /\ b \in held
  /\ held' = held \ {b} /\ pic' = ReleasePicture(pic, b)
  /\ UNCHANGED <<setup, nal, list, parserVars, instances, first, tuneIn, out,
                 main, reports, faults>>

Main ==
  \/ FillMissing \/ FirstSlice \/ NextSlice \/ RejectSlice
  \/ SuffixSei \/ WaitForHash
  \/ GetNextDecodable \/ CleanUp \/ WaitForPrev
  \/ \E r \in Bufs : BorderExtPic(r)
  \/ BorderExtFailed \/ Schedule \/ FinishDone \/ Output
  \/ Flush \/ FlushNext \/ FlushOut \/ BlockAndFinish \/ FlushLast

-----------------------------------------------------------------------------
(* The workers.                                                              *)

WorkerFrame == UNCHANGED <<setup, nal, list, parserVars, instances, outputVars,
                           main, reports>>

\* A slice is parsed; the last one opens parseDone.
SliceParsed(p, s) ==
  [p EXCEPT !.queue = @ \ {s}, !.parsedSlices = @ \cup {s},
            !.parseDone = IF s = p.slices /\ p.complete THEN "unlocked" ELSE @,
            !.progress = IF s = p.slices /\ p.complete /\ @ = parsing
                         THEN parsed ELSE @]

ParsingFailed(p) ==
  [p EXCEPT !.queue = {}, !.parseFailed = TRUE, !.error = TRUE,
            !.parseDone = "error"]

\* parseTask of slice s, which waits for parseDone of the slice before it.
ParseSlice(b, s) ==
  /\ s \in pic[b].queue
  /\ s > 1 => s - 1 \in pic[b].parsedSlices
  /\ \/ pic' = [pic EXCEPT ![b] = SliceParsed(@, s)] /\ UNCHANGED faults
     \/ pic' = [pic EXCEPT ![b] = ParsingFailed(@)] /\ Fails("parse")
  /\ WorkerFrame

\* The CTU tasks and the finishing task of a picture.  A CTU of a slice that
\* never came is not parsed, so its task never becomes ready.
Reconstruct(b) ==
  /\ pic[b].recon
  /\ \/ /\ ~pic[b].parseFailed /\ pic[b].parseDone # "locked"
        /\ pic[b].slices = stream[pic[b].cts].slices
        /\ \A r \in pic[b].refs : ~pic[r].border /\ ~pic[r].borderFailed
        /\ pic' = [pic EXCEPT ![b].recon = FALSE, ![b].reconDone = "unlocked",
                              ![b].progress = reconstructed]
        /\ UNCHANGED faults
     \/ /\ \/ /\ \/ pic[b].parseFailed
                 \/ \E r \in pic[b].refs : pic[r].borderFailed
              /\ UNCHANGED faults
           \/ Fails("recon")
        /\ pic' = [pic EXCEPT ![b].recon = FALSE, ![b].reconDone = "error"]
  /\ WorkerFrame

\* The border extension tasks of a reference, behind its reconDone; they get
\* the exception of the barrier if there is one.
BorderExtended(p) ==
  [p EXCEPT !.border = FALSE,
            !.borderFailed = p.borderFailed \/ p.reconDone = "error"]

ExtendBorder(b) ==
  /\ pic[b].border /\ pic[b].reconDone # "locked"
  /\ pic' = [pic EXCEPT ![b] = BorderExtended(@)]
  /\ WorkerFrame /\ UNCHANGED faults

Workers ==
  \E b \in Bufs : \/ \E s \in pic[b].queue : ParseSlice(b, s)
                  \/ Reconstruct(b) \/ ExtendBorder(b)

Terminated == main.pc = "eof" /\ held = {} /\ UNCHANGED vars

Next == Main \/ LoseNal \/ (\E b \in Bufs : Release(b)) \/ Workers \/ Terminated

\* The main thread is in waitForAllTasks() of buffer b, or on the way to it.
AwaitsTasksOf(b) ==
  \/ main.pc = "clean" /\ b = main.cur
  \/ main.pc = "ext" /\ b \in Unextended
  \/ main.pc = "finish" /\ b = main.done /\ Broken(pic[b]) /\ Throws(pic[b])
  \/ /\ \/ main.pc = "recon" /\ b = instances[1]
        \/ main.pc = "block" /\ \E i \in 1..Instances :
             instances[i] = b /\ \A j \in 1..(i - 1) : instances[j] = NoPic
     /\ pic[b].error \/ pic[b].reconDone = "error"

\* The wait is one that need not return.
WaitsInVain == \E b \in Bufs : AwaitsTasksOf(b) /\ MayCarryException(pic[b])

\* Some worker takes a task that is ready, and the main thread runs whenever it
\* can, but of a wait for the tasks of a picture with an exception nothing is
\* assumed; nothing makes the application return a frame.
Fairness == WF_vars(Main /\ ~WaitsInVain) /\ WF_vars(Workers)

Spec == Init /\ [][Next]_vars
FairSpec == Spec /\ Fairness
=============================================================================
