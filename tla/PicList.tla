------------------------------ MODULE PicList ------------------------------
(***************************************************************************)
(* The list of picture buffers: PicListManager and the state of a Picture  *)
(* that its operations read and write.  P is a function from buffers to    *)
(* pictures, L is m_cPicList, the sequence of the buffers in coding order. *)
(* The operations are pure; Decoder composes them with the parser, the     *)
(* reconstruction and the application.                                     *)
(***************************************************************************)
EXTENDS Integers, Sequences, SequencesExt, FiniteSets

NoPic == 0

\* Picture::PicStateEnum
init == 0
parsing == 1
parsed == 2
reconstructing == 3
reconstructed == 4
finished == 5

\* A barrier: the state that Barrier::getState() reports.
BarrierState == {"unlocked", "locked", "error"}

\* What a picture holds after resetForUse() and finalInit().  cts tells the
\* coded pictures apart; refs are the buffers in the reference picture lists
\* of its slices; slices counts the allocated slices and complete is
\* lastSliceOfPicPresent().  queue, parsedSlices, recon and border are the
\* tasks of m_divTasksCounter, m_ctuTaskCounter and m_borderExtTaskCounter,
\* parseFailed and borderFailed the exceptions of the first and the last one.
FreshPicture ==
  [ progress |-> init, poc |-> 0, cts |-> 0, idr |-> FALSE, refs |-> {},
    dpbReferenceMark |-> FALSE, stillReferenced |-> FALSE,
    neededForOutput |-> FALSE, lockedByApplication |-> FALSE,
    wasLost |-> FALSE, error |-> FALSE, exceptionThrownOut |-> FALSE,
    borderExtStarted |-> FALSE, skippedDecCount |-> 0,
    parseDone |-> "locked", reconDone |-> "locked",
    slices |-> 0, complete |-> FALSE,
    queue |-> {}, parsedSlices |-> {}, parseFailed |-> FALSE,
    recon |-> FALSE, border |-> FALSE, borderFailed |-> FALSE ]

\* resetForUse() and finalInit(): border extension tasks that are still in the
\* thread pool stay there.
ResetForUse(p) == [FreshPicture EXCEPT !.border = p.border]

\* No task of the picture is in the pool: waitForAllTasks() returns no earlier.
TasksDone(p) == p.queue = {} /\ ~p.recon /\ ~p.border

\* One of the three counters may carry an exception (error keeps what reconDone
\* forgets).  wait_nothrow() of such a counter need not return although no task is
\* left: its count may have wrapped, or have reached zero without a notification.
MayCarryException(p) ==
  p.error \/ p.parseFailed \/ p.borderFailed \/ p.reconDone = "error"

\* Mutant: a picture that is still read is taken.
Reusable_Slip(p) ==
  /\ p.progress = finished
  /\ ~p.dpbReferenceMark /\ ~p.neededForOutput /\ ~p.lockedByApplication

Reusable(p) ==
  /\ p.progress = finished
  /\ ~p.stillReferenced /\ ~p.dpbReferenceMark
  /\ ~p.neededForOutput /\ ~p.lockedByApplication

\* getNewPicBuffer: a new buffer as long as the list has room, then the first
\* reusable one, moved to the end of the list, and a new one if there is none.
GetNewPicBuffer(P, L, room) ==
  LET at     == SelectInSeq(L, LAMBDA b : Reusable(P[b]))
      extend == Len(L) < room \/ at = 0
      buf    == IF extend THEN Len(L) + 1 ELSE L[at]
  IN [ buf  |-> buf,
       list |-> Append(IF extend THEN L ELSE RemoveAt(L, at), buf),
       pic  |-> [P EXCEPT ![buf] = ResetForUse(@)] ]

\* Mutant: that the DPB keeps a picture for those to come is not looked at.
MarkUnused_Slip(P, L) ==
  LET read == UNION {P[b].refs : b \in {x \in ToSet(L) : P[x].progress < reconstructed}}
  IN [b \in DOMAIN P |->
        IF b \in ToSet(L) \ read /\ P[b].progress = finished
        THEN [P[b] EXCEPT !.stillReferenced = FALSE] ELSE P[b]]

\* markUnusedPicturesReusable: up to the first unfinished picture, those that
\* no picture still to be reconstructed refers to are not referenced any more.
MarkUnused(P, L) ==
  LET inProgress == {b \in ToSet(L) : P[b].progress < reconstructed}
      allRefPics == UNION {P[b].refs : b \in inProgress}
      stop       == SelectInSeq(L, LAMBDA b : P[b].progress < finished)
      upTo       == IF stop = 0 THEN Len(L) ELSE stop - 1
      unused     == {L[i] : i \in 1..upTo} \ allRefPics
  IN [b \in DOMAIN P |->
        IF b \in unused /\ ~P[b].dpbReferenceMark
        THEN [P[b] EXCEPT !.stillReferenced = FALSE]
        ELSE P[b]]

\* Mutant: pictures in work do not end the range.
OutputEnd_Slip(P, L) ==
  LET done == {i \in DOMAIN L : P[L[i]].progress = finished}
  IN 1 + (CHOOSE e \in done \cup {0} : \A i \in done : i <= e)

\* The end of the range that getNextOutputPic looks at: the first picture that
\* is not finished, or the first IDR picture behind one that waits for output.
\* Pictures that were output already are passed over.
OutputEnd(P, L) ==
  LET stops(i) ==
        /\ P[L[i]].neededForOutput \/ P[L[i]].progress < reconstructed
        /\ \/ P[L[i]].progress < finished
           \/ P[L[i]].idr /\ \E j \in 1..(i - 1) : P[L[j]].neededForOutput
  IN CHOOSE e \in 1..(Len(L) + 1) :
       /\ e \in DOMAIN L => stops(e)
       /\ \A i \in 1..(e - 1) : ~stops(i)

OutputRange(P, L) ==
  {L[i] : i \in {j \in 1..(OutputEnd(P, L) - 1) : P[L[j]].neededForOutput}}

\* The picture is chosen for output.
Shown(p) == [p EXCEPT !.lockedByApplication = TRUE, !.neededForOutput = FALSE]

\* Mutant: a picture too few is held back, and the first is like any other.
GetNextOutputPic_Slip(P, L, flush, reorder, delay, margin, first, tuneIn) ==
  LET range  == OutputRange(P, L)
      lowest == CHOOSE b \in range : \A o \in range : P[b].poc <= P[o].poc
  IN IF range = {} \/ (Cardinality(range) < reorder /\ ~flush)
     THEN [pic |-> P, tuneIn |-> tuneIn, out |-> NoPic]
     ELSE [pic |-> [P EXCEPT ![lowest] = Shown(@)], tuneIn |-> tuneIn, out |-> lowest]

\* getNextOutputPic: [pic, tuneIn, out], out the picture for the application or
\* NoPic.  first and tuneIn are m_firstOutputPic and m_tuneInDelay, margin is
\* MAX_OUT_OF_ORDER_PICS, delay the reorder pictures and instances to tune in.
GetNextOutputPic(P, L, flush, reorder, delay, margin, first, tuneIn) ==
  LET range  == OutputRange(P, L)
      end    == OutputEnd(P, L)
      atIdr  == end \in DOMAIN L /\ P[L[end]].idr
      bump   == \/ flush \/ atIdr
                \/ Cardinality(range) > reorder + (IF first THEN margin ELSE 0)
      lowest == CHOOSE b \in range : \A o \in range : P[b].poc <= P[o].poc
  IN IF range = {}
     THEN [pic |-> P, tuneIn |-> tuneIn, out |-> NoPic]
     ELSE IF tuneIn <= delay /\ ~flush
     THEN [pic |-> P, tuneIn |-> tuneIn + 1, out |-> NoPic]
     ELSE IF ~bump
     THEN [pic |-> P, tuneIn |-> tuneIn, out |-> NoPic]
     ELSE [pic |-> [P EXCEPT ![lowest] = Shown(@)], tuneIn |-> tuneIn, out |-> lowest]

\* Mutant: the lock stays.
ReleasePicture_Slip(P, b) == P

\* releasePicture
ReleasePicture(P, b) == [P EXCEPT ![b].lockedByApplication = FALSE]
=============================================================================
