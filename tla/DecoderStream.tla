--------------------------- MODULE DecoderStream ---------------------------
(***************************************************************************)
(* Conforming streams in which only the tasks of the workers fail: what    *)
(* the front end of module Decoder then keeps beside IndInv, so that the   *)
(* frames come out in order, failures are reported and no picture of the   *)
(* parse list waits too long.                                              *)
(***************************************************************************)
EXTENDS DecoderProps

\* No IDR picture behind p up to q: with p <= q the two are in the same coded
\* video sequence.
NoIdr(st, p, q) == \A x \in (p + 1)..q : ~st[x].idr

\* Picture q is a reference and every picture behind it up to p keeps it.
StaysRef(st, q, p) ==
  st[q].isRef /\ \A x \in (q + 1)..p : ~st[x].idr /\ st[q].poc \in st[x].rpl

\* The pictures ahead of c in coding order that are shown behind it.
Reordered(st, c) ==
  {q \in 1..(c - 1) : NoIdr(st, q, c) /\ st[q].output /\ st[q].poc > st[c].poc}

\* What a conforming encoder keeps to: the first picture is an IDR picture, every
\* reference is one that the DPB still has, the picture order counts of a coded
\* video sequence differ, no more pictures are reordered than the SPS says, and
\* the IDR pictures are shown.
ConformingStream(st) ==
  \A p \in DOMAIN st :
    /\ p = 1 => st[p].idr
    /\ st[p].idr => st[p].output
    /\ st[p].active \subseteq st[p].rpl
    /\ ~st[p].idr => \A r \in st[p].rpl :
         \E q \in 1..(p - 1) : st[q].poc = r /\ StaysRef(st, q, p)
    /\ \A q \in 1..(p - 1) : NoIdr(st, q, p) => st[q].poc # st[p].poc
    /\ st[p].output => Cardinality(Reordered(st, p)) <= NumReorder

\* Nothing is lost on the way and no header is broken; tasks may fail.
Conforming == ConformingStream(stream) /\ Accepted

\* The last picture of which a slice was parsed.
LastBegun == IF nal[2] = 1 THEN nal[1] - 1 ELSE nal[1]

\* A buffer holds what the headers of its picture say.
HoldsCoded(b) ==
  LET p == pic[b]
  IN /\ p.cts \in 1..LastBegun
     /\ p.poc = stream[p.cts].poc /\ p.idr = stream[p.cts].idr
     /\ ~p.wasLost /\ b \notin p.refs
     /\ p.complete \/ (b = parsePic /\ nal[2] > 1)

\* The NAL unit that comes next, and the picture it belongs to.
AtNal ==
  /\ nal[1] \in 1..(Len(stream) + 1)
  /\ ~MoreNals => nal[2] = 1
  /\ MoreNals => /\ nal[2] <= NalUnits(stream[nal[1]])
                 /\ LastBegun > 0 => started
  /\ nal[2] > 1 => /\ parsePic # NoPic /\ pic[parsePic].cts = nal[1]
                   /\ segment = pic[parsePic].slices - 1
                   /\ nal[2] <= stream[nal[1]].slices =>
                        pic[parsePic].slices = nal[2] - 1 /\ ~pic[parsePic].complete
                   /\ nal[2] > stream[nal[1]].slices =>
                        /\ pic[parsePic].slices = stream[nal[1]].slices
                        /\ pic[parsePic].complete

\* The list is in coding order, and the DPB has every picture that stays a
\* reference.
PicturesInOrder ==
  /\ \A b \in InList : HoldsCoded(b)
  /\ \A i, j \in DOMAIN list : i < j => pic[list[i]].cts < pic[list[j]].cts
  /\ \A b \in dpb : NoIdr(stream, pic[b].cts, LastBegun)
  /\ \A q \in 1..LastBegun : StaysRef(stream, q, LastBegun) =>
       \E b \in dpb : pic[b].cts = q /\ pic[b].dpbReferenceMark

\* No picture is given up.
NobodyLost == Unfinished \subseteq InHand

ParserInv == AtNal /\ PicturesInOrder /\ NobodyLost

\* The pictures behind b that were taken from the parse list before it.
Passed(b) ==
  {c \in (pic[b].cts + 1)..LastBegun : ~\E x \in ToSet(parseList) : pic[x].cts = c}

\* skippedDecCount counts them, and the one in front has the highest count.
OvertakenInv ==
  /\ \A i, j \in DOMAIN parseList : i < j =>
       /\ pic[parseList[i]].cts < pic[parseList[j]].cts
       /\ pic[parseList[i]].skippedDecCount >= pic[parseList[j]].skippedDecCount
  /\ \A b \in ToSet(parseList) :
       /\ pic[b].skippedDecCount <= MaxOutOfOrderPics
       /\ Cardinality(Passed(b)) <= pic[b].skippedDecCount

\* 1 when the wait for the hash of picture c is over and may have thrown.
HashSeen(c) ==
  IF /\ stream[c].sei /\ ParseFrameDelay = 0 /\ c < nal[1]
     /\ ~(main.pc = "sei" /\ c = nal[1] - 1)
  THEN 1 ELSE 0

\* How often a picture is reported without the one of its hash.
MostReports(c) == IF stream[c].slices > 2 THEN stream[c].slices - 1 ELSE 1

\* What the flags of a picture say of the exceptions that were thrown out and
\* of those to come.
ReportsTell(b) ==
  LET p == pic[b]
      n == reports[p.cts]
  IN /\ p.exceptionThrownOut \/ (p.progress = finished /\ p.error) => n >= 1
     /\ p.error /\ p.progress < finished => p.exceptionThrownOut \/ Throws(p)
     /\ ~p.exceptionThrownOut /\ p.progress < finished => n <= HashSeen(p.cts)
     /\ ~p.complete => n <= p.slices - 1
     /\ p.parseFailed => p.queue = {}
     /\ p.recon => p.reconDone = "locked" \/ p.parseFailed
     /\ Prepared(b) => p.reconDone = "locked" /\ ~p.recon
     /\ b \in Waiting /\ p.exceptionThrownOut => p.parseFailed /\ p.parseDone # "error"

ReportsInv ==
  /\ \A b \in InList : ReportsTell(b)
  /\ \A c \in DOMAIN stream : /\ c > LastBegun => reports[c] = 0
                              /\ reports[c] <= MostReports(c) + HashSeen(c)
  /\ main.pc = "clean" /\ main.exc => ~pic[main.cur].exceptionThrownOut
  /\ main.pc = "sei" => /\ nal[2] = 1 /\ pic[parsePic].cts = nal[1] - 1
                        /\ stream[nal[1] - 1].sei /\ ParseFrameDelay = 0

\* Display order: by coded video sequence, then by picture order count.
Before(p, q) == \/ Cvs(p) < Cvs(q)
                \/ Cvs(p) = Cvs(q) /\ stream[p].poc < stream[q].poc

\* The pictures to be shown that were not chosen yet, and those that were.
Pending ==
  {c \in DOMAIN stream :
     /\ stream[c].output
     /\ c > LastBegun \/ \E b \in InList : pic[b].cts = c /\ pic[b].neededForOutput}
Gone == {c \in DOMAIN stream : stream[c].output} \ Pending

\* Those whose frames are still to come: one that was chosen by flushPic() is
\* on its way as long as the call goes on.
Due == Pending \cup {pic[b].cts : b \in {main.outPic} \ {NoPic}}

\* The decoder implements FrameOrder: DecLib's calls, the reordering and the
\* workers together show the frames in display order, every one once, and
\* a frame is missing only where an exception was thrown.
Frames == INSTANCE FrameOrder WITH coded <- LastBegun, due <- Due
ShowsFrames == Frames!Spec

\* Whatever was chosen is shown before whatever was not.
OrderInv ==
  /\ \A b \in InList : /\ pic[b].neededForOutput => stream[pic[b].cts].output
                       /\ pic[b].progress < finished =>
                            (pic[b].neededForOutput <=> stream[pic[b].cts].output)
  /\ \A g \in Gone, r \in Pending : Before(g, r)
  /\ \A i \in DOMAIN out : out[i] \in Gone
  /\ OutputInOrder
  /\ main.outPic # NoPic => /\ pic[main.outPic].cts \in Gone
                            /\ \A i \in DOMAIN out : Before(out[i], pic[main.outPic].cts)
  /\ AllDelivered

StreamInv == ParserInv /\ OvertakenInv /\ ReportsInv /\ OrderInv

\* Behind the last flush nobody has a picture any more.
EofEmpty ==
  main.pc = "eof" => ToSet(parseList) = {} /\ ToSet(instances) \subseteq {NoPic}

\* What the front end keeps, step by step: the owners of every picture and how
\* far it is in any stream with any fault; in a conforming stream without faults
\* of the parser also the coding order in list and DPB, how often each picture
\* was overtaken and reported, and what is shown before what.
FrontEndInv == IndInv /\ EofEmpty /\ (Conforming => StreamInv)
=============================================================================
