----------------------------- MODULE MCDecoder -----------------------------
EXTENDS DecoderStream

Pic(poc, rpl, isRef, slices) ==
  [poc |-> poc, idr |-> FALSE, rpl |-> rpl, active |-> rpl, isRef |-> isRef,
   output |-> TRUE, slices |-> slices, sei |-> FALSE]
Idr(slices) ==
  [poc |-> 0, idr |-> TRUE, rpl |-> {}, active |-> {}, isRef |-> TRUE,
   output |-> TRUE, slices |-> slices, sei |-> FALSE]

\* Random access with one reorder picture, and a second sequence.
Gop2 == << Idr(1), Pic(2, {0}, TRUE, 1), Pic(1, {0, 2}, FALSE, 1),
           Pic(4, {2}, TRUE, 1), Pic(3, {2, 4}, FALSE, 1),
           Idr(1), Pic(2, {0}, TRUE, 1), Pic(1, {0, 2}, FALSE, 1) >>

\* The same, long enough for buffers to be taken again; one reference is not
\* shown.
Gop2Long == << Idr(1), Pic(2, {0}, TRUE, 1), Pic(1, {0, 2}, FALSE, 1),
               [Pic(4, {2}, TRUE, 1) EXCEPT !.output = FALSE],
               Pic(3, {2, 4}, FALSE, 1),
               Pic(6, {4}, TRUE, 1), Pic(5, {4, 6}, FALSE, 1),
               Pic(8, {6}, TRUE, 1), Pic(7, {6, 8}, FALSE, 1), Idr(1) >>

\* A chain of references, and pictures that refer to the start of the chain only.
Apart == << Idr(1), Pic(1, {0}, TRUE, 1), Pic(2, {0, 1}, TRUE, 1),
            [Pic(4, {0, 1, 2}, FALSE, 1) EXCEPT !.active = {0}],
            [Pic(3, {0, 2}, FALSE, 1) EXCEPT !.active = {0}],
            [Pic(5, {0, 2}, FALSE, 1) EXCEPT !.active = {0}] >>

TwoSlices == << Idr(2), Pic(1, {0}, TRUE, 2), Pic(2, {1}, FALSE, 1) >>
ThreeSlices == << Idr(1), Pic(1, {0}, TRUE, 3), Pic(2, {1}, FALSE, 1) >>

\* Every picture refers to the one before it.
Chain == [i \in 1..7 |-> IF i = 1 THEN Idr(1) ELSE Pic(i - 1, {i - 2}, TRUE, 1)]

\* A picture refers to one that never comes.
Cut == << Idr(1), Pic(1, {0}, FALSE, 1), Pic(2, {0}, FALSE, 1),
          Pic(3, {0}, FALSE, 1), Pic(4, {0, 8}, FALSE, 1) >>

\* The same at the beginning, with a second sequence behind it.
CutEarly == << Idr(1), Pic(1, {0, 8}, TRUE, 1), Pic(2, {1}, TRUE, 1),
               Idr(1), Pic(1, {0}, TRUE, 1) >>

\* The same pictures, none of which is shown.
NotShown(st) == [p \in DOMAIN st |-> [st[p] EXCEPT !.output = FALSE]]

\* The same pictures with a picture hash behind each.
Hashed(st) == [p \in DOMAIN st |-> [st[p] EXCEPT !.sei = TRUE]]

Setup(coded, delay, kinds, max) ==
  [coded |-> coded, delay |-> delay, faults |-> kinds, maxFaults |-> max]

MCFillPic == { Setup(NotShown(Cut), 0, {"parse", "lost"}, 1) }

\* Failing tasks: pictures of several slices that refer to each other, and
\* pictures with a hash without parse delay.
MCFailures ==
  { Setup(s, 1, {"parse", "recon"}, 2) : s \in {TwoSlices, ThreeSlices} } \cup
  { Setup(Hashed(SubSeq(Gop2, 1, 5)), 0, {"parse", "recon"}, 1) }

\* Whole sequences, and faults of every kind, those of the tasks with up to three slices
\* and with hashes; two where buffers are taken again soon behind a picture that failed.
MCSafety ==
  { Setup(Gop2Long, 0, {}, 0), Setup(Apart, 3, {"parse"}, 1),
    Setup(NotShown(Chain), 0, {"recon"}, 2) } \cup
  MCFillPic \cup MCFailures \cup
  { Setup(s, 1, {"header", "contents", "lost"}, 1) :
      s \in {Gop2, TwoSlices, ThreeSlices} }

MCFilledIn == { Setup(CutEarly, 1, {}, 0) }
MCContents == { Setup(SubSeq(Gop2, 1, 5), 1, {"contents"}, 1) }
=============================================================================
