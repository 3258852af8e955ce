--------------------------- MODULE VVDecApi_proofs ---------------------------
(***************************************************************************)
(* Proofs about VVDecApi, for any number of pictures and of NAL units and  *)
(* any way to handle errors and to fail.                                   *)
(***************************************************************************)
EXTENDS VVDecApi, SequenceTheorems, TLAPS

LEMMA Constants == MaxPics \in Nat /\ MaxNals \in Nat \ {0}
BY SetupAssumption

Frames == [pic : 1..MaxPics, seq : 0..MaxPics, converted : BOOLEAN]

\* The sequences of the state, their positions and their elements.
LEMMA Sequences ==
  ASSUME TypeOK
  PROVE  /\ rcFrameList \in Seq(Frames)
         /\ taken \in Seq(1..MaxPics) /\ shown \in Seq(1..MaxPics)
         /\ lib.queue \in Seq(1..MaxPics)
BY DEF TypeOK, Frames

LEMMA Positions ==
  ASSUME TypeOK
  PROVE  /\ DOMAIN rcFrameList = 1..Len(rcFrameList) /\ Len(rcFrameList) \in Nat
         /\ DOMAIN taken = 1..Len(taken) /\ Len(taken) \in Nat
         /\ DOMAIN shown = 1..Len(shown) /\ Len(shown) \in Nat
         /\ DOMAIN lib.queue = 1..Len(lib.queue) /\ Len(lib.queue) \in Nat
BY Sequences, LenProperties

LEMMA Elements ==
  ASSUME TypeOK
  PROVE  /\ \A i \in DOMAIN rcFrameList :
              /\ rcFrameList[i] \in Frames
              /\ rcFrameList[i].pic \in Nat /\ rcFrameList[i].pic \in 1..MaxPics
              /\ rcFrameList[i].seq \in Nat /\ rcFrameList[i].seq \in 0..MaxPics
              /\ rcFrameList[i].converted \in BOOLEAN
         /\ \A i \in DOMAIN taken : taken[i] \in Nat /\ taken[i] \in 1..MaxPics
         /\ \A i \in DOMAIN shown : shown[i] \in Nat /\ shown[i] \in 1..MaxPics
         /\ \A i \in DOMAIN lib.queue : lib.queue[i] \in Nat /\ lib.queue[i] \in 1..MaxPics
<1>1. 1..MaxPics \subseteq Nat /\ 0..MaxPics \subseteq Nat
  BY Constants
<1>2. \A i \in DOMAIN rcFrameList : rcFrameList[i] \in Frames
  BY Sequences, Positions, ElementOfSeq
<1>3. \A i \in DOMAIN taken : taken[i] \in 1..MaxPics
  BY Sequences, Positions, ElementOfSeq
<1>4. \A i \in DOMAIN shown : shown[i] \in 1..MaxPics
  BY Sequences, Positions, ElementOfSeq
<1>5. \A i \in DOMAIN lib.queue : lib.queue[i] \in 1..MaxPics
  BY Sequences, Positions, ElementOfSeq
<1> QED
  BY <1>1, <1>2, <1>3, <1>4, <1>5 DEF Frames

\* A picture has one node.
LEMMA OneNode ==
  ASSUME TypeOK, CodingOrder, Numbered,
         NEW i \in DOMAIN rcFrameList, NEW j \in DOMAIN rcFrameList,
         rcFrameList[i].pic = rcFrameList[j].pic \/ rcFrameList[i].seq = rcFrameList[j].seq
  PROVE  i = j
<1> DEFINE m == rcFrameList[i].seq  n == rcFrameList[j].seq
<1>1. m \in Nat /\ n \in Nat /\ i \in Nat /\ j \in Nat
  BY Positions, Elements
<1>2. m + 1 \in DOMAIN taken /\ n + 1 \in DOMAIN taken
  <2>1. m < Len(taken) /\ n < Len(taken)
    BY DEF Numbered
  <2> QED
    BY <1>1, <2>1, Positions
<1>3. taken[m + 1] = taken[n + 1] \/ m = n
  BY DEF Numbered
<1>4. m = n
  <2>1. m < n => taken[m + 1] < taken[n + 1]
    BY <1>1, <1>2 DEF CodingOrder
  <2>2. n < m => taken[n + 1] < taken[m + 1]
    BY <1>1, <1>2 DEF CodingOrder
  <2>3. taken[m + 1] \in Nat /\ taken[n + 1] \in Nat
    BY <1>2, Elements
  <2> QED
    BY <1>1, <1>3, <2>1, <2>2, <2>3
<1> QED
  BY <1>1, <1>4 DEF Numbered

LEMMA FindNode ==
  ASSUME TypeOK, CodingOrder, Numbered, NEW i \in DOMAIN rcFrameList
  PROVE  Find(rcFrameList[i].pic) = i
<1> DEFINE I == {j \in 1..Len(rcFrameList) : rcFrameList[j].pic = rcFrameList[i].pic}
<1>1. I = {i}
  BY OneNode, Positions
<1>2. Min(I) = i
  BY <1>1, Positions DEF Min
<1> QED
  BY <1>1, <1>2 DEF Find, SelectInSeq

LEMMA FindNothing ==
  ASSUME TypeOK, NEW p, \A i \in DOMAIN rcFrameList : rcFrameList[i].pic # p
  PROVE  Find(p) = 0
BY Positions DEF Find, SelectInSeq
-----------------------------------------------------------------------------
(* The list of frames.                                                     *)

\* What ApiInv says of the list, the library and the application, and not of
\* the call that is running.
ListTypes ==
  /\ setup \in Setups
  /\ rcFrameList \in Seq(Frames)
  /\ {pcFrameNext, uiSeqNumber, uiSeqNumOutput} \cup storage \subseteq 0..MaxPics
  /\ lib \in [queue : Seq(1..MaxPics), locked : SUBSET (1..MaxPics), coded : 0..MaxPics,
              lost : SUBSET (1..MaxPics)]
  /\ lib.locked \cup ToSet(lib.queue) \cup held \subseteq 1..lib.coded
  /\ taken \in Seq(1..MaxPics) /\ shown \in Seq(1..MaxPics)

StreamBegun ==
  /\ oldest \in Nat
  /\ setup.faults = {} =>
       /\ oldest <= lib.coded + 1
       /\ \A i \in DOMAIN taken : oldest <= taken[i]
       /\ \A i \in DOMAIN lib.queue : oldest <= lib.queue[i]

ListInv ==
  /\ ListTypes /\ StreamBegun
  /\ CodingOrder /\ Numbered /\ SomeOut /\ HeldNodes /\ LockedNodes

\* The library after it took a NAL unit.
Ready(l) ==
  /\ l \in [queue : Seq(1..MaxPics), locked : SUBSET (1..MaxPics), coded : 0..MaxPics,
            lost : SUBSET (1..MaxPics)]
  /\ l.locked = lib.locked /\ l.lost = lib.lost /\ lib.coded <= l.coded
  /\ \A x \in l.lost \cup held : \A j \in DOMAIN l.queue : x < l.queue[j]
  /\ \A i \in DOMAIN l.queue : l.queue[i] <= l.coded
  /\ \A i, j \in DOMAIN l.queue : i < j => l.queue[i] < l.queue[j]
  /\ \A i \in DOMAIN taken : \A j \in DOMAIN l.queue : taken[i] < l.queue[j]
  /\ setup.faults = {} => \A i \in DOMAIN l.queue : oldest <= l.queue[i]

\* The call that is running goes on or ends, or another one begins.
CallGoesOn == call.reset => call'.reset

LEMMA LibTypes ==
  ASSUME TypeOK
  PROVE  /\ lib \in [queue : Seq(1..MaxPics), locked : SUBSET (1..MaxPics), coded : 0..MaxPics,
                     lost : SUBSET (1..MaxPics)]
         /\ lib.queue \in Seq(1..MaxPics) /\ lib.locked \subseteq 1..MaxPics
         /\ lib.coded \in 0..MaxPics /\ lib.coded \in Nat
         /\ \A i \in DOMAIN lib.queue : lib.queue[i] <= lib.coded
         /\ lib.locked \subseteq 1..lib.coded /\ held \subseteq 1..lib.coded
<1>1. lib \in [queue : Seq(1..MaxPics), locked : SUBSET (1..MaxPics), coded : 0..MaxPics,
               lost : SUBSET (1..MaxPics)]
  BY DEF TypeOK
<1>2. lib.coded \in 0..MaxPics /\ 0..MaxPics \subseteq Nat
  BY <1>1, Constants
<1>3. \A i \in DOMAIN lib.queue : lib.queue[i] \in 1..lib.coded
  BY DEF TypeOK, ToSet
<1>4. \A i \in DOMAIN lib.queue : lib.queue[i] <= lib.coded
  BY <1>2, <1>3
<1>5. lib.locked \subseteq 1..lib.coded /\ held \subseteq 1..lib.coded
  BY DEF TypeOK
<1> QED
  BY <1>1, <1>2, <1>4, <1>5

LEMMA LibReady == ASSUME ApiInv PROVE Ready(lib)
BY LibTypes, Constants DEF ApiInv, Ready, CodingOrder, NewStream, LockedNodes, HeldNodes

LEMMA FedReady == ASSUME ApiInv, NEW l \in Fed PROVE Ready(l)
<1> DEFINE c == lib.coded + 1  q == Append(lib.queue, c)
<1>1. CASE l = lib
  BY <1>1, LibReady
<1>2. CASE l # lib
  <2>1. c \in 1..MaxPics /\ l = [lib EXCEPT !.coded = c, !.queue = q]
    BY <1>2 DEF Fed
  <2>2. /\ q \in Seq(1..MaxPics) /\ Len(q) = Len(lib.queue) + 1
        /\ \A i \in 1..Len(lib.queue) : q[i] = lib.queue[i]
        /\ q[Len(lib.queue) + 1] = c
    BY <2>1, LibTypes, AppendProperties DEF ApiInv
  <2>3. /\ DOMAIN q = 1..(Len(lib.queue) + 1) /\ DOMAIN lib.queue = 1..Len(lib.queue)
        /\ Len(lib.queue) \in Nat /\ lib.coded \in Nat
    BY <2>2, LenProperties, Positions, LibTypes DEF ApiInv
  <2>4. \A i \in DOMAIN lib.queue : lib.queue[i] < c /\ lib.queue[i] \in Nat
    BY <2>3, LibTypes, Elements DEF ApiInv
  <2>5. l.queue = q /\ l.coded = c /\ l.locked = lib.locked /\ l.lost = lib.lost
    BY <2>1, LibTypes DEF ApiInv
  <2>6. l \in [queue : Seq(1..MaxPics), locked : SUBSET (1..MaxPics), coded : 0..MaxPics,
               lost : SUBSET (1..MaxPics)]
    <3>1. c \in 0..MaxPics
      BY <2>1
    <3> QED
      BY <2>1, <2>2, <3>1, LibTypes DEF ApiInv
  <2>7. \A i, j \in DOMAIN q : i < j => q[i] < q[j]
    <3> HIDE DEF q
    <3> SUFFICES ASSUME NEW i \in DOMAIN q, NEW j \in DOMAIN q, i < j PROVE q[i] < q[j]
      OBVIOUS
    <3>1. i \in DOMAIN lib.queue /\ q[i] = lib.queue[i]
      BY <2>2, <2>3
    <3>2. CASE j \in DOMAIN lib.queue
      BY <2>2, <2>3, <3>1, <3>2 DEF ApiInv, CodingOrder
    <3>3. CASE j = Len(lib.queue) + 1
      BY <2>2, <2>4, <3>1, <3>3
    <3> QED
      BY <2>3, <3>2, <3>3
  <2>8. \A i \in DOMAIN taken : \A j \in DOMAIN q : taken[i] < q[j]
    BY <2>2, <2>3, Elements DEF ApiInv, CodingOrder
  <2>9. setup.faults = {} => \A i \in DOMAIN q : oldest <= q[i]
    BY <2>2, <2>3 DEF ApiInv, NewStream
  <2>10. \A i \in DOMAIN q : q[i] <= c
    BY <2>2, <2>3, <2>4
  <2>11. \A x \in lib.lost \cup held : \A j \in DOMAIN q : x < q[j]
    <3>1. \A x \in lib.lost : x \in 1..MaxPics /\ x <= lib.coded
      BY LibTypes DEF ApiInv, LockedNodes
    <3>2. \A x \in held : x \in 1..lib.coded
      BY LibTypes DEF ApiInv
    <3>3. \A x \in lib.lost \cup held : x \in Nat /\ x < c
      BY <2>3, <3>1, <3>2, Constants
    <3>4. \A x \in lib.lost \cup held : \A j \in DOMAIN lib.queue : x < lib.queue[j]
      BY DEF ApiInv, LockedNodes, HeldNodes
    <3> QED
      BY <2>2, <2>3, <3>3, <3>4
  <2> HIDE DEF q
  <2> QED
    BY <2>3, <2>5, <2>6, <2>7, <2>8, <2>9, <2>10, <2>11 DEF Ready
<1> QED
  BY <1>1, <1>2

\* The list seen from the step that changes it.
LEMMA ListParts ==
  ASSUME ApiInv
  PROVE  /\ ListInv /\ Len(taken) \in 0..MaxPics
         /\ \A i \in DOMAIN taken : taken[i] \in Nat /\ taken[i] # NoPic
<1>1. ListTypes
  BY DEF ApiInv, TypeOK, ListTypes, Frames
<1>2. StreamBegun
  BY DEF ApiInv, StreamBegun, NewStream
<1>3. Len(taken) \in 0..MaxPics
  <2>1. CASE Len(taken) = 0
    BY <2>1, Constants
  <2>2. CASE Len(taken) # 0
    <3>1. Len(taken) \in DOMAIN taken
      BY <2>2, Positions DEF ApiInv
    <3>2. Len(taken) <= taken[Len(taken)] /\ taken[Len(taken)] \in 1..MaxPics
      BY <3>1, Elements DEF ApiInv, CodingOrder
    <3> QED
      BY <3>2, Constants, Positions DEF ApiInv
  <2> QED
    BY <2>1, <2>2
<1>4. \A i \in DOMAIN taken : taken[i] \in Nat /\ taken[i] # NoPic
  BY Elements DEF ApiInv, NoPic
<1> QED
  BY <1>1, <1>2, <1>3, <1>4 DEF ListInv, ApiInv

\* The library is told nothing and returned nothing.
LEMMA FeedStep ==
  ASSUME ApiInv, NEW l, Ready(l), NoOutput(l), held' \subseteq held,
         UNCHANGED <<setup, shown, oldest>>,
         CallGoesOn
  PROVE  ListInv'
<1>1. lib' = l /\ l.queue \in Seq(1..MaxPics) /\ l.locked = lib.locked
  BY DEF NoOutput, Ready
<1>2. /\ rcFrameList' = rcFrameList /\ storage' = storage /\ taken' = taken
      /\ pcFrameNext' = pcFrameNext /\ uiSeqNumOutput' = uiSeqNumOutput
      /\ uiSeqNumber' = uiSeqNumber
  BY DEF NoOutput, list, next
<1>3. DOMAIN l.queue = 1..Len(l.queue) /\ \A i \in DOMAIN l.queue : l.queue[i] \in Nat
  <2>1. DOMAIN l.queue = 1..Len(l.queue)
    BY <1>1, LenProperties
  <2>2. \A i \in DOMAIN l.queue : l.queue[i] \in 1..MaxPics
    BY <1>1, <2>1, ElementOfSeq
  <2> QED
    BY <2>1, <2>2, Constants
<1>4. l.coded \in Nat /\ lib.coded \in Nat /\ lib.coded <= l.coded
  BY LibTypes, Constants DEF ApiInv, Ready
<1>5. ListTypes'
  <2>1. \A x \in 1..lib.coded : x \in 1..l.coded
    BY <1>4
  <2>2. \A i \in DOMAIN l.queue : l.queue[i] \in 1..l.coded
    <3>1. \A i \in DOMAIN l.queue : l.queue[i] \in 1..MaxPics
      BY <1>1, <1>3, ElementOfSeq
    <3> QED
      BY <1>4, <3>1, Constants DEF Ready
  <2>3. ToSet(l.queue) \subseteq 1..l.coded
    BY <2>2 DEF ToSet
  <2> QED
    BY <1>1, <1>2, <2>1, <2>3, ListParts, LibTypes DEF ApiInv, ListInv, ListTypes, Ready
<1>6. StreamBegun'
  BY <1>1, <1>2, <1>4, ListParts DEF ListInv, StreamBegun, Ready
<1>7. CodingOrder'
  BY <1>1, <1>2, <1>4, ListParts DEF ApiInv, CodingOrder, Ready
<1>8. Numbered' /\ SomeOut'
  BY <1>2 DEF ApiInv, Numbered, SomeOut, OutUpTo, CallGoesOn
<1>9. HeldNodes'
  BY <1>1, <1>2 DEF ApiInv, HeldNodes, Ready
<1>10. LockedNodes'
  <2>1. \A x \in lib.lost : x \in Nat /\ x <= lib.coded
    BY LibTypes, Constants DEF ApiInv, LockedNodes
  <2>2. \A x \in l.lost : x <= l.coded /\ \A j \in DOMAIN l.queue : x < l.queue[j]
    BY <1>4, <2>1 DEF Ready
  <2> QED
    BY <1>1, <1>2, <2>2 DEF ApiInv, LockedNodes, Ready
<1> QED
  BY <1>5, <1>6, <1>7, <1>8, <1>9, <1>10 DEF ListInv

\* The picture that the library returns is behind all that it has returned.
LEMMA OutputReady ==
  ASSUME ApiInv, NEW l, Ready(l), l.queue # <<>>
  PROVE  LET p == Head(l.queue)  o == Output(l)
         IN /\ p \in 1..l.coded /\ p \in 1..MaxPics /\ Len(taken) + 1 <= p
            /\ \A i \in DOMAIN taken : taken[i] < p
            /\ \A i \in DOMAIN o.queue : p < o.queue[i]
            /\ \A x \in lib.lost \cup held : x < p /\ \A i \in DOMAIN o.queue : x < o.queue[i]
            /\ setup.faults = {} => oldest <= p
            /\ o \in [queue : Seq(1..MaxPics), locked : SUBSET (1..MaxPics), coded : 0..MaxPics,
                      lost : SUBSET (1..MaxPics)]
            /\ o.coded = l.coded /\ o.queue = Tail(l.queue) /\ o.locked = lib.locked \cup {p}
            /\ o.lost = lib.lost
            /\ \A i \in DOMAIN o.queue : o.queue[i] \in 1..o.coded
            /\ \A i, j \in DOMAIN o.queue : i < j => o.queue[i] < o.queue[j]
            /\ \A i \in DOMAIN taken : \A j \in DOMAIN o.queue : taken[i] < o.queue[j]
            /\ setup.faults = {} => \A i \in DOMAIN o.queue : oldest <= o.queue[i]
<1> DEFINE p == Head(l.queue)  t == Tail(l.queue)  o == Output(l)
<1>1. /\ l \in [queue : Seq(1..MaxPics), locked : SUBSET (1..MaxPics), coded : 0..MaxPics,
                lost : SUBSET (1..MaxPics)]
      /\ l.queue \in Seq(1..MaxPics) /\ l.coded \in 0..MaxPics
  BY DEF Ready
<1>2. /\ t \in Seq(1..MaxPics) /\ Len(t) = Len(l.queue) - 1 /\ p = l.queue[1]
      /\ \A i \in 1..Len(t) : t[i] = l.queue[i + 1]
  BY <1>1, HeadTailProperties DEF Head
<1>3. DOMAIN t = 1..Len(t) /\ DOMAIN l.queue = 1..Len(l.queue) /\ Len(l.queue) \in Nat /\ Len(t) \in Nat
  BY <1>1, <1>2, LenProperties
<1>4. 1 \in DOMAIN l.queue /\ \A i \in DOMAIN t : i + 1 \in DOMAIN l.queue /\ 1 < i + 1
  BY <1>2, <1>3
<1>5. \A i \in DOMAIN l.queue : l.queue[i] \in 1..MaxPics /\ l.queue[i] \in 1..l.coded
  <2>1. \A i \in DOMAIN l.queue : l.queue[i] \in 1..MaxPics
    BY <1>1, <1>3, ElementOfSeq
  <2> QED
    BY <1>1, <2>1, Constants DEF Ready
<1> HIDE DEF t
<1>6. p \in 1..l.coded /\ p \in 1..MaxPics /\ \A i \in DOMAIN taken : taken[i] < p
  BY <1>2, <1>4, <1>5 DEF Ready
<1>7. Len(taken) + 1 <= p
  <2>1. CASE Len(taken) = 0
    BY <1>6, <2>1, Constants
  <2>2. CASE Len(taken) # 0
    <3>1. Len(taken) \in DOMAIN taken
      BY <2>2, Positions DEF ApiInv
    <3>2. Len(taken) <= taken[Len(taken)] /\ taken[Len(taken)] \in Nat /\ Len(taken) \in Nat
      BY <3>1, Elements, Positions DEF ApiInv, CodingOrder
    <3> QED
      BY <1>6, <3>1, <3>2, Constants
  <2> QED
    BY <2>1, <2>2
<1>8. \A i \in DOMAIN t : p < t[i]
  BY <1>2, <1>3, <1>4 DEF Ready
<1>9. o = [l EXCEPT !.queue = t, !.locked = @ \cup {p}]
  BY DEF Output, t
<1>10. /\ o.coded = l.coded /\ o.queue = t /\ o.locked = lib.locked \cup {p}
       /\ o.lost = lib.lost
  BY <1>1, <1>9 DEF Ready
<1>11. o \in [queue : Seq(1..MaxPics), locked : SUBSET (1..MaxPics), coded : 0..MaxPics,
              lost : SUBSET (1..MaxPics)]
  <2>1. l.locked \cup {p} \in SUBSET (1..MaxPics)
    BY <1>1, <1>6
  <2>2. \A q \in Seq(1..MaxPics) : \A k \in SUBSET (1..MaxPics) :
          [l EXCEPT !.queue = q, !.locked = k]
            \in [queue : Seq(1..MaxPics), locked : SUBSET (1..MaxPics), coded : 0..MaxPics,
                 lost : SUBSET (1..MaxPics)]
    BY <1>1
  <2>3. [l EXCEPT !.queue = t, !.locked = l.locked \cup {p}]
          \in [queue : Seq(1..MaxPics), locked : SUBSET (1..MaxPics), coded : 0..MaxPics,
               lost : SUBSET (1..MaxPics)]
    <3> HIDE DEF p
    <3> QED
      BY <1>2, <2>1, <2>2, Zenon
  <2>4. o = [l EXCEPT !.queue = t, !.locked = l.locked \cup {p}]
    BY <1>9, Zenon
  <2> HIDE DEF o, p
  <2> QED
    BY <2>3, <2>4, Zenon
<1>12. /\ \A i \in DOMAIN t : t[i] \in 1..l.coded
       /\ \A i \in DOMAIN taken : \A j \in DOMAIN t : taken[i] < t[j]
       /\ setup.faults = {} => \A i \in DOMAIN t : oldest <= t[i]
  BY <1>2, <1>3, <1>4, <1>5 DEF Ready
<1>13. \A i, j \in DOMAIN t : i < j => t[i] < t[j]
  <2> SUFFICES ASSUME NEW i \in DOMAIN t, NEW j \in DOMAIN t, i < j PROVE t[i] < t[j]
    OBVIOUS
  <2>1. i + 1 \in DOMAIN l.queue /\ j + 1 \in DOMAIN l.queue /\ i + 1 < j + 1
    BY <1>3, <1>4
  <2> QED
    BY <1>2, <1>3, <2>1 DEF Ready
<1>14. setup.faults = {} => oldest <= p
  BY <1>2, <1>4 DEF Ready
<1>15. \A x \in lib.lost \cup held : x < p /\ \A i \in DOMAIN t : x < t[i]
  <2>1. \A x \in lib.lost \cup held : \A i \in DOMAIN l.queue : x < l.queue[i]
    BY DEF Ready
  <2> QED
    BY <1>2, <1>3, <1>4, <2>1
<1> QED
  BY <1>6, <1>7, <1>8, <1>10, <1>11, <1>12, <1>13, <1>14, <1>15 DEF t

\* The picture that the library has chosen does not reach the list.
LEMMA LoseStep ==
  ASSUME ApiInv, NEW l, Ready(l), l.queue # <<>>, NoOutput(Lose(l)), setup.faults # {},
         UNCHANGED <<setup, held, shown, oldest>>,
         CallGoesOn
  PROVE  ListInv'
<1> DEFINE p == Head(l.queue)  o == Lose(l)
<1>1. /\ o \in [queue : Seq(1..MaxPics), locked : SUBSET (1..MaxPics), coded : 0..MaxPics,
                lost : SUBSET (1..MaxPics)]
      /\ o.coded = l.coded /\ o.locked = lib.locked \cup {p} /\ o.lost = lib.lost \cup {p}
      /\ o.locked \subseteq 1..l.coded
      /\ \A i \in DOMAIN o.queue : o.queue[i] \in 1..l.coded
      /\ \A i, j \in DOMAIN o.queue : i < j => o.queue[i] < o.queue[j]
      /\ \A i \in DOMAIN taken : \A j \in DOMAIN o.queue : taken[i] < o.queue[j]
      /\ setup.faults = {} => \A i \in DOMAIN o.queue : oldest <= o.queue[i]
  <2>1. \A x \in 1..lib.coded : x \in 1..l.coded
    BY LibTypes, Constants DEF ApiInv, Ready
  <2>2. Output(l).locked \subseteq 1..l.coded
    BY <2>1, OutputReady, LibTypes DEF ApiInv
  <2>3. /\ p \in 1..MaxPics
        /\ Output(l) \in [queue : Seq(1..MaxPics), locked : SUBSET (1..MaxPics),
                           coded : 0..MaxPics, lost : SUBSET (1..MaxPics)]
        /\ Output(l).lost = lib.lost
    BY OutputReady
  <2>4. /\ o = [Output(l) EXCEPT !.lost = @ \cup {p}]
        /\ lib.lost \cup {p} \in SUBSET (1..MaxPics)
    BY <2>3 DEF Lose
  <2>5. \A u \in [queue : Seq(1..MaxPics), locked : SUBSET (1..MaxPics),
                  coded : 0..MaxPics, lost : SUBSET (1..MaxPics)] :
        \A w \in SUBSET (1..MaxPics) : \E v \in {[u EXCEPT !.lost = w]} :
          /\ v \in [queue : Seq(1..MaxPics), locked : SUBSET (1..MaxPics),
                    coded : 0..MaxPics, lost : SUBSET (1..MaxPics)]
          /\ v.queue = u.queue /\ v.locked = u.locked /\ v.coded = u.coded /\ v.lost = w
    OBVIOUS
  <2>6. /\ o \in [queue : Seq(1..MaxPics), locked : SUBSET (1..MaxPics), coded : 0..MaxPics,
                  lost : SUBSET (1..MaxPics)]
        /\ o.queue = Output(l).queue /\ o.locked = Output(l).locked
        /\ o.coded = Output(l).coded /\ o.lost = lib.lost \cup {p}
    BY <2>3, <2>4, <2>5
  <2> HIDE DEF o
  <2> QED
    BY <2>2, <2>6, OutputReady
<1>2. /\ rcFrameList' = rcFrameList /\ storage' = storage /\ taken' = taken
      /\ pcFrameNext' = pcFrameNext /\ uiSeqNumOutput' = uiSeqNumOutput
      /\ uiSeqNumber' = uiSeqNumber /\ lib' = o
  BY DEF NoOutput, list, next
<1>3. l.coded \in Nat /\ lib.coded \in Nat /\ lib.coded <= l.coded
  BY LibTypes, Constants DEF ApiInv, Ready
<1> HIDE DEF o
<1>4. ListTypes'
  <2>1. \A x \in 1..lib.coded : x \in 1..l.coded
    BY <1>3
  <2>2. ToSet(o.queue) \subseteq 1..l.coded
    BY <1>1 DEF ToSet
  <2> QED
    BY <1>1, <1>2, <2>1, <2>2, ListParts, LibTypes DEF ApiInv, ListInv, ListTypes
<1>5. StreamBegun'
  BY <1>1, <1>2, <1>3, ListParts DEF ListInv, StreamBegun
<1>6. CodingOrder'
  BY <1>1, <1>2, <1>3, ListParts DEF ApiInv, CodingOrder
<1>7. Numbered' /\ SomeOut'
  BY <1>2 DEF ApiInv, Numbered, SomeOut, OutUpTo, CallGoesOn
<1>8. HeldNodes'
  <2>1. \A x \in held : \A i \in DOMAIN o.queue : x < o.queue[i]
    BY OutputReady DEF o, Lose
  <2> QED
    BY <1>2, <2>1 DEF ApiInv, HeldNodes
<1>9. LockedNodes'
  <2>1. \A x \in lib.lost : x \in Nat /\ x <= l.coded
    <3>1. \A x \in lib.lost : x \in Nat /\ x <= lib.coded
      BY LibTypes, Constants DEF ApiInv, LockedNodes
    <3> QED
      BY <1>3, <3>1
  <2>2. /\ p \in Nat /\ p <= l.coded
        /\ \A i \in DOMAIN taken : taken[i] \in Nat /\ taken[i] < p
        /\ \A i \in DOMAIN o.queue : p < o.queue[i]
    BY OutputReady, ListParts, <1>3, Constants DEF o, Lose
  <2>3. \A x \in lib.lost : \A i \in DOMAIN o.queue : x < o.queue[i]
    BY OutputReady DEF o, Lose
  <2>4. \A x \in o.lost : /\ x <= l.coded
                          /\ \A i \in DOMAIN taken : taken[i] # x
                          /\ \A i \in DOMAIN o.queue : x < o.queue[i]
    BY <1>1, <2>1, <2>2, <2>3 DEF ApiInv, LockedNodes
  <2> QED
    BY <1>1, <1>2, <2>4 DEF ApiInv, LockedNodes
<1> QED
  BY <1>4, <1>5, <1>6, <1>7, <1>8, <1>9 DEF ListInv

\* xAddPicture gives up.
LEMMA AddFailsStep ==
  ASSUME ApiInv, NEW l, Ready(l), l.queue # <<>>, AddFails(l),
         UNCHANGED <<setup, held, shown, oldest>>,
         CallGoesOn
  PROVE  ListInv'
<1>1. NoOutput(Lose(l)) /\ setup.faults # {}
  BY DEF AddFails, NoOutput
<1> QED
  BY <1>1, LoseStep

\* An exception leaves flushPic().
LEMMA FlushThrownStep ==
  ASSUME ApiInv, NEW l \in FlushThrown, NoOutput(l), setup.faults # {},
         UNCHANGED <<setup, held, shown, oldest>>,
         CallGoesOn
  PROVE  ListInv'
<1>1. CASE l = lib
  BY <1>1, LibReady, FeedStep
<1>2. CASE l # lib
  <2>1. lib.queue # <<>> /\ l = Lose(lib)
    BY <1>2 DEF FlushThrown
  <2> QED
    BY <2>1, LibReady, LoseStep
<1> QED
  BY <1>1, <1>2

\* xAddPicture: the picture gets the next number, and the iterator is set to it
\* when everything before it is out.
LEMMA AddPictureStep ==
  ASSUME ApiInv, NEW l, Ready(l), l.queue # <<>>, NEW converted \in BOOLEAN,
         AddPicture(Head(l.queue), Output(l), converted),
         UNCHANGED <<setup, held, shown, oldest>>,
         CallGoesOn
  PROVE  ListInv' /\ pcFrameNext' # NoPic /\ rcFrameList' # <<>>
<1> DEFINE p == Head(l.queue)
           o == Output(l)
           n == Len(taken)
           k == Len(rcFrameList)
           new == [pic |-> p, seq |-> n, converted |-> converted]
           frames == Append(rcFrameList, new)
<1>1. /\ p \in 1..l.coded /\ p \in 1..MaxPics /\ p \in Nat /\ n + 1 <= p
      /\ \A i \in DOMAIN taken : taken[i] < p
      /\ o \in [queue : Seq(1..MaxPics), locked : SUBSET (1..MaxPics), coded : 0..MaxPics,
                lost : SUBSET (1..MaxPics)]
      /\ o.coded = l.coded /\ o.locked = lib.locked \cup {p} /\ o.lost = lib.lost
      /\ \A x \in lib.lost \cup held : x < p /\ \A i \in DOMAIN o.queue : x < o.queue[i]
      /\ \A i \in DOMAIN o.queue : o.queue[i] \in 1..l.coded /\ p < o.queue[i]
      /\ \A i, j \in DOMAIN o.queue : i < j => o.queue[i] < o.queue[j]
      /\ \A i \in DOMAIN taken : \A j \in DOMAIN o.queue : taken[i] < o.queue[j]
      /\ setup.faults = {} => /\ oldest <= p
                              /\ \A i \in DOMAIN o.queue : oldest <= o.queue[i]
  <2>1. p \in Nat
    BY OutputReady, Constants
  <2> HIDE DEF p, o, n
  <2> QED
    BY <2>1, OutputReady DEF p, o, n
<1>2. l.coded \in 0..MaxPics /\ l.coded \in Nat /\ lib.coded \in Nat /\ lib.coded <= l.coded
      /\ n \in 0..MaxPics /\ n \in Nat /\ k \in Nat /\ n < MaxPics
  BY <1>1, LibTypes, ListParts, Positions, Constants DEF ApiInv, Ready
<1>3. uiSeqNumber = n
  BY DEF ApiInv, Numbered
<1>4. /\ rcFrameList' = frames /\ uiSeqNumber' = n + 1 /\ uiSeqNumOutput' = uiSeqNumOutput
      /\ storage' = (IF converted THEN storage \cup {n} ELSE storage)
      /\ lib' = (IF converted THEN [o EXCEPT !.locked = @ \ {p}] ELSE o)
      /\ taken' = Append(taken, p)
      /\ pcFrameNext' = (IF pcFrameNext # NoPic THEN pcFrameNext
                         ELSE IF n = 0 THEN frames[1].pic ELSE FirstAfter(frames))
  BY <1>3 DEF AddPicture
<1>5. /\ new \in Frames /\ frames \in Seq(Frames) /\ Len(frames) = k + 1
      /\ DOMAIN frames = 1..(k + 1) /\ DOMAIN rcFrameList = 1..k
      /\ \A i \in 1..k : frames[i] = rcFrameList[i]
      /\ frames[k + 1] = new
      /\ frames # <<>>
  <2>1. new \in Frames
    BY <1>1, <1>2 DEF Frames
  <2> HIDE DEF new
  <2> QED
    BY <1>2, <2>1, Sequences, Positions, AppendProperties, LenProperties DEF ApiInv
<1>6. /\ taken' \in Seq(1..MaxPics) /\ Len(taken') = n + 1
      /\ DOMAIN taken' = 1..(n + 1) /\ DOMAIN taken = 1..n
      /\ \A i \in 1..n : taken'[i] = taken[i]
      /\ taken'[n + 1] = p
  BY <1>1, <1>2, <1>4, Sequences, Positions, AppendProperties, LenProperties DEF ApiInv
<1>7. /\ lib'.queue = o.queue /\ lib'.coded = l.coded /\ lib'.lost = lib.lost
      /\ lib'.locked = (IF converted THEN lib.locked \ {p} ELSE lib.locked \cup {p})
      /\ lib' \in [queue : Seq(1..MaxPics), locked : SUBSET (1..MaxPics), coded : 0..MaxPics,
                   lost : SUBSET (1..MaxPics)]
  <2>1. o.locked \ {p} = lib.locked \ {p}
    BY <1>1
  <2>2. CASE converted
    <3>1. \A s \in SUBSET (1..MaxPics) :
            /\ [o EXCEPT !.locked = s] \in
                 [queue : Seq(1..MaxPics), locked : SUBSET (1..MaxPics), coded : 0..MaxPics,
                  lost : SUBSET (1..MaxPics)]
            /\ [o EXCEPT !.locked = s].queue = o.queue
            /\ [o EXCEPT !.locked = s].coded = o.coded
            /\ [o EXCEPT !.locked = s].lost = o.lost
            /\ [o EXCEPT !.locked = s].locked = s
      BY <1>1
    <3>2. o.locked \ {p} \in SUBSET (1..MaxPics) /\ lib' = [o EXCEPT !.locked = o.locked \ {p}]
      BY <1>1, <1>4, <2>2
    <3> QED
      BY <1>1, <2>1, <2>2, <3>1, <3>2
  <2>3. CASE ~converted
    BY <1>1, <1>4, <2>3
  <2> QED
    BY <2>2, <2>3
<1> HIDE DEF p, o, n, k, new, frames
<1>8. \A i \in 1..k : /\ frames[i].pic = rcFrameList[i].pic /\ frames[i].seq = rcFrameList[i].seq
                      /\ frames[i].converted = rcFrameList[i].converted
                      /\ frames[i].seq \in Nat /\ frames[i].seq < n /\ frames[i].pic < p
  <2> SUFFICES ASSUME NEW i \in 1..k PROVE frames[i].seq \in Nat /\ frames[i].seq < n /\ frames[i].pic < p
    BY <1>5
  <2>1. rcFrameList[i].seq \in Nat /\ rcFrameList[i].seq < n
    BY <1>5, Elements DEF ApiInv, Numbered, n
  <2>2. rcFrameList[i].pic = taken[rcFrameList[i].seq + 1]
    BY <1>5 DEF ApiInv, Numbered
  <2>3. rcFrameList[i].seq + 1 \in DOMAIN taken
    BY <1>2, <1>6, <2>1
  <2> QED
    BY <1>1, <1>5, <2>1, <2>2, <2>3
<1>9. frames[k + 1].pic = p /\ frames[k + 1].seq = n /\ frames[k + 1].converted = converted
  BY <1>5 DEF new
<1>10. PICK g \in 0..n : OutUpTo(g)
  BY DEF ApiInv, SomeOut, n
<1>11. pcFrameNext' = taken'[g + 1]
  <2>1. CASE g < n
    <3>1. g + 1 \in DOMAIN taken /\ pcFrameNext = taken[g + 1]
      <4>1. pcFrameNext = IF g = n THEN NoPic ELSE taken[g + 1]
        BY <1>10 DEF OutUpTo, n
      <4> QED
        BY <1>2, <1>6, <2>1, <4>1
    <3>2. pcFrameNext # NoPic
      BY <3>1, ListParts
    <3> QED
      BY <1>4, <1>6, <3>1, <3>2
  <2>2. CASE g = n /\ n = 0
    <3>1. k = 0
      <4>1. k # 0 => 1 \in 1..k
        BY <1>2
      <4>2. 1 \in 1..k => frames[1].seq \in Nat /\ frames[1].seq < 0
        BY <1>8, <2>2
      <4> QED
        BY <4>1, <4>2
    <3>2. pcFrameNext = NoPic
      BY <1>10, <2>2 DEF OutUpTo, n
    <3> QED
      BY <1>4, <1>6, <1>9, <2>2, <3>1, <3>2
  <2>3. CASE g = n /\ n # 0
    <3>1. pcFrameNext = NoPic /\ uiSeqNumOutput = n - 1
      BY <1>10, <2>3 DEF OutUpTo, n
    <3> DEFINE I == {i \in 1..Len(frames) : frames[i].seq > uiSeqNumOutput}
    <3>2. \A i \in 1..k : ~(frames[i].seq > n - 1)
      BY <1>2, <1>8
    <3>3. I = {k + 1}
      BY <1>2, <1>5, <1>9, <3>1, <3>2
    <3>4. Min(I) = k + 1
      BY <1>2, <3>3 DEF Min
    <3>5. FirstAfter(frames) = frames[k + 1].pic
      BY <1>2, <3>3, <3>4 DEF FirstAfter, SelectInSeq, At
    <3> QED
      BY <1>4, <1>6, <1>9, <2>3, <3>1, <3>5
  <2> QED
    BY <1>2, <2>1, <2>2, <2>3
<1>12. pcFrameNext' \in 1..MaxPics
  <2>1. g + 1 \in DOMAIN taken'
    BY <1>2, <1>6
  <2> QED
    BY <1>6, <1>11, <2>1, ElementOfSeq
<1>13. ListTypes'
  <2>1. \A x \in 1..lib.coded : x \in 1..l.coded
    BY <1>2
  <2>2. ToSet(o.queue) \subseteq 1..l.coded
    BY <1>1 DEF ToSet
  <2>3. held' \subseteq 1..l.coded /\ lib'.locked \subseteq 1..l.coded
    BY <1>1, <1>7, <2>1, LibTypes DEF ApiInv
  <2>4. n + 1 \in 0..MaxPics /\ n \in 0..MaxPics /\ pcFrameNext' \in 0..MaxPics
    BY <1>2, <1>12, Constants
  <2>5. {pcFrameNext, uiSeqNumber, uiSeqNumOutput}' \cup storage' \subseteq 0..MaxPics
    BY <1>4, <2>4, ListParts DEF ListInv, ListTypes
  <2> QED
    BY <1>4, <1>5, <1>6, <1>7, <2>2, <2>3, <2>5, ListParts DEF ListInv, ListTypes
<1>14. StreamBegun'
  <2>1. oldest \in Nat /\ oldest' = oldest /\ setup' = setup
    BY ListParts DEF ListInv, StreamBegun
  <2>2. setup.faults = {} => /\ oldest <= lib'.coded + 1
                             /\ \A i \in 1..n : oldest <= taken'[i]
    <3>1. setup.faults = {} => /\ oldest <= lib.coded + 1
                               /\ \A i \in 1..n : oldest <= taken[i]
      BY <1>6, ListParts DEF ListInv, StreamBegun
    <3> QED
      BY <1>2, <1>6, <1>7, <2>1, <3>1
  <2>3. setup.faults = {} => \A i \in DOMAIN taken' : oldest <= taken'[i]
    BY <1>1, <1>2, <1>6, <2>2
  <2> QED
    BY <1>1, <1>7, <2>1, <2>2, <2>3 DEF StreamBegun
<1>15. CodingOrder'
  <2>1. \A i, j \in DOMAIN taken' : i < j => taken'[i] < taken'[j]
    <3> SUFFICES ASSUME NEW i \in DOMAIN taken', NEW j \in DOMAIN taken', i < j
                 PROVE  taken'[i] < taken'[j]
      OBVIOUS
    <3>1. i \in 1..n
      BY <1>2, <1>6
    <3>2. CASE j \in 1..n
      BY <1>6, <3>1, <3>2 DEF ApiInv, CodingOrder
    <3>3. CASE j = n + 1
      BY <1>1, <1>6, <3>1, <3>3
    <3> QED
      BY <1>2, <1>6, <3>2, <3>3
  <2>2. \A i \in 1..n : i <= taken'[i] /\ taken'[i] <= l.coded
    <3>1. \A i \in 1..n : i <= taken[i] /\ taken[i] <= lib.coded /\ taken[i] \in Nat
      BY <1>6, Elements DEF ApiInv, CodingOrder
    <3> QED
      BY <1>2, <1>6, <3>1
  <2>3. \A i \in DOMAIN taken' : /\ i <= taken'[i] /\ taken'[i] <= l.coded
                                 /\ \A j \in DOMAIN o.queue : taken'[i] < o.queue[j]
    BY <1>1, <1>2, <1>6, <2>2
  <2> QED
    BY <1>1, <1>7, <2>1, <2>3 DEF CodingOrder
<1>16. Numbered'
  <2>1. \A i \in 1..(k + 1) : frames[i].seq < n + 1 /\ frames[i].pic = taken'[frames[i].seq + 1]
    <3>1. \A i \in 1..k : frames[i].pic = taken[frames[i].seq + 1]
      BY <1>5 DEF ApiInv, Numbered
    <3>2. \A i \in 1..k : frames[i].seq + 1 \in 1..n /\ frames[i].seq < n + 1
      BY <1>2, <1>8
    <3>3. \A i \in 1..k : frames[i].pic = taken'[frames[i].seq + 1]
      BY <1>6, <3>1, <3>2
    <3>4. frames[k + 1].seq < n + 1 /\ frames[k + 1].pic = taken'[frames[k + 1].seq + 1]
      BY <1>2, <1>6, <1>9
    <3>5. \A i \in 1..(k + 1) : i \in 1..k \/ i = k + 1
      BY <1>2
    <3> QED
      BY <3>2, <3>3, <3>4, <3>5
  <2>2. \A i, j \in 1..(k + 1) : i < j => frames[i].seq < frames[j].seq
    <3> SUFFICES ASSUME NEW i \in 1..(k + 1), NEW j \in 1..(k + 1), i < j
                 PROVE  frames[i].seq < frames[j].seq
      OBVIOUS
    <3>1. i \in 1..k
      BY <1>2
    <3>2. CASE j \in 1..k
      BY <1>5, <3>1, <3>2 DEF ApiInv, Numbered
    <3>3. CASE j = k + 1
      BY <1>8, <1>9, <3>1, <3>3
    <3> QED
      BY <1>2, <3>2, <3>3
  <2> QED
    BY <1>4, <1>5, <1>6, <2>1, <2>2 DEF Numbered
<1>17. SomeOut'
  <2>1. OutUpTo(g)'
    <3>1. Len(shown) <= g /\ (call.reset \/ Len(shown) = g) /\ uiSeqNumOutput = IF g = 0 THEN 0 ELSE g - 1
      BY <1>10 DEF OutUpTo
    <3>2. \A m \in g..n : \E i \in DOMAIN frames : frames[i].seq = m
      <4> SUFFICES ASSUME NEW m \in g..n PROVE \E i \in DOMAIN frames : frames[i].seq = m
        OBVIOUS
      <4>1. CASE m = n
        BY <1>2, <1>5, <1>9, <4>1
      <4>2. CASE m \in g..(n - 1)
        <5>1. \E i \in 1..k : rcFrameList[i].seq = m
          BY <1>5, <1>10, <4>2 DEF OutUpTo, n
        <5>2. \A i \in 1..k : i \in DOMAIN frames
          BY <1>2, <1>5
        <5> QED
          BY <1>8, <5>1, <5>2
      <4> QED
        BY <1>2, <4>1, <4>2
    <3>3. g # n + 1 /\ (n + 1) - 1 = n
      BY <1>2
    <3> QED
      BY <1>4, <1>6, <1>11, <3>1, <3>2, <3>3 DEF OutUpTo, CallGoesOn
  <2>2. IsPrefix(shown, taken')
    <3>1. Len(shown) <= n /\ SubSeq(shown, 1, Len(shown)) = SubSeq(taken, 1, Len(shown)) /\ Len(shown) \in Nat
      BY Positions DEF ApiInv, SomeOut, IsPrefix, n
    <3>2. SubSeq(taken', 1, Len(shown)) = SubSeq(taken, 1, Len(shown))
      <4> DEFINE a == SubSeq(taken', 1, Len(shown))
                 b == SubSeq(taken, 1, Len(shown))
      <4>1. /\ \A i \in 1..Len(shown) : taken'[i] \in 1..MaxPics /\ taken[i] \in 1..MaxPics
            /\ \A i \in 1..Len(shown) : taken'[i] = taken[i]
        BY <1>2, <1>6, <3>1, Elements DEF ApiInv
      <4>2. a \in Seq(1..MaxPics) /\ Len(a) = Len(shown) /\ \A i \in 1..Len(shown) : a[i] = taken'[i]
        BY <3>1, <4>1, SubSeqProperties
      <4>3. b \in Seq(1..MaxPics) /\ Len(b) = Len(shown) /\ \A i \in 1..Len(shown) : b[i] = taken[i]
        BY <3>1, <4>1, SubSeqProperties
      <4> QED
        BY <4>1, <4>2, <4>3, SeqEqual
    <3> QED
      BY <1>2, <1>6, <3>1, <3>2 DEF IsPrefix
  <2>3. g \in 0..Len(taken')
    BY <1>2, <1>6
  <2> QED
    BY <2>1, <2>2, <2>3 DEF SomeOut
<1>18. HeldNodes'
  <2> SUFFICES ASSUME NEW q \in held
      PROVE  /\ \/ \E i \in 1..(k + 1) : frames[i].pic = q /\ frames[i].seq < Len(shown)
                \/ \A i \in 1..(n + 1) : taken'[i] # q
             /\ \A i \in DOMAIN o.queue : q < o.queue[i]
    BY <1>4, <1>5, <1>6, <1>7 DEF HeldNodes
  <2>1. q < p /\ q # p /\ \A i \in DOMAIN o.queue : q < o.queue[i]
    <3>1. q \in Nat
      BY LibTypes, Constants DEF ApiInv
    <3> QED
      BY <1>1, <3>1
  <2>2. CASE \E i \in DOMAIN rcFrameList : rcFrameList[i].pic = q /\ rcFrameList[i].seq < Len(shown)
    <3>1. PICK i \in 1..k : rcFrameList[i].pic = q /\ rcFrameList[i].seq < Len(shown)
      BY <1>5, <2>2
    <3>2. i \in 1..(k + 1)
      BY <1>2
    <3> QED
      BY <1>8, <2>1, <3>1, <3>2
  <2>3. CASE \A i \in DOMAIN taken : taken[i] # q
    <3>1. \A i \in 1..(n + 1) : i \in 1..n \/ i = n + 1
      BY <1>2
    <3> QED
      BY <1>6, <2>1, <2>3, <3>1
  <2> QED
    BY <2>2, <2>3 DEF ApiInv, HeldNodes
<1>19. LockedNodes'
  <2>1. \A q \in 1..MaxPics : q \in lib.locked <=>
          \/ q \in lib.lost
          \/ \E i \in 1..k : frames[i].pic = q /\ ~frames[i].converted
    BY <1>5, <1>8 DEF ApiInv, LockedNodes
  <2>2. \A m \in 0..MaxPics : m \in storage <=>
          \E i \in 1..k : frames[i].seq = m /\ frames[i].converted
    BY <1>5, <1>8 DEF ApiInv, LockedNodes
  <2>3. \A i \in 1..(k + 1) : i \in 1..k \/ i = k + 1
    BY <1>2
  <2>4. \A i \in 1..k : i \in 1..(k + 1) /\ frames[i].pic # p /\ frames[i].seq # n
    <3>1. \A i \in 1..k : frames[i].pic \in Nat
      BY <1>5, <1>8, Elements DEF ApiInv
    <3> QED
      BY <1>1, <1>2, <1>8, <3>1
  <2>5. k + 1 \in 1..(k + 1)
    BY <1>2
  <2>6. ASSUME NEW q \in 1..MaxPics
        PROVE  q \in lib'.locked <=>
                 \/ q \in lib.lost
                 \/ \E i \in 1..(k + 1) : frames[i].pic = q /\ ~frames[i].converted
    <3>1. p \notin lib.lost
      BY <1>1
    <3> QED
      BY <1>7, <1>9, <2>1, <2>3, <2>4, <2>5, <3>1
  <2>7. ASSUME NEW m \in 0..MaxPics
        PROVE  m \in storage' <=> \E i \in 1..(k + 1) : frames[i].seq = m /\ frames[i].converted
    BY <1>4, <1>9, <2>2, <2>3, <2>4, <2>5
  <2>8. \A x \in lib.lost : /\ x <= l.coded
                            /\ \A i \in DOMAIN taken' : taken'[i] # x
                            /\ \A j \in DOMAIN o.queue : x < o.queue[j]
    <3> SUFFICES ASSUME NEW x \in lib.lost
                 PROVE  x <= l.coded /\ \A i \in DOMAIN taken' : taken'[i] # x
      BY <1>1
    <3>1. x \in Nat /\ x <= lib.coded /\ x # p
      BY <1>1, LibTypes, Constants DEF ApiInv, LockedNodes
    <3>2. \A i \in 1..n : taken'[i] # x
      BY <1>6 DEF ApiInv, LockedNodes
    <3> QED
      BY <1>2, <1>6, <3>1, <3>2
  <2>9. setup'.faults = {} => lib.lost = {}
    BY DEF ApiInv, LockedNodes
  <2> QED
    BY <1>4, <1>5, <1>7, <2>6, <2>7, <2>8, <2>9 DEF LockedNodes
<1> QED
  <2>1. rcFrameList' # <<>> /\ pcFrameNext' # NoPic
    BY <1>4, <1>5, <1>12 DEF NoPic
  <2> QED
    BY <2>1, <1>13, <1>14, <1>15, <1>16, <1>17, <1>18, <1>19 DEF ListInv

\* The frame that goes out is the first that is not out yet, and the iterator
\* moves to the one behind it.
LEMMA AdvanceStep ==
  ASSUME ApiInv, Advance
  PROVE  \E g \in 0..(Len(taken) - 1) :
           LET i == Find(pcFrameNext)
           IN /\ OutUpTo(g)
              /\ i \in DOMAIN rcFrameList /\ rcFrameList[i].seq = g
              /\ pcFrameNext = taken[g + 1] /\ rcFrameList[i].pic = pcFrameNext
              /\ uiSeqNumOutput' = g
              /\ pcFrameNext' = IF g + 1 = Len(taken) THEN NoPic ELSE taken[g + 2]
<1> DEFINE n == Len(taken)  k == Len(rcFrameList)
<1>1. n \in Nat /\ k \in Nat /\ DOMAIN rcFrameList = 1..k /\ DOMAIN taken = 1..n
  BY Positions DEF ApiInv
<1>2. PICK g \in 0..n : OutUpTo(g)
  BY DEF ApiInv, SomeOut
<1>3. pcFrameNext = IF g = n THEN NoPic ELSE taken[g + 1]
  BY <1>2 DEF OutUpTo
<1>4. g \in 0..(n - 1) /\ pcFrameNext = taken[g + 1]
  <2>1. pcFrameNext # NoPic
    BY DEF Advance
  <2>2. g # n /\ pcFrameNext = taken[g + 1]
    BY <1>3, <2>1
  <2> HIDE DEF n
  <2> QED
    BY <1>1, <2>2
<1>5. \A m \in g..(n - 1) : \E i \in 1..k : rcFrameList[i].seq = m
  BY <1>1, <1>2 DEF OutUpTo
<1>6. \A i \in 1..k : /\ rcFrameList[i].seq < n /\ rcFrameList[i].seq \in Nat
                      /\ rcFrameList[i].pic = taken[rcFrameList[i].seq + 1]
  BY <1>1, Elements DEF ApiInv, Numbered
<1>7. \A i, j \in 1..k : i < j => rcFrameList[i].seq < rcFrameList[j].seq
  BY <1>1 DEF ApiInv, Numbered
<1> HIDE DEF n, k
<1>8. PICK i \in 1..k : rcFrameList[i].seq = g
  BY <1>1, <1>4, <1>5
<1>9. rcFrameList[i].pic = pcFrameNext
  BY <1>4, <1>6, <1>8
<1>10. Find(pcFrameNext) = i
  BY <1>1, <1>8, <1>9, FindNode DEF ApiInv
<1>11. Behind(pcFrameNext) = IF g + 1 = n THEN NoPic ELSE taken[g + 2]
  <2>1. Behind(pcFrameNext) = IF i = k THEN NoPic ELSE rcFrameList[i + 1].pic
    BY <1>10 DEF Behind, k
  <2>2. CASE g + 1 = n
    <3>1. i + 1 \in 1..k => FALSE
      <4>1. i + 1 \in 1..k => rcFrameList[i + 1].seq < n /\ rcFrameList[i + 1].seq > g
                              /\ rcFrameList[i + 1].seq \in Nat
        BY <1>1, <1>6, <1>7, <1>8
      <4> QED
        BY <1>4, <2>2, <4>1
    <3>2. i = k
      BY <1>1, <3>1
    <3> QED
      BY <2>1, <2>2, <3>2
  <2>3. CASE g + 1 # n
    <3>1. g + 1 \in g..(n - 1)
      BY <1>1, <1>4, <2>3
    <3>2. PICK j \in 1..k : rcFrameList[j].seq = g + 1
      BY <1>5, <3>1
    <3>3. i < j
      <4>1. ~(j < i) /\ j # i
        BY <1>4, <1>7, <1>8, <3>2
      <4> QED
        BY <1>1, <4>1
    <3>4. i + 1 \in 1..k /\ i # k
      BY <1>1, <3>3
    <3>5. ~(i + 1 < j)
      <4>1. i + 1 < j => rcFrameList[i].seq < rcFrameList[i + 1].seq
                         /\ rcFrameList[i + 1].seq < rcFrameList[j].seq
        BY <1>1, <1>7, <3>4
      <4>2. rcFrameList[i + 1].seq \in Nat
        BY <1>6, <3>4
      <4> QED
        BY <1>4, <1>8, <3>2, <4>1, <4>2
    <3>6. j = i + 1
      BY <1>1, <3>3, <3>5
    <3>7. rcFrameList[i + 1].pic = taken[g + 2]
      <4>1. rcFrameList[j].pic = taken[(g + 1) + 1] /\ (g + 1) + 1 = g + 2
        BY <1>4, <1>6, <3>2
      <4> QED
        BY <3>6, <4>1
    <3> QED
      BY <2>1, <2>3, <3>4, <3>7
  <2> QED
    BY <2>2, <2>3
<1>12. uiSeqNumOutput' = g /\ pcFrameNext' = Behind(pcFrameNext)
  BY <1>8, <1>10 DEF Advance, SequenceNumber
<1> QED
  BY <1>1, <1>2, <1>4, <1>8, <1>9, <1>10, <1>11, <1>12 DEF n

\* Erasing a node that the application does not have (any more): what does not
\* depend on the iterator.
LEMMA EraseStep ==
  ASSUME ApiInv, NEW i \in DOMAIN rcFrameList, Erase(i),
         UNCHANGED <<setup, oldest, shown, uiSeqNumber>>, held' \subseteq held,
         rcFrameList[i].pic \notin held',
         CallGoesOn
  PROVE  /\ rcFrameList' \in Seq(Frames) /\ taken' = taken
         /\ storage' \subseteq storage
         /\ lib' \in [queue : Seq(1..MaxPics), locked : SUBSET (1..MaxPics), coded : 0..MaxPics,
                      lost : SUBSET (1..MaxPics)]
         /\ lib'.queue = lib.queue /\ lib'.coded = lib.coded /\ lib'.locked \subseteq lib.locked
         /\ \A j \in DOMAIN rcFrameList : j # i =>
              \E m \in DOMAIN rcFrameList' : rcFrameList'[m] = rcFrameList[j]
         /\ StreamBegun' /\ CodingOrder' /\ Numbered' /\ HeldNodes' /\ LockedNodes'
<1> DEFINE k == Len(rcFrameList)
           r == rcFrameList'
           a == SubSeq(rcFrameList, 1, i - 1)
           b == SubSeq(rcFrameList, i + 1, k)
           back(j) == IF j < i THEN j ELSE j + 1
           fwd(j) == IF j < i THEN j ELSE j - 1
<1>1. k \in Nat /\ DOMAIN rcFrameList = 1..k /\ i \in 1..k
      /\ \A j \in 1..k : rcFrameList[j] \in Frames
  BY Positions, Elements DEF ApiInv
<1>2. r = a \o b /\ taken' = taken /\ storage' = storage \ {rcFrameList[i].seq}
      /\ lib' = (IF rcFrameList[i].converted THEN lib
                 ELSE [lib EXCEPT !.locked = @ \ {rcFrameList[i].pic}])
  BY DEF Erase, RemoveAt
<1>3. /\ a \in Seq(Frames) /\ Len(a) = i - 1 /\ \A j \in 1..(i - 1) : a[j] = rcFrameList[j]
  <2>1. 1 \in Int /\ i - 1 \in Int /\ \A j \in 1..(i - 1) : rcFrameList[j] \in Frames
    BY <1>1
  <2>2. /\ a \in Seq(Frames) /\ Len(a) = (IF 1 <= i - 1 THEN (i - 1) - 1 + 1 ELSE 0)
        /\ \A j \in 1..((i - 1) - 1 + 1) : a[j] = rcFrameList[1 + j - 1]
    BY <2>1, SubSeqProperties
  <2>3. (i - 1) - 1 + 1 = i - 1 /\ \A j \in 1..(i - 1) : 1 + j - 1 = j
    BY <1>1
  <2> QED
    BY <1>1, <2>2, <2>3
<1>4. /\ b \in Seq(Frames) /\ Len(b) = k - i /\ \A j \in 1..(k - i) : b[j] = rcFrameList[i + j]
  <2>1. i + 1 \in Int /\ k \in Int /\ \A j \in (i + 1)..k : rcFrameList[j] \in Frames
    BY <1>1
  <2>2. /\ b \in Seq(Frames) /\ Len(b) = (IF i + 1 <= k THEN k - (i + 1) + 1 ELSE 0)
        /\ \A j \in 1..(k - (i + 1) + 1) : b[j] = rcFrameList[(i + 1) + j - 1]
    BY <2>1, SubSeqProperties
  <2>3. k - (i + 1) + 1 = k - i /\ \A j \in 1..(k - i) : (i + 1) + j - 1 = i + j
    BY <1>1
  <2> QED
    BY <1>1, <2>2, <2>3
<1> HIDE DEF a, b, k
<1>5. /\ r \in Seq(Frames) /\ Len(r) = k - 1
      /\ \A j \in 1..(k - 1) : r[j] = rcFrameList[back(j)]
  <2>1. /\ a \o b \in Seq(Frames) /\ Len(a \o b) = Len(a) + Len(b)
        /\ \A j \in 1..(Len(a) + Len(b)) : (a \o b)[j] = IF j <= Len(a) THEN a[j] ELSE b[j - Len(a)]
    BY <1>3, <1>4, ConcatProperties
  <2>2. Len(a) + Len(b) = k - 1
    BY <1>1, <1>3, <1>4
  <2>3. \A j \in 1..(k - 1) : r[j] = rcFrameList[back(j)]
    <3> SUFFICES ASSUME NEW j \in 1..(k - 1) PROVE r[j] = rcFrameList[back(j)]
      OBVIOUS
    <3>1. CASE j < i
      BY <1>1, <1>2, <1>3, <2>1, <2>2, <3>1
    <3>2. CASE ~(j < i)
      <4>1. r[j] = b[j - (i - 1)]
        BY <1>1, <1>2, <1>3, <2>1, <2>2, <3>2
      <4>2. j - (i - 1) \in 1..(k - i) /\ i + (j - (i - 1)) = j + 1
        BY <1>1, <3>2
      <4> QED
        BY <1>4, <3>2, <4>1, <4>2
    <3> QED
      BY <3>1, <3>2
  <2> QED
    BY <1>2, <2>1, <2>2, <2>3
<1>6. DOMAIN r = 1..(k - 1)
  BY <1>5, LenProperties
<1>7. \A j \in 1..(k - 1) : back(j) \in 1..k /\ back(j) # i
  BY <1>1
<1>8. \A j \in 1..k : j # i => fwd(j) \in 1..(k - 1) /\ back(fwd(j)) = j
  BY <1>1
<1>9. \A j, m \in 1..(k - 1) : j < m => back(j) < back(m)
  BY <1>1
<1>10. \A j \in 1..k : j # i => \E m \in DOMAIN r : r[m] = rcFrameList[j]
  <2> SUFFICES ASSUME NEW j \in 1..k, j # i PROVE r[fwd(j)] = rcFrameList[j] /\ fwd(j) \in DOMAIN r
    OBVIOUS
  <2> QED
    BY <1>5, <1>6, <1>8
<1>11. /\ lib' \in [queue : Seq(1..MaxPics), locked : SUBSET (1..MaxPics), coded : 0..MaxPics,
                    lost : SUBSET (1..MaxPics)]
       /\ lib'.queue = lib.queue /\ lib'.coded = lib.coded /\ lib'.lost = lib.lost
       /\ lib'.locked = IF rcFrameList[i].converted THEN lib.locked
                        ELSE lib.locked \ {rcFrameList[i].pic}
  <2>1. \A s \in SUBSET (1..MaxPics) :
          /\ [lib EXCEPT !.locked = s] \in
               [queue : Seq(1..MaxPics), locked : SUBSET (1..MaxPics), coded : 0..MaxPics,
                lost : SUBSET (1..MaxPics)]
          /\ [lib EXCEPT !.locked = s].queue = lib.queue
          /\ [lib EXCEPT !.locked = s].coded = lib.coded
          /\ [lib EXCEPT !.locked = s].lost = lib.lost
          /\ [lib EXCEPT !.locked = s].locked = s
    BY LibTypes DEF ApiInv
  <2>2. lib.locked \ {rcFrameList[i].pic} \in SUBSET (1..MaxPics)
    BY LibTypes DEF ApiInv
  <2> QED
    BY <1>2, <2>1, <2>2, LibTypes DEF ApiInv
<1>12. StreamBegun' /\ CodingOrder'
  <2>1. StreamBegun'
    BY <1>2, <1>11, ListParts DEF ListInv, StreamBegun
  <2>2. CodingOrder'
    BY <1>2, <1>11 DEF ApiInv, CodingOrder
  <2> QED
    BY <2>1, <2>2
<1>13. Numbered'
  <2>1. ASSUME NEW j \in 1..(k - 1)
        PROVE  r[j].seq < Len(taken) /\ r[j].pic = taken[r[j].seq + 1]
    <3>1. \A x \in 1..k : /\ rcFrameList[x].seq < Len(taken)
                          /\ rcFrameList[x].pic = taken[rcFrameList[x].seq + 1]
      BY <1>1 DEF ApiInv, Numbered
    <3>2. r[j] = rcFrameList[back(j)] /\ back(j) \in 1..k
      BY <1>5, <1>7
    <3> HIDE DEF back
    <3> QED
      BY <3>1, <3>2
  <2>2. ASSUME NEW j \in 1..(k - 1), NEW m \in 1..(k - 1), j < m PROVE r[j].seq < r[m].seq
    <3>1. \A x, y \in 1..k : x < y => rcFrameList[x].seq < rcFrameList[y].seq
      BY <1>1 DEF ApiInv, Numbered
    <3>2. r[j] = rcFrameList[back(j)] /\ r[m] = rcFrameList[back(m)]
      BY <1>5
    <3>3. back(j) \in 1..k /\ back(m) \in 1..k /\ back(j) < back(m)
      BY <1>7, <1>9, <2>2
    <3> HIDE DEF back
    <3> QED
      BY <3>1, <3>2, <3>3
  <2>3. uiSeqNumber' = Len(taken')
    BY <1>2 DEF ApiInv, Numbered
  <2> QED
    BY <1>2, <1>6, <2>1, <2>2, <2>3 DEF Numbered
<1>14. HeldNodes'
  <2> SUFFICES ASSUME NEW p \in held'
      PROVE  /\ \/ \E m \in DOMAIN r : r[m].pic = p /\ r[m].seq < Len(shown)
                \/ \A m \in DOMAIN taken : taken[m] # p
             /\ \A m \in DOMAIN lib.queue : p < lib.queue[m]
    BY <1>2, <1>11 DEF HeldNodes
  <2>1. /\ \/ \E j \in 1..k : rcFrameList[j].pic = p /\ rcFrameList[j].seq < Len(shown)
           \/ \A m \in DOMAIN taken : taken[m] # p
        /\ \A m \in DOMAIN lib.queue : p < lib.queue[m]
    BY <1>1 DEF ApiInv, HeldNodes
  <2>2. ASSUME NEW j \in 1..k, rcFrameList[j].pic = p, rcFrameList[j].seq < Len(shown)
        PROVE  \E m \in DOMAIN r : r[m].pic = p /\ r[m].seq < Len(shown)
    <3>1. j # i
      BY <2>2
    <3> QED
      BY <1>10, <2>2, <3>1
  <2> QED
    BY <2>1, <2>2
<1>15. LockedNodes'
  <2>1. \A q \in 1..MaxPics : q \in lib.locked <=>
          \/ q \in lib.lost
          \/ \E j \in 1..k : rcFrameList[j].pic = q /\ ~rcFrameList[j].converted
    BY <1>1 DEF ApiInv, LockedNodes
  <2>2. \A s \in 0..MaxPics : s \in storage <=>
          \E j \in 1..k : rcFrameList[j].seq = s /\ rcFrameList[j].converted
    BY <1>1 DEF ApiInv, LockedNodes
  <2>3. \A j \in 1..k : j # i => /\ rcFrameList[j].pic # rcFrameList[i].pic
                                 /\ rcFrameList[j].seq # rcFrameList[i].seq
    BY <1>1, OneNode DEF ApiInv
  <2>4. \A m \in DOMAIN r : \E j \in 1..k : j # i /\ r[m] = rcFrameList[j]
    BY <1>5, <1>6, <1>7
  <2>5. rcFrameList[i].pic \notin lib.lost
    <3>1. /\ rcFrameList[i].seq \in Nat /\ rcFrameList[i].seq < Len(taken)
          /\ rcFrameList[i].pic = taken[rcFrameList[i].seq + 1]
      BY <1>1, Elements DEF ApiInv, Numbered
    <3>2. rcFrameList[i].seq + 1 \in DOMAIN taken
      BY <3>1, Positions DEF ApiInv
    <3> QED
      BY <3>1, <3>2 DEF ApiInv, LockedNodes
  <2>6. ASSUME NEW q \in 1..MaxPics
        PROVE  q \in lib'.locked <=>
                 \/ q \in lib.lost
                 \/ \E m \in DOMAIN r : r[m].pic = q /\ ~r[m].converted
    <3>1. ASSUME q \in lib'.locked, q \notin lib.lost
          PROVE  \E m \in DOMAIN r : r[m].pic = q /\ ~r[m].converted
      <4>1. q \in lib.locked /\ (q # rcFrameList[i].pic \/ rcFrameList[i].converted)
        BY <1>11, <3>1
      <4>2. PICK j \in 1..k : rcFrameList[j].pic = q /\ ~rcFrameList[j].converted
        BY <2>1, <3>1, <4>1
      <4>3. j # i
        BY <4>1, <4>2
      <4> QED
        BY <1>10, <4>2, <4>3
    <3>2. ASSUME NEW m \in DOMAIN r, r[m].pic = q, ~r[m].converted PROVE q \in lib'.locked
      <4>1. PICK j \in 1..k : j # i /\ r[m] = rcFrameList[j]
        BY <2>4
      <4> QED
        BY <1>11, <2>1, <2>3, <3>2, <4>1
    <3>3. ASSUME q \in lib.lost PROVE q \in lib'.locked
      <4>1. q # rcFrameList[i].pic
        BY <2>5, <3>3
      <4> QED
        BY <1>11, <2>1, <3>3, <4>1
    <3> QED
      BY <3>1, <3>2, <3>3
  <2>7. ASSUME NEW s \in 0..MaxPics
        PROVE  s \in storage' <=> \E m \in DOMAIN r : r[m].seq = s /\ r[m].converted
    <3>1. ASSUME s \in storage' PROVE \E m \in DOMAIN r : r[m].seq = s /\ r[m].converted
      <4>1. PICK j \in 1..k : rcFrameList[j].seq = s /\ rcFrameList[j].converted
        BY <1>2, <2>2, <3>1
      <4>2. j # i
        BY <1>2, <3>1, <4>1
      <4> QED
        BY <1>10, <4>1, <4>2
    <3>2. ASSUME NEW m \in DOMAIN r, r[m].seq = s, r[m].converted PROVE s \in storage'
      <4>1. PICK j \in 1..k : j # i /\ r[m] = rcFrameList[j]
        BY <2>4
      <4> QED
        BY <1>2, <2>2, <2>3, <3>2, <4>1
    <3> QED
      BY <3>1, <3>2
  <2>8. /\ \A x \in lib'.lost :
             /\ x <= lib'.coded
             /\ \A j \in DOMAIN taken' : taken'[j] # x
             /\ \A j \in DOMAIN lib'.queue : x < lib'.queue[j]
        /\ setup'.faults = {} => lib'.lost = {}
    BY <1>2, <1>11 DEF ApiInv, LockedNodes
  <2> QED
    BY <1>11, <2>6, <2>7, <2>8 DEF LockedNodes
<1> QED
  BY <1>1, <1>2, <1>5, <1>10, <1>11, <1>12, <1>13, <1>14, <1>15
-----------------------------------------------------------------------------
(* The steps that move or erase.                                           *)

LEMMA Prefix ==
  ASSUME NEW s \in Seq(1..MaxPics), NEW t \in Seq(1..MaxPics)
  PROVE  IsPrefix(s, t) <=> Len(s) <= Len(t) /\ \A i \in 1..Len(s) : s[i] = t[i]
<1>1. Len(s) \in Nat /\ Len(t) \in Nat /\ DOMAIN s = 1..Len(s) /\ DOMAIN t = 1..Len(t)
  BY LenProperties
<1>2. /\ \A i \in 1..Len(s) : s[i] \in 1..MaxPics
      /\ \A i \in 1..Len(t) : t[i] \in 1..MaxPics
  BY <1>1, ElementOfSeq
<1>3. ASSUME Len(s) <= Len(t)
      PROVE  SubSeq(s, 1, Len(s)) = SubSeq(t, 1, Len(s)) <=> \A i \in 1..Len(s) : s[i] = t[i]
  <2> DEFINE a == SubSeq(s, 1, Len(s))  b == SubSeq(t, 1, Len(s))
  <2>1. a \in Seq(1..MaxPics) /\ Len(a) = Len(s) /\ \A i \in 1..Len(s) : a[i] = s[i]
    BY <1>1, <1>2, SubSeqProperties
  <2>2. \A i \in 1..Len(s) : t[i] \in 1..MaxPics
    BY <1>1, <1>2, <1>3
  <2>3. b \in Seq(1..MaxPics) /\ Len(b) = Len(s) /\ \A i \in 1..Len(s) : b[i] = t[i]
    BY <1>1, <2>2, SubSeqProperties
  <2> HIDE DEF a, b
  <2>4. a = b <=> \A i \in 1..Len(s) : a[i] = b[i]
    BY <2>1, <2>3, SeqEqual
  <2>5. a = b <=> \A i \in 1..Len(s) : s[i] = t[i]
    BY <2>1, <2>3, <2>4
  <2> QED
    BY <2>5 DEF a, b
<1> QED
  BY <1>3 DEF IsPrefix

\* A frame of this stream that the application has was given out.
LEMMA HeldNode ==
  ASSUME ApiInv, NEW i \in DOMAIN rcFrameList, rcFrameList[i].pic \in held
  PROVE  rcFrameList[i].seq < Len(shown)
<1>1. CASE \E j \in DOMAIN rcFrameList :
             rcFrameList[j].pic = rcFrameList[i].pic /\ rcFrameList[j].seq < Len(shown)
  <2>1. PICK j \in DOMAIN rcFrameList :
          rcFrameList[j].pic = rcFrameList[i].pic /\ rcFrameList[j].seq < Len(shown)
    BY <1>1
  <2>2. j = i
    BY <2>1, OneNode DEF ApiInv
  <2> QED
    BY <2>1, <2>2
<1>2. CASE \A j \in DOMAIN taken : taken[j] # rcFrameList[i].pic
  <2>1. /\ rcFrameList[i].seq < Len(taken)
        /\ rcFrameList[i].pic = taken[rcFrameList[i].seq + 1]
    BY DEF ApiInv, Numbered
  <2>2. rcFrameList[i].seq + 1 \in DOMAIN taken
    BY <2>1, Positions, Elements DEF ApiInv
  <2> QED
    BY <1>2, <2>1, <2>2
<1> QED
  BY <1>1, <1>2 DEF ApiInv, HeldNodes

\* A frame goes to the application.
LEMMA GiveStep ==
  ASSUME ApiInv, pc = "give", ~call.reset, Advance,
         held' = held \cup {pcFrameNext}, shown' = Append(shown, pcFrameNext),
         UNCHANGED <<setup, list, uiSeqNumber, lib, oldest>>, ~call'.reset
  PROVE  ListInv'
<1> DEFINE n == Len(taken)  i == Find(pcFrameNext)
<1>1. PICK g \in 0..(n - 1) :
        /\ OutUpTo(g) /\ i \in DOMAIN rcFrameList /\ rcFrameList[i].seq = g
        /\ pcFrameNext = taken[g + 1] /\ rcFrameList[i].pic = pcFrameNext
        /\ uiSeqNumOutput' = g
        /\ pcFrameNext' = IF g + 1 = n THEN NoPic ELSE taken[g + 2]
  BY AdvanceStep
<1>2. /\ rcFrameList' = rcFrameList /\ storage' = storage /\ taken' = taken /\ lib' = lib
      /\ uiSeqNumber' = uiSeqNumber
  BY DEF list
<1>3. /\ n \in Nat /\ n \in 0..MaxPics /\ DOMAIN taken = 1..n /\ Len(shown) = g
      /\ DOMAIN rcFrameList = 1..Len(rcFrameList)
      /\ g \in 0..MaxPics /\ g + 1 \in DOMAIN taken
  <2>1. Len(shown) = g
    BY <1>1 DEF OutUpTo
  <2>2. n \in Nat /\ n \in 0..MaxPics /\ DOMAIN taken = 1..n
        /\ DOMAIN rcFrameList = 1..Len(rcFrameList)
    BY Positions, ListParts DEF ApiInv
  <2> HIDE DEF n
  <2> QED
    BY <1>1, <2>1, <2>2, Constants
<1>4. /\ pcFrameNext \in 1..MaxPics /\ pcFrameNext \in 1..lib.coded
      /\ pcFrameNext' \in 0..MaxPics
  <2>1. taken[g + 1] \in 1..MaxPics /\ taken[g + 1] <= lib.coded
    BY <1>3, Elements DEF ApiInv, CodingOrder
  <2>2. g + 1 # n => g + 2 \in DOMAIN taken
    <3> HIDE DEF n, i
    <3>1. g \in 0..(n - 1) /\ n \in Nat /\ DOMAIN taken = 1..n
      BY <1>1, <1>3
    <3> QED
      BY <3>1
  <2>3. g + 1 # n => taken[g + 2] \in 1..MaxPics
    BY <2>2, Elements DEF ApiInv
  <2>4. NoPic \in 0..MaxPics /\ \A x \in 1..MaxPics : x \in 0..MaxPics
    BY Constants DEF NoPic
  <2>5. lib.coded \in Nat
    BY LibTypes DEF ApiInv
  <2> QED
    BY <1>1, <2>1, <2>3, <2>4, <2>5, Constants
<1>5. /\ shown' \in Seq(1..MaxPics) /\ Len(shown') = g + 1
      /\ \A j \in 1..g : shown'[j] = shown[j]
      /\ shown'[g + 1] = pcFrameNext
  BY <1>3, <1>4, Sequences, AppendProperties DEF ApiInv
<1> HIDE DEF n, i
<1>6. ListTypes'
  <2>1. held' \subseteq 1..lib.coded
    BY <1>4, LibTypes DEF ApiInv
  <2> QED
    BY <1>1, <1>2, <1>3, <1>4, <1>5, <2>1, ListParts DEF ListInv, ListTypes
<1>7. StreamBegun' /\ CodingOrder' /\ Numbered'
  BY <1>2, ListParts DEF ListInv, StreamBegun, CodingOrder, Numbered
<1>8. SomeOut'
  <2>1. OutUpTo(g + 1)'
    <3>1. \A m \in (g + 1)..(n - 1) : m \in g..(n - 1)
      BY <1>1, <1>3
    <3>2. \A m \in g..(n - 1) : \E j \in DOMAIN rcFrameList : rcFrameList[j].seq = m
      BY <1>1 DEF OutUpTo, n
    <3>3. g + 1 # 0 /\ (g + 1) - 1 = g /\ (g + 1) + 1 = g + 2 /\ g + 1 <= g + 1
      BY <1>3
    <3> QED
      BY <1>1, <1>2, <1>5, <3>1, <3>2, <3>3 DEF OutUpTo, n
  <2>2. IsPrefix(shown', taken')
    <3>1. \A j \in 1..g : shown[j] = taken[j]
      BY <1>3, Prefix, Sequences DEF ApiInv, SomeOut
    <3>2. \A j \in 1..(g + 1) : j \in 1..g \/ j = g + 1
      BY <1>3
    <3>3. \A j \in 1..(g + 1) : shown'[j] = taken'[j]
      BY <1>1, <1>2, <1>5, <3>1, <3>2
    <3>4. g + 1 <= n /\ Len(taken') = n /\ taken' \in Seq(1..MaxPics)
      BY <1>2, <1>3, Sequences DEF ApiInv, n
    <3> QED
      BY <1>5, <3>3, <3>4, Prefix
  <2>3. g + 1 \in 0..n /\ Len(taken') = n
    BY <1>2, <1>3 DEF n
  <2> QED
    BY <2>1, <2>2, <2>3 DEF SomeOut
<1>9. HeldNodes'
  <2> SUFFICES ASSUME NEW p \in held'
      PROVE  /\ \/ \E j \in DOMAIN rcFrameList :
                     rcFrameList[j].pic = p /\ rcFrameList[j].seq < g + 1
                \/ \A j \in DOMAIN taken : taken[j] # p
             /\ \A j \in DOMAIN lib.queue : p < lib.queue[j]
    BY <1>2, <1>5 DEF HeldNodes
  <2>1. CASE p = pcFrameNext
    <3>1. \A j \in DOMAIN lib.queue : p < lib.queue[j]
      BY <1>1, <1>3, <2>1 DEF ApiInv, CodingOrder
    <3> QED
      BY <1>1, <1>3, <2>1, <3>1
  <2>2. CASE p \in held
    <3>1. ASSUME NEW j \in DOMAIN rcFrameList, rcFrameList[j].seq < g
          PROVE  rcFrameList[j].seq < g + 1
      <4>1. rcFrameList[j].seq \in Nat
        BY Elements DEF ApiInv
      <4> QED
        BY <1>3, <3>1, <4>1
    <3> QED
      BY <1>3, <2>2, <3>1 DEF ApiInv, HeldNodes
  <2> QED
    BY <2>1, <2>2
<1>10. LockedNodes'
  BY <1>2 DEF ApiInv, LockedNodes
<1> QED
  BY <1>6, <1>7, <1>8, <1>9, <1>10 DEF ListInv

\* reset() drops the frame that flush() returned.
LEMMA DropStep ==
  ASSUME ApiInv, pc = "give", call.reset, Advance, Erase(Find(pcFrameNext)),
         UNCHANGED <<setup, uiSeqNumber, held, shown, oldest, call>>
  PROVE  ListInv'
<1> DEFINE n == Len(taken)  i == Find(pcFrameNext)
<1>1. PICK g \in 0..(n - 1) :
        /\ OutUpTo(g) /\ i \in DOMAIN rcFrameList /\ rcFrameList[i].seq = g
        /\ pcFrameNext = taken[g + 1] /\ rcFrameList[i].pic = pcFrameNext
        /\ uiSeqNumOutput' = g
        /\ pcFrameNext' = IF g + 1 = n THEN NoPic ELSE taken[g + 2]
  BY AdvanceStep
<1>2. n \in Nat /\ n \in 0..MaxPics /\ DOMAIN taken = 1..n /\ Len(shown) \in Nat /\ Len(shown) <= g
  BY <1>1, Positions, ListParts DEF ApiInv, OutUpTo
<1> HIDE DEF n, i
<1>3. rcFrameList[i].pic \notin held
  BY <1>1, <1>2, HeldNode, Elements DEF ApiInv
<1>4. CallGoesOn
  BY DEF CallGoesOn
<1>5. /\ rcFrameList' \in Seq(Frames) /\ taken' = taken
      /\ storage' \subseteq storage
      /\ lib' \in [queue : Seq(1..MaxPics), locked : SUBSET (1..MaxPics), coded : 0..MaxPics,
                   lost : SUBSET (1..MaxPics)]
      /\ lib'.queue = lib.queue /\ lib'.coded = lib.coded /\ lib'.locked \subseteq lib.locked
      /\ \A j \in DOMAIN rcFrameList : j # i =>
           \E m \in DOMAIN rcFrameList' : rcFrameList'[m] = rcFrameList[j]
      /\ StreamBegun' /\ CodingOrder' /\ Numbered' /\ HeldNodes' /\ LockedNodes'
  BY <1>1, <1>3, <1>4, EraseStep DEF i
<1>6. ListTypes'
  <2>1. pcFrameNext' \in 0..MaxPics
    <3>1. g + 1 # n => g + 2 \in DOMAIN taken
      BY <1>1, <1>2
    <3>2. g + 1 # n => taken[g + 2] \in 1..MaxPics
      BY <3>1, Elements DEF ApiInv
    <3>3. NoPic \in 0..MaxPics /\ \A x \in 1..MaxPics : x \in 0..MaxPics
      BY Constants DEF NoPic
    <3> QED
      BY <1>1, <3>2, <3>3
  <2>2. g \in 0..MaxPics
    BY <1>1, <1>2, Constants
  <2> QED
    BY <1>1, <1>5, <2>1, <2>2, ListParts DEF ListInv, ListTypes
<1>7. SomeOut'
  <2>1. OutUpTo(g + 1)'
    <3>1. ASSUME NEW m \in (g + 1)..(n - 1)
          PROVE  \E j \in DOMAIN rcFrameList' : rcFrameList'[j].seq = m
      <4>1. m \in g..(n - 1) /\ m # g
        BY <1>1, <1>2
      <4>2. PICK j \in DOMAIN rcFrameList : rcFrameList[j].seq = m
        BY <1>1, <4>1 DEF OutUpTo, n
      <4>3. j # i
        BY <1>1, <4>1, <4>2
      <4> QED
        BY <1>5, <4>2, <4>3
    <3>2. g + 1 # 0 /\ (g + 1) - 1 = g /\ (g + 1) + 1 = g + 2 /\ Len(shown) <= g + 1
      BY <1>1, <1>2
    <3> QED
      BY <1>1, <1>5, <3>1, <3>2 DEF OutUpTo, n
  <2>2. IsPrefix(shown', taken')
    BY <1>5 DEF ApiInv, SomeOut
  <2>3. g + 1 \in 0..n
    BY <1>1, <1>2
  <2> QED
    BY <1>5, <2>1, <2>2, <2>3 DEF SomeOut, n
<1> QED
  BY <1>5, <1>6, <1>7 DEF ListInv

\* The application returns a frame, of which the node is behind the iterator.
LEMMA ReturnStep ==
  ASSUME ApiInv, NEW i \in DOMAIN rcFrameList, rcFrameList[i].pic \in held,
         Erase(i), held' = held \ {rcFrameList[i].pic},
         UNCHANGED <<setup, next, uiSeqNumber, call, shown, oldest>>
  PROVE  ListInv'
<1>1. rcFrameList[i].seq < Len(shown) /\ CallGoesOn
  BY HeldNode DEF CallGoesOn
<1>5. /\ rcFrameList' \in Seq(Frames) /\ taken' = taken
      /\ storage' \subseteq storage
      /\ lib' \in [queue : Seq(1..MaxPics), locked : SUBSET (1..MaxPics), coded : 0..MaxPics,
                   lost : SUBSET (1..MaxPics)]
      /\ lib'.queue = lib.queue /\ lib'.coded = lib.coded /\ lib'.locked \subseteq lib.locked
      /\ \A j \in DOMAIN rcFrameList : j # i =>
           \E m \in DOMAIN rcFrameList' : rcFrameList'[m] = rcFrameList[j]
      /\ StreamBegun' /\ CodingOrder' /\ Numbered' /\ HeldNodes' /\ LockedNodes'
  BY <1>1, EraseStep DEF next
<1>6. ListTypes'
  BY <1>5, ListParts DEF ListInv, ListTypes, next
<1>7. SomeOut'
  <2>1. PICK g \in 0..Len(taken) : OutUpTo(g)
    BY DEF ApiInv, SomeOut
  <2>2. ASSUME NEW m \in g..(Len(taken) - 1)
        PROVE  \E j \in DOMAIN rcFrameList' : rcFrameList'[j].seq = m
    <3>1. PICK j \in DOMAIN rcFrameList : rcFrameList[j].seq = m
      BY <2>1 DEF OutUpTo
    <3>2. Len(shown) <= g /\ Len(shown) \in Nat /\ rcFrameList[i].seq \in Nat
      BY <2>1, Positions, Elements DEF ApiInv, OutUpTo
    <3>3. g <= m /\ g \in Int /\ m \in Int
      BY <2>1
    <3>4. j # i
      BY <1>1, <3>1, <3>2, <3>3
    <3> QED
      BY <1>5, <3>1, <3>4
  <2>3. OutUpTo(g)'
    BY <1>5, <2>1, <2>2 DEF OutUpTo, next
  <2> QED
    BY <1>5, <2>3 DEF ApiInv, SomeOut
<1> QED
  BY <1>5, <1>6, <1>7 DEF ListInv

\* Also when the frame is one that a reset() has freed.
LEMMA UnrefStep ==
  ASSUME ApiInv, NEW p, Unref(p)
  PROVE  ListInv'
<1>1. /\ p \in held /\ held' = held \ {p}
      /\ UNCHANGED <<setup, next, uiSeqNumber, call, shown, oldest>>
  BY DEF Unref
<1>2. CASE \E i \in DOMAIN rcFrameList : rcFrameList[i].pic = p
  <2>1. PICK i \in DOMAIN rcFrameList : rcFrameList[i].pic = p
    BY <1>2
  <2>2. Find(p) = i /\ i # 0
    BY <2>1, FindNode, Positions DEF ApiInv
  <2>3. Erase(i)
    BY <2>2 DEF Unref
  <2> QED
    BY <1>1, <2>1, <2>3, ReturnStep
<1>3. CASE \A i \in DOMAIN rcFrameList : rcFrameList[i].pic # p
  <2>1. Find(p) = 0
    BY <1>3, FindNothing DEF ApiInv
  <2>2. NoOutput(lib) /\ CallGoesOn
    BY <1>1, <2>1 DEF Unref, NoOutput, CallGoesOn
  <2> QED
    BY <1>1, <2>2, LibReady, FeedStep
<1> QED
  BY <1>2, <1>3

\* The rest of reset() leaves an empty list.
LEMMA ClearStep ==
  ASSUME ApiInv, ResetClear
  PROVE  ListInv'
<1> DEFINE gone == {f.pic : f \in {g \in ToSet(rcFrameList) : ~g.converted}}
<1>1. /\ rcFrameList' = <<>> /\ storage' = {} /\ pcFrameNext' = NoPic
      /\ uiSeqNumber' = 0 /\ uiSeqNumOutput' = 0
      /\ taken' = <<>> /\ shown' = <<>> /\ oldest' = lib.coded + 1
      /\ setup' = setup /\ held' = held /\ pc = "clear"
      /\ lib' = [lib EXCEPT !.locked = @ \ gone]
  BY DEF ResetClear
<1> HIDE DEF gone
<1>2. /\ lib' \in [queue : Seq(1..MaxPics), locked : SUBSET (1..MaxPics), coded : 0..MaxPics,
                   lost : SUBSET (1..MaxPics)]
      /\ lib'.queue = lib.queue /\ lib'.coded = lib.coded /\ lib'.locked = lib.locked \ gone
      /\ lib'.lost = lib.lost
  <2>1. \A s \in SUBSET (1..MaxPics) :
          /\ [lib EXCEPT !.locked = s] \in
               [queue : Seq(1..MaxPics), locked : SUBSET (1..MaxPics), coded : 0..MaxPics,
                lost : SUBSET (1..MaxPics)]
          /\ [lib EXCEPT !.locked = s].queue = lib.queue
          /\ [lib EXCEPT !.locked = s].coded = lib.coded
          /\ [lib EXCEPT !.locked = s].lost = lib.lost
          /\ [lib EXCEPT !.locked = s].locked = s
    BY LibTypes DEF ApiInv
  <2>2. lib.locked \ gone \in SUBSET (1..MaxPics)
    BY LibTypes DEF ApiInv
  <2>3. lib' = [lib EXCEPT !.locked = lib.locked \ gone]
    BY <1>1
  <2> QED
    BY <2>1, <2>2, <2>3
<1>3. Len(taken') = 0 /\ Len(shown') = 0 /\ DOMAIN rcFrameList' = {} /\ DOMAIN taken' = {}
  BY <1>1
<1>4. ListTypes'
  <2>1. /\ <<>> \in Seq(Frames) /\ <<>> \in Seq(1..MaxPics)
        /\ 0 \in 0..MaxPics /\ NoPic \in 0..MaxPics
    BY Constants DEF NoPic
  <2> QED
    BY <1>1, <1>2, <2>1, ListParts DEF ListInv, ListTypes
<1>5. StreamBegun'
  <2>1. setup.faults = {} => DOMAIN lib.queue = {}
    <3>1. setup.faults = {} => lib.queue = <<>>
      BY <1>1 DEF ApiInv, NewStream
    <3> QED
      BY <3>1
  <2>2. lib.coded + 1 \in Nat /\ lib.coded + 1 <= lib.coded + 1
    BY LibTypes DEF ApiInv
  <2> QED
    BY <1>1, <1>2, <1>3, <2>1, <2>2 DEF StreamBegun
<1>6. CodingOrder' /\ Numbered'
  BY <1>1, <1>2, <1>3 DEF ApiInv, CodingOrder, Numbered
<1>7. SomeOut'
  <2>1. OutUpTo(0)'
    BY <1>1, <1>3 DEF OutUpTo
  <2>2. IsPrefix(shown', taken')
    BY <1>1, <1>3 DEF IsPrefix
  <2> QED
    BY <1>3, <2>1, <2>2 DEF SomeOut
<1>8. HeldNodes'
  BY <1>1, <1>2, <1>3 DEF ApiInv, HeldNodes
<1>9. LockedNodes'
  <2>1. ASSUME NEW p \in 1..MaxPics PROVE p \in lib.locked \ gone <=> p \in lib.lost
    <3>1. CASE p \in gone
      <4>1. PICK i \in DOMAIN rcFrameList : rcFrameList[i].pic = p
        BY <3>1 DEF gone, ToSet
      <4>2. /\ rcFrameList[i].seq < Len(taken)
            /\ rcFrameList[i].pic = taken[rcFrameList[i].seq + 1]
        BY DEF ApiInv, Numbered
      <4>3. rcFrameList[i].seq + 1 \in DOMAIN taken
        BY <4>2, Positions, Elements DEF ApiInv
      <4>4. p \notin lib.lost
        BY <4>1, <4>2, <4>3 DEF ApiInv, LockedNodes
      <4> QED
        BY <3>1, <4>4
    <3>2. CASE p \notin gone
      <4>1. ASSUME NEW i \in DOMAIN rcFrameList, rcFrameList[i].pic = p
            PROVE  rcFrameList[i].converted
        <5>1. rcFrameList[i] \in ToSet(rcFrameList)
          BY DEF ToSet
        <5> QED
          BY <3>2, <4>1, <5>1 DEF gone
      <4> QED
        BY <3>2, <4>1 DEF ApiInv, LockedNodes
    <3> QED
      BY <3>1, <3>2
  <2> QED
    BY <1>1, <1>2, <1>3, <2>1 DEF ApiInv, LockedNodes
<1> QED
  BY <1>4, <1>5, <1>6, <1>7, <1>8, <1>9 DEF ListInv
-----------------------------------------------------------------------------
(* The call that is running.                                               *)

CallRecords ==
  [op : {"none", "nal", "empty", "flush", "close", "invalid"},
   left : 0..MaxNals, reset : BOOLEAN, failed : BOOLEAN]

CallTypes ==
  /\ eState \in {"INITIALIZED", "TUNING_IN", "DECODING", "FLUSHING", "FINALIZED",
                 "RESTART_REQUIRED", "NOT_SUPPORTED", "UNINITIALIZED"}
  /\ pc \in {"app", "nal", "empty", "flush", "give", "reset", "clear", "closed"}
  /\ call \in CallRecords

Clean ==
  setup.faults = {} =>
    /\ eState \notin {"RESTART_REQUIRED", "NOT_SUPPORTED"}
    /\ eState = "INITIALIZED" \/ pc = "clear" => lib.queue = <<>>

CallInv == CallTypes /\ CallPlace /\ Drained /\ Clean

LEMMA TwoParts == (ApiInv <=> ListInv /\ CallInv) /\ (ApiInv <=> ListInv /\ CallInv)'
<1>1. TypeOK <=> ListTypes /\ CallTypes
  BY DEF TypeOK, ListTypes, CallTypes, Frames, CallRecords
<1>2. oldest \in Nat /\ NewStream <=> StreamBegun /\ Clean
  BY DEF NewStream, StreamBegun, Clean
<1>3. (TypeOK <=> ListTypes /\ CallTypes)'
  BY DEF TypeOK, ListTypes, CallTypes, Frames, CallRecords
<1>4. (oldest \in Nat /\ NewStream <=> StreamBegun /\ Clean)'
  BY DEF NewStream, StreamBegun, Clean
<1> QED
  BY <1>1, <1>2, <1>3, <1>4 DEF ApiInv, ListInv, CallInv

\* What a call can be.
LEMMA NewCall ==
  ASSUME NEW op \in {"none", "nal", "empty", "flush", "close", "invalid"}, NEW n \in 0..MaxNals
  PROVE  /\ Call(op, n) \in CallRecords
         /\ Call(op, n).op = op /\ ~Call(op, n).reset /\ ~Call(op, n).failed
BY DEF Call, CallRecords

LEMMA ResetCall ==
  ASSUME NEW op \in {"none", "nal", "empty", "flush", "close", "invalid"}, NEW n \in 0..MaxNals
  PROVE  LET c == [Call(op, n) EXCEPT !.reset = TRUE]
         IN c \in CallRecords /\ c.op = op /\ c.reset /\ ~c.failed
BY DEF Call, CallRecords

LEMMA IdleCall ==
  Idle \in CallRecords /\ Idle.op = "none" /\ ~Idle.reset /\ ~Idle.failed /\ 0 \in 0..MaxNals
<1>1. 0 \in 0..MaxNals
  BY Constants
<1> QED
  BY <1>1, NewCall DEF Idle

\* A call that ends with an exception.
LEMMA CatchStep ==
  ASSUME CallInv, NEW k \in Throws, Catch(k, eState)
  PROVE  /\ eState' \in {eState, "RESTART_REQUIRED", "NOT_SUPPORTED"}
         /\ setup.faults # {}
BY DEF Catch, Throws

\* flushPic() throws.
LEMMA ThrowStep ==
  ASSUME ApiInv, NEW l \in FlushThrown, NoOutput(l), UNCHANGED <<setup, app, oldest>>,
         NEW k \in Throws, Catch(k, eState), CallGoesOn, CallPlace', eState # "FINALIZED",
         pc' \in {"app", "clear"},
         \/ call' = Idle
         \/ call' = call
  PROVE  ApiInv'
<1>1. CallInv
  BY TwoParts
<1>2. eState' \in {eState, "RESTART_REQUIRED", "NOT_SUPPORTED"} /\ setup.faults # {}
  BY <1>1, CatchStep
<1>3. ListInv'
  BY <1>2, FlushThrownStep DEF app
<1>4. CallTypes'
  BY <1>1, <1>2, IdleCall DEF CallInv, CallTypes
<1>5. Drained'
  BY <1>1, <1>2, IdleCall DEF CallInv, Drained
<1>6. Clean'
  BY <1>2 DEF Clean
<1> QED
  BY <1>3, <1>4, <1>5, <1>6, TwoParts DEF CallInv

LEMMA DecodeNalStep == ASSUME ApiInv, DecodeNal PROVE ApiInv'
<1> DEFINE left == [call EXCEPT !.left = @ - 1]
<1>1. PICK l \in Fed :
       \/ /\ NoOutput(l)
          /\ call' = left
          /\ UNCHANGED <<eState, pc, ret>>
       \/ /\ l.queue # <<>> /\ TunedIn
          /\ \E converted \in BOOLEAN : AddPicture(Head(l.queue), Output(l), converted)
          /\ call' = left
          /\ UNCHANGED <<pc, ret>>
       \/ /\ l.queue # <<>> /\ TunedIn
          /\ AddFails(l)
          /\ Return("ERR_UNSPECIFIED")
       \/ /\ NoOutput(l) /\ pc' = "app" /\ call' = Idle
          /\ \E k \in Throws : Catch(k, eState)
       \/ /\ NoOutput(lib)
          /\ Return("ERR_UNSPECIFIED")
          /\ UNCHANGED eState
  BY DEF DecodeNal
<1>2. CallInv /\ Ready(l) /\ Ready(lib)
  BY TwoParts, FedReady, LibReady
<1>3. pc = "nal" /\ call.left > 0 /\ setup' = setup
      /\ UNCHANGED <<setup, held, shown, oldest>>
  BY DEF DecodeNal, app
<1>4. ~call.reset /\ call.op = "nal" /\ eState \notin {"INITIALIZED", "FINALIZED"}
  BY <1>2, <1>3 DEF CallInv, CallPlace
<1>5. call \in CallRecords
  BY <1>2 DEF CallInv, CallTypes
<1>6. call.left \in 0..MaxNals /\ call.left - 1 \in 0..MaxNals
  BY <1>3, <1>5, Constants DEF CallRecords
<1>7. /\ left \in CallRecords
      /\ left.op = call.op /\ left.reset = call.reset /\ left.failed = call.failed
  BY <1>5, <1>6 DEF CallRecords
<1> HIDE DEF left
<1>8. call' = left \/ call' = Idle
  BY <1>1 DEF Return
<1>9. ~call'.reset /\ CallGoesOn
  BY <1>3, <1>4, <1>7, <1>8, IdleCall DEF CallGoesOn
<1>10. ListInv'
  <2>1. CASE NoOutput(l) \/ NoOutput(lib)
    BY <1>2, <1>3, <1>9, <2>1, FeedStep
  <2>2. CASE l.queue # <<>> /\ \E converted \in BOOLEAN : AddPicture(Head(l.queue), Output(l), converted)
    BY <1>2, <1>3, <1>9, <2>2, AddPictureStep
  <2>3. CASE l.queue # <<>> /\ AddFails(l)
    BY <1>2, <1>3, <1>9, <2>3, AddFailsStep
  <2> QED
    BY <1>1, <2>1, <2>2, <2>3
<1>11. /\ eState' \in {eState, "DECODING", "RESTART_REQUIRED", "NOT_SUPPORTED"}
       /\ setup.faults = {} => eState' \in {eState, "DECODING"}
       /\ (pc' = "nal" /\ call' = left) \/ (pc' = "app" /\ call' = Idle)
  <2>1. CASE \E k \in Throws : Catch(k, eState) /\ pc' = "app" /\ call' = Idle
    BY <1>2, <2>1, CatchStep
  <2>2. CASE eState' \in {eState, "DECODING"}
    BY <1>1, <1>3, <2>2 DEF Return
  <2> QED
    BY <1>1, <2>1, <2>2 DEF TunedIn
<1>12. CallTypes'
  BY <1>2, <1>7, <1>11, IdleCall DEF CallInv, CallTypes
<1>13. CallPlace'
  BY <1>4, <1>7, <1>9, <1>11 DEF CallPlace
<1>14. Drained'
  BY <1>2, <1>3, <1>4, <1>7, <1>11, IdleCall DEF CallInv, Drained
<1>15. Clean'
  BY <1>2, <1>3, <1>4, <1>11 DEF CallInv, Clean
<1> QED
  BY <1>10, <1>12, <1>13, <1>14, <1>15, TwoParts DEF CallInv

LEMMA DecodeEmptyStep == ASSUME ApiInv, DecodeEmpty PROVE ApiInv'
<1>1. CallInv /\ Ready(lib)
  BY TwoParts, LibReady
<1>2. pc = "empty" /\ UNCHANGED <<setup, held, shown, oldest>> /\ UNCHANGED <<setup, app, oldest>>
  BY DEF DecodeEmpty, app
<1>3. ~call.reset /\ call.op = "empty" /\ eState \notin {"INITIALIZED", "FINALIZED"}
  BY <1>1, <1>2 DEF CallInv, CallPlace
<1>4. CASE lib.queue = <<>> /\ NoOutput(lib) /\ Return("EOF") /\ UNCHANGED eState
  <2>1. pc' = "app" /\ call' = Idle /\ CallGoesOn
    BY <1>2, <1>3, <1>4, IdleCall DEF Return, CallGoesOn
  <2>2. ListInv'
    BY <1>1, <1>2, <1>4, <2>1, FeedStep
  <2>3. CallInv'
    BY <1>1, <1>2, <1>3, <1>4, <2>1, IdleCall DEF CallInv, CallTypes, CallPlace, Drained, Clean
  <2> QED
    BY <2>2, <2>3, TwoParts
<1>5. CASE /\ lib.queue # <<>> /\ TunedIn
           /\ \/ \E converted \in BOOLEAN : AddPicture(Head(lib.queue), Output(lib), converted)
              \/ AddFails(lib)
           /\ pc' = "give" /\ UNCHANGED <<call, ret>>
  <2>1. CallGoesOn
    BY <1>2, <1>3, <1>5 DEF CallGoesOn
  <2>2. /\ ListInv'
        /\ "add" \notin setup.faults => pcFrameNext' # NoPic
    <3>1. CASE \E converted \in BOOLEAN : AddPicture(Head(lib.queue), Output(lib), converted)
      BY <1>1, <1>2, <1>5, <2>1, <3>1, AddPictureStep
    <3>2. CASE AddFails(lib)
      <4>1. "add" \in setup.faults
        BY <3>2 DEF AddFails
      <4> QED
        BY <1>1, <1>2, <1>5, <2>1, <3>2, <4>1, AddFailsStep
    <3> QED
      BY <1>5, <3>1, <3>2
  <2>3. eState' \in {eState, "DECODING"} /\ call' = call
    BY <1>5 DEF TunedIn
  <2>4. CallTypes' /\ CallPlace'
    BY <1>1, <1>3, <1>5, <2>3 DEF CallInv, CallTypes, CallPlace
  <2>5. Drained' /\ Clean'
    BY <1>1, <1>2, <1>3, <1>5, <2>2, <2>3 DEF CallInv, Drained, Clean
  <2> QED
    BY <2>2, <2>4, <2>5, TwoParts DEF CallInv
<1>6. CASE /\ \E l \in FlushThrown : NoOutput(l)
           /\ pc' = "app" /\ call' = Idle
           /\ \E k \in Throws : Catch(k, eState)
  <2>1. CallGoesOn
    BY <1>2, <1>3, <1>6, IdleCall DEF CallGoesOn
  <2>2. CallPlace'
    BY <1>6, IdleCall DEF CallPlace
  <2> QED
    BY <1>2, <1>3, <1>6, <2>1, <2>2, ThrowStep
<1> QED
  BY <1>4, <1>5, <1>6 DEF DecodeEmpty

LEMMA FlushStepStep == ASSUME ApiInv, FlushStep PROVE ApiInv'
<1> DEFINE failed == [call EXCEPT !.failed = TRUE]
<1>1. CallInv /\ Ready(lib)
  BY TwoParts, LibReady
<1>2. pc = "flush" /\ UNCHANGED <<setup, held, shown, oldest>> /\ UNCHANGED <<setup, app, oldest>>
  BY DEF FlushStep, app
<1>3. (call.reset \/ call.op = "flush") /\ eState \notin {"INITIALIZED", "FINALIZED"}
  BY <1>1, <1>2 DEF CallInv, CallPlace
<1>4. call \in CallRecords
  BY <1>1 DEF CallInv, CallTypes
<1>5. /\ failed \in CallRecords
      /\ failed.op = call.op /\ failed.reset = call.reset
  BY <1>4 DEF CallRecords
<1> HIDE DEF failed
<1>7. CASE \/ /\ \/ /\ lib.queue = <<>> /\ NoOutput(lib)
                    /\ UNCHANGED call
                 \/ /\ lib.queue # <<>>
                    /\ \E converted \in BOOLEAN :
                         AddPicture(Head(lib.queue), Output(lib), converted)
                    /\ UNCHANGED call
                 \/ /\ lib.queue # <<>>
                    /\ AddFails(lib)
                    /\ call' = failed
              /\ pc' = IF GoesOn(lib.queue, rcFrameList') THEN "flush" ELSE "give"
              /\ UNCHANGED <<eState, ret>>
  <2>1. call' \in {call, failed} /\ call'.op = call.op /\ call'.reset = call.reset /\ CallGoesOn
    BY <1>2, <1>5, <1>7 DEF CallGoesOn
  <2>2. /\ ListInv'
        /\ "add" \notin setup.faults => /\ call' = call
                                        /\ pcFrameNext' = NoPic => lib'.queue = <<>>
    <3>1. CASE lib.queue = <<>> /\ NoOutput(lib) /\ UNCHANGED call
      <4>1. lib' = lib
        BY <3>1 DEF NoOutput
      <4> QED
        BY <1>1, <1>2, <2>1, <3>1, <4>1, FeedStep
    <3>2. CASE /\ lib.queue # <<>> /\ UNCHANGED call
               /\ \E converted \in BOOLEAN : AddPicture(Head(lib.queue), Output(lib), converted)
      BY <1>1, <1>2, <2>1, <3>2, AddPictureStep
    <3>3. CASE lib.queue # <<>> /\ AddFails(lib)
      <4>1. "add" \in setup.faults
        BY <3>3 DEF AddFails
      <4> QED
        BY <1>1, <1>2, <2>1, <3>3, <4>1, AddFailsStep
    <3> QED
      BY <1>7, <3>1, <3>2, <3>3
  <2>3. pc' \in {"flush", "give"} /\ eState' = eState
    BY <1>7
  <2>4. CallTypes' /\ CallPlace'
    <3>1. CallTypes'
      BY <1>1, <1>5, <2>1, <2>3 DEF CallInv, CallTypes
    <3>2. CallPlace'
      BY <1>1, <1>2, <1>3, <2>1, <2>3 DEF CallInv, CallPlace
    <3> QED
      BY <3>1, <3>2
  <2>5. Drained'
    BY <1>1, <1>2, <1>3, <2>2, <2>3 DEF CallInv, Drained
  <2>6. Clean'
    BY <1>1, <1>2, <1>3, <2>3 DEF CallInv, Clean
  <2> QED
    BY <2>2, <2>4, <2>5, <2>6, TwoParts DEF CallInv
<1>8. CASE /\ \E l \in FlushThrown : NoOutput(l)
           /\ \E k \in Throws : Catch(k, eState)
           /\ IF call.reset THEN pc' = "clear" /\ UNCHANGED call
                            ELSE pc' = "app" /\ call' = Idle
  <2>1. CallGoesOn
    BY <1>2, <1>8, IdleCall DEF CallGoesOn
  <2>2. CallPlace'
    <3>1. \E k \in Throws : Catch(k, eState) /\ eState' \in {eState, "RESTART_REQUIRED", "NOT_SUPPORTED"}
      BY <1>1, <1>8, CatchStep
    <3>2. CASE call.reset
      BY <1>1, <1>3, <1>8, <3>1, <3>2 DEF CallInv, CallPlace
    <3>3. CASE ~call.reset
      BY <1>8, <3>3, IdleCall DEF CallPlace
    <3> QED
      BY <3>2, <3>3
  <2> QED
    BY <1>2, <1>3, <1>8, <2>1, <2>2, ThrowStep
<1> QED
  BY <1>7, <1>8 DEF FlushStep, failed

\* A step of a call that leaves the list alone.
LEMMA StayStep ==
  ASSUME ApiInv, UNCHANGED <<setup, list, next, uiSeqNumber, lib, held, shown, oldest>>, CallGoesOn
  PROVE  ListInv' /\ lib' = lib /\ pcFrameNext' = pcFrameNext /\ setup' = setup /\ held' = held
<1>1. NoOutput(lib)
  BY DEF NoOutput
<1> QED
  BY <1>1, LibReady, FeedStep DEF next

LEMMA GiveFrameStep == ASSUME ApiInv, GiveFrame PROVE ApiInv'
<1>1. CallInv
  BY TwoParts
<1>2. pc' = "app" /\ call' = Idle /\ lib' = lib /\ setup' = setup /\ pc = "give"
  BY DEF GiveFrame, Return
<1>3. ListInv'
  BY <1>2, GiveStep, IdleCall DEF GiveFrame
<1>4. eState' \in {eState, "FINALIZED"} /\ (eState' = "FINALIZED" => eState = "FINALIZED" \/ call.failed)
  BY DEF GiveFrame, Advance, FlushOver
<1>5. eState \notin {"INITIALIZED", "FINALIZED"}
  BY <1>1, <1>2 DEF CallInv, CallPlace
<1>6. CallTypes' /\ CallPlace'
  BY <1>1, <1>2, <1>4, <1>5, IdleCall DEF CallInv, CallTypes, CallPlace
<1>7. Drained'
  BY <1>1, <1>2, <1>4, <1>5, IdleCall DEF CallInv, Drained
<1>8. Clean'
  BY <1>1, <1>2, <1>4, <1>5 DEF CallInv, Clean
<1> QED
  BY <1>3, <1>6, <1>7, <1>8, TwoParts DEF CallInv

LEMMA GiveNothingStep == ASSUME ApiInv, GiveNothing PROVE ApiInv'
<1>1. CallInv
  BY TwoParts
<1>2. /\ pc' = "app" /\ call' = Idle /\ pc = "give" /\ ~call.reset /\ pcFrameNext = NoPic
      /\ eState' = IF call.op = "flush" THEN "FINALIZED" ELSE eState
      /\ UNCHANGED <<setup, list, next, uiSeqNumber, lib, held, shown, oldest>>
  BY DEF GiveNothing, Return, app
<1>3. CallGoesOn
  BY <1>2, IdleCall DEF CallGoesOn
<1>4. ListInv' /\ lib' = lib /\ pcFrameNext' = pcFrameNext /\ setup' = setup
  BY <1>2, <1>3, StayStep
<1>5. eState \notin {"INITIALIZED", "FINALIZED"}
  BY <1>1, <1>2 DEF CallInv, CallPlace
<1>6. CallTypes' /\ CallPlace'
  BY <1>1, <1>2, <1>5, IdleCall DEF CallInv, CallTypes, CallPlace
<1>7. Drained'
  BY <1>1, <1>2, <1>4, <1>5, IdleCall DEF CallInv, Drained
<1>8. Clean'
  BY <1>1, <1>2, <1>4, <1>5 DEF CallInv, Clean
<1> QED
  BY <1>4, <1>6, <1>7, <1>8, TwoParts DEF CallInv

LEMMA NalsDoneStep == ASSUME ApiInv, NalsDone PROVE ApiInv'
<1>1. CallInv
  BY TwoParts
<1>2. /\ pc' = "give" /\ pc = "nal" /\ call' = call /\ eState' = eState
      /\ UNCHANGED <<setup, list, next, uiSeqNumber, lib, held, shown, oldest>>
  BY DEF NalsDone, app
<1>3. ~call.reset /\ call.op = "nal" /\ eState \notin {"INITIALIZED", "FINALIZED"}
  BY <1>1, <1>2 DEF CallInv, CallPlace
<1>4. CallGoesOn
  BY <1>2, <1>3 DEF CallGoesOn
<1>5. ListInv' /\ lib' = lib /\ pcFrameNext' = pcFrameNext /\ setup' = setup
  BY <1>2, <1>4, StayStep
<1>6. CallTypes' /\ CallPlace'
  BY <1>1, <1>2, <1>3 DEF CallInv, CallTypes, CallPlace
<1>7. Drained' /\ Clean'
  BY <1>1, <1>2, <1>3, <1>5 DEF CallInv, Drained, Clean
<1> QED
  BY <1>5, <1>6, <1>7, TwoParts DEF CallInv

LEMMA EnterStep ==
  ASSUME NEW op \in {"invalid", "empty", "nal"}, NEW n \in 0..MaxNals,
         NEW s \in {"INITIALIZED", "TUNING_IN", "DECODING"}, EnterDecode(op, n, s)
  PROVE  /\ CallTypes' /\ CallPlace' /\ ~call'.reset /\ ~call'.failed
         /\ eState' \in {"TUNING_IN", "DECODING"} /\ pc' \in {"app", "nal", "empty"}
<1>1. eState' \in {"TUNING_IN", "DECODING"}
  BY DEF EnterDecode
<1>2. CASE op = "invalid"
  <2>1. pc' = "app" /\ call' = Idle
    BY <1>2 DEF EnterDecode, Return
  <2>2. /\ call' \in CallRecords
        /\ ~call'.reset /\ ~call'.failed
    BY <2>1, IdleCall
  <2> QED
    BY <1>1, <2>1, <2>2 DEF CallTypes, CallPlace
<1>3. CASE op \in {"empty", "nal"}
  <2>1. pc' = op /\ call' = Call(op, n)
    BY <1>3 DEF EnterDecode
  <2>2. /\ call' \in CallRecords
        /\ call'.op = op /\ ~call'.reset /\ ~call'.failed
    BY <1>3, <2>1, NewCall
  <2> QED
    BY <1>1, <1>3, <2>1, <2>2 DEF CallTypes, CallPlace
<1> QED
  BY <1>2, <1>3

LEMMA RefuseStep == ASSUME ApiInv, pc = "app", Refuse PROVE ApiInv'
<1>1. CallInv
  BY TwoParts
<1>2. /\ pc' = "app" /\ call' = Idle /\ eState' = eState
      /\ UNCHANGED <<setup, list, next, uiSeqNumber, lib, held, shown, oldest>>
  BY DEF Refuse, Return
<1>3. ~call.reset
  BY <1>1 DEF CallInv, CallPlace
<1>4. CallGoesOn
  BY <1>2, <1>3, IdleCall DEF CallGoesOn
<1>5. ListInv' /\ lib' = lib /\ pcFrameNext' = pcFrameNext /\ setup' = setup
  BY <1>2, <1>4, StayStep
<1>6. CallTypes' /\ CallPlace'
  BY <1>1, <1>2, IdleCall DEF CallInv, CallTypes, CallPlace
<1>7. Drained' /\ Clean'
  BY <1>1, <1>2, <1>5, IdleCall DEF CallInv, Drained, Clean
<1> QED
  BY <1>5, <1>6, <1>7, TwoParts DEF CallInv

LEMMA DecodeStep ==
  ASSUME ApiInv, NEW op \in {"invalid", "empty", "nal"}, NEW n \in 0..MaxNals, Decode(op, n)
  PROVE  ApiInv'
<1>1. CallInv
  BY TwoParts
<1>2. /\ pc = "app" /\ eState \in {"INITIALIZED", "TUNING_IN", "DECODING"}
      /\ EnterDecode(op, n, eState)
      /\ UNCHANGED <<setup, list, next, uiSeqNumber, lib, held, shown, oldest>>
  BY DEF Decode
<1>3. /\ CallTypes' /\ CallPlace' /\ ~call'.reset /\ ~call'.failed
      /\ eState' \in {"TUNING_IN", "DECODING"} /\ pc' \in {"app", "nal", "empty"}
  BY <1>2, EnterStep
<1>4. CallGoesOn
  BY <1>1, <1>2, <1>3 DEF CallInv, CallPlace, CallGoesOn
<1>5. ListInv' /\ lib' = lib /\ setup' = setup
  BY <1>2, <1>4, StayStep
<1>6. Drained' /\ Clean'
  BY <1>1, <1>3 DEF CallInv, Drained, Clean
<1> QED
  BY <1>3, <1>5, <1>6, TwoParts DEF CallInv

\* decode() behind a flush and close begin with reset().
LEMMA BeginReset ==
  ASSUME ApiInv, pc = "app", pc' = "reset",
         NEW op \in {"invalid", "empty", "nal", "close"}, NEW n \in 0..MaxNals,
         call' = [Call(op, n) EXCEPT !.reset = TRUE],
         UNCHANGED <<setup, eState, list, next, uiSeqNumber, lib, held, shown, oldest>>
  PROVE  ApiInv'
<1>1. CallInv
  BY TwoParts
<1>2. CallGoesOn
  BY ResetCall DEF CallGoesOn
<1>3. ListInv' /\ lib' = lib /\ pcFrameNext' = pcFrameNext /\ setup' = setup
  BY <1>2, StayStep
<1>4. CallTypes' /\ CallPlace'
  BY <1>1, ResetCall DEF CallInv, CallTypes, CallPlace
<1>5. Drained' /\ Clean'
  BY <1>1, <1>3, ResetCall DEF CallInv, Drained, Clean
<1> QED
  BY <1>3, <1>4, <1>5, TwoParts DEF CallInv

LEMMA FlushBegins == ASSUME ApiInv, Flush PROVE ApiInv'
<1>1. CallInv
  BY TwoParts
<1>2. /\ pc = "app" /\ pc' = "flush" /\ eState' = "FLUSHING" /\ call' = Call("flush", 0)
      /\ UNCHANGED <<setup, list, next, uiSeqNumber, lib, held, shown, oldest>>
  BY DEF Flush
<1>3. CallGoesOn
  BY <1>1, <1>2, IdleCall, NewCall DEF CallInv, CallPlace, CallGoesOn
<1>4. ListInv' /\ lib' = lib /\ setup' = setup
  BY <1>2, <1>3, StayStep
<1>5. /\ call' \in CallRecords
      /\ call'.op = "flush" /\ ~call'.reset /\ ~call'.failed
  BY <1>2, IdleCall, NewCall
<1>6. CallTypes' /\ CallPlace' /\ Drained' /\ Clean'
  BY <1>2, <1>5 DEF CallTypes, CallPlace, Drained, Clean
<1> QED
  BY <1>4, <1>6, TwoParts DEF CallInv

LEMMA ResetFlushStep == ASSUME ApiInv, ResetFlush PROVE ApiInv'
<1> DEFINE unfailed == [call EXCEPT !.failed = FALSE]
<1>1. CallInv
  BY TwoParts
<1>2. /\ pc = "reset" /\ call.reset
      /\ UNCHANGED <<setup, list, next, uiSeqNumber, lib, held, shown, oldest>>
  BY <1>1 DEF ResetFlush, CallInv, CallPlace, app
<1>3. /\ unfailed \in CallRecords
      /\ unfailed.op = call.op /\ unfailed.reset = call.reset /\ ~unfailed.failed
  BY <1>1 DEF CallInv, CallTypes, CallRecords
<1> HIDE DEF unfailed
<1>5. CASE FlushRefuses /\ pc' = "clear" /\ eState' = eState /\ call' = call
  <2>1. CallGoesOn
    BY <1>2, <1>5 DEF CallGoesOn
  <2>2. ListInv' /\ lib' = lib /\ pcFrameNext' = pcFrameNext /\ setup' = setup
    BY <1>2, <2>1, StayStep
  <2>3. CallTypes' /\ CallPlace'
    BY <1>1, <1>2, <1>5 DEF CallInv, CallTypes, CallPlace
  <2>4. Drained'
    BY <1>1, <1>5, <2>2 DEF CallInv, Drained
  <2>5. Clean'
    <3>1. setup.faults = {} => eState \in {"INITIALIZED", "FINALIZED"}
      BY <1>1, <1>5 DEF CallInv, Clean, FlushRefuses, NeedsReinit
    <3>2. setup.faults = {} => lib.queue = <<>>
      BY <1>1, <3>1 DEF CallInv, Clean, Drained
    <3> QED
      BY <1>1, <1>5, <2>2, <3>2 DEF CallInv, Clean
  <2> QED
    BY <2>2, <2>3, <2>4, <2>5, TwoParts DEF CallInv
<1>6. CASE pc' = "flush" /\ eState' = "FLUSHING" /\ call' = unfailed
  <2>1. CallGoesOn
    BY <1>2, <1>3, <1>6 DEF CallGoesOn
  <2>2. ListInv' /\ lib' = lib /\ setup' = setup
    BY <1>2, <2>1, StayStep
  <2>3. CallTypes'
    BY <1>3, <1>6 DEF CallTypes
  <2>4. CallPlace'
    BY <1>1, <1>2, <1>3, <1>6 DEF CallInv, CallPlace
  <2>5. Drained' /\ Clean'
    BY <1>3, <1>6 DEF Drained, Clean
  <2> QED
    BY <2>2, <2>3, <2>4, <2>5, TwoParts DEF CallInv
<1> QED
  BY <1>5, <1>6 DEF ResetFlush, unfailed

LEMMA ResetUnrefStep == ASSUME ApiInv, ResetUnref PROVE ApiInv'
<1>1. CallInv
  BY TwoParts
<1>2. /\ pc = "give" /\ call.reset /\ call' = call /\ setup' = setup
      /\ UNCHANGED <<setup, uiSeqNumber, held, shown, oldest, call>>
      /\ Advance /\ Erase(Find(pcFrameNext))
  BY DEF ResetUnref, app
<1>3. ListInv'
  BY <1>2, DropStep
<1>4. /\ pc' \in {"clear", "reset"}
      /\ eState' = eState \/ (call.failed /\ eState' = "FINALIZED")
      /\ pc' = "clear" => call.failed
  BY DEF ResetUnref, Advance, FlushOver
<1>5. eState \notin {"INITIALIZED", "FINALIZED"}
  BY <1>1, <1>2 DEF CallInv, CallPlace
<1>6. CallTypes' /\ CallPlace'
  BY <1>1, <1>2, <1>4, <1>5 DEF CallInv, CallTypes, CallPlace
<1>7. Drained'
  BY <1>1, <1>2, <1>4, <1>5 DEF CallInv, Drained
<1>8. Clean'
  <2>1. setup.faults = {} => ~call.failed
    BY <1>1 DEF CallInv, Drained
  <2> QED
    BY <1>1, <1>2, <1>4, <1>5, <2>1 DEF CallInv, Clean
<1> QED
  BY <1>3, <1>6, <1>7, <1>8, TwoParts DEF CallInv

LEMMA ResetFlushedStep == ASSUME ApiInv, ResetFlushed PROVE ApiInv'
<1>1. CallInv
  BY TwoParts
<1>2. /\ pc = "give" /\ call.reset /\ pcFrameNext = NoPic
      /\ eState' = "FINALIZED" /\ pc' = "clear" /\ call' = call
      /\ UNCHANGED <<setup, list, next, uiSeqNumber, lib, held, shown, oldest>>
  BY DEF ResetFlushed, app
<1>3. CallGoesOn
  BY <1>2 DEF CallGoesOn
<1>4. ListInv' /\ lib' = lib /\ pcFrameNext' = pcFrameNext /\ setup' = setup
  BY <1>2, <1>3, StayStep
<1>5. CallTypes' /\ CallPlace'
  BY <1>1, <1>2 DEF CallInv, CallTypes, CallPlace
<1>6. Drained'
  BY <1>1, <1>2, <1>4 DEF CallInv, Drained
<1>7. Clean'
  BY <1>1, <1>2, <1>4 DEF CallInv, Clean, Drained
<1> QED
  BY <1>4, <1>5, <1>6, <1>7, TwoParts DEF CallInv

LEMMA ResetClearStep == ASSUME ApiInv, ResetClear PROVE ApiInv'
<1>1. CallInv
  BY TwoParts
<1>2. ListInv'
  BY ClearStep
<1>3. /\ pc = "clear" /\ setup' = setup
      /\ IF call.op = "close"
         THEN eState' = "UNINITIALIZED" /\ pc' = "closed" /\ UNCHANGED <<call, ret>>
         ELSE EnterDecode(call.op, call.left, "INITIALIZED")
  BY DEF ResetClear
<1>4. call.reset /\ call.op \in {"invalid", "empty", "nal", "close"} /\ call.left \in 0..MaxNals
  BY <1>1, <1>3 DEF CallInv, CallTypes, CallPlace, CallRecords
<1>5. CASE call.op = "close"
  <2>1. CallTypes' /\ CallPlace'
    BY <1>1, <1>3, <1>4, <1>5 DEF CallInv, CallTypes, CallPlace
  <2>2. Drained' /\ Clean'
    BY <1>1, <1>3, <1>5 DEF CallInv, Drained, Clean
  <2> QED
    BY <1>2, <2>1, <2>2, TwoParts DEF CallInv
<1>6. CASE call.op # "close"
  <2>1. /\ CallTypes' /\ CallPlace' /\ ~call'.reset /\ ~call'.failed
        /\ eState' \in {"TUNING_IN", "DECODING"} /\ pc' \in {"app", "nal", "empty"}
    BY <1>3, <1>4, <1>6, EnterStep
  <2>2. Drained' /\ Clean'
    BY <2>1 DEF Drained, Clean
  <2> QED
    BY <1>2, <2>1, <2>2, TwoParts DEF CallInv
<1> QED
  BY <1>5, <1>6

LEMMA UnrefKeeps == ASSUME ApiInv, NEW p \in held, Unref(p) PROVE ApiInv'
<1>1. CallInv
  BY TwoParts
<1>2. ListInv'
  BY UnrefStep
<1>3. /\ pc = "app" /\ pc' = pc /\ call' = call /\ eState' = eState /\ setup' = setup
      /\ pcFrameNext' = pcFrameNext
  BY DEF Unref, next
<1>4. lib'.queue = lib.queue
  BY LibTypes DEF ApiInv, Unref, Erase
<1>5. CallTypes' /\ CallPlace'
  BY <1>1, <1>3 DEF CallInv, CallTypes, CallPlace
<1>6. Drained' /\ Clean'
  BY <1>1, <1>3, <1>4 DEF CallInv, Drained, Clean
<1> QED
  BY <1>2, <1>5, <1>6, TwoParts DEF CallInv
-----------------------------------------------------------------------------
(* The theorems.                                                           *)

LEMMA InitIndInv == ASSUME Init PROVE ApiInv
<1>1. /\ rcFrameList = <<>> /\ pcFrameNext = 0 /\ uiSeqNumber = 0 /\ uiSeqNumOutput = 0
      /\ storage = {} /\ lib = [queue |-> <<>>, locked |-> {}, coded |-> 0, lost |-> {}]
      /\ held = {}
      /\ pc = "app" /\ call = Idle /\ taken = <<>> /\ shown = <<>> /\ oldest = 1
      /\ setup \in Setups /\ eState = "INITIALIZED"
  BY DEF Init, NoPic
<1>2. /\ Len(taken) = 0 /\ Len(shown) = 0 /\ DOMAIN rcFrameList = {} /\ DOMAIN taken = {}
      /\ lib.queue = <<>> /\ lib.locked = {} /\ lib.coded = 0 /\ lib.lost = {}
      /\ DOMAIN lib.queue = {} /\ ToSet(lib.queue) = {}
      /\ lib \in [queue : Seq(1..MaxPics), locked : SUBSET (1..MaxPics), coded : 0..MaxPics,
                  lost : SUBSET (1..MaxPics)]
      /\ 0 \in 0..MaxPics
  <2>1. 0 \in 0..MaxPics /\ <<>> \in Seq(1..MaxPics)
    BY Constants
  <2> QED
    BY <1>1, <2>1 DEF ToSet
<1>3. ListTypes
  BY <1>1, <1>2 DEF ListTypes
<1>4. StreamBegun /\ CodingOrder /\ Numbered /\ HeldNodes /\ LockedNodes
  BY <1>1, <1>2 DEF StreamBegun, CodingOrder, Numbered, HeldNodes, LockedNodes
<1>5. SomeOut
  <2>1. OutUpTo(0)
    BY <1>1, <1>2 DEF OutUpTo, NoPic
  <2>2. IsPrefix(shown, taken)
    BY <1>1, <1>2 DEF IsPrefix
  <2> QED
    BY <1>2, <2>1, <2>2 DEF SomeOut
<1>6. CallTypes /\ CallPlace /\ Drained /\ Clean
  BY <1>1, <1>2, IdleCall DEF CallTypes, CallPlace, Drained, Clean, NoPic
<1> QED
  BY <1>3, <1>4, <1>5, <1>6, TwoParts DEF ListInv, CallInv

LEMMA StutterIndInv == ASSUME ApiInv, UNCHANGED vars PROVE ApiInv'
<1>1. /\ rcFrameList' = rcFrameList /\ storage' = storage /\ taken' = taken
      /\ pcFrameNext' = pcFrameNext /\ uiSeqNumOutput' = uiSeqNumOutput
      /\ uiSeqNumber' = uiSeqNumber /\ lib' = lib /\ held' = held /\ shown' = shown
      /\ setup' = setup /\ eState' = eState /\ pc' = pc /\ call' = call /\ oldest' = oldest
  BY DEF vars, list, next, app
<1>2. ListInv /\ CallInv
  BY TwoParts
<1>3. CallInv'
  BY <1>1, <1>2 DEF CallInv, CallTypes, CallPlace, Drained, Clean
<1>4. ListTypes' /\ StreamBegun' /\ CodingOrder' /\ Numbered' /\ HeldNodes' /\ LockedNodes'
  BY <1>1, <1>2 DEF ListInv, ListTypes, StreamBegun, CodingOrder, Numbered, HeldNodes, LockedNodes
<1>5. SomeOut'
  BY <1>1, <1>2 DEF ListInv, SomeOut, OutUpTo
<1> QED
  BY <1>3, <1>4, <1>5, TwoParts DEF ListInv

LEMMA NextIndInv == ASSUME ApiInv, Next PROVE ApiInv'
<1>1. CASE Application
  <2>1. CASE \E op \in {"invalid", "empty", "nal"}, n \in 0..MaxNals :
               Decode(op, n) \/ DecodeAfterFlush(op, n)
    <3>1. PICK op \in {"invalid", "empty", "nal"}, n \in 0..MaxNals :
            Decode(op, n) \/ DecodeAfterFlush(op, n)
      BY <2>1
    <3>2. CASE Decode(op, n)
      BY <3>2, DecodeStep
    <3>3. CASE DecodeAfterFlush(op, n)
      BY <3>3, BeginReset DEF DecodeAfterFlush
    <3> QED
      BY <3>1, <3>2, <3>3
  <2>2. CASE DecodeRefused \/ FlushRefused
    BY <2>2, RefuseStep DEF DecodeRefused, FlushRefused
  <2>3. CASE Flush
    BY <2>3, FlushBegins
  <2>4. CASE \E p \in held : Unref(p)
    BY <2>4, UnrefKeeps
  <2>5. CASE Close
    <3>1. 0 \in 0..MaxNals
      BY IdleCall
    <3> QED
      BY <2>5, <3>1, BeginReset DEF Close, app
  <2> QED
    BY <1>1, <2>1, <2>2, <2>3, <2>4, <2>5 DEF Application
<1>2. CASE Step
  BY <1>2, DecodeNalStep, NalsDoneStep, DecodeEmptyStep, FlushStepStep, GiveFrameStep,
     GiveNothingStep, ResetFlushStep, ResetUnrefStep, ResetFlushedStep, ResetClearStep DEF Step
<1> QED
  BY <1>1, <1>2 DEF Next

\* The invariant: at every moment of every call there is a number g such that
\* the first g pictures of the stream are out and all others are in the list,
\* with m_pcFrameNext at the first of them.
THEOREM Inductive == Spec => []ApiInv
<1>1. Init => ApiInv
  BY InitIndInv
<1>2. ApiInv /\ [Next]_vars => ApiInv'
  BY NextIndInv, StutterIndInv
<1> QED
  BY <1>1, <1>2, PTL DEF Spec

\* The state of the decoder object keeps its ranges: what vvdecimpl.cpp counts
\* and stores fits whatever the application calls.
THEOREM TypeCorrect == Spec => []TypeOK
<1>1. ApiInv => TypeOK
  BY DEF ApiInv
<1> QED
  BY <1>1, Inductive, PTL

\* A frame of this stream is valid until it is unref'ed, whatever fails:
\* objectUnref and xAddPicture never take the node of a frame that the
\* application has, and unref finds it.  A reset() does, see FreedByUnref.
THEOREM FramesStayValid == Spec => []HeldStayValid
<1>1. ApiInv => HeldStayValid
  <2> SUFFICES ASSUME ApiInv, NEW p \in held, p \in ToSet(shown)
      PROVE  p \in {f.pic : f \in ToSet(rcFrameList)}
    BY DEF HeldStayValid
  <2>1. PICK m \in DOMAIN shown : p = shown[m]
    BY DEF ToSet
  <2>2. shown[m] = taken[m] /\ m \in DOMAIN taken
    BY Prefix, Sequences, Positions DEF ApiInv, SomeOut
  <2>3. PICK i \in DOMAIN rcFrameList : rcFrameList[i].pic = p
    BY <2>1, <2>2 DEF ApiInv, HeldNodes
  <2>4. rcFrameList[i] \in ToSet(rcFrameList)
    BY DEF ToSet
  <2> QED
    BY <2>3, <2>4
<1> QED
  BY <1>1, Inductive, PTL

\* Every picture locked by the library is released with its node, apart from
\* those that a failure has cut off from the list, and every entry of
\* m_cFrameStorageMap with the converted frame it belongs to.
THEOREM LocksKept == Spec => []LocksAccounted
<1>1. ApiInv => LocksAccounted
  <2> SUFFICES ASSUME ApiInv
      PROVE  /\ lib.locked = {f.pic : f \in {g \in ToSet(rcFrameList) : ~g.converted}} \cup lib.lost
             /\ storage = {f.seq : f \in {g \in ToSet(rcFrameList) : g.converted}}
             /\ setup.faults = {} => lib.lost = {}
    BY DEF LocksAccounted
  <2>1. \A f : f \in ToSet(rcFrameList) <=> \E i \in DOMAIN rcFrameList : f = rcFrameList[i]
    BY DEF ToSet
  <2>2. lib.locked \subseteq 1..MaxPics /\ lib.lost \subseteq 1..MaxPics /\ storage \subseteq 0..MaxPics
    BY LibTypes DEF ApiInv, TypeOK
  <2>3. \A i \in DOMAIN rcFrameList :
          rcFrameList[i].pic \in 1..MaxPics /\ rcFrameList[i].seq \in 0..MaxPics
    BY Elements DEF ApiInv
  <2>4. /\ \A p \in 1..MaxPics : p \in lib.locked <=>
             \/ p \in lib.lost
             \/ \E i \in DOMAIN rcFrameList : rcFrameList[i].pic = p /\ ~rcFrameList[i].converted
        /\ \A n \in 0..MaxPics : n \in storage <=>
             \E i \in DOMAIN rcFrameList : rcFrameList[i].seq = n /\ rcFrameList[i].converted
        /\ setup.faults = {} => lib.lost = {}
    BY DEF ApiInv, LockedNodes
  <2>5. ASSUME NEW p
        PROVE  p \in lib.locked <=>
                 p \in lib.lost \/ \E f \in ToSet(rcFrameList) : ~f.converted /\ p = f.pic
    <3>1. \A i \in DOMAIN rcFrameList : rcFrameList[i].pic = p => p \in 1..MaxPics
      BY <2>3
    <3>2. p \in lib.locked <=>
            \/ p \in lib.lost
            \/ \E i \in DOMAIN rcFrameList : rcFrameList[i].pic = p /\ ~rcFrameList[i].converted
      BY <2>2, <2>4, <3>1
    <3> QED
      BY <2>1, <3>2
  <2>6. ASSUME NEW n
        PROVE  n \in storage <=> \E f \in ToSet(rcFrameList) : f.converted /\ n = f.seq
    <3>1. \A i \in DOMAIN rcFrameList : rcFrameList[i].seq = n => n \in 0..MaxPics
      BY <2>3
    <3>2. n \in storage <=> \E i \in DOMAIN rcFrameList :
                              rcFrameList[i].seq = n /\ rcFrameList[i].converted
      BY <2>2, <2>4, <3>1
    <3> QED
      BY <2>1, <3>2
  <2> QED
    BY <2>4, <2>5, <2>6
<1> QED
  BY <1>1, Inductive, PTL

\* Without faults no frame of a stream before the last reset() comes out.
THEOREM NoOldFrame == Spec => []NoStaleFrame
<1>1. ApiInv => NoStaleFrame
  <2> SUFFICES ASSUME ApiInv, setup.faults = {}, NEW i \in DOMAIN taken PROVE taken[i] >= oldest
    BY DEF NoStaleFrame
  <2>1. oldest <= taken[i] /\ oldest \in Nat /\ taken[i] \in Nat
    BY Elements DEF ApiInv, NewStream
  <2> QED
    BY <2>1
<1> QED
  BY <1>1, Inductive, PTL

\* vvdec.h: when flush() returns VVDEC_EOF all pictures have been delivered.
THEOREM EofDrained == Spec => []EofMeansDrained
<1>1. ApiInv => EofMeansDrained
  <2> SUFFICES ASSUME ApiInv, eState = "FINALIZED", pc = "app", "add" \notin setup.faults
      PROVE  shown = taken /\ lib.queue = <<>>
    BY DEF EofMeansDrained
  <2>1. pcFrameNext = NoPic /\ lib.queue = <<>>
    BY DEF ApiInv, Drained
  <2>2. ~call.reset
    BY DEF ApiInv, CallPlace
  <2>3. PICK g \in 0..Len(taken) : OutUpTo(g)
    BY DEF ApiInv, SomeOut
  <2>4. Len(shown) = g /\ pcFrameNext = IF g = Len(taken) THEN NoPic ELSE taken[g + 1]
    BY <2>2, <2>3 DEF OutUpTo
  <2>5. g # Len(taken) => g + 1 \in DOMAIN taken
    BY <2>3, Positions DEF ApiInv
  <2>6. g = Len(taken)
    BY <2>1, <2>4, <2>5, ListParts
  <2>7. \A i \in 1..Len(shown) : shown[i] = taken[i]
    BY Prefix, Sequences DEF ApiInv, SomeOut
  <2> QED
    BY <2>1, <2>4, <2>6, <2>7, Sequences, SeqEqual DEF ApiInv
<1> QED
  BY <1>1, Inductive, PTL

\* The application gets the frames in the order in which the library returned
\* them, and between the calls m_pcFrameNext is at the first it has not got.
THEOREM FramesInOrder == Spec => []ShownInOrder
<1>1. ApiInv => ShownInOrder
  <2> SUFFICES ASSUME ApiInv, pc = "app"
      PROVE  pcFrameNext = At(rcFrameList,
                              SelectInSeq(rcFrameList, LAMBDA f : f.pic \notin ToSet(shown)))
    BY DEF ShownInOrder, ApiInv, SomeOut
  <2> DEFINE k == Len(rcFrameList)
             n == Len(taken)
             I == {i \in 1..k : rcFrameList[i].pic \notin ToSet(shown)}
  <2>1. SelectInSeq(rcFrameList, LAMBDA f : f.pic \notin ToSet(shown)) =
          IF I = {} THEN 0 ELSE Min(I)
    BY DEF SelectInSeq
  <2>2. ~call.reset
    BY DEF ApiInv, CallPlace
  <2>3. PICK g \in 0..n : OutUpTo(g)
    BY DEF ApiInv, SomeOut
  <2>4. /\ Len(shown) = g /\ pcFrameNext = (IF g = n THEN NoPic ELSE taken[g + 1])
        /\ \A m \in g..(n - 1) : \E i \in DOMAIN rcFrameList : rcFrameList[i].seq = m
    BY <2>2, <2>3 DEF OutUpTo
  <2>5. /\ DOMAIN rcFrameList = 1..k /\ k \in Nat /\ n \in Nat /\ g \in Nat
        /\ DOMAIN taken = 1..n /\ DOMAIN shown = 1..g
    BY <2>4, Positions DEF ApiInv
  <2>6. \A i \in 1..g : shown[i] = taken[i]
    BY <2>4, Prefix, Sequences DEF ApiInv, SomeOut
  <2>7. \A i \in 1..k : /\ rcFrameList[i].seq \in Nat
                        /\ rcFrameList[i].seq < n
                        /\ rcFrameList[i].pic = taken[rcFrameList[i].seq + 1]
    BY <2>5, Elements DEF ApiInv, Numbered
  <2>8. \A i, j \in 1..k : i < j => rcFrameList[i].seq < rcFrameList[j].seq
    BY <2>5 DEF ApiInv, Numbered
  <2> HIDE DEF k, n
  <2>9. \A i \in 1..k : rcFrameList[i].pic \in ToSet(shown) <=> rcFrameList[i].seq < g
    <3> SUFFICES ASSUME NEW i \in 1..k
        PROVE  rcFrameList[i].pic \in ToSet(shown) <=> rcFrameList[i].seq < g
      OBVIOUS
    <3> DEFINE s == rcFrameList[i].seq
    <3>1. s \in Nat /\ s < n /\ rcFrameList[i].pic = taken[s + 1] /\ s + 1 \in 1..n
      BY <2>5, <2>7
    <3>2. ASSUME s < g PROVE taken[s + 1] \in ToSet(shown)
      <4>1. s + 1 \in 1..g
        BY <2>5, <3>1, <3>2
      <4>2. shown[s + 1] = taken[s + 1]
        BY <2>6, <4>1
      <4> QED
        BY <2>5, <4>1, <4>2 DEF ToSet
    <3>3. ASSUME ~(s < g), NEW j \in 1..g PROVE shown[j] # taken[s + 1]
      <4>1. j < s + 1 /\ j \in 1..n
        BY <2>3, <2>5, <3>1, <3>3
      <4>2. taken[j] < taken[s + 1] /\ taken[j] \in Nat /\ taken[s + 1] \in Nat
        <5> HIDE DEF s
        <5> QED
          BY <2>5, <3>1, <4>1, Elements DEF ApiInv, CodingOrder
      <4> QED
        BY <2>6, <4>2
    <3> HIDE DEF s
    <3>4. rcFrameList[i].pic \in ToSet(shown) <=> s < g
      BY <2>5, <3>1, <3>2, <3>3 DEF ToSet
    <3> QED
      BY <3>4 DEF s
  <2>10. CASE g = n
    <3>1. I = {}
      BY <2>7, <2>9, <2>10
    <3> QED
      BY <2>1, <2>4, <2>10, <3>1 DEF At
  <2>11. CASE g # n
    <3>1. g \in g..(n - 1) /\ n - 1 \in Int
      BY <2>3, <2>5, <2>11
    <3>2. PICK i \in 1..k : rcFrameList[i].seq = g
      BY <2>4, <2>5, <3>1 DEF n
    <3>3. i \in I
      BY <2>5, <2>9, <3>2
    <3>4. \A j \in I : i <= j
      <4> SUFFICES ASSUME NEW j \in I, j < i PROVE FALSE
        BY <2>5, <3>2
      <4>1. rcFrameList[j].seq < g /\ j \in 1..k
        BY <2>8, <3>2
      <4> QED
        BY <2>9, <4>1
    <3>5. Min(I) = i
      <4>1. \A j \in I : j \in Int
        BY <2>5
      <4>2. \A j \in I : (\A m \in I : j <= m) => j = i
        BY <3>3, <3>4, <4>1
      <4> HIDE DEF I
      <4> QED
        BY <3>3, <3>4, <4>2 DEF Min
    <3>6. rcFrameList[i].pic = taken[g + 1] /\ i # 0 /\ I # {}
      <4>1. rcFrameList[i].pic = taken[rcFrameList[i].seq + 1]
        BY <2>7
      <4> QED
        BY <3>2, <3>3, <4>1
    <3> HIDE DEF I
    <3> QED
      BY <2>1, <2>4, <2>11, <3>5, <3>6 DEF At
  <2> QED
    BY <2>10, <2>11
<1> QED
  BY <1>1, Inductive, PTL
=============================================================================
