------------------------------ MODULE NalScan ------------------------------
(***************************************************************************)
(* How VVDecImpl::decode() cuts an access unit into NAL units, turns each  *)
(* into the bytes the parser reads, and how the slice header turns the     *)
(* entry points it was sent into sizes of what is left of them.            *)
(* Operators only: bytes in, bytes or positions out.  Positions count from *)
(* zero, as in the code.                                                   *)
(***************************************************************************)
EXTENDS Integers, Sequences, SequencesExt, FiniteSets, FiniteSetsExt

-----------------------------------------------------------------------------
(* Start codes.                                                            *)

ByteAt(bytes, pos) == bytes[pos + 1]

\* xRetrieveNalStartCode: so many zeros and a one.
StartCodeAt(bytes, pos, zeros) ==
  /\ \A i \in 0..(zeros - 1) : ByteAt(bytes, pos + i) = 0
  /\ ByteAt(bytes, pos + zeros) = 1

\* The zeros of the start code the loop of decode() finds at a position, the
\* longer one first; 0 for none.  It stops three bytes before the end.
ZerosAt(bytes, pos) ==
  IF pos + 3 >= Len(bytes) THEN 0
  ELSE IF StartCodeAt(bytes, pos, 3) THEN 3
  ELSE IF StartCodeAt(bytes, pos, 2) THEN 2
  ELSE 0

\* The loop continues behind the start code it has found, so that the short code
\* inside a long one is not found again.
Scan(bytes) ==
  LET look(s, pos) ==
        LET zeros == ZerosAt(bytes, pos)
        IN IF pos < s.pos \/ zeros = 0 THEN s
           ELSE [pos |-> pos + zeros + 1,
                 found |-> Append(s.found, [code |-> pos, start |-> pos + zeros + 1])]
  IN FoldLeft(look, [pos |-> 0, found |-> <<>>],
              [i \in 1..Len(bytes) |-> i - 1]).found

\* iLastPos: zeros at the end of the access unit belong to no NAL unit.
LastPos(bytes) ==
  CHOOSE n \in 0..Len(bytes) :
    /\ \A i \in n..(Len(bytes) - 1) : ByteAt(bytes, i) = 0
    /\ n > 0 => ByteAt(bytes, n - 1) # 0

\* The NAL units of an access unit, empty ones left out, or that it is refused: no
\* start code, or bytes in front of the first.
NalUnits(bytes) ==
  LET found == Scan(bytes)
      end(i) == IF i = Len(found) THEN LastPos(bytes) ELSE found[i + 1].code
      units  == [i \in DOMAIN found |-> SubSeq(bytes, found[i].start + 1, end(i))]
  IN [ok |-> found # <<>> /\ found[1].code = 0,
      units |-> SelectSeq(units, LAMBDA u : u # <<>>)]
-----------------------------------------------------------------------------
(* Emulation prevention.                                                   *)

\* The loop of xConvertPayloadToRBSP, byte by byte: zeros is zeroCount, skipped
\* that the byte before was an emulation prevention byte.
Convert(s, byte) ==
  IF ~s.ok THEN s
  ELSE IF s.zeros = 2 /\ byte = 3
  THEN [s EXCEPT !.pos = @ + 1, !.zeros = 0, !.skipped = TRUE,
                 !.removed = Append(@, s.pos)]
  ELSE [s EXCEPT !.pos = @ + 1,
                 !.ok = ~(s.zeros >= 2 /\ byte < 3) /\ ~(s.skipped /\ byte > 3),
                 !.zeros = IF byte = 0 THEN @ + 1 ELSE 0,
                 !.skipped = FALSE,
                 !.rbsp = Append(@, byte)]

\* xConvertPayloadToRBSP: the payload without emulation prevention bytes, where
\* those were, and whether it was accepted.  Zeros at the end of a slice are
\* cabac_zero_words and go; elsewhere they are an error.
ToRbsp(payload, isVcl) ==
  LET s == FoldLeft(Convert, [ok |-> TRUE, pos |-> 0, zeros |-> 0, skipped |-> FALSE,
                              rbsp |-> <<>>, removed |-> <<>>], payload)
  IN [ok |-> s.ok /\ (s.zeros = 0 \/ isVcl),
      rbsp |-> IF isVcl THEN SubSeq(s.rbsp, 1, LastPos(s.rbsp)) ELSE s.rbsp,
      removed |-> s.removed]
-----------------------------------------------------------------------------
(* Entry points.                                                           *)

\* parseSliceHeader: the end of the slice header among the bytes that were sent;
\* removed are the positions of the bytes that were taken out, in order.
EndOfSliceHeader(location, removed) ==
  FoldLeft(LAMBDA e, pos : IF pos < e THEN e + 1 ELSE e, location, removed)

\* The offsets as they were sent, without the removed bytes between them.
SubstreamSizes(offsets, location, removed) ==
  LET header == EndOfSliceHeader(location, removed)
      upTo(i) == header + FoldLeft(+, 0, SubSeq(offsets, 1, i))
  IN [i \in DOMAIN offsets |->
        offsets[i] - Cardinality({n \in DOMAIN removed :
                                    removed[n] >= upTo(i - 1) /\ removed[n] < upTo(i)})]
-----------------------------------------------------------------------------
(* What an encoder does, as ITU-T H.266 annex B and clause 7.4.2 have it, and *)
(* that the operators above undo it.                                       *)

\* A byte of at most three behind two zeros gets a three in front; a three is put
\* behind zeros at the end.
Escape(rbsp) ==
  LET put(s, byte) ==
        LET guard == s.zeros = 2 /\ byte <= 3
        IN [out |-> s.out \o (IF guard THEN <<3, byte>> ELSE <<byte>>),
            zeros |-> IF byte # 0 THEN 0 ELSE IF guard THEN 1 ELSE s.zeros + 1]
      s == FoldLeft(put, [out |-> <<>>, zeros |-> 0], rbsp)
  IN IF s.zeros = 2 THEN Append(s.out, 3) ELSE s.out

\* What a NAL unit may hold: it is not all zeros, as its header is not, and zeros at
\* its end are cabac_zero_words of two bytes each.
WellEnded(rbsp) == LastPos(rbsp) > 0 /\ (Len(rbsp) - LastPos(rbsp)) % 2 = 0

\* Every payload comes back, with or without cabac_zero_words, and no other bytes
\* are taken for it.
UndoesEscape(Rbsps) ==
  \A rbsp \in Rbsps :
    LET sent == Escape(rbsp) IN
    /\ ToRbsp(sent, FALSE).ok /\ ToRbsp(sent, FALSE).rbsp = rbsp
    /\ ToRbsp(sent, TRUE).ok /\ ToRbsp(sent, TRUE).rbsp = SubSeq(rbsp, 1, LastPos(rbsp))

\* What is accepted has no start code in it, and escaping it gives the same bytes
\* again.
AcceptsEscaped(Payloads) ==
  \A payload \in Payloads :
    LET r == ToRbsp(payload, FALSE) IN
    r.ok => /\ \A i \in 0..(Len(payload) - 3) : ~StartCodeAt(payload, i, 2)
            /\ payload = Escape(r.rbsp)

\* An access unit with any mix of short and long start codes, and zeros at its
\* end, is cut into the NAL units it was put together from.
FindsUnits(Nals, zerosAtEnd) ==
  \A x, y \in Nals, long \in [1..2 -> BOOLEAN], z \in 0..zerosAtEnd :
    LET code(i) == IF long[i] THEN <<0, 0, 0, 1>> ELSE <<0, 0, 1>>
        sent == code(1) \o Escape(x) \o code(2) \o Escape(y) \o [i \in 1..z |-> 0]
    IN NalUnits(sent) = [ok |-> TRUE, units |-> <<Escape(x), Escape(y)>>]

\* Wherever a slice is cut into header and substreams, the sizes that come out of
\* the offsets are those of the substreams before emulation prevention.  An
\* inserted byte belongs to the part of the byte behind it.
FindsSubstreams(Rbsps) ==
  \A rbsp \in Rbsps : \A a, b, c \in 1..Len(rbsp) : a < b /\ b < c =>
    LET r == ToRbsp(Escape(rbsp), FALSE)
        sentUpTo(n) == n + Cardinality({i \in DOMAIN r.removed : r.removed[i] - (i - 1) < n})
    IN SubstreamSizes(<<sentUpTo(b) - sentUpTo(a), sentUpTo(c) - sentUpTo(b)>>, a, r.removed)
         = <<b - a, c - b>>
=============================================================================
