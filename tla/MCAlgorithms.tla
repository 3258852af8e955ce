---------------------------- MODULE MCAlgorithms ----------------------------
(* The algorithms of the library that are modelled as operators, compared  *)
(* with what they stand for on every small input.  A run whose module      *)
(* extends this one evaluates the assumptions.                             *)
EXTENDS Integers, Sequences, FiniteSets
LOCAL INSTANCE SequencesExt

Nal == INSTANCE NalScan
Poc == INSTANCE PicOrderCnt
Bin == INSTANCE BinDecoder

Rbsps(bytes, length) == {s \in BoundedSeq(bytes, length) : Nal!WellEnded(s)}

\* xConvertPayloadToRBSP undoes what an encoder does to a payload; 4 stands for the
\* bytes that need no care.
ASSUME PayloadsComeBack == Nal!UndoesEscape(Rbsps({0, 1, 3, 4}, 5))

\* What xConvertPayloadToRBSP accepts has no start code in it and one meaning only.
ASSUME NothingElseAccepted == Nal!AcceptsEscaped(BoundedSeq({0, 1, 3, 4}, 5))

\* decode() cuts an access unit where its NAL units were put together.
ASSUME UnitsAreFound == Nal!FindsUnits({s \in Rbsps({0, 1, 3}, 3) : s[Len(s)] # 0}, 2)

\* parseSliceHeader makes the entry points of the slice data from those of the sent bytes.
ASSUME SubstreamsAreFound == Nal!FindsSubstreams(Rbsps({0, 1}, 6))

\* The picture order count comes back exactly within half a cycle of the previous one.
ASSUME PocIsRecovered == Poc!RecoversPoc({2, 4, 8, 16}, -20 .. 20)

\* update() is what the lines it replaced were, and an estimate fits in sixteen bits.
ASSUME EstimatesAgree ==
  \A unit \in {2, 32} : \A rate \in 2 .. 9, bin \in {0, 1} :
    \A e \in {unit * n : n \in 0 .. (32767 \div unit)} :
      LET new == Bin!Update(e, unit, rate, bin)
      IN /\ new = Bin!Update_Reference(e, unit, rate, bin)
         /\ new \in 0 .. 32767 /\ new % unit = 0

\* Substreams of bytes at the limits, in the places the first bins are decoded from.
Streams ==
  {[n \in 0 .. 7 |-> IF n < 3 THEN b[n + 1] ELSE (37 * n) % 256] :
     b \in {0, 128, 254} \X {0, 255} \X {19, 255}}

\* Decoders after a few bins, with and without a model.
Reached(stream) ==
  LET decode(s, op) == IF op \in 0 .. 255 THEN Bin!DecodeBin(stream, s, op).s
                       ELSE Bin!DecodeBinEP(stream, s).s
  IN {FoldLeft(decode, Bin!Start(stream), ops) : ops \in BoundedSeq({-1, 3, 200}, 3)}

\* Every bin is what the engine that reads bits decodes.
ASSUME BinsAgree ==
  \A stream \in Streams : \A s \in Reached(stream) :
    /\ \A q \in {0, 3, 64, 127, 128, 200, 255} :
         Bin!Simulates(Bin!DecodeBin(stream, s, q), Bin!BitwiseBin(stream, Bin!Abs(s), q))
    /\ Bin!Simulates(Bin!DecodeBinEP(stream, s), Bin!BitwiseBinEP(stream, Bin!Abs(s)))
    /\ Bin!Simulates(Bin!DecodeBinTrm(stream, s), Bin!BitwiseBinTrm(stream, Bin!Abs(s)))

\* decodeBinsEP() and, with a range of 256, decodeAlignedBinsEP() decode the bins that
\* decodeBinEP() decodes one by one.
ASSUME BulkBinsAgree ==
  \A stream \in Streams : \A r \in Reached(stream) : \A n \in {0, 1, 7, 8, 9, 16, 19} :
    \A s \in {r, [r EXCEPT !.range = 256, !.value = @ % 32768]} :
      LET one(d, i) == LET e == Bin!DecodeBinEP(stream, d.s)
                       IN [bins |-> 2 * d.bins + e.bin, s |-> e.s]
      IN Bin!DecodeBinsEP(stream, s, n)
           = FoldLeft(one, [bins |-> 0, s |-> s], [i \in 1 .. n |-> i])

\* The codes of decodeRemAbsEP() tile the numbers: a prefix begins where the one before
\* ends, for the cutoffs and the limits the parser uses.
ASSUME CodesTile ==
  \A c \in {<<1, 0, 17>>, <<0, 5, 15>>, <<1, 5, 15>>, <<3, 5, 15>>, <<3, 5, 20>>} :
    LET offset(p) == Bin!RemAbsOffset(p, c[1], c[2])
    IN /\ offset(0) = 0
       /\ \A p \in 1 .. Bin!MaxPrefix(c[3]) :
            offset(p) = offset(p - 1) + Bin!Pow2(Bin!RemAbsLength(p - 1, c[1], c[2], c[3]))
=============================================================================
