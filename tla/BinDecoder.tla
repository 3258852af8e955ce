----------------------------- MODULE BinDecoder -----------------------------
(***************************************************************************)
(* The arithmetic decoder of a substream (BinDecoder), and the probability *)
(* models it uses.  It keeps up to sixteen bits of the substream in        *)
(* m_Value and reads a byte at a time; the engine it stands for has a      *)
(* nine-bit offset and reads a bit at a time.  Operators only: the decoder *)
(* is a record, and an operation gives the bins it decodes and the record  *)
(* behind it.  The substream is a function from positions to bytes; what   *)
(* readByte() does at its end is left out.                                 *)
(***************************************************************************)
EXTENDS Integers, Sequences, SequencesExt

Bins == {0, 1}
Bytes == 0..255

\* x << n and x >> n; unsigned, or arithmetic for negative x.
Pow2(n) == 2^n
-----------------------------------------------------------------------------
(* Probability models.  A model has two estimates with different windows;  *)
(* unit is what they are multiples of, 32 for the ten bits of one and 2    *)
(* for the fourteen bits of the other.  rate is what m_rate0 and m_rate1   *)
(* are above the bits of the unit.                                         *)

Estimates(unit) == {e \in 0..32767 : e % unit = 0}

\* update(): m_delta0 and m_delta1 hold the two values of delta.
Update(estimate, unit, rate, bin) ==
  LET delta == IF bin = 1 THEN 32767 ELSE unit * Pow2(rate) - 1
  IN estimate + unit * ((delta - estimate) \div (unit * Pow2(rate)))

\* The same as the lines that were commented out have it, with masks for the bits
\* below the unit.
Update_Reference(estimate, unit, rate, bin) ==
  estimate - unit * (estimate \div (unit * Pow2(rate)))
           + unit * ((bin * 32767) \div (unit * Pow2(rate)))

\* state() of two estimates, and what lpsmps() makes of it.
States == 0..255
ModelState(estimate0, estimate1) == (estimate0 + estimate1) \div 256
Mps(q) == q \div 128
Lps(q, range) ==
  LET confidence == IF Mps(q) = 1 THEN 255 - q ELSE q
  IN ((confidence \div 4) * (range \div 32)) \div 2 + 4

\* m_RenormTable_32.
RenormBitsLPS(lps) ==
  CASE lps < 8  -> 6
    [] lps \in 8..15 -> 5
    [] lps \in 16..31 -> 4
    [] lps \in 32..63 -> 3
    [] lps \in 64..127 -> 2
    [] OTHER -> 1
-----------------------------------------------------------------------------
(* BinDecoder: [range, value, bitsNeeded] as its members, pos the number   *)
(* of bytes it has read.                                                   *)

Start(stream) ==
  [range |-> 510, value |-> stream[0] * 256 + stream[1], bitsNeeded |-> -8, pos |-> 2]

\* Makes room for n bits and reads a byte when there is room for it: the way every
\* operation does it, with n up to 8.
Shift(stream, s, n) ==
  LET needed == s.bitsNeeded + n
      reads  == needed >= 0
  IN [range      |-> s.range,
      value      |-> s.value * Pow2(n) + (IF reads THEN stream[s.pos] * Pow2(needed) ELSE 0),
      bitsNeeded |-> IF reads THEN needed - 8 ELSE needed,
      pos        |-> IF reads THEN s.pos + 1 ELSE s.pos]

\* The masks a, b and c of the code are these conditions.
DecodeBin(stream, s, q) ==
  LET lps     == Lps(q, s.range)
      range   == s.range - lps
      scaled  == range * 128
      isLps   == s.value >= scaled
      numBits == IF isLps THEN RenormBitsLPS(lps) ELSE IF range < 256 THEN 1 ELSE 0
      t == [s EXCEPT !.range = (IF isLps THEN lps ELSE range) * Pow2(numBits),
                     !.value = IF isLps THEN @ - scaled ELSE @]
  IN [bin |-> IF isLps THEN 1 - Mps(q) ELSE Mps(q), s |-> Shift(stream, t, numBits)]

DecodeBinEP(stream, s) ==
  LET t == Shift(stream, s, 1)
      scaled == s.range * 128
  IN IF t.value >= scaled THEN [bin |-> 1, s |-> [t EXCEPT !.value = @ - scaled]]
     ELSE [bin |-> 0, s |-> t]

DecodeBinTrm(stream, s) ==
  LET t == [s EXCEPT !.range = @ - 2]
  IN IF t.value >= t.range * 128 THEN [bin |-> 1, s |-> t]
     ELSE [bin |-> 0,
           s |-> IF t.range < 256 THEN Shift(stream, [t EXCEPT !.range = 2 * @], 1) ELSE t]

\* finish(): nothing but the stop bit may be left of the last byte.
FinishOk(stream, s) == (stream[s.pos - 1] * Pow2(8 + s.bitsNeeded)) % 256 = 128

\* The division of decodeBinsEP(): n bins of a value that was shifted by n.
Divide(value, range, n) ==
  LET subtract(d, i) ==
        LET scaled == range * Pow2(7 + n - i)
        IN IF d.value >= scaled
           THEN [bins |-> 2 * d.bins + 1, value |-> d.value - scaled]
           ELSE [d EXCEPT !.bins = 2 * @]
  IN FoldLeft(subtract, [bins |-> 0, value |-> value], [i \in 1..n |-> i])

\* One round of decodeBinsEP(), of eight bins or of those that are left.
DecodeChunk(stream, r, n) ==
  LET t == Shift(stream, r.s, n)
      d == Divide(t.value, t.range, n)
  IN [bins |-> r.bins * Pow2(n) + d.bins, s |-> [t EXCEPT !.value = d.value]]

\* One round of decodeAlignedBinsEP(): with a range of 256 the bins are in the value.
DecodeAlignedChunk(stream, r, n) ==
  [bins |-> r.bins * Pow2(n) + ((r.s.value \div Pow2(15 - n)) % Pow2(n)),
   s |-> Shift(stream, [r.s EXCEPT !.value = @ % Pow2(15 - n)], n)]

DecodeBinsEP(stream, s, numBins) ==
  LET sizes == [i \in 1..((numBins + 7) \div 8) |->
                  IF 8 * i <= numBins THEN 8 ELSE numBins % 8]
      round(r, n) == IF s.range = 256 THEN DecodeAlignedChunk(stream, r, n)
                     ELSE DecodeChunk(stream, r, n)
  IN FoldLeft(round, [bins |-> 0, s |-> s], sizes)

\* decodeRemAbsEP(): a prefix of at most so many ones, then a suffix; the value of a
\* code is the offset of its prefix and the suffix.
MaxPrefix(maxLog2TrDynamicRange) == 32 - maxLog2TrDynamicRange
RemAbsOffset(prefix, rice, cutoff) ==
  IF prefix < cutoff THEN prefix * Pow2(rice)
  ELSE (Pow2(prefix - cutoff) + cutoff - 1) * Pow2(rice)
RemAbsLength(prefix, rice, cutoff, maxLog2TrDynamicRange) ==
  IF prefix < cutoff THEN rice
  ELSE IF prefix = MaxPrefix(maxLog2TrDynamicRange) THEN maxLog2TrDynamicRange
  ELSE rice + prefix - cutoff
-----------------------------------------------------------------------------
(* The engine that reads bit by bit (ITU-T H.266, 9.3.4.3): [range, offset, *)
(* next], next the position of the bit it reads next.                       *)

Bit(stream, n) == (stream[n \div 8] \div Pow2(7 - (n % 8))) % 2

ReadBit(stream, e) ==
  [range |-> e.range, offset |-> 2 * e.offset + Bit(stream, e.next), next |-> e.next + 1]

RenormStep(stream, e) ==
  IF e.range >= 256 THEN e ELSE ReadBit(stream, [e EXCEPT !.range = 2 * @])

\* Six steps are enough for the least range there is, 4.
Renorm(stream, e) ==
  LET step(x) == RenormStep(stream, x)
  IN step(step(step(step(step(step(e))))))

BitwiseBin(stream, e, q) ==
  LET lps   == Lps(q, e.range)
      range == e.range - lps
  IN IF e.offset >= range
     THEN [bin |-> 1 - Mps(q),
           s |-> Renorm(stream, [range |-> lps, offset |-> e.offset - range, next |-> e.next])]
     ELSE [bin |-> Mps(q), s |-> Renorm(stream, [e EXCEPT !.range = range])]

BitwiseBinEP(stream, e) ==
  LET t == ReadBit(stream, e)
  IN IF t.offset >= t.range THEN [bin |-> 1, s |-> [t EXCEPT !.offset = @ - t.range]]
     ELSE [bin |-> 0, s |-> t]

BitwiseBinTrm(stream, e) ==
  LET t == [e EXCEPT !.range = @ - 2]
  IN IF t.offset >= t.range THEN [bin |-> 1, s |-> t]
     ELSE [bin |-> 0, s |-> Renorm(stream, t)]
-----------------------------------------------------------------------------
(* How the two belong together.                                            *)

\* The bits of m_Value above the lowest seven are the offset; the others are ahead.
Abs(s) ==
  [range |-> s.range, offset |-> s.value \div 128, next |-> 8 * s.pos + s.bitsNeeded + 1]

\* k bits of the byte that was read last are in the offset, the others wait at the
\* top of the seven bits.
Ahead(value, byte, k) == value % 128 = (byte % Pow2(7 - k)) * Pow2(k)

Decoders == [range : Nat, value : Nat, bitsNeeded : -8..-1, pos : Nat \ {0}]

\* The decoder in an operation: its value is in the range.
Held(stream, s) ==
  /\ s \in Decoders
  /\ s.value < s.range * 128
  /\ Ahead(s.value, stream[s.pos - 1], 8 + s.bitsNeeded)

\* The decoder between two operations: the range is normalised.
WellFormed(stream, s) == Held(stream, s) /\ s.range \in 256..510

\* An operation does what its counterpart does.
Simulates(r, e) == r.bin = e.bin /\ Abs(r.s) = e.s
=============================================================================
