---------------------------- MODULE PicOrderCnt ----------------------------
(***************************************************************************)
(* The picture order count of a picture that is not an IDR picture.  Its   *)
(* header carries the low bits only; HLSyntaxReader derives the rest from  *)
(* the previous picture of temporal layer 0 (m_prevTid0POC), and so every  *)
(* picture that is lost in between is a chance to be off by a whole cycle. *)
(***************************************************************************)
EXTENDS Integers

\* iMaxPOClsb, a power of two from the SPS; that it is even is all that matters.
Cycle(n) == n \in Nat \ {0} /\ n \div 2 \in Nat \ {0} /\ n = 2 * (n \div 2)

\* A picture order count is the sum of a multiple of the cycle and its low bits.
\* iPrevPOC & ( iMaxPOClsb - 1 ) is this also for negative counts.
Lsb(poc, maxPocLsb) == poc % maxPocLsb

\* setPOC() without ph_poc_msb_cycle_val; maxPocLsb is iMaxPOClsb.
DerivePoc(pocLsb, prevPoc, maxPocLsb) ==
  LET prevLsb == Lsb(prevPoc, maxPocLsb)
      prevMsb == prevPoc - prevLsb
      half    == maxPocLsb \div 2
      msb == IF pocLsb < prevLsb /\ prevLsb - pocLsb >= half THEN prevMsb + maxPocLsb
             ELSE IF pocLsb > prevLsb /\ pocLsb - prevLsb > half THEN prevMsb - maxPocLsb
             ELSE prevMsb
  IN msb + pocLsb

\* What the encoder may rely on: counts less than half a cycle apart, and exactly
\* half a cycle ahead.
InReach(poc, prevPoc, maxPocLsb) ==
  LET half == maxPocLsb \div 2
  IN -half < poc - prevPoc /\ poc - prevPoc <= half

\* The derivation returns the count that was coded, for every count in reach.
RecoversPoc(cycles, pocs) ==
  \A maxPocLsb \in cycles : \A prevPoc, poc \in pocs :
    DerivePoc(Lsb(poc, maxPocLsb), prevPoc, maxPocLsb) = poc
      <=> InReach(poc, prevPoc, maxPocLsb)
=============================================================================
