-------------------------- MODULE Algorithms_proofs --------------------------
(***************************************************************************)
(* Theorems about the algorithms that are operators: the picture order     *)
(* count of module PicOrderCnt and the arithmetic decoder of module        *)
(* BinDecoder.                                                             *)
(***************************************************************************)
EXTENDS BinDecoder, PicOrderCnt, TLAPS

LEMMA DivMod ==
  ASSUME NEW n \in Nat \ {0}, NEW c \in Int
  PROVE  /\ c \div n \in Int /\ c % n \in Nat /\ c % n < n
         /\ c = n * (c \div n) + (c % n)
BY SMTT(30)

\* Multiples of n that are less than n apart are equal.
LEMMA MultiplesApart ==
  ASSUME NEW n \in Nat \ {0}, NEW p \in Int, NEW q \in Int, p < q
  PROVE  n * p \in Int /\ n * q \in Int /\ n * p + n <= n * q
<1>1. PICK d \in Nat : q = p + 1 + d
  <2>1. q - p - 1 \in Nat /\ q = p + 1 + (q - p - 1)
    OBVIOUS
  <2> QED
    BY <2>1
<1>2. n * q = n * p + n + n * d
  BY <1>1
<1>3. n * d \in Nat /\ n * p \in Int
  BY <1>1
<1> QED
  BY <1>2, <1>3

LEMMA FloorUnique ==
  ASSUME NEW n \in Nat \ {0}, NEW p \in Int, NEW q \in Int, NEW r \in Nat, r < n,
         NEW s \in Nat, s < n, n * p + s = n * q + r
  PROVE  p = q /\ s = r
<1>1. n * p \in Int /\ n * q \in Int
  OBVIOUS
<1>2. ~(p < q)
  BY <1>1, MultiplesApart
<1>3. ~(q < p)
  BY <1>1, MultiplesApart
<1> QED
  BY <1>1, <1>2, <1>3

\* The three counts that the derivation chooses from, as integers.
LEMMA CountChosen ==
  ASSUME NEW n, Cycle(n), NEW prevPoc \in Int, NEW lsb \in Nat, lsb < n
  PROVE  LET d == DerivePoc(lsb, prevPoc, n)
             m == n * (prevPoc \div n)
         IN /\ m \in Int /\ d \in {m + lsb, m + n + lsb, m - n + lsb}
            /\ d \in Int /\ InReach(d, prevPoc, n)
<1> DEFINE r == prevPoc % n
           m == n * (prevPoc \div n)
           half == n \div 2
<1>0. n \in Nat \ {0} /\ half \in Nat \ {0} /\ n = 2 * half
  BY DEF Cycle
<1>1. r \in Nat /\ r < n /\ m \in Int /\ prevPoc = m + r
  BY <1>0, DivMod
<1>2. prevPoc - r = m
  BY <1>1
<1>3. DerivePoc(lsb, prevPoc, n) =
        (IF lsb < r /\ r - lsb >= half THEN m + n
         ELSE IF lsb > r /\ lsb - r > half THEN m - n
         ELSE m) + lsb
  BY <1>2 DEF DerivePoc, Lsb
<1>4. InReach(DerivePoc(lsb, prevPoc, n), prevPoc, n) <=>
        /\ -half < DerivePoc(lsb, prevPoc, n) - prevPoc
        /\ DerivePoc(lsb, prevPoc, n) - prevPoc <= half
  BY DEF InReach
<1> HIDE DEF r, m, half
<1>5. m \in Int /\ DerivePoc(lsb, prevPoc, n) \in {m + lsb, m + n + lsb, m - n + lsb}
  BY <1>0, <1>1, <1>3
<1> QED
  BY <1>0, <1>1, <1>3, <1>4, <1>5 DEF m

\* Counts with the same low bits that are less than a cycle apart are equal.
LEMMA SameLsb ==
  ASSUME NEW n \in Nat \ {0}, NEW c \in Int, NEW d \in Int,
         Lsb(c, n) = Lsb(d, n), c - d < n, d - c < n
  PROVE  c = d
<1> DEFINE p == c \div n
           q == d \div n
           r == c % n
<1>1. /\ p \in Int /\ q \in Int /\ r \in Nat /\ r < n
      /\ c = n * p + r /\ d = n * q + r
  BY DivMod DEF Lsb
<1> HIDE DEF p, q, r
<1>2. n * p \in Int /\ n * q \in Int
  BY <1>1
<1>3. ~(p < q) /\ ~(q < p)
  BY <1>1, <1>2, MultiplesApart
<1> QED
  BY <1>1, <1>3

\* The count that is derived has the low bits that were sent, and is in reach of
\* the previous one: there is no other count it could be confused with.
THEOREM DerivedInReach ==
  ASSUME NEW n, Cycle(n), NEW prevPoc \in Int, NEW lsb \in Nat, lsb < n
  PROVE  LET d == DerivePoc(lsb, prevPoc, n) IN
         d \in Int /\ Lsb(d, n) = lsb /\ InReach(d, prevPoc, n)
<1> DEFINE d == DerivePoc(lsb, prevPoc, n)
           q == prevPoc \div n
<1>0. n \in Nat \ {0}
  BY DEF Cycle
<1>1. /\ q \in Int /\ n * q \in Int /\ d \in Int /\ InReach(d, prevPoc, n)
      /\ d \in {n * q + lsb, n * q + n + lsb, n * q - n + lsb}
  BY <1>0, CountChosen, DivMod
<1>2. PICK k \in Int : d = n * k + lsb
  <2>1. n * (q + 1) = n * q + n /\ n * (q - 1) = n * q - n
    BY <1>0, <1>1
  <2>2. q + 1 \in Int /\ q - 1 \in Int
    BY <1>1
  <2> QED
    BY <1>1, <2>1, <2>2
<1> DEFINE u == d \div n
           r == d % n
<1>3. u \in Int /\ r \in Nat /\ r < n /\ d = n * u + r
  BY <1>0, <1>1, DivMod
<1> HIDE DEF d, u, r
<1>4. r = lsb
  BY <1>0, <1>2, <1>3, FloorUnique
<1> QED
  BY <1>1, <1>4 DEF d, r, Lsb

\* Whatever the cycle, a picture less than half a cycle away from the previous
\* picture of layer 0 gets its own count, also when the counts are negative.
THEOREM PocRecovered ==
  ASSUME NEW n, Cycle(n), NEW prevPoc \in Int, NEW poc \in Int, InReach(poc, prevPoc, n)
  PROVE  DerivePoc(Lsb(poc, n), prevPoc, n) = poc
<1> DEFINE l == Lsb(poc, n)
           d == DerivePoc(l, prevPoc, n)
<1>0. n \in Nat \ {0}
  BY DEF Cycle
<1>1. l \in Nat /\ l < n
  BY <1>0, DivMod DEF Lsb
<1> HIDE DEF l
<1>2. d \in Int /\ Lsb(d, n) = l /\ InReach(d, prevPoc, n)
  BY <1>1, DerivedInReach
<1> HIDE DEF d
<1>3. d - poc < n /\ poc - d < n
  <2> DEFINE half == n \div 2
  <2>1. half \in Nat /\ n = 2 * half
    BY DEF Cycle
  <2>2. -half < d - prevPoc /\ d - prevPoc <= half /\ -half < poc - prevPoc /\ poc - prevPoc <= half
    BY <1>2 DEF InReach
  <2> HIDE DEF half
  <2> QED
    BY <1>2, <2>1, <2>2
<1>4. d = poc
  BY <1>0, <1>2, <1>3, SameLsb DEF l
<1> QED
  BY <1>4 DEF d, l
-----------------------------------------------------------------------------
LEMMA Powers ==
  /\ Pow2(0) = 1 /\ Pow2(1) = 2 /\ Pow2(2) = 4 /\ Pow2(3) = 8 /\ Pow2(4) = 16
  /\ Pow2(5) = 32 /\ Pow2(6) = 64 /\ Pow2(7) = 128 /\ Pow2(8) = 256 /\ Pow2(9) = 512
BY SMT DEF Pow2

LEMMA PowerIsNat == \A n \in 0..8 : Pow2(n) \in Nat /\ Pow2(n) > 0
BY Powers, SMT

LEMMA PowerDoubles == \A n \in 0..7 : Pow2(n + 1) = 2 * Pow2(n)
<1> SUFFICES ASSUME NEW n \in 0..7 PROVE Pow2(n + 1) = 2 * Pow2(n)
  OBVIOUS
<1> n \in {0, 1, 2, 3, 4, 5, 6, 7}
  OBVIOUS
<1> QED
  BY Powers, SMT
-----------------------------------------------------------------------------
(* Making room for bits.                                                   *)

Stream == [Nat -> Bytes]

LEMMA NextBit ==
  ASSUME NEW v \in Nat, NEW b \in 0..255, NEW k \in 0..6, Ahead(v, b, k)
  PROVE  /\ Ahead(2 * v, b, k + 1)
         /\ (2 * v) \div 128 = 2 * (v \div 128) + ((b \div Pow2(6 - k)) % 2)
<1> k \in {0, 1, 2, 3, 4, 5, 6}
  OBVIOUS
<1>1. CASE k = 0
  <2>1. v % 128 = (b % 128) * 1
    BY <1>1, Powers DEF Ahead
  <2>2. /\ (2 * v) % 128 = (b % 64) * 2
        /\ (2 * v) \div 128 = 2 * (v \div 128) + ((b \div 64) % 2)
    BY <2>1, SMT
  <2>3. 7 - (k + 1) = 6 /\ k + 1 = 1 /\ 6 - k = 6
    BY <1>1
  <2> QED
    BY <2>2, <2>3, Powers, Zenon DEF Ahead
<1>2. CASE k = 1
  <2>1. v % 128 = (b % 64) * 2
    BY <1>2, Powers DEF Ahead
  <2>2. /\ (2 * v) % 128 = (b % 32) * 4
        /\ (2 * v) \div 128 = 2 * (v \div 128) + ((b \div 32) % 2)
    BY <2>1, SMT
  <2>3. 7 - (k + 1) = 5 /\ k + 1 = 2 /\ 6 - k = 5
    BY <1>2
  <2> QED
    BY <2>2, <2>3, Powers, Zenon DEF Ahead
<1>3. CASE k = 2
  <2>1. v % 128 = (b % 32) * 4
    BY <1>3, Powers DEF Ahead
  <2>2. /\ (2 * v) % 128 = (b % 16) * 8
        /\ (2 * v) \div 128 = 2 * (v \div 128) + ((b \div 16) % 2)
    BY <2>1, SMT
  <2>3. 7 - (k + 1) = 4 /\ k + 1 = 3 /\ 6 - k = 4
    BY <1>3
  <2> QED
    BY <2>2, <2>3, Powers, Zenon DEF Ahead
<1>4. CASE k = 3
  <2>1. v % 128 = (b % 16) * 8
    BY <1>4, Powers DEF Ahead
  <2>2. /\ (2 * v) % 128 = (b % 8) * 16
        /\ (2 * v) \div 128 = 2 * (v \div 128) + ((b \div 8) % 2)
    BY <2>1, SMT
  <2>3. 7 - (k + 1) = 3 /\ k + 1 = 4 /\ 6 - k = 3
    BY <1>4
  <2> QED
    BY <2>2, <2>3, Powers, Zenon DEF Ahead
<1>5. CASE k = 4
  <2>1. v % 128 = (b % 8) * 16
    BY <1>5, Powers DEF Ahead
  <2>2. /\ (2 * v) % 128 = (b % 4) * 32
        /\ (2 * v) \div 128 = 2 * (v \div 128) + ((b \div 4) % 2)
    BY <2>1, SMT
  <2>3. 7 - (k + 1) = 2 /\ k + 1 = 5 /\ 6 - k = 2
    BY <1>5
  <2> QED
    BY <2>2, <2>3, Powers, Zenon DEF Ahead
<1>6. CASE k = 5
  <2>1. v % 128 = (b % 4) * 32
    BY <1>6, Powers DEF Ahead
  <2>2. /\ (2 * v) % 128 = (b % 2) * 64
        /\ (2 * v) \div 128 = 2 * (v \div 128) + ((b \div 2) % 2)
    BY <2>1, SMT
  <2>3. 7 - (k + 1) = 1 /\ k + 1 = 6 /\ 6 - k = 1
    BY <1>6
  <2> QED
    BY <2>2, <2>3, Powers, Zenon DEF Ahead
<1>7. CASE k = 6
  <2>1. v % 128 = (b % 2) * 64
    BY <1>7, Powers DEF Ahead
  <2>2. /\ (2 * v) % 128 = (b % 1) * 128
        /\ (2 * v) \div 128 = 2 * (v \div 128) + ((b \div 1) % 2)
    BY <2>1, SMT
  <2>3. 7 - (k + 1) = 0 /\ k + 1 = 7 /\ 6 - k = 0
    BY <1>7
  <2> QED
    BY <2>2, <2>3, Powers, Zenon DEF Ahead
<1> QED
  BY <1>1, <1>2, <1>3, <1>4, <1>5, <1>6, <1>7

LEMMA BitAt ==
  ASSUME NEW stream \in Stream, NEW p \in Nat, NEW i \in 0..7
  PROVE  Bit(stream, 8 * p + i) = (stream[p] \div Pow2(7 - i)) % 2
<1>1. (8 * p + i) \div 8 = p /\ (8 * p + i) % 8 = i
  BY SMT
<1> QED
  BY <1>1 DEF Bit

LEMMA ShiftInside ==
  ASSUME NEW stream \in Stream, NEW s \in Decoders, NEW n \in 0..8,
         s.bitsNeeded + n < 0
  PROVE  Shift(stream, s, n) =
           [range |-> s.range, value |-> s.value * Pow2(n),
            bitsNeeded |-> s.bitsNeeded + n, pos |-> s.pos]
<1>1. s.value * Pow2(n) + 0 = s.value * Pow2(n) /\ ~(s.bitsNeeded + n >= 0)
  BY PowerIsNat DEF Decoders
<1> QED
  BY <1>1, Zenon DEF Shift

LEMMA ShiftAcross ==
  ASSUME NEW stream \in Stream, NEW s \in Decoders, NEW n \in 0..8,
         s.bitsNeeded + n >= 0
  PROVE  Shift(stream, s, n) =
           [range |-> s.range,
            value |-> s.value * Pow2(n) + stream[s.pos] * Pow2(s.bitsNeeded + n),
            bitsNeeded |-> (s.bitsNeeded + n) - 8, pos |-> s.pos + 1]
BY Zenon DEF Shift

\* One bit: the offset takes the next bit of the stream.
LEMMA ShiftOne ==
  ASSUME NEW stream \in Stream, NEW s \in Decoders,
         Ahead(s.value, stream[s.pos - 1], 8 + s.bitsNeeded)
  PROVE  LET t == Shift(stream, s, 1)
         IN /\ t \in Decoders
            /\ t.range = s.range
            /\ Ahead(t.value, stream[t.pos - 1], 8 + t.bitsNeeded)
            /\ t.value \div 128 =
                 2 * (s.value \div 128) + Bit(stream, 8 * s.pos + s.bitsNeeded + 1)
            /\ 8 * t.pos + t.bitsNeeded + 1 = 8 * s.pos + s.bitsNeeded + 2
<1> DEFINE t == Shift(stream, s, 1)
<1>1. PICK k \in 0..7 : s.bitsNeeded = k - 8
  <2>1. s.bitsNeeded + 8 \in 0..7 /\ s.bitsNeeded = (s.bitsNeeded + 8) - 8
    BY DEF Decoders
  <2> QED
    BY <2>1
<1>2. PICK p \in Nat : s.pos = p + 1
  <2>1. s.pos - 1 \in Nat /\ s.pos = (s.pos - 1) + 1
    BY DEF Decoders
  <2> QED
    BY <2>1
<1>3. PICK v \in Nat : s.value = v
  BY DEF Decoders
<1>4. stream[p] \in 0..255 /\ stream[p + 1] \in 0..255
  BY DEF Stream, Bytes
<1>5. s.pos - 1 = p /\ 8 + s.bitsNeeded = k /\ s.bitsNeeded + 1 = k - 7
  BY <1>1, <1>2
<1>6. Ahead(v, stream[p], k)
  BY <1>3, <1>5
<1>7. 8 * s.pos + s.bitsNeeded + 1 = 8 * p + (k + 1)
  BY <1>1, <1>2
<1>8. CASE k < 7
  <2>1. t = [range |-> s.range, value |-> v * 2, bitsNeeded |-> k - 7, pos |-> s.pos]
    <3>1. Pow2(1) = 2 /\ s.bitsNeeded + 1 < 0 /\ 1 \in 0..8
      BY <1>5, <1>8, Powers
    <3> QED
      BY <3>1, <1>3, <1>5, ShiftInside
  <2>2. /\ t.value = 2 * v /\ t.bitsNeeded = k - 7 /\ t.pos = p + 1 /\ t.range = s.range
        /\ t \in Decoders
    <3>1. k - 7 \in -8..-1 /\ v * 2 \in Nat /\ v * 2 = 2 * v
      BY <1>8
    <3> HIDE DEF t
    <3> QED
      BY <2>1, <3>1, <1>2 DEF Decoders
  <2>3. Bit(stream, 8 * p + (k + 1)) = (stream[p] \div Pow2(6 - k)) % 2
    <3>1. k + 1 \in 0..7 /\ 7 - (k + 1) = 6 - k
      BY <1>8
    <3> QED
      BY <3>1, BitAt
  <2>4. /\ Ahead(2 * v, stream[p], k + 1)
        /\ (2 * v) \div 128 = 2 * (v \div 128) + ((stream[p] \div Pow2(6 - k)) % 2)
    <3>1. k \in 0..6
      BY <1>8
    <3> QED
      BY <3>1, <1>4, <1>6, NextBit, Zenon
  <2>5. t.pos - 1 = p /\ 8 + t.bitsNeeded = k + 1
    BY <2>2
  <2>6. 8 * t.pos + t.bitsNeeded + 1 = 8 * s.pos + s.bitsNeeded + 2
    BY <2>2, <1>1, <1>2
  <2> HIDE DEF t
  <2>7. /\ Ahead(t.value, stream[t.pos - 1], 8 + t.bitsNeeded)
        /\ t.value \div 128 =
             2 * (s.value \div 128) + Bit(stream, 8 * s.pos + s.bitsNeeded + 1)
    BY <2>2, <2>3, <2>4, <2>5, <1>3, <1>7
  <2> QED
    BY <2>2, <2>6, <2>7 DEF t
<1>9. CASE k = 7
  <2>1. t = [range |-> s.range, value |-> v * 2 + stream[p + 1] * 1,
             bitsNeeded |-> -8, pos |-> p + 2]
    <3>1. Pow2(1) = 2 /\ Pow2(0) = 1 /\ s.bitsNeeded + 1 = 0 /\ 1 \in 0..8
      BY <1>5, <1>9, Powers
    <3>2. s.pos = p + 1 /\ s.pos + 1 = p + 2 /\ (s.bitsNeeded + 1) - 8 = -8
      <4>1. s.pos = p + 1 /\ s.bitsNeeded = -1
        BY <1>1, <1>2, <1>9
      <4> QED
        BY <4>1
    <3>3. t = [range |-> s.range,
               value |-> s.value * Pow2(1) + stream[s.pos] * Pow2(s.bitsNeeded + 1),
               bitsNeeded |-> (s.bitsNeeded + 1) - 8, pos |-> s.pos + 1]
      BY <3>1, ShiftAcross
    <3> QED
      BY <3>1, <3>2, <3>3, <1>3, Zenon
  <2>2. /\ t.value = 2 * v + stream[p + 1] /\ t.bitsNeeded = -8 /\ t.pos = p + 2
        /\ t.range = s.range /\ t \in Decoders
    <3>1. /\ v * 2 + stream[p + 1] * 1 \in Nat /\ p + 2 \in Nat \ {0}
          /\ v * 2 + stream[p + 1] * 1 = 2 * v + stream[p + 1] /\ -8 \in -8..-1
      BY <1>4
    <3> HIDE DEF t
    <3> QED
      BY <2>1, <3>1 DEF Decoders
  <2>3. Bit(stream, 8 * p + (k + 1)) = (stream[p + 1] \div 128) % 2
    <3>1. 8 * p + (k + 1) = 8 * (p + 1) + 0
      BY <1>9
    <3>2. Bit(stream, 8 * (p + 1) + 0) = (stream[p + 1] \div Pow2(7 - 0)) % 2
      BY BitAt
    <3> QED
      BY <3>1, <3>2, Powers
  <2>4. /\ Ahead(2 * v + stream[p + 1], stream[p + 1], 0)
        /\ (2 * v + stream[p + 1]) \div 128
             = 2 * (v \div 128) + ((stream[p + 1] \div 128) % 2)
    <3>1. PICK b \in 0..255, read \in 0..255 : stream[p] = b /\ stream[p + 1] = read
      BY <1>4
    <3>2. Ahead(v, b, 7)
      BY <3>1, <1>6, <1>9
    <3>3. v % 128 = 0
      BY <3>2, Powers DEF Ahead
    <3>4. /\ (2 * v + read) % 128 = read % 128
          /\ (2 * v + read) \div 128 = 2 * (v \div 128) + ((read \div 128) % 2)
      BY <3>3
    <3>5. Ahead(2 * v + read, read, 0)
      BY <3>4, Powers DEF Ahead
    <3> QED
      BY <3>1, <3>4, <3>5, Zenon
  <2>5. t.pos - 1 = p + 1 /\ 8 + t.bitsNeeded = 0
    BY <2>2
  <2>6. 8 * t.pos + t.bitsNeeded + 1 = 8 * s.pos + s.bitsNeeded + 2
    BY <2>2, <1>1, <1>2, <1>9
  <2> HIDE DEF t
  <2>7. /\ Ahead(t.value, stream[t.pos - 1], 8 + t.bitsNeeded)
        /\ t.value \div 128 =
             2 * (s.value \div 128) + Bit(stream, 8 * s.pos + s.bitsNeeded + 1)
    BY <2>2, <2>3, <2>4, <2>5, <1>3, <1>7
  <2> QED
    BY <2>2, <2>6, <2>7 DEF t
<1> QED
  BY <1>8, <1>9
-----------------------------------------------------------------------------
(* Renormalisation.                                                        *)

\* n bits at once, the range with them.
Widen(stream, s, n) == Shift(stream, [s EXCEPT !.range = @ * Pow2(n)], n)

LEMMA WidenInside ==
  ASSUME NEW stream \in Stream, NEW s \in Decoders, NEW n \in 0..8,
         s.bitsNeeded + n < 0
  PROVE  Widen(stream, s, n) =
           [range |-> s.range * Pow2(n), value |-> s.value * Pow2(n),
            bitsNeeded |-> s.bitsNeeded + n, pos |-> s.pos]
<1>1. s.range * Pow2(n) \in Nat
  BY PowerIsNat DEF Decoders
<1> DEFINE t == [s EXCEPT !.range = @ * Pow2(n)]
<1>2. /\ t \in Decoders /\ t.range = s.range * Pow2(n) /\ t.value = s.value
      /\ t.bitsNeeded = s.bitsNeeded /\ t.pos = s.pos
  BY <1>1 DEF Decoders
<1>3. Widen(stream, s, n) = Shift(stream, t, n)
  BY DEF Widen
<1> HIDE DEF t
<1> QED
  BY <1>2, <1>3, ShiftInside

LEMMA WidenAcross ==
  ASSUME NEW stream \in Stream, NEW s \in Decoders, NEW n \in 0..8,
         s.bitsNeeded + n >= 0
  PROVE  Widen(stream, s, n) =
           [range |-> s.range * Pow2(n),
            value |-> s.value * Pow2(n) + stream[s.pos] * Pow2(s.bitsNeeded + n),
            bitsNeeded |-> (s.bitsNeeded + n) - 8, pos |-> s.pos + 1]
<1>1. s.range * Pow2(n) \in Nat
  BY PowerIsNat DEF Decoders
<1> DEFINE t == [s EXCEPT !.range = @ * Pow2(n)]
<1>2. /\ t \in Decoders /\ t.range = s.range * Pow2(n) /\ t.value = s.value
      /\ t.bitsNeeded = s.bitsNeeded /\ t.pos = s.pos
  BY <1>1 DEF Decoders
<1>3. Widen(stream, s, n) = Shift(stream, t, n)
  BY DEF Widen
<1> HIDE DEF t
<1> QED
  BY <1>2, <1>3, ShiftAcross

LEMMA WidenByNone ==
  ASSUME NEW stream \in Stream, NEW s \in Decoders
  PROVE  Widen(stream, s, 0) = s
<1>1. /\ s.bitsNeeded + 0 = s.bitsNeeded /\ s.bitsNeeded + 0 < 0
      /\ s.range * Pow2(0) = s.range /\ s.value * Pow2(0) = s.value
  BY Powers DEF Decoders
<1>2. s = [range |-> s.range, value |-> s.value, bitsNeeded |-> s.bitsNeeded, pos |-> s.pos]
  BY DEF Decoders
<1> QED
  BY <1>1, <1>2, WidenInside

LEMMA WidenTwice ==
  ASSUME NEW stream \in Stream, NEW s \in Decoders, NEW n \in 0..7,
         Widen(stream, s, n) \in Decoders
  PROVE  Widen(stream, s, n + 1) = Widen(stream, Widen(stream, s, n), 1)
<1> DEFINE w == Widen(stream, s, n)
           b == s.bitsNeeded
<1>1. /\ b \in -8..-1 /\ s.value \in Nat /\ s.range \in Nat /\ s.pos \in Nat
      /\ stream[s.pos] \in Nat /\ n \in 0..8 /\ n + 1 \in 0..8 /\ 1 \in 0..8
  BY DEF Decoders, Stream, Bytes
<1>2. Pow2(n + 1) = 2 * Pow2(n) /\ Pow2(n) \in Nat /\ Pow2(1) = 2 /\ Pow2(0) = 1
  BY Powers, PowerIsNat, PowerDoubles
<1>3. \A x \in Nat : x * Pow2(n + 1) = (x * Pow2(n)) * 2
  BY <1>2
<1>4. w \in Decoders
  OBVIOUS
<1> SUFFICES Widen(stream, s, n + 1) = Widen(stream, w, 1)
  OBVIOUS
<1>7. CASE b + n < -1
  <2>1. w = [range |-> s.range * Pow2(n), value |-> s.value * Pow2(n),
             bitsNeeded |-> b + n, pos |-> s.pos]
    BY <1>1, <1>7, WidenInside
  <2>2. Widen(stream, s, n + 1) =
          [range |-> s.range * Pow2(n + 1), value |-> s.value * Pow2(n + 1),
           bitsNeeded |-> b + (n + 1), pos |-> s.pos]
    BY <1>1, <1>7, WidenInside
  <2> HIDE DEF w
  <2>3. w.bitsNeeded + 1 < 0
    BY <2>1, <1>1, <1>7
  <2>4. Widen(stream, w, 1) =
          [range |-> w.range * Pow2(1), value |-> w.value * Pow2(1),
           bitsNeeded |-> w.bitsNeeded + 1, pos |-> w.pos]
    BY <2>3, <1>1, <1>4, WidenInside
  <2> QED
    BY <2>1, <2>2, <2>4, <1>1, <1>2, <1>3
<1>8. CASE b + n = -1
  <2>1. w = [range |-> s.range * Pow2(n), value |-> s.value * Pow2(n),
             bitsNeeded |-> b + n, pos |-> s.pos]
    BY <1>1, <1>8, WidenInside
  <2>2. Widen(stream, s, n + 1) =
          [range |-> s.range * Pow2(n + 1),
           value |-> s.value * Pow2(n + 1) + stream[s.pos] * Pow2(b + (n + 1)),
           bitsNeeded |-> (b + (n + 1)) - 8, pos |-> s.pos + 1]
    <3>1. s.bitsNeeded + (n + 1) >= 0
      BY <1>1, <1>8
    <3> QED
      BY <3>1, <1>1, WidenAcross
  <2> HIDE DEF w
  <2>3. w.bitsNeeded + 1 >= 0 /\ w.bitsNeeded + 1 = 0 /\ b + (n + 1) = 0
    BY <2>1, <1>1, <1>8
  <2>4. Widen(stream, w, 1) =
          [range |-> w.range * Pow2(1),
           value |-> w.value * Pow2(1) + stream[w.pos] * Pow2(w.bitsNeeded + 1),
           bitsNeeded |-> (w.bitsNeeded + 1) - 8, pos |-> w.pos + 1]
    BY <2>3, <1>1, <1>4, WidenAcross
  <2> QED
    <3>1. w.range * Pow2(1) = s.range * Pow2(n + 1)
      BY <2>1, <1>1, <1>2, <1>3
    <3>2. w.value * Pow2(1) = s.value * Pow2(n + 1)
      BY <2>1, <1>1, <1>2, <1>3
    <3>3. (w.bitsNeeded + 1) - 8 = (b + (n + 1)) - 8 /\ w.pos = s.pos
      BY <2>1, <1>1
    <3> QED
      BY <2>2, <2>3, <2>4, <3>1, <3>2, <3>3, Zenon
<1>9. CASE b + n >= 0
  <2>1. w = [range |-> s.range * Pow2(n),
             value |-> s.value * Pow2(n) + stream[s.pos] * Pow2(b + n),
             bitsNeeded |-> (b + n) - 8, pos |-> s.pos + 1]
    BY <1>1, <1>9, WidenAcross
  <2>2. Widen(stream, s, n + 1) =
          [range |-> s.range * Pow2(n + 1),
           value |-> s.value * Pow2(n + 1) + stream[s.pos] * Pow2(b + (n + 1)),
           bitsNeeded |-> (b + (n + 1)) - 8, pos |-> s.pos + 1]
    BY <1>1, <1>9, WidenAcross
  <2> HIDE DEF w
  <2>3. w.bitsNeeded + 1 < 0 /\ b + n \in 0..7 /\ b + (n + 1) = (b + n) + 1
    BY <2>1, <1>1, <1>9
  <2>4. Widen(stream, w, 1) =
          [range |-> w.range * Pow2(1), value |-> w.value * Pow2(1),
           bitsNeeded |-> w.bitsNeeded + 1, pos |-> w.pos]
    BY <2>3, <1>1, <1>4, WidenInside
  <2>5. Pow2(b + (n + 1)) = 2 * Pow2(b + n) /\ Pow2(b + n) \in Nat
    BY <2>3, PowerDoubles, PowerIsNat
  <2>6. (s.value * Pow2(n) + stream[s.pos] * Pow2(b + n)) * 2
          = s.value * Pow2(n + 1) + stream[s.pos] * Pow2(b + (n + 1))
    BY <2>5, <1>1, <1>2
  <2> QED
    BY <2>1, <2>2, <2>3, <2>4, <2>6, <1>1, <1>2, <1>3
<1> QED
  BY <1>1, <1>7, <1>8, <1>9

LEMMA BitRange ==
  ASSUME NEW stream \in Stream, NEW n \in Nat
  PROVE  Bit(stream, n) \in {0, 1}
<1>1. n \div 8 \in Nat /\ n % 8 \in 0..7
  BY SMT
<1>2. PICK b \in Nat : stream[n \div 8] = b
  BY <1>1 DEF Stream, Bytes
<1>3. PICK i \in 0..7 : 7 - (n % 8) = i
  BY <1>1
<1>4. Bit(stream, n) = (b \div Pow2(i)) % 2
  BY <1>2, <1>3 DEF Bit
<1>5. b \div Pow2(i) \in Nat
  <2>1. Pow2(i) \in {1, 2, 4, 8, 16, 32, 64, 128}
    <3>1. i \in {0, 1, 2, 3, 4, 5, 6, 7}
      OBVIOUS
    <3> QED
      BY <3>1, Powers
  <2>2. \A x \in {1, 2, 4, 8, 16, 32, 64, 128} : b \div x \in Nat
    BY SMT
  <2> QED
    BY <2>1, <2>2
<1>6. \A x \in Nat : x % 2 \in {0, 1}
  BY SMT
<1> QED
  BY <1>4, <1>5, <1>6

\* The value is in the range when the offset is.
LEMMA InRange ==
  ASSUME NEW value \in Nat, NEW range \in Nat
  PROVE  value < range * 128 <=> value \div 128 < range
BY SMT

\* One step of renormalisation.
LEMMA Doubling ==
  ASSUME NEW stream \in Stream, NEW s, Held(stream, s), s.range < 256
  PROVE  /\ Held(stream, Widen(stream, s, 1))
         /\ Widen(stream, s, 1).range = 2 * s.range
         /\ Abs(Widen(stream, s, 1)) = RenormStep(stream, Abs(s))
<1> DEFINE r == [s EXCEPT !.range = @ * Pow2(1)]
           t == Shift(stream, r, 1)
           next == 8 * s.pos + s.bitsNeeded + 1
           offset == s.value \div 128
<1>1. s \in Decoders /\ s.range \in Nat /\ s.value \in Nat /\ next \in Nat
  BY DEF Held, Decoders
<1>2. /\ r \in Decoders /\ r.range = 2 * s.range /\ r.value = s.value
      /\ r.bitsNeeded = s.bitsNeeded /\ r.pos = s.pos
  BY <1>1, Powers DEF Decoders
<1>3. Widen(stream, s, 1) = t
  BY DEF Widen
<1> HIDE DEF r
<1>4. Ahead(r.value, stream[r.pos - 1], 8 + r.bitsNeeded)
  BY <1>2 DEF Held
<1>5. /\ t \in Decoders /\ t.range = 2 * s.range
      /\ Ahead(t.value, stream[t.pos - 1], 8 + t.bitsNeeded)
      /\ t.value \div 128 = 2 * offset + Bit(stream, next)
      /\ 8 * t.pos + t.bitsNeeded + 1 = next + 1
  <2>1. /\ t \in Decoders /\ t.range = r.range
        /\ Ahead(t.value, stream[t.pos - 1], 8 + t.bitsNeeded)
        /\ t.value \div 128 =
             2 * (r.value \div 128) + Bit(stream, 8 * r.pos + r.bitsNeeded + 1)
        /\ 8 * t.pos + t.bitsNeeded + 1 = 8 * r.pos + r.bitsNeeded + 2
    BY <1>2, <1>4, ShiftOne
  <2>2. 8 * s.pos + s.bitsNeeded + 2 = next + 1
    BY <1>1 DEF Decoders
  <2> QED
    BY <2>1, <2>2, <1>2
<1> HIDE DEF t
<1>6. Held(stream, t)
  <2>1. offset \in Nat /\ offset < s.range
    BY <1>1, InRange DEF Held
  <2>2. t.value \in Nat /\ t.range \in Nat
    BY <1>5 DEF Decoders
  <2>3. t.value \div 128 < t.range
    BY <2>1, <1>1, <1>5, BitRange
  <2>4. t.value < t.range * 128
    BY <2>2, <2>3, InRange
  <2> QED
    BY <2>4, <1>5 DEF Held
<1>7. Abs(t) = RenormStep(stream, Abs(s))
  <2>1. Abs(s) = [range |-> s.range, offset |-> offset, next |-> next]
    BY DEF Abs
  <2>2. Abs(t) = [range |-> 2 * s.range, offset |-> 2 * offset + Bit(stream, next),
                  next |-> next + 1]
    BY <1>5 DEF Abs
  <2> HIDE DEF offset, next
  <2>3. [Abs(s) EXCEPT !.range = 2 * @]
          = [range |-> 2 * s.range, offset |-> offset, next |-> next]
    BY <2>1
  <2>4. ~(Abs(s).range >= 256)
    BY <2>1, <1>1
  <2>5. RenormStep(stream, Abs(s)) = ReadBit(stream, [Abs(s) EXCEPT !.range = 2 * @])
    BY <2>4, Zenon DEF RenormStep
  <2> QED
    BY <2>2, <2>3, <2>5 DEF ReadBit
<1> QED
  BY <1>3, <1>5, <1>6, <1>7

LEMMA Normalised ==
  ASSUME NEW stream \in Stream, NEW s, s.range >= 256
  PROVE  RenormStep(stream, Abs(s)) = Abs(s)
BY DEF RenormStep, Abs

\* What holds when i of the bits of a renormalisation are shifted.
Good(stream, s, i) ==
  Held(stream, Widen(stream, s, i)) /\ Widen(stream, s, i).range = s.range * Pow2(i)

\* Renormalisation shifts by as many bits as the range needs.
LEMMA RenormIs ==
  ASSUME NEW stream \in Stream, NEW s, Held(stream, s), NEW n \in 0..6,
         \A i \in 0..6 : i < n => s.range * Pow2(i) < 256,
         s.range * Pow2(n) >= 256
  PROVE  /\ Held(stream, Widen(stream, s, n))
         /\ Widen(stream, s, n).range = s.range * Pow2(n)
         /\ Renorm(stream, Abs(s)) = Abs(Widen(stream, s, n))
<1> DEFINE w(i) == Widen(stream, s, i)
           e(i) == IF i < n THEN Abs(w(i)) ELSE Abs(w(n))
<1>1. s \in Decoders /\ s.range \in Nat
  BY DEF Held, Decoders
<1>2. w(0) = s /\ Good(stream, s, 0)
  BY <1>1, WidenByNone, Powers DEF Good
<1>3. ASSUME NEW i \in 0..5, i < n, Good(stream, s, i)
      PROVE  /\ Good(stream, s, i + 1)
             /\ Abs(w(i + 1)) = RenormStep(stream, Abs(w(i)))
  <2>1. w(i).range < 256
    BY <1>3 DEF Good
  <2>2. /\ Held(stream, Widen(stream, w(i), 1))
        /\ Widen(stream, w(i), 1).range = 2 * w(i).range
        /\ Abs(Widen(stream, w(i), 1)) = RenormStep(stream, Abs(w(i)))
    BY <2>1, <1>3, Doubling DEF Good
  <2>3. w(i + 1) = Widen(stream, w(i), 1)
    BY <1>1, <1>3, WidenTwice DEF Held, Good
  <2>4. 2 * w(i).range = s.range * Pow2(i + 1)
    BY <1>1, <1>3, PowerDoubles, PowerIsNat DEF Good
  <2> QED
    BY <2>2, <2>3, <2>4 DEF Good
<1>4. \A i \in 0..5 : i < n /\ Good(stream, s, i) => Good(stream, s, i + 1)
  BY <1>3
<1>5. \A i \in 0..6 : i <= n => Good(stream, s, i)
  <2>1. 1 <= n => Good(stream, s, 1)
    BY <1>2, <1>4
  <2>2. 2 <= n => Good(stream, s, 2)
    BY <2>1, <1>4
  <2>3. 3 <= n => Good(stream, s, 3)
    BY <2>2, <1>4
  <2>4. 4 <= n => Good(stream, s, 4)
    BY <2>3, <1>4
  <2>5. 5 <= n => Good(stream, s, 5)
    BY <2>4, <1>4
  <2>6. 6 <= n => Good(stream, s, 6)
    BY <2>5, <1>4
  <2>7. \A i \in 0..6 : i \in {0, 1, 2, 3, 4, 5, 6}
    OBVIOUS
  <2> QED
    BY <1>2, <2>1, <2>2, <2>3, <2>4, <2>5, <2>6, <2>7
<1>7. Held(stream, w(n)) /\ w(n).range = s.range * Pow2(n)
  BY <1>5 DEF Good
<1>8. \A i \in 0..5 : RenormStep(stream, e(i)) = e(i + 1)
  <2> SUFFICES ASSUME NEW i \in 0..5
               PROVE  RenormStep(stream, e(i)) = e(i + 1)
    OBVIOUS
  <2>1. CASE i < n
    <3>1. Good(stream, s, i)
      <4> QED
        BY <2>1, <1>5
    <3>2. Abs(w(i + 1)) = RenormStep(stream, Abs(w(i)))
      BY <3>1, <2>1, <1>3
    <3>3. i + 1 < n \/ i + 1 = n
      BY <2>1
    <3> HIDE DEF w
    <3> QED
      BY <3>2, <3>3, <2>1
  <2>2. CASE ~(i < n)
    <3>1. w(n).range >= 256
      BY <1>7
    <3>2. ~(i + 1 < n)
      BY <2>2
    <3> QED
      BY <3>1, <3>2, <2>2, Normalised, Zenon
  <2> QED
    BY <2>1, <2>2
<1>9. e(0) = Abs(s) /\ e(6) = Abs(w(n))
  <2>1. e(6) = Abs(w(n))
    <3>1. ~(6 < n)
      OBVIOUS
    <3> QED
      BY <3>1, Zenon
  <2>2. e(0) = Abs(s)
    <3>1. 0 < n \/ n = 0
      OBVIOUS
    <3> HIDE DEF w
    <3> QED
      BY <3>1, <1>2
  <2> QED
    BY <2>1, <2>2
<1>10. Renorm(stream, e(0)) = e(6)
  <2> HIDE DEF e
  <2>1. /\ RenormStep(stream, e(0)) = e(1) /\ RenormStep(stream, e(1)) = e(2)
        /\ RenormStep(stream, e(2)) = e(3) /\ RenormStep(stream, e(3)) = e(4)
        /\ RenormStep(stream, e(4)) = e(5) /\ RenormStep(stream, e(5)) = e(6)
    <3>1. 0 + 1 = 1 /\ 1 + 1 = 2 /\ 2 + 1 = 3 /\ 3 + 1 = 4 /\ 4 + 1 = 5 /\ 5 + 1 = 6
      OBVIOUS
    <3>2. 0 \in 0..5 /\ 1 \in 0..5 /\ 2 \in 0..5 /\ 3 \in 0..5 /\ 4 \in 0..5 /\ 5 \in 0..5
      OBVIOUS
    <3> QED
      BY <3>1, <3>2, <1>8
  <2> QED
    BY <2>1 DEF Renorm
<1> HIDE DEF e
<1> QED
  BY <1>7, <1>9, <1>10
-----------------------------------------------------------------------------
(* The probability models.                                                 *)

\* The range of the less probable symbol leaves at least half of a normalised range to
\* the other, and the table says by how much it has to be shifted.
LEMMA LpsRange ==
  ASSUME NEW q \in States, NEW range \in 256..510
  PROVE  /\ Lps(q, range) \in 4..236
         /\ range - Lps(q, range) \in 128..506
<1>1. PICK c \in 0..31 : (IF Mps(q) = 1 THEN 255 - q ELSE q) \div 4 = c
  BY DEF Mps, States
<1>2. PICK r \in 8..15 : range \div 32 = r
  BY SMT
<1>3. c * r \in 0..(31 * r)
  BY SMT
<1>4. Lps(q, range) = (c * r) \div 2 + 4
  BY <1>1, <1>2 DEF Lps
<1>5. PICK x \in 0..(31 * r) : c * r = x
  BY <1>3
<1>6. /\ x \div 2 + 4 \in 4..236
      /\ range - (x \div 2 + 4) \in 128..506
  BY <1>2, <1>5
<1> QED
  BY <1>4, <1>5, <1>6

LEMMA RenormBits ==
  ASSUME NEW lps \in 4..236
  PROVE  /\ RenormBitsLPS(lps) \in 1..6
         /\ lps * Pow2(RenormBitsLPS(lps)) \in 256..510
         /\ \A i \in 0..6 : i < RenormBitsLPS(lps) => lps * Pow2(i) < 256
<1>1. /\ lps < 8 => RenormBitsLPS(lps) = 6
      /\ lps \in 8..15 => RenormBitsLPS(lps) = 5
      /\ lps \in 16..31 => RenormBitsLPS(lps) = 4
      /\ lps \in 32..63 => RenormBitsLPS(lps) = 3
      /\ lps \in 64..127 => RenormBitsLPS(lps) = 2
      /\ lps \in 128..236 => RenormBitsLPS(lps) = 1
  BY DEF RenormBitsLPS
<1>2. \A i \in 0..6 : i \in {0, 1, 2, 3, 4, 5, 6}
  OBVIOUS
<1>3. CASE lps < 8 BY <1>1, <1>2, <1>3, Powers
<1>4. CASE lps \in 8..15 BY <1>1, <1>2, <1>4, Powers
<1>5. CASE lps \in 16..31 BY <1>1, <1>2, <1>5, Powers
<1>6. CASE lps \in 32..63 BY <1>1, <1>2, <1>6, Powers
<1>7. CASE lps \in 64..127 BY <1>1, <1>2, <1>7, Powers
<1>8. CASE lps \in 128..236 BY <1>1, <1>2, <1>8, Powers
<1> QED
  BY <1>3, <1>4, <1>5, <1>6, <1>7, <1>8

-----------------------------------------------------------------------------
(* The operations.                                                         *)

LEMMA BinsOfQ == \A q \in States : Mps(q) \in {0, 1}
BY SMT DEF States, Mps

\* A decoder that holds a value of its range and shifts it into a normalised one.
LEMMA Renormalises ==
  ASSUME NEW stream \in Stream, NEW s, Held(stream, s), NEW n \in 0..6,
         \A i \in 0..6 : i < n => s.range * Pow2(i) < 256,
         s.range * Pow2(n) \in 256..510
  PROVE  /\ WellFormed(stream, Widen(stream, s, n))
         /\ Abs(Widen(stream, s, n)) = Renorm(stream, Abs(s))
BY RenormIs DEF WellFormed

\* The bin with a probability model: the same bin, the same range and offset and the
\* same place in the substream, whatever the decoder and the model are; and the
\* decoder is ready for the next one.
THEOREM BinStep ==
  ASSUME NEW stream \in Stream, NEW s, WellFormed(stream, s), NEW q \in States
  PROVE  /\ Simulates(DecodeBin(stream, s, q), BitwiseBin(stream, Abs(s), q))
         /\ WellFormed(stream, DecodeBin(stream, s, q).s)
<1> DEFINE lps    == Lps(q, s.range)
           range  == s.range - lps
           scaled == range * 128
           low    == [s EXCEPT !.range = lps, !.value = @ - scaled]
           high   == [s EXCEPT !.range = range]
<1>1. /\ s \in Decoders /\ s.range \in 256..510 /\ s.value \in Nat
      /\ s.value < s.range * 128
      /\ Ahead(s.value, stream[s.pos - 1], 8 + s.bitsNeeded)
  BY DEF WellFormed, Held, Decoders
<1>2. lps \in 4..236 /\ range \in 128..506 /\ s.range = range + lps
  <2>1. lps \in 4..236 /\ range \in 128..506
    BY <1>1, LpsRange
  <2>2. range = s.range - lps
    OBVIOUS
  <2> HIDE DEF lps, range
  <2> QED
    BY <2>1, <2>2, <1>1
<1>3. Abs(s) = [range |-> s.range, offset |-> s.value \div 128,
                next |-> 8 * s.pos + s.bitsNeeded + 1]
  BY DEF Abs
<1>4. s.value >= scaled <=> s.value \div 128 >= range
  <2>1. \A v \in Nat, x \in 128..506 : v >= x * 128 <=> v \div 128 >= x
    BY SMT
  <2> QED
    BY <2>1, <1>1, <1>2
<1> HIDE DEF lps, range
<1>5. CASE s.value >= scaled
  <2> DEFINE n == RenormBitsLPS(lps)
  <2>1. /\ n \in 1..6 /\ lps * Pow2(n) \in 256..510
        /\ \A i \in 0..6 : i < n => lps * Pow2(i) < 256
    BY <1>2, RenormBits
  <2>2. /\ low \in Decoders /\ low.range = lps /\ low.value = s.value - scaled
        /\ low.bitsNeeded = s.bitsNeeded /\ low.pos = s.pos
    <3>1. s.value - scaled \in Nat /\ lps \in Nat
      BY <1>1, <1>2, <1>5
    <3> QED
      BY <3>1, <1>1 DEF Decoders
  <2>3. /\ (s.value - scaled) % 128 = s.value % 128
        /\ (s.value - scaled) \div 128 = (s.value \div 128) - range
        /\ s.value - scaled < lps * 128
    <3>1. \A v \in Nat, x \in 128..506 :
            /\ (v - x * 128) % 128 = v % 128
            /\ (v - x * 128) \div 128 = (v \div 128) - x
      BY SMT
    <3>2. s.value - scaled < lps * 128
      BY <1>1, <1>2
    <3> QED
      BY <3>1, <3>2, <1>1, <1>2
  <2>4. Held(stream, low)
    <3> HIDE DEF low, scaled
    <3> QED
      BY <2>2, <2>3, <1>1 DEF Held, Ahead
  <2>5. Abs(low) = [range |-> lps, offset |-> Abs(s).offset - range, next |-> Abs(s).next]
    <3>1. Abs(low) = [range |-> lps, offset |-> (s.value \div 128) - range,
                      next |-> 8 * s.pos + s.bitsNeeded + 1]
      <4> HIDE DEF low, scaled
      <4> QED
        BY <2>2, <2>3, Zenon DEF Abs
    <3>2. Abs(s).offset = s.value \div 128 /\ Abs(s).next = 8 * s.pos + s.bitsNeeded + 1
      BY <1>3
    <3> HIDE DEF low
    <3> QED
      BY <3>1, <3>2, Zenon
  <2>6. DecodeBin(stream, s, q) = [bin |-> 1 - Mps(q), s |-> Widen(stream, low, n)]
    <3>1. [low EXCEPT !.range = @ * Pow2(n)]
            = [s EXCEPT !.range = lps * Pow2(n), !.value = @ - scaled]
      BY <1>1 DEF Decoders
    <3> HIDE DEF n
    <3> QED
      BY <3>1, <1>5 DEF DecodeBin, Widen, lps, range, n
  <2>7. BitwiseBin(stream, Abs(s), q)
          = [bin |-> 1 - Mps(q), s |-> Renorm(stream, Abs(low))]
    BY <1>3, <1>4, <1>5, <2>5 DEF BitwiseBin, lps, range
  <2>8. /\ WellFormed(stream, Widen(stream, low, n))
        /\ Abs(Widen(stream, low, n)) = Renorm(stream, Abs(low))
    <3> HIDE DEF low, n
    <3> QED
      BY <2>1, <2>2, <2>4, Renormalises
  <2> HIDE DEF low, n
  <2> QED
    BY <2>6, <2>7, <2>8 DEF Simulates
<1>6. CASE ~(s.value >= scaled)
  <2> DEFINE n == IF range < 256 THEN 1 ELSE 0
  <2>1. /\ n \in 0..6 /\ range * Pow2(n) \in 256..510
        /\ \A i \in 0..6 : i < n => range * Pow2(i) < 256
    <3>1. CASE range < 256
      <4>1. n = 1 /\ range * 2 \in 256..510 /\ range * 1 < 256
        BY <3>1, <1>2
      <4>2. \A i \in 0..6 : i < 1 => i = 0
        OBVIOUS
      <4> QED
        BY <4>1, <4>2, Powers
    <3>2. CASE ~(range < 256)
      <4>1. n = 0 /\ range * 1 \in 256..510
        BY <3>2, <1>2
      <4>2. \A i \in 0..6 : ~(i < 0)
        OBVIOUS
      <4> QED
        BY <4>1, <4>2, Powers
    <3> QED
      BY <3>1, <3>2
  <2>2. /\ high \in Decoders /\ high.range = range /\ high.value = s.value
        /\ high.bitsNeeded = s.bitsNeeded /\ high.pos = s.pos
    BY <1>1, <1>2 DEF Decoders
  <2>3. Held(stream, high)
    <3>1. s.value < range * 128
      BY <1>1, <1>2, <1>6
    <3> HIDE DEF high
    <3> QED
      BY <3>1, <2>2, <1>1 DEF Held
  <2>4. Abs(high) = [Abs(s) EXCEPT !.range = range]
    <3> HIDE DEF high
    <3> QED
      BY <2>2, <1>3 DEF Abs
  <2>5. DecodeBin(stream, s, q) = [bin |-> Mps(q), s |-> Widen(stream, high, n)]
    <3>1. [high EXCEPT !.range = @ * Pow2(n)]
            = [s EXCEPT !.range = range * Pow2(n), !.value = @]
      BY <1>1 DEF Decoders
    <3> HIDE DEF n
    <3> QED
      BY <3>1, <1>6 DEF DecodeBin, Widen, lps, range, n
  <2>6. BitwiseBin(stream, Abs(s), q)
          = [bin |-> Mps(q), s |-> Renorm(stream, Abs(high))]
    BY <1>3, <1>4, <1>6, <2>4 DEF BitwiseBin, lps, range
  <2>7. /\ WellFormed(stream, Widen(stream, high, n))
        /\ Abs(Widen(stream, high, n)) = Renorm(stream, Abs(high))
    <3> HIDE DEF high, n
    <3> QED
      BY <2>1, <2>2, <2>3, Renormalises
  <2> HIDE DEF high, n
  <2> QED
    BY <2>5, <2>6, <2>7 DEF Simulates
<1> QED
  BY <1>5, <1>6

\* The bin without a model.
THEOREM BinEPStep ==
  ASSUME NEW stream \in Stream, NEW s, WellFormed(stream, s)
  PROVE  /\ Simulates(DecodeBinEP(stream, s), BitwiseBinEP(stream, Abs(s)))
         /\ WellFormed(stream, DecodeBinEP(stream, s).s)
<1> DEFINE t == Shift(stream, s, 1)
           scaled == s.range * 128
           low == [t EXCEPT !.value = @ - scaled]
           next == 8 * s.pos + s.bitsNeeded + 1
           read == ReadBit(stream, Abs(s))
<1>1. /\ s \in Decoders /\ s.range \in 256..510 /\ s.value \in Nat /\ next \in Nat
      /\ s.value < s.range * 128
      /\ Ahead(s.value, stream[s.pos - 1], 8 + s.bitsNeeded)
  BY DEF WellFormed, Held, Decoders
<1>2. /\ t \in Decoders /\ t.range = s.range
      /\ Ahead(t.value, stream[t.pos - 1], 8 + t.bitsNeeded)
      /\ t.value \div 128 = 2 * (s.value \div 128) + Bit(stream, next)
      /\ 8 * t.pos + t.bitsNeeded + 1 = next + 1
  <2>1. 8 * s.pos + s.bitsNeeded + 2 = next + 1
    BY <1>1 DEF Decoders
  <2> QED
    BY <2>1, <1>1, ShiftOne
<1>3. read = [range |-> t.range, offset |-> t.value \div 128, next |-> next + 1]
  BY <1>2 DEF Abs, ReadBit
<1> HIDE DEF t, read
<1>4. t.value \in Nat /\ t.value < 2 * scaled
  <2>1. s.value \div 128 \in Nat /\ s.value \div 128 < s.range
    BY <1>1, InRange
  <2>2. t.value \in Nat /\ t.value \div 128 < 2 * s.range
    BY <2>1, <1>1, <1>2, BitRange DEF Decoders
  <2>3. \A v \in Nat, x \in 256..510 : v \div 128 < 2 * x => v < 2 * (x * 128)
    BY SMT
  <2> QED
    BY <2>2, <2>3, <1>1
<1>5. t.value >= scaled <=> t.value \div 128 >= s.range
  <2>1. \A v \in Nat, x \in 256..510 : v >= x * 128 <=> v \div 128 >= x
    BY SMT
  <2> QED
    BY <2>1, <1>1, <1>4
<1>6. CASE t.value >= scaled
  <2>1. /\ (t.value - scaled) % 128 = t.value % 128
        /\ (t.value - scaled) \div 128 = (t.value \div 128) - t.range
        /\ t.value - scaled \in Nat /\ t.value - scaled < s.range * 128
    <3>1. \A v \in Nat, x \in 256..510 :
            /\ (v - x * 128) % 128 = v % 128
            /\ (v - x * 128) \div 128 = (v \div 128) - x
      BY SMT
    <3>2. PICK v \in Nat, x \in 256..510 :
            t.value = v /\ s.range = x /\ t.range = x /\ scaled = x * 128
      BY <1>1, <1>2, <1>4
    <3>3. v - x * 128 \in Nat /\ v - x * 128 < x * 128
      BY <3>2, <1>4, <1>6
    <3>4. /\ (v - x * 128) % 128 = v % 128
          /\ (v - x * 128) \div 128 = (v \div 128) - x
      BY <3>1
    <3>5. t.value - scaled = v - x * 128
      BY <3>2
    <3> HIDE DEF scaled
    <3> QED
      BY <3>2, <3>3, <3>4, <3>5
  <2>2. /\ low \in Decoders /\ low.range = s.range /\ low.value = t.value - scaled
        /\ low.bitsNeeded = t.bitsNeeded /\ low.pos = t.pos
    BY <2>1, <1>2 DEF Decoders
  <2>3. DecodeBinEP(stream, s) = [bin |-> 1, s |-> low]
    BY <1>6 DEF DecodeBinEP, t
  <2> HIDE DEF low, scaled
  <2>4. WellFormed(stream, low)
    BY <2>1, <2>2, <1>1, <1>2 DEF WellFormed, Held, Ahead
  <2>5. Abs(low) = [read EXCEPT !.offset = @ - read.range]
    <3>1. Abs(low) = [range |-> t.range, offset |-> (t.value \div 128) - t.range,
                      next |-> next + 1]
      BY <2>1, <2>2, <1>2, Zenon DEF Abs
    <3> QED
      BY <3>1, <1>3
  <2>6. BitwiseBinEP(stream, Abs(s))
          = [bin |-> 1, s |-> [read EXCEPT !.offset = @ - read.range]]
    BY <1>2, <1>3, <1>5, <1>6 DEF BitwiseBinEP, read
  <2> QED
    BY <2>3, <2>4, <2>5, <2>6 DEF Simulates
<1>7. CASE ~(t.value >= scaled)
  <2>1. DecodeBinEP(stream, s) = [bin |-> 0, s |-> t]
    BY <1>7 DEF DecodeBinEP, t
  <2>2. WellFormed(stream, t)
    BY <1>1, <1>2, <1>4, <1>7 DEF WellFormed, Held
  <2>3. Abs(t) = read
    BY <1>2, <1>3 DEF Abs
  <2>4. BitwiseBinEP(stream, Abs(s)) = [bin |-> 0, s |-> read]
    BY <1>2, <1>3, <1>5, <1>7 DEF BitwiseBinEP, read
  <2> QED
    BY <2>1, <2>2, <2>3, <2>4 DEF Simulates
<1> QED
  BY <1>6, <1>7

\* The terminating bin: it is the same bin, and when it is 0 decoding goes on.
THEOREM BinTrmStep ==
  ASSUME NEW stream \in Stream, NEW s, WellFormed(stream, s)
  PROVE  /\ Simulates(DecodeBinTrm(stream, s), BitwiseBinTrm(stream, Abs(s)))
         /\ DecodeBinTrm(stream, s).bin = 0 => WellFormed(stream, DecodeBinTrm(stream, s).s)
<1> DEFINE t == [s EXCEPT !.range = @ - 2]
<1>1. /\ s \in Decoders /\ s.range \in 256..510 /\ s.value \in Nat
      /\ Ahead(s.value, stream[s.pos - 1], 8 + s.bitsNeeded)
  BY DEF WellFormed, Held, Decoders
<1>2. /\ t \in Decoders /\ t.range = s.range - 2 /\ t.range \in 254..508
      /\ t.value = s.value /\ t.bitsNeeded = s.bitsNeeded /\ t.pos = s.pos
  BY <1>1 DEF Decoders
<1>3. Abs(t) = [Abs(s) EXCEPT !.range = @ - 2]
  <2>1. Abs(s) = [range |-> s.range, offset |-> s.value \div 128,
                  next |-> 8 * s.pos + s.bitsNeeded + 1]
    BY DEF Abs
  <2>2. Abs(t) = [range |-> s.range - 2, offset |-> s.value \div 128,
                  next |-> 8 * s.pos + s.bitsNeeded + 1]
    <3> HIDE DEF t
    <3> QED
      BY <1>2 DEF Abs
  <2> HIDE DEF t
  <2> QED
    BY <2>1, <2>2
<1>4. t.value >= t.range * 128 <=> Abs(t).offset >= Abs(t).range
  <2>1. \A v \in Nat, x \in 254..508 : v >= x * 128 <=> v \div 128 >= x
    BY SMT
  <2>2. Abs(t).offset = t.value \div 128 /\ Abs(t).range = t.range
    BY DEF Abs
  <2> HIDE DEF t
  <2> QED
    BY <2>1, <2>2, <1>1, <1>2
<1>5. CASE t.value >= t.range * 128
  <2>1. DecodeBinTrm(stream, s) = [bin |-> 1, s |-> t]
    BY <1>5 DEF DecodeBinTrm
  <2>2. BitwiseBinTrm(stream, Abs(s)) = [bin |-> 1, s |-> Abs(t)]
    <3> HIDE DEF t
    <3> QED
      BY <1>3, <1>4, <1>5 DEF BitwiseBinTrm
  <2> HIDE DEF t
  <2> QED
    BY <2>1, <2>2 DEF Simulates
<1>6. CASE ~(t.value >= t.range * 128)
  <2> DEFINE n == IF t.range < 256 THEN 1 ELSE 0
  <2>1. Held(stream, t)
    <3>1. t.value < t.range * 128
      BY <1>1, <1>2, <1>6
    <3> HIDE DEF t
    <3> QED
      BY <3>1, <1>1, <1>2 DEF Held
  <2>2. /\ n \in 0..6 /\ t.range * Pow2(n) \in 256..510
        /\ \A i \in 0..6 : i < n => t.range * Pow2(i) < 256
    <3> HIDE DEF t
    <3>1. CASE t.range < 256
      <4>1. n = 1 /\ t.range * 2 \in 256..510 /\ t.range * 1 < 256
        BY <3>1, <1>2
      <4>2. \A i \in 0..6 : i < 1 => i = 0
        OBVIOUS
      <4> QED
        BY <4>1, <4>2, Powers
    <3>2. CASE ~(t.range < 256)
      <4>1. n = 0 /\ t.range * 1 \in 256..510
        BY <3>2, <1>2
      <4>2. \A i \in 0..6 : ~(i < 0)
        OBVIOUS
      <4> QED
        BY <4>1, <4>2, Powers
    <3> QED
      BY <3>1, <3>2
  <2>3. /\ WellFormed(stream, Widen(stream, t, n))
        /\ Abs(Widen(stream, t, n)) = Renorm(stream, Abs(t))
    <3> HIDE DEF t, n
    <3> QED
      BY <2>1, <2>2, Renormalises
  <2>4. DecodeBinTrm(stream, s) = [bin |-> 0, s |-> Widen(stream, t, n)]
    <3> HIDE DEF t
    <3>1. DecodeBinTrm(stream, s)
            = [bin |-> 0, s |-> IF t.range < 256
                                THEN Shift(stream, [t EXCEPT !.range = 2 * @], 1) ELSE t]
      BY <1>6 DEF DecodeBinTrm, t
    <3>2. CASE t.range < 256
      <4>1. t.range * Pow2(1) = 2 * t.range
        BY <1>2, Powers
      <4> QED
        BY <3>1, <3>2, <4>1 DEF Widen
    <3>3. CASE ~(t.range < 256)
      BY <3>1, <3>3, <1>2, WidenByNone
    <3> QED
      BY <3>2, <3>3
  <2>5. BitwiseBinTrm(stream, Abs(s)) = [bin |-> 0, s |-> Renorm(stream, Abs(t))]
    <3> HIDE DEF t
    <3> QED
      BY <1>3, <1>4, <1>6 DEF BitwiseBinTrm
  <2> HIDE DEF t, n
  <2> QED
    BY <2>3, <2>4, <2>5 DEF Simulates
<1> QED
  BY <1>5, <1>6

\* start(): nine bits are in the offset; the first byte of a substream is never 255, as
\* an offset of 510 or 511 would not be in the range.
THEOREM Starts ==
  ASSUME NEW stream \in Stream, stream[0] < 255
  PROVE  /\ WellFormed(stream, Start(stream))
         /\ Abs(Start(stream)) = [range |-> 510,
              offset |-> 2 * stream[0] + (stream[1] \div 128), next |-> 9]
<1> DEFINE s == Start(stream)
<1>1. PICK a \in 0..254, b \in 0..255 : stream[0] = a /\ stream[1] = b
  <2>1. stream[0] \in 0..255 /\ stream[1] \in 0..255
    BY DEF Stream, Bytes
  <2>2. PICK x \in 0..255 : stream[0] = x
    BY <2>1
  <2>3. x \in 0..254
    BY <2>2
  <2> QED
    BY <2>1, <2>2, <2>3
<1>2. s = [range |-> 510, value |-> a * 256 + b, bitsNeeded |-> -8, pos |-> 2]
  BY <1>1 DEF Start
<1>3. /\ a * 256 + b \in Nat /\ a * 256 + b < 510 * 128
      /\ (a * 256 + b) % 128 = (b % 128) * 1
      /\ (a * 256 + b) \div 128 = 2 * a + (b \div 128)
  BY SMT
<1> HIDE DEF s
<1>4. /\ s \in Decoders /\ s.range = 510 /\ s.value = a * 256 + b
      /\ s.bitsNeeded = -8 /\ s.pos = 2
  BY <1>2, <1>3 DEF Decoders
<1>5. 8 + s.bitsNeeded = 0 /\ s.pos - 1 = 1 /\ 8 * s.pos + s.bitsNeeded + 1 = 9 /\ 7 - 0 = 7
  BY <1>4
<1>6. Ahead(s.value, stream[s.pos - 1], 8 + s.bitsNeeded)
  <2>1. (a * 256 + b) % 128 = (b % Pow2(7 - 0)) * Pow2(0)
    BY <1>3, <1>5, Powers
  <2>2. Ahead(a * 256 + b, b, 0)
    BY <2>1, Zenon DEF Ahead
  <2> QED
    BY <2>2, <1>1, <1>4, <1>5, Zenon
<1>7. WellFormed(stream, s)
  BY <1>3, <1>4, <1>6 DEF WellFormed, Held
<1>8. Abs(s) = [range |-> 510, offset |-> 2 * a + (b \div 128), next |-> 9]
  BY <1>3, <1>4, <1>5, Zenon DEF Abs
<1> QED
  BY <1>1, <1>7, <1>8 DEF s
=============================================================================
