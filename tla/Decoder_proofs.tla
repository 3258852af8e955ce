--------------------------- MODULE Decoder_proofs ---------------------------
(***************************************************************************)
(* Proofs about Decoder, for any stream, any number of buffers, pictures   *)
(* and instances, any parse delay and any faults.                          *)
(***************************************************************************)
EXTENDS DecoderProps, SequenceTheorems, FiniteSetTheorems, TLAPS

LEMMA Constants ==
  /\ MaxBufs \in Nat /\ MaxBufs >= 1 /\ Instances \in Nat /\ Instances >= 1
  /\ MaxRefPicNum \in Nat /\ NumReorder \in Nat /\ MaxOutOfOrderPics \in Nat
  /\ Bufs \subseteq Nat /\ NoPic \notin Bufs /\ NoPic = 0
BY DecoderAssumption DEF Bufs, NoPic

\* What the headers of the NAL unit that comes next say.
LEMMA Coded ==
  ASSUME NEW s \in Setups, NEW p \in DOMAIN s.coded
  PROVE  /\ s.coded[p] \in CodedPicture /\ p \in Nat \ {0}
         /\ s.coded[p].poc \in Int /\ s.coded[p].idr \in BOOLEAN
         /\ s.coded[p].rpl \subseteq Int /\ s.coded[p].active \subseteq Int
         /\ s.coded[p].isRef \in BOOLEAN /\ s.coded[p].output \in BOOLEAN
         /\ s.coded[p].slices \in Nat \ {0} /\ s.coded[p].sei \in BOOLEAN
         /\ s.delay \in Nat
<1>1. s.coded \in Seq(CodedPicture) /\ s.delay \in Nat
  BY DecoderAssumption
<1>2. s.coded[p] \in CodedPicture /\ p \in Nat \ {0}
  BY <1>1, ElementOfSeq, LenProperties
<1> QED
  BY <1>1, <1>2 DEF CodedPicture
-----------------------------------------------------------------------------
(* Numbers, sequences and what the library's operators return.              *)

\* A set of natural numbers has a least element.
LEMMA Least == ASSUME NEW T \in SUBSET Nat, T # {} PROVE \E m \in T : \A n \in T : m <= n
<1> DEFINE D == {1 .. n : n \in T}
<1>1. IsWellFoundedOn(StrictSubsetOrdering(Nat), FiniteSubsetsOf(Nat))
  BY FS_StrictSubsetOrderingWellFounded
<1>2. D \subseteq FiniteSubsetsOf(Nat) /\ D # {}
  <2>1. \A n \in T : 1 .. n \in SUBSET Nat /\ IsFiniteSet(1 .. n)
    BY FS_Interval
  <2> QED
    BY <2>1 DEF FiniteSubsetsOf
<1>3. PICK S \in D : \A U \in D : ~(<<U, S>> \in StrictSubsetOrdering(Nat))
  <2> HIDE DEF D
  <2> QED
    BY <1>1, <1>2, WFMin
<1>4. PICK m \in T : S = 1 .. m
  OBVIOUS
<1>5. \A n \in T : n < m => <<1 .. n, 1 .. m>> \in StrictSubsetOrdering(Nat)
  <2> SUFFICES ASSUME NEW n \in T, n < m
               PROVE  <<1 .. n, 1 .. m>> \in StrictSubsetOrdering(Nat)
    OBVIOUS
  <2>1. 1 .. n \in SUBSET Nat /\ 1 .. m \in SUBSET Nat
    OBVIOUS
  <2>2. 1 .. n \subseteq 1 .. m /\ m \in 1 .. m /\ m \notin 1 .. n
    OBVIOUS
  <2> QED
    BY <2>1, <2>2 DEF StrictSubsetOrdering
<1>6. \A n \in T : ~(n < m)
  <2> SUFFICES ASSUME NEW n \in T PROVE ~(n < m)
    OBVIOUS
  <2>1. 1 .. n \in D
    OBVIOUS
  <2> QED
    BY <1>3, <1>4, <1>5, <2>1
<1> QED
  BY <1>6

LEMMA MinIs ==
  ASSUME NEW T \in SUBSET Nat, T # {}
  PROVE  Min(T) \in T /\ \A n \in T : Min(T) <= n
BY Least DEF Min

\* A sequence without its element at i.
LEMMA Removed ==
  ASSUME NEW S, NEW s \in Seq(S), NEW i \in 1..Len(s)
  PROVE  /\ RemoveAt(s, i) \in Seq(S) /\ Len(RemoveAt(s, i)) = Len(s) - 1
         /\ \A j \in 1..(Len(s) - 1) :
              RemoveAt(s, i)[j] = IF j < i THEN s[j] ELSE s[j + 1]
<1> DEFINE a == SubSeq(s, 1, i - 1)  z == SubSeq(s, i + 1, Len(s))
<1>1. Len(s) \in Nat /\ i \in Nat
  BY LenProperties
<1>2. \A k \in 1..Len(s) : s[k] \in S
  BY ElementOfSeq
<1>3. /\ a \in Seq(S) /\ Len(a) = i - 1
      /\ \A k \in 1..(i - 1) : a[k] = s[k]
  <2>1. CASE i = 1
    BY <1>1, <1>2, <2>1, SubSeqProperties
  <2>2. CASE i > 1
    BY <1>1, <1>2, <2>2, SubSeqProperties
  <2> QED
    BY <1>1, <2>1, <2>2
<1>4. /\ z \in Seq(S) /\ Len(z) = Len(s) - i
      /\ \A k \in 1..(Len(s) - i) : z[k] = s[k + i]
  BY <1>1, <1>2, SubSeqProperties
<1> HIDE DEF a, z
<1>5. /\ a \o z \in Seq(S) /\ Len(a \o z) = Len(s) - 1
      /\ \A k \in 1..(Len(s) - 1) : (a \o z)[k] = IF k <= i - 1 THEN a[k] ELSE z[k - (i - 1)]
  <2>1. Len(a) + Len(z) = Len(s) - 1
    BY <1>1, <1>3, <1>4
  <2>2. /\ a \o z \in Seq(S) /\ Len(a \o z) = Len(a) + Len(z)
        /\ \A k \in 1..(Len(a) + Len(z)) : (a \o z)[k] = IF k <= Len(a) THEN a[k] ELSE z[k - Len(a)]
    BY <1>3, <1>4, ConcatProperties
  <2> QED
    BY <1>3, <2>1, <2>2
<1>6. ASSUME NEW j \in 1..(Len(s) - 1)
      PROVE  (a \o z)[j] = IF j < i THEN s[j] ELSE s[j + 1]
  <2>1. CASE j < i
    <3>1. j <= i - 1 /\ j \in 1..(i - 1)
      BY <1>1, <2>1
    <3> QED
      BY <1>3, <1>5, <2>1, <3>1
  <2>2. CASE j >= i
    <3>1. /\ j - (i - 1) \in 1..(Len(s) - i) /\ (j - (i - 1)) + i = j + 1
          /\ ~(j < i) /\ ~(j <= i - 1)
      BY <1>1, <2>2
    <3>2. z[j - (i - 1)] = s[(j - (i - 1)) + i]
      BY <1>4, <3>1
    <3>3. (a \o z)[j] = z[j - (i - 1)]
      BY <1>5, <3>1
    <3>4. s[(j - (i - 1)) + i] = s[j + 1]
      BY <3>1
    <3> QED
      BY <3>1, <3>2, <3>3, <3>4
  <2>3. j < i \/ j >= i
    BY <1>1
  <2> QED
    BY <2>1, <2>2, <2>3
<1> QED
  BY <1>5, <1>6 DEF RemoveAt, a, z

LEMMA RemovedFrom ==
  ASSUME NEW S, NEW s \in Seq(S), NEW i \in 1..Len(s), IsInjective(s)
  PROVE  /\ IsInjective(RemoveAt(s, i))
         /\ ToSet(RemoveAt(s, i)) = ToSet(s) \ {s[i]}
<1> DEFINE r == RemoveAt(s, i)
<1>1. /\ r \in Seq(S) /\ Len(r) = Len(s) - 1 /\ Len(s) \in Nat /\ i \in Nat
      /\ DOMAIN s = 1..Len(s) /\ DOMAIN r = 1..(Len(s) - 1)
      /\ \A j \in 1..(Len(s) - 1) : r[j] = IF j < i THEN s[j] ELSE s[j + 1]
  BY Removed, LenProperties
<1> HIDE DEF r
<1>2. \A j \in DOMAIN r : r[j] = s[IF j < i THEN j ELSE j + 1]
  BY <1>1
<1>3. \A j \in DOMAIN r : /\ j \in Int
                          /\ (IF j < i THEN j ELSE j + 1) \in DOMAIN s
                          /\ (IF j < i THEN j ELSE j + 1) # i
  BY <1>1
<1>4. IsInjective(r)
  <2> SUFFICES ASSUME NEW j \in DOMAIN r, NEW k \in DOMAIN r, r[j] = r[k] PROVE j = k
    BY DEF IsInjective
  <2>1. (IF j < i THEN j ELSE j + 1) = (IF k < i THEN k ELSE k + 1)
    BY <1>2, <1>3 DEF IsInjective
  <2> QED
    BY <1>1, <1>3, <2>1
<1>5. ToSet(r) \subseteq ToSet(s) \ {s[i]}
  BY <1>1, <1>2, <1>3 DEF ToSet, IsInjective
<1>6. ToSet(s) \ {s[i]} \subseteq ToSet(r)
  <2> SUFFICES ASSUME NEW k \in DOMAIN s, k # i PROVE s[k] \in ToSet(r)
    BY DEF ToSet
  <2>1. CASE k < i
    <3>1. k \in DOMAIN r /\ r[k] = s[k]
      BY <1>1, <2>1
    <3> QED
      BY <3>1 DEF ToSet
  <2>2. CASE k > i
    <3>1. k - 1 \in DOMAIN r /\ ~(k - 1 < i) /\ (k - 1) + 1 = k
      BY <1>1, <2>2
    <3>2. r[k - 1] = s[(k - 1) + 1]
      BY <1>1, <3>1
    <3>3. r[k - 1] = s[k]
      BY <3>1, <3>2
    <3> QED
      BY <3>1, <3>3 DEF ToSet
  <2>3. k < i \/ k > i
    BY <1>1
  <2> QED
    BY <2>1, <2>2, <2>3
<1> QED
  BY <1>4, <1>5, <1>6 DEF r

LEMMA Appended ==
  ASSUME NEW S, NEW s \in Seq(S), NEW e \in S
  PROVE  /\ Append(s, e) \in Seq(S) /\ Len(Append(s, e)) = Len(s) + 1
         /\ Len(s) \in Nat /\ DOMAIN s = 1..Len(s)
         /\ DOMAIN Append(s, e) = 1..(Len(s) + 1)
         /\ \A i \in 1..Len(s) : Append(s, e)[i] = s[i]
         /\ Append(s, e)[Len(s) + 1] = e
         /\ ToSet(Append(s, e)) = ToSet(s) \cup {e}
         /\ IsInjective(s) /\ e \notin ToSet(s) => IsInjective(Append(s, e))
<1> DEFINE a == Append(s, e)
<1>1. /\ a \in Seq(S) /\ Len(a) = Len(s) + 1
      /\ Len(s) \in Nat /\ DOMAIN s = 1..Len(s) /\ DOMAIN a = 1..(Len(s) + 1)
      /\ \A i \in 1..Len(s) : a[i] = s[i]
      /\ a[Len(s) + 1] = e
  BY AppendProperties, LenProperties
<1> HIDE DEF a
<1>2. DOMAIN a = DOMAIN s \cup {Len(s) + 1} /\ Len(s) + 1 \notin DOMAIN s
  BY <1>1
<1>3. ToSet(a) = ToSet(s) \cup {e}
  BY <1>1, <1>2 DEF ToSet
<1>4. IsInjective(s) /\ e \notin ToSet(s) => IsInjective(a)
  BY <1>1, <1>2 DEF ToSet, IsInjective
<1> QED
  BY <1>1, <1>3, <1>4 DEF a

LEMMA InSequence ==
  ASSUME NEW S, NEW s \in Seq(S)
  PROVE  /\ Len(s) \in Nat /\ DOMAIN s = 1..Len(s)
         /\ \A i \in DOMAIN s : s[i] \in S /\ s[i] \in ToSet(s)
         /\ ToSet(s) \subseteq S
         /\ s = <<>> <=> Len(s) = 0
         /\ s = <<>> => ToSet(s) = {}
<1>1. Len(s) \in Nat /\ DOMAIN s = 1..Len(s) /\ \A i \in 1..Len(s) : s[i] \in S
  BY LenProperties, ElementOfSeq
<1>2. s = <<>> <=> Len(s) = 0
  BY EmptySeq
<1> QED
  BY <1>1, <1>2 DEF ToSet
-----------------------------------------------------------------------------
(* The pictures and their list.                                             *)

LEMMA Ranges ==
  /\ {init, parsing, parsed, reconstructing, reconstructed, finished} \subseteq init..finished
  /\ {"unlocked", "locked", "error"} \subseteq BarrierState
BY DEF init, parsing, parsed, reconstructing, reconstructed, finished, BarrierState

LEMMA Fields ==
  ASSUME NEW p \in Picture
  PROVE  /\ p.progress \in 0..5 /\ p.progress \in Int /\ p.poc \in Int /\ p.cts \in Nat
         /\ p.idr \in BOOLEAN /\ p.refs \subseteq Bufs
         /\ p.dpbReferenceMark \in BOOLEAN /\ p.stillReferenced \in BOOLEAN
         /\ p.neededForOutput \in BOOLEAN /\ p.lockedByApplication \in BOOLEAN
         /\ p.wasLost \in BOOLEAN /\ p.error \in BOOLEAN
         /\ p.exceptionThrownOut \in BOOLEAN /\ p.skippedDecCount \in Nat
         /\ p.parseDone \in BarrierState /\ p.reconDone \in BarrierState
         /\ p.slices \in Nat /\ p.complete \in BOOLEAN /\ p.queue \subseteq Nat
         /\ p.parsedSlices \subseteq Nat /\ p.parseFailed \in BOOLEAN
         /\ p.recon \in BOOLEAN /\ p.border \in BOOLEAN /\ p.borderFailed \in BOOLEAN
         /\ p.borderExtStarted \in BOOLEAN
BY DEF Picture, init, finished

LEMMA Reset ==
  ASSUME NEW p \in Picture
  PROVE  /\ ResetForUse(p) \in Picture /\ FreshPicture \in Picture
         /\ SoundPicture(ResetForUse(p)) /\ SoundPicture(FreshPicture)
         /\ ResetForUse(p).refs = {} /\ ResetForUse(p).progress = init
         /\ ResetForUse(p).cts = 0 /\ ~ResetForUse(p).recon
         /\ ResetForUse(p).queue = {} /\ ResetForUse(p).reconDone = "locked"
         /\ ~ResetForUse(p).stillReferenced /\ ~ResetForUse(p).wasLost
         /\ ResetForUse(p).parsedSlices = {} /\ ResetForUse(p).parseDone = "locked"
         /\ ~ResetForUse(p).dpbReferenceMark
<1>1. FreshPicture \in Picture
  BY DEF FreshPicture, Picture, init, finished, BarrierState
<1>2. ResetForUse(p) \in Picture
  BY <1>1, Fields DEF ResetForUse, Picture
<1> QED
  BY <1>1, <1>2 DEF ResetForUse, FreshPicture, SoundPicture, init, finished

LEMMA ResetTasks ==
  ASSUME NEW p \in Picture
  PROVE  /\ ResetForUse(p).parseFailed = FALSE
         /\ ResetForUse(p).borderExtStarted = FALSE
BY DEF ResetForUse, FreshPicture

LEMMA SelectedFirst ==
  ASSUME NEW I \in SUBSET Nat, 0 \notin I
  PROVE  LET at == IF I # {} THEN Min(I) ELSE 0
         IN /\ at = 0 => I = {}
            /\ at # 0 => at \in I
            /\ \A i \in I : at <= i
BY MinIs

\* getNewPicBuffer: the list still has every buffer once, and the buffer that
\* is taken was new or could be reused.
LEMMA NewBuffer ==
  ASSUME NEW P, NEW S \in SUBSET Nat, NEW L \in Seq(S), NEW room,
         IsInjective(L), ToSet(L) = 1..Len(L)
  PROVE  LET n == GetNewPicBuffer(P, L, room)
         IN /\ n.buf \in S =>
                 /\ n.list \in Seq(S) /\ IsInjective(n.list)
                 /\ ToSet(n.list) = 1..Len(n.list)
                 /\ ToSet(n.list) = ToSet(L) \cup {n.buf}
            /\ n.pic = [P EXCEPT ![n.buf] = ResetForUse(@)]
            /\ n.buf \in ToSet(L) => Reusable(P[n.buf])
<1> DEFINE I == {i \in 1..Len(L) : Reusable(P[L[i]])}
           at == SelectInSeq(L, LAMBDA b : Reusable(P[b]))
           n == GetNewPicBuffer(P, L, room)
<1>1. /\ Len(L) \in Nat /\ DOMAIN L = 1..Len(L)
      /\ \A i \in DOMAIN L : L[i] \in S /\ L[i] \in ToSet(L)
  BY InSequence
<1>2. at = IF I # {} THEN Min(I) ELSE 0
  BY DEF SelectInSeq
<1>3. I \in SUBSET Nat /\ 0 \notin I
  BY <1>1
<1>4. at = 0 \/ at \in I
  <2> HIDE DEF I
  <2> QED
    BY <1>2, <1>3, SelectedFirst
<1>7. /\ n.pic = [P EXCEPT ![n.buf] = ResetForUse(@)]
      /\ \/ n.buf = Len(L) + 1 /\ n.list = Append(L, Len(L) + 1)
         \/ at # 0 /\ n.buf = L[at] /\ n.list = Append(RemoveAt(L, at), L[at])
  BY DEF GetNewPicBuffer
<1> SUFFICES /\ n.buf \in S =>
                  /\ n.list \in Seq(S) /\ IsInjective(n.list)
                  /\ ToSet(n.list) = 1..Len(n.list)
                  /\ ToSet(n.list) = ToSet(L) \cup {n.buf}
             /\ n.buf \in ToSet(L) => Reusable(P[n.buf])
  BY <1>7, Zenon
<1> HIDE DEF at, n
<1>5. CASE n.buf = Len(L) + 1 /\ n.list = Append(L, Len(L) + 1)
  <2>1. Len(L) + 1 \notin ToSet(L)
    BY <1>1
  <2>2. Len(L) + 1 \in S =>
          /\ n.list \in Seq(S) /\ IsInjective(n.list) /\ Len(n.list) = Len(L) + 1
          /\ ToSet(n.list) = ToSet(L) \cup {Len(L) + 1}
    BY <1>5, <2>1, Appended
  <2>3. 1..(Len(L) + 1) = 1..Len(L) \cup {Len(L) + 1}
    BY <1>1
  <2> QED
    BY <1>5, <2>1, <2>2, <2>3
<1>6. CASE at \in I /\ n.buf = L[at] /\ n.list = Append(RemoveAt(L, at), L[at])
  <2> DEFINE r == RemoveAt(L, at)
  <2>1. /\ at \in 1..Len(L) /\ L[at] \in S /\ L[at] \in ToSet(L)
        /\ Reusable(P[L[at]])
    BY <1>1, <1>6
  <2>2. /\ r \in Seq(S) /\ IsInjective(r) /\ Len(r) = Len(L) - 1
        /\ ToSet(r) = ToSet(L) \ {L[at]}
    BY <2>1, Removed, RemovedFrom
  <2> HIDE DEF r
  <2>3. /\ Append(r, L[at]) \in Seq(S) /\ IsInjective(Append(r, L[at]))
        /\ Len(Append(r, L[at])) = Len(L)
        /\ ToSet(Append(r, L[at])) = ToSet(L)
    <3>1. /\ Append(r, L[at]) \in Seq(S) /\ IsInjective(Append(r, L[at]))
          /\ Len(Append(r, L[at])) = Len(r) + 1
          /\ ToSet(Append(r, L[at])) = ToSet(r) \cup {L[at]}
      BY <2>1, <2>2, Appended
    <3>2. Len(r) + 1 = Len(L) /\ ToSet(r) \cup {L[at]} = ToSet(L)
      BY <1>1, <2>1, <2>2
    <3> QED
      BY <3>1, <3>2
  <2>4. n.list = Append(r, L[at])
    BY <1>6 DEF r
  <2> QED
    BY <1>6, <2>1, <2>3, <2>4
<1> QED
  BY <1>4, <1>5, <1>6, <1>7

\* What IndInv gives for the pictures and the lists in every proof.
LEMMA State ==
  ASSUME TypeOK
  PROVE  /\ pic \in [Bufs -> Picture] /\ \A b \in Bufs : pic[b] \in Picture
         /\ list \in Seq(Bufs) /\ IsInjective(list) /\ InList = 1..Len(list)
         /\ InList \subseteq Bufs /\ NoPic \notin InList
         /\ dpb \subseteq InList /\ parsePic \in InList \cup {NoPic}
         /\ parseList \in Seq(Bufs) /\ Len(parseList) \in Nat
         /\ DOMAIN parseList = 1..Len(parseList)
         /\ \A i \in DOMAIN parseList : parseList[i] \in ToSet(parseList)
         /\ ToSet(parseList) \subseteq InList
         /\ parseList = <<>> => ToSet(parseList) = {}
         /\ parseList = <<>> <=> Len(parseList) = 0
         /\ instances \in [1..Instances -> InList \cup {NoPic}]
         /\ ToSet(instances) \subseteq InList \cup {NoPic} /\ InWork \subseteq InList
         /\ \A i \in 1..Instances : instances[i] \in ToSet(instances)
         /\ main.cur \in InList \cup {NoPic} /\ main.done \in InList \cup {NoPic}
         /\ main.outPic \in InList \cup {NoPic} /\ main.flushing \in BOOLEAN
         /\ held \subseteq InList
<1>1. InList \subseteq Bufs /\ ToSet(parseList) \subseteq InList
  BY InSequence DEF TypeOK, InList
<1>2. parseList \in Seq(Bufs)
  BY DEF TypeOK
<1>3. ToSet(instances) \subseteq InList \cup {NoPic}
  BY DEF TypeOK, ToSet
<1>4. \A i \in 1..Instances : instances[i] \in ToSet(instances)
  BY DEF TypeOK, ToSet
<1>5. /\ main.cur \in InList \cup {NoPic} /\ main.done \in InList \cup {NoPic}
      /\ main.outPic \in InList \cup {NoPic} /\ main.flushing \in BOOLEAN
  BY DEF TypeOK
<1> QED
  BY <1>1, <1>2, <1>3, <1>4, <1>5, Constants, InSequence DEF TypeOK, InWork

\* Taking a buffer: it belonged to nobody.
LEMMA Taken ==
  ASSUME TypeOK, NEW P \in [Bufs -> Picture], NEW d \in SUBSET dpb
  PROVE  LET T == TakeBuffer([pic |-> P, list |-> list, dpb |-> d])
         IN /\ T.buf \in Bufs =>
                 /\ T.list \in Seq(Bufs) /\ IsInjective(T.list)
                 /\ ToSet(T.list) = 1..Len(T.list)
                 /\ ToSet(T.list) = InList \cup {T.buf}
                 /\ T.dpb \subseteq ToSet(T.list)
                 /\ T.pic \in [Bufs -> Picture]
                 /\ T.pic[T.buf] = ResetForUse(P[T.buf])
                 /\ \A x \in Bufs \ {T.buf} : T.pic[x] = P[x]
            /\ T.dpb = d \cup {T.buf}
            /\ T.ok = (T.buf \notin d) /\ T.ok \in BOOLEAN
            /\ T.buf \in InList => Reusable(P[T.buf])
<1> DEFINE D == [pic |-> P, list |-> list, dpb |-> d]
           room == MaxRefPicNum + ParseFrameDelay
           n == GetNewPicBuffer(P, list, room)
           T == TakeBuffer(D)
<1>1. /\ T.buf = n.buf /\ T.list = n.list /\ T.pic = n.pic
      /\ T.dpb = d \cup {n.buf} /\ T.ok = (n.buf \notin d)
  BY DEF TakeBuffer
<1>2. /\ n.buf \in Bufs =>
           /\ n.list \in Seq(Bufs) /\ IsInjective(n.list)
           /\ ToSet(n.list) = 1..Len(n.list)
           /\ ToSet(n.list) = InList \cup {n.buf}
      /\ n.pic = [P EXCEPT ![n.buf] = ResetForUse(@)]
      /\ n.buf \in InList => Reusable(P[n.buf])
  <2> HIDE DEF room
  <2> QED
    BY State, Constants, NewBuffer DEF InList
<1> HIDE DEF n, T
<1>3. n.buf \in Bufs =>
        /\ n.pic \in [Bufs -> Picture]
        /\ n.pic[n.buf] = ResetForUse(P[n.buf])
        /\ \A x \in Bufs \ {n.buf} : n.pic[x] = P[x]
  BY <1>2, Reset
<1>4. d \subseteq InList
  BY State
<1> QED
  BY <1>1, <1>2, <1>3, <1>4 DEF T

LEMMA Owned ==
  ASSUME IndInv
  PROVE  /\ TypeOK /\ Waiting \subseteq InList /\ InWork \subseteq InList
         /\ ToSet(parseList) \subseteq Waiting
         /\ main.pc \in {"clean", "recon"} => main.cur \in InList /\ main.cur \in Waiting
         /\ main.pc \in {"ext", "finish"} => main.cur \in InList /\ main.cur \in InWork
         /\ main.done # NoPic => main.done \in InList
         /\ held \cup ({main.outPic} \ {NoPic}) \subseteq InList
         /\ InList \subseteq Bufs /\ NoPic \notin InList
         /\ \A x \in Bufs : pic[x].refs \subseteq InList
<1>1. TypeOK
  BY DEF IndInv
<1>2. main.pc \in {"clean", "recon"} => main.cur \in InList
  BY <1>1, State DEF IndInv, CallPlace
<1>3. main.pc \in {"ext", "finish"} => main.cur \in InList /\ main.cur \in InWork
  BY <1>1, State DEF IndInv, CallPlace, InWork
<1> QED
  BY <1>1, <1>2, <1>3, State DEF IndInv, PicturesSound, Waiting

\* A picture b goes on as its owner allows; its references and what the parser
\* knows of it stay.
GoesOn(b) ==
  LET p == pic[b]  q == pic'[b]
  IN /\ SoundPicture(q)
     /\ q.refs = p.refs /\ q.cts = p.cts /\ q.wasLost = p.wasLost
     /\ q.complete = p.complete /\ q.stillReferenced = p.stillReferenced
     /\ p.exceptionThrownOut => q.exceptionThrownOut
     /\ p.progress <= q.progress /\ (q.progress = finished => p.progress = finished)
     /\ b \in Waiting => q.progress \in {parsing, parsed} /\ q.reconDone = "locked"
     /\ b \in InWork =>
          /\ q.progress \in {reconstructing, reconstructed}
          /\ q.reconDone = "unlocked" => q.queue = {} /\ ~q.recon
     /\ b = main.done =>
          q.progress \in {reconstructing, reconstructed} /\ q.queue = {} /\ ~q.recon
     /\ q.recon => b \in InWork
     /\ b = parsePic /\ MoreNals /\ ~p.complete => q.progress <= parsed
     /\ b \in held' \cup {main.outPic} => q.lockedByApplication

\* The main thread stays where it is, or in the parser.
InParser ==
  \/ main' = main
  \/ /\ {main.pc, main'.pc} \subseteq ParserPc
     /\ main'.cur = NoPic /\ main'.done = NoPic /\ main'.outPic = NoPic
     /\ main'.flushing = FALSE /\ main'.exc \in BOOLEAN
     /\ main' = [pc |-> main'.pc, cur |-> NoPic, exc |-> main'.exc,
                 done |-> NoPic, outPic |-> NoPic, flushing |-> FALSE]
     /\ main'.pc = "sei" => parsePic' # NoPic

LEMMA PicturesGoOn ==
  ASSUME IndInv, pic' \in [Bufs -> Picture],
         \A b \in Bufs : pic'[b] = pic[b] \/ (b \in InList /\ GoesOn(b)),
         UNCHANGED <<setup, list, dpb, parseList, instances, first, tuneIn, out>>,
         InParser, parsePic' = parsePic \/ (parsePic' = NoPic /\ main'.pc = "idle"),
         nal' \in (Nat \ {0}) \X (Nat \ {0}), MoreNals' => MoreNals,
         segment' \in Nat, started' \in BOOLEAN,
         held' \subseteq held, faults' \in Nat, reports' \in [DOMAIN stream -> Nat]
  PROVE  IndInv' /\ \A x \in Bufs : pic[x].progress = finished => pic'[x].progress = finished
<1> USE Owned
<1>1. /\ TypeOK /\ InList' = InList /\ Waiting' = Waiting /\ InWork' = InWork
      /\ \A x \in Bufs : pic[x] \in Picture /\ pic'[x] \in Picture
      /\ main'.done = main.done /\ main'.outPic = main.outPic
      /\ main'.flushing = main.flushing
      /\ parseList' = parseList /\ instances' = instances
  BY State, ZenonT(30) DEF IndInv, InList, Waiting, InWork, InParser, ParserPc, CallPlace
<1>2. \A x \in Bufs : /\ pic'[x].refs = pic[x].refs /\ pic'[x].cts = pic[x].cts
                      /\ pic'[x].wasLost = pic[x].wasLost
                      /\ pic'[x].complete = pic[x].complete
                      /\ pic'[x].stillReferenced = pic[x].stillReferenced
                      /\ pic[x].exceptionThrownOut => pic'[x].exceptionThrownOut
                      /\ pic[x].progress \in 0..5 /\ pic'[x].progress \in 0..5
                      /\ pic[x].progress <= pic'[x].progress
  <2> SUFFICES ASSUME NEW x \in Bufs
               PROVE  /\ pic'[x].refs = pic[x].refs /\ pic'[x].cts = pic[x].cts
                      /\ pic'[x].wasLost = pic[x].wasLost
                      /\ pic'[x].complete = pic[x].complete
                      /\ pic'[x].stillReferenced = pic[x].stillReferenced
                      /\ pic[x].exceptionThrownOut => pic'[x].exceptionThrownOut
                      /\ pic[x].progress \in 0..5 /\ pic'[x].progress \in 0..5
                      /\ pic[x].progress <= pic'[x].progress
    OBVIOUS
  <2>1. pic[x].progress \in 0..5 /\ pic'[x].progress \in 0..5
    BY <1>1, Fields
  <2> QED
    BY <2>1 DEF GoesOn
<1>3. \A x \in Bufs : pic'[x].progress = finished <=> pic[x].progress = finished
  BY <1>1, <1>2 DEF GoesOn, finished
<1>4. TypeOK'
  <2>1. /\ setup' \in Setups /\ list' \in Seq(Bufs) /\ IsInjective(list')
        /\ parsePic' \in InList \cup {NoPic}
        /\ InList' = 1..Len(list') /\ dpb' \subseteq InList' /\ held' \subseteq InList'
        /\ parseList' \in Seq(Bufs) /\ ToSet(parseList') \subseteq InList'
        /\ first' \in BOOLEAN /\ tuneIn' \in Nat /\ out' \in Seq(Nat)
        /\ instances' \in [1..Instances -> InList' \cup {NoPic}]
    BY <1>1, State, ZenonT(30) DEF TypeOK
  <2>2. main' \in [pc : ParserPc \cup DecodePc \cup ReconPc \cup FlushPc \cup EndPc,
                   cur : InList \cup {NoPic}, exc : BOOLEAN,
                   done : InList \cup {NoPic}, outPic : InList \cup {NoPic},
                   flushing : BOOLEAN]
    <3>1. CASE main' = main
      BY <1>1, <3>1 DEF TypeOK
    <3>2. CASE main' # main
      BY <3>2 DEF InParser
    <3> QED
      BY <3>1, <3>2
  <2>3. stream' = stream
    BY DEF stream
  <2> QED
    BY <1>1, <2>1, <2>2, <2>3 DEF TypeOK
<1>5. PicturesSound'
  BY <1>1, <1>2 DEF IndInv, PicturesSound, GoesOn
<1>6. CallPlace'
  BY <1>1 DEF IndInv, CallPlace, InParser, ParserPc, DecodePc, FlushPc
<1>7. OwnersApart'
  BY <1>1 DEF IndInv, OwnersApart, InParser, ParserPc
<1>8. OwnersState'
  <2>1. \A x \in Waiting : pic'[x].progress \in {parsing, parsed} /\ pic'[x].reconDone = "locked"
    BY DEF IndInv, OwnersState, GoesOn
  <2>2. \A x \in InWork :
          /\ pic'[x].progress \in {reconstructing, reconstructed}
          /\ pic'[x].reconDone = "unlocked" => pic'[x].queue = {} /\ ~pic'[x].recon
    BY DEF IndInv, OwnersState, GoesOn
  <2>3. main.done # NoPic =>
          /\ pic'[main.done].progress \in {reconstructing, reconstructed}
          /\ pic'[main.done].queue = {} /\ ~pic'[main.done].recon
    BY DEF IndInv, OwnersState, GoesOn
  <2>4. \A x \in Bufs : pic'[x].recon => x \in InWork
    BY DEF IndInv, OwnersState, GoesOn
  <2> QED
    BY <1>1, <2>1, <2>2, <2>3, <2>4 DEF OwnersState
<1>9. GivenUp'
  BY <1>1, <1>2, <1>3 DEF IndInv, GivenUp, Unfinished, finished
<1>10. ParsedLast'
  <2>1. parsePic # NoPic => parsePic \in Bufs
    BY <1>1, State
  <2>2. parsePic' # NoPic => /\ parsePic' = parsePic /\ ~pic'[parsePic].wasLost
                             /\ pic'[parsePic].cts # 0
    BY <1>2, <2>1 DEF IndInv, ParsedLast
  <2>3. ~main'.flushing /\ main'.pc \in DecodePc \cup ReconPc =>
          parsePic' # NoPic /\ pic'[parsePic'].complete
    BY <1>1, <1>2, <2>1 DEF IndInv, ParsedLast, InParser, ParserPc, DecodePc, ReconPc
  <2>4. ASSUME MoreNals, parsePic # NoPic, ~pic'[parsePic].complete
        PROVE  /\ parsePic \notin InWork /\ pic'[parsePic].progress <= parsed
               /\ \A i \in DOMAIN parseList : parseList[i] = parsePic => i = Len(parseList)
               /\ \A x \in Bufs \ {parsePic} :
                    parsePic \in pic'[x].refs => pic'[x].progress >= reconstructed
    <3>1. ~pic[parsePic].complete
      BY <1>2, <2>1, <2>4
    <3>2. pic'[parsePic].progress <= parsed
      BY <2>4, <3>1, <2>1 DEF IndInv, ParsedLast, GoesOn
    <3>3. \A x \in Bufs \ {parsePic} :
            parsePic \in pic'[x].refs => pic'[x].progress >= reconstructed
      BY <1>2, <2>4, <3>1 DEF IndInv, ParsedLast, reconstructed
    <3> QED
      BY <2>4, <3>1, <3>2, <3>3 DEF IndInv, ParsedLast
  <2> QED
    BY <1>1, <2>2, <2>3, <2>4 DEF ParsedLast
<1>11. CodingOrder'
  <2>1. \A i, j \in DOMAIN parseList : parseList[j] \in pic'[parseList[i]].refs => j <= i
    BY <1>1, <1>2, State DEF IndInv, CodingOrder
  <2>2. main.pc \in {"clean", "recon", "ext"} =>
          pic'[main.cur].refs \cap ToSet(parseList) = {}
    BY <1>1, <1>2 DEF IndInv, CodingOrder
  <2> QED
    BY <1>1, <2>1, <2>2 DEF CodingOrder, InParser, ParserPc
<1>12. ReferencesKept'
  BY <1>1, <1>2 DEF IndInv, ReferencesKept, reconstructed, PicturesSound
<1>13. FramesLocked'
  BY <1>1, <1>2, <1>3 DEF IndInv, FramesLocked, GoesOn
<1> QED
  BY <1>3, <1>4, <1>5, <1>6, <1>7, <1>8, <1>9, <1>10, <1>11, <1>12, <1>13 DEF IndInv

LEMMA NatTypes ==
  ASSUME TypeOK
  PROVE  /\ nal \in (Nat \ {0}) \X (Nat \ {0}) /\ segment \in Nat /\ started \in BOOLEAN
         /\ faults \in Nat /\ reports \in [DOMAIN stream -> Nat]
         /\ \A k \in FaultKinds : Fails(k) => faults' \in Nat
BY DEF TypeOK, Fails

LEMMA InTheList ==
  ASSUME IndInv, NEW b \in Bufs, pic[b].queue # {} \/ pic[b].recon \/ pic[b].border
  PROVE  b \in InList
BY DEF IndInv, PicturesSound, FreshPicture

\* The steps of the workers.
LEMMA ParseSliceStep ==
  ASSUME IndInv, NEW b \in Bufs, NEW s \in pic[b].queue, ParseSlice(b, s)
  PROVE  IndInv' /\ \A x \in Bufs : pic[x].progress = finished => pic'[x].progress = finished
<1> DEFINE p == pic[b]  q == pic'[b]
<1>1. /\ b \in InList /\ TypeOK /\ pic \in [Bufs -> Picture] /\ p \in Picture
      /\ SoundPicture(p) /\ b # NoPic /\ s \in Nat /\ p.progress \in 0..5
      /\ s > 1 => s - 1 \in p.parsedSlices
      /\ p.queue \subseteq Nat /\ p.parsedSlices \subseteq Nat /\ p.slices \in Nat
  BY InTheList, State, Fields DEF IndInv, PicturesSound, ParseSlice
<1>2. /\ p.progress # finished /\ p.parseDone = "locked"
  BY <1>1 DEF SoundPicture, BarrierState
<1>3. /\ pic' \in [Bufs -> Picture] /\ \A x \in Bufs \ {b} : pic'[x] = pic[x]
      /\ q \in {SliceParsed(p, s), ParsingFailed(p)}
  <2>1. SliceParsed(p, s) \in Picture
    BY <1>1, Ranges, ZenonT(30) DEF Picture, SliceParsed
  <2>2. ParsingFailed(p) \in Picture
    BY <1>1, Ranges, Zenon DEF Picture, ParsingFailed
  <2> QED
    BY <1>1, <2>1, <2>2 DEF ParseSlice
<1>4. /\ q.refs = p.refs /\ q.cts = p.cts /\ q.wasLost = p.wasLost /\ q.slices = p.slices
      /\ q.complete = p.complete /\ q.stillReferenced = p.stillReferenced
      /\ q.dpbReferenceMark = p.dpbReferenceMark /\ q.recon = p.recon
      /\ q.exceptionThrownOut = p.exceptionThrownOut /\ q.reconDone = p.reconDone
      /\ q.lockedByApplication = p.lockedByApplication
      /\ \/ q.progress = p.progress
         \/ p.progress = parsing /\ q.progress = parsed
  <2>1. CASE q = SliceParsed(p, s)
    BY <1>1, <2>1 DEF Picture, SliceParsed
  <2>2. CASE q = ParsingFailed(p)
    BY <1>1, <2>2 DEF Picture, ParsingFailed
  <2> QED
    BY <1>3, <2>1, <2>2
<1>5. \/ /\ q.queue = p.queue \ {s} /\ q.parsedSlices = p.parsedSlices \cup {s}
         /\ q.parseFailed = p.parseFailed
         /\ \/ q.parseDone = "locked"
            \/ s = p.slices /\ p.complete /\ q.parseDone = "unlocked"
      \/ /\ q.queue = {} /\ q.parsedSlices = p.parsedSlices
         /\ q.parseFailed = TRUE /\ q.parseDone = "error"
  BY <1>1, <1>2, <1>3, ZenonT(30) DEF Picture, SliceParsed, ParsingFailed
<1>6. SoundPicture(q)
  <2>1. p.queue \cup p.parsedSlices \subseteq 1..p.slices /\ p.queue \cap p.parsedSlices = {}
    BY <1>1 DEF SoundPicture
  <2>2. \A t \in p.parsedSlices : 1..t \subseteq p.parsedSlices
    BY <1>1 DEF SoundPicture
  <2>3. 1..s \subseteq p.parsedSlices \cup {s}
    <3>1. CASE s > 1
      <4>1. 1..(s - 1) \subseteq p.parsedSlices /\ 1..s = 1..(s - 1) \cup {s}
        BY <1>1, <2>2, <3>1
      <4> QED
        BY <4>1
    <3>2. CASE s <= 1
      BY <1>1, <3>2
    <3> QED
      BY <1>1, <3>1, <3>2
  <2>4. q.queue \cup q.parsedSlices \subseteq 1..q.slices /\ q.queue \cap q.parsedSlices = {}
    BY <1>1, <1>4, <1>5, <2>1 DEF ParseSlice
  <2>5. \A t \in q.parsedSlices : 1..t \subseteq q.parsedSlices
    BY <1>5, <2>2, <2>3
  <2>6. q.parseDone # "locked" => q.queue = {}
    BY <1>4, <1>5, <2>1, <2>3 DEF ParseSlice
  <2> QED
    BY <1>1, <1>2, <1>4, <1>5, <2>4, <2>5, <2>6 DEF SoundPicture, parsing, parsed, finished
<1>7. GoesOn(b)
  <2>1. b \in Waiting => p.progress \in {parsing, parsed} /\ p.reconDone = "locked"
    BY DEF IndInv, OwnersState
  <2>2. b \in InWork => /\ p.progress \in {reconstructing, reconstructed}
                        /\ p.reconDone # "unlocked"
    BY DEF IndInv, OwnersState
  <2>3. b # main.done
    BY <1>1 DEF IndInv, OwnersState
  <2>4. p.recon => b \in InWork
    BY <1>1, State DEF IndInv, OwnersState
  <2>5. b \in held \cup {main.outPic} => p.progress = finished
    BY <1>1 DEF IndInv, FramesLocked
  <2>6. b = parsePic /\ MoreNals /\ ~p.complete => p.progress <= parsed
    BY <1>1 DEF IndInv, ParsedLast
  <2> QED
    BY <1>1, <1>2, <1>4, <1>5, <1>6, <2>1, <2>2, <2>3, <2>4, <2>5, <2>6
       DEF GoesOn, parsing, parsed, reconstructing, reconstructed, finished,
           ParseSlice, WorkerFrame, outputVars
<1> QED
  BY <1>1, <1>3, <1>7, PicturesGoOn, NatTypes
     DEF ParseSlice, WorkerFrame, parserVars, outputVars, InParser, MoreNals, stream, FaultKinds

LEMMA ReconstructStep ==
  ASSUME IndInv, NEW b \in Bufs, Reconstruct(b)
  PROVE  IndInv' /\ \A x \in Bufs : pic[x].progress = finished => pic'[x].progress = finished
<1> DEFINE p == pic[b]  q == pic'[b]
<1>1. /\ p.recon /\ b \in InList /\ TypeOK /\ pic \in [Bufs -> Picture] /\ p \in Picture
      /\ SoundPicture(p) /\ b # NoPic
  BY InTheList, State DEF IndInv, PicturesSound, Reconstruct
<1>2. /\ b \in InWork /\ p.progress \in {reconstructing, reconstructed}
      /\ b \notin Waiting /\ b # main.done
  BY <1>1 DEF IndInv, OwnersState, OwnersApart
<1>3. /\ pic' \in [Bufs -> Picture] /\ \A x \in Bufs \ {b} : pic'[x] = pic[x]
      /\ \/ /\ q = [p EXCEPT !.recon = FALSE, !.reconDone = "unlocked",
                             !.progress = reconstructed]
            /\ p.parseDone # "locked"
         \/ q = [p EXCEPT !.recon = FALSE, !.reconDone = "error"]
  <2>1. /\ [p EXCEPT !.recon = FALSE, !.reconDone = "unlocked",
                     !.progress = reconstructed] \in Picture
        /\ [p EXCEPT !.recon = FALSE, !.reconDone = "error"] \in Picture
    BY <1>1, Ranges, ZenonT(30) DEF Picture
  <2> QED
    BY <1>1, <2>1, ZenonT(30) DEF Reconstruct
<1>4. /\ q.refs = p.refs /\ q.cts = p.cts /\ q.wasLost = p.wasLost /\ q.slices = p.slices
      /\ q.complete = p.complete /\ q.stillReferenced = p.stillReferenced
      /\ q.dpbReferenceMark = p.dpbReferenceMark /\ q.recon = FALSE
      /\ q.exceptionThrownOut = p.exceptionThrownOut
      /\ q.lockedByApplication = p.lockedByApplication
      /\ q.queue = p.queue /\ q.parsedSlices = p.parsedSlices
      /\ q.parseDone = p.parseDone /\ q.parseFailed = p.parseFailed
      /\ q.progress \in {p.progress, reconstructed}
      /\ q.reconDone = "unlocked" => p.parseDone # "locked"
  <2>1. CASE /\ q = [p EXCEPT !.recon = FALSE, !.reconDone = "unlocked",
                              !.progress = reconstructed]
             /\ p.parseDone # "locked"
    BY <1>1, <2>1 DEF Picture
  <2>2. CASE q = [p EXCEPT !.recon = FALSE, !.reconDone = "error"]
    BY <1>1, <2>2 DEF Picture
  <2> QED
    BY <1>3, <2>1, <2>2
<1>5. SoundPicture(q)
  BY <1>1, <1>2, <1>4 DEF SoundPicture, reconstructing, reconstructed, finished
<1>6. GoesOn(b)
  <2>1. q.reconDone = "unlocked" => q.queue = {}
    BY <1>1, <1>4 DEF SoundPicture
  <2>2. b \notin held \cup {main.outPic}
    BY <1>1, <1>2 DEF IndInv, FramesLocked, reconstructing, reconstructed, finished
  <2>3. ~(b = parsePic /\ MoreNals /\ ~p.complete)
    BY <1>1, <1>2 DEF IndInv, ParsedLast
  <2> QED
    BY <1>2, <1>4, <1>5, <2>1, <2>2, <2>3
       DEF GoesOn, reconstructing, reconstructed, finished, Reconstruct, WorkerFrame, outputVars
<1> QED
  BY <1>1, <1>3, <1>6, PicturesGoOn, NatTypes
     DEF Reconstruct, WorkerFrame, parserVars, outputVars, InParser, MoreNals, stream, FaultKinds

LEMMA ExtendBorderStep ==
  ASSUME IndInv, NEW b \in Bufs, ExtendBorder(b)
  PROVE  IndInv' /\ \A x \in Bufs : pic[x].progress = finished => pic'[x].progress = finished
<1> DEFINE p == pic[b]  q == pic'[b]
<1>1. /\ p.border /\ b \in InList /\ TypeOK /\ pic \in [Bufs -> Picture] /\ p \in Picture
      /\ SoundPicture(p) /\ b # NoPic
  BY InTheList, State DEF IndInv, PicturesSound, ExtendBorder
<1>2. BorderExtended(p) \in Picture
  <2>1. (p.borderFailed \/ p.reconDone = "error") \in BOOLEAN
    OBVIOUS
  <2>2. \A v \in BOOLEAN : [p EXCEPT !.border = FALSE, !.borderFailed = v] \in Picture
    BY <1>1, ZenonT(30) DEF Picture
  <2> QED
    BY <2>1, <2>2, Zenon DEF BorderExtended
<1>3. /\ q = BorderExtended(p)
      /\ pic' \in [Bufs -> Picture] /\ \A x \in Bufs \ {b} : pic'[x] = pic[x]
  BY <1>1, <1>2 DEF ExtendBorder
<1>4. /\ q.refs = p.refs /\ q.cts = p.cts /\ q.wasLost = p.wasLost /\ q.slices = p.slices
      /\ q.complete = p.complete /\ q.stillReferenced = p.stillReferenced
      /\ q.dpbReferenceMark = p.dpbReferenceMark /\ q.recon = p.recon
      /\ q.exceptionThrownOut = p.exceptionThrownOut /\ q.reconDone = p.reconDone
      /\ q.lockedByApplication = p.lockedByApplication
      /\ q.queue = p.queue /\ q.parsedSlices = p.parsedSlices
      /\ q.parseDone = p.parseDone /\ q.parseFailed = p.parseFailed
      /\ q.progress = p.progress
  BY <1>1, <1>3 DEF Picture, BorderExtended
<1>5. SoundPicture(q)
  BY <1>1, <1>4 DEF SoundPicture
<1>6. GoesOn(b)
  BY <1>1, <1>4, <1>5, Fields, State
     DEF GoesOn, IndInv, OwnersState, FramesLocked, ParsedLast,
         ExtendBorder, WorkerFrame, outputVars
<1> QED
  BY <1>1, <1>3, <1>6, PicturesGoOn, NatTypes
     DEF ExtendBorder, WorkerFrame, parserVars, outputVars, InParser, MoreNals, stream

LEMMA ReleaseStep ==
  ASSUME IndInv, NEW b \in Bufs, Release(b)
  PROVE  IndInv' /\ \A x \in Bufs : pic[x].progress = finished => pic'[x].progress = finished
<1> DEFINE p == pic[b]  q == pic'[b]
<1>1. /\ b \in held /\ b \in InList /\ TypeOK /\ pic \in [Bufs -> Picture] /\ p \in Picture
      /\ SoundPicture(p) /\ b # NoPic /\ main.outPic # b /\ b \notin held'
      /\ q = [p EXCEPT !.lockedByApplication = FALSE]
  BY State, Owned DEF IndInv, PicturesSound, Release, ReleasePicture, CallPlace, ParserPc
<1>2. pic' \in [Bufs -> Picture] /\ \A x \in Bufs \ {b} : pic'[x] = pic[x]
  <2>1. q \in Picture
    BY <1>1, ZenonT(30) DEF Picture
  <2> QED
    BY <1>1, <2>1 DEF Release, ReleasePicture
<1>3. /\ q.refs = p.refs /\ q.cts = p.cts /\ q.wasLost = p.wasLost /\ q.slices = p.slices
      /\ q.complete = p.complete /\ q.stillReferenced = p.stillReferenced
      /\ q.dpbReferenceMark = p.dpbReferenceMark /\ q.recon = p.recon
      /\ q.exceptionThrownOut = p.exceptionThrownOut /\ q.reconDone = p.reconDone
      /\ q.queue = p.queue /\ q.parsedSlices = p.parsedSlices
      /\ q.parseDone = p.parseDone /\ q.parseFailed = p.parseFailed
      /\ q.progress = p.progress
  BY <1>1 DEF Picture
<1>4. SoundPicture(q)
  BY <1>1, <1>3 DEF SoundPicture
<1>5. GoesOn(b)
  BY <1>1, <1>3, <1>4, Fields, State
     DEF GoesOn, IndInv, OwnersState, ParsedLast, Release
<1> QED
  BY <1>1, <1>2, <1>5, PicturesGoOn, NatTypes
     DEF Release, parserVars, outputVars, InParser, MoreNals, stream
-----------------------------------------------------------------------------
(* The parser on the main thread.                                           *)

LEMMA ThrownOut ==
  ASSUME NEW P \in [Bufs -> Picture], NEW b \in Bufs
  PROVE  LET q == Thrown(P, b)[b]  p == P[b]
         IN /\ Thrown(P, b) \in [Bufs -> Picture]
            /\ \A x \in Bufs \ {b} : Thrown(P, b)[x] = P[x]
            /\ q.refs = p.refs /\ q.cts = p.cts /\ q.wasLost = p.wasLost
            /\ q.slices = p.slices /\ q.complete = p.complete
            /\ q.stillReferenced = p.stillReferenced
            /\ q.dpbReferenceMark = p.dpbReferenceMark /\ q.recon = p.recon
            /\ q.exceptionThrownOut = TRUE /\ q.reconDone = p.reconDone
            /\ q.lockedByApplication = p.lockedByApplication
            /\ q.queue = p.queue /\ q.parsedSlices = p.parsedSlices
            /\ q.parseFailed = p.parseFailed /\ q.progress = p.progress
            /\ q.borderExtStarted = p.borderExtStarted
            /\ q.parseDone = (IF p.parseDone = "error" THEN "locked" ELSE p.parseDone)
            /\ SoundPicture(p) /\ (p.parseDone = "error" => p.queue = {}) => SoundPicture(q)
<1> DEFINE p == P[b]
           r == [p EXCEPT !.error = TRUE, !.exceptionThrownOut = TRUE,
                          !.parseDone = IF @ = "error" THEN "locked" ELSE @]
<1>1. p \in Picture /\ b # NoPic
  BY Constants
<1>2. r \in Picture
  BY <1>1, Ranges, Zenon DEF Picture
<1>3. /\ r.refs = p.refs /\ r.cts = p.cts /\ r.wasLost = p.wasLost
      /\ r.slices = p.slices /\ r.complete = p.complete
      /\ r.stillReferenced = p.stillReferenced
      /\ r.dpbReferenceMark = p.dpbReferenceMark /\ r.recon = p.recon
      /\ r.exceptionThrownOut = TRUE /\ r.reconDone = p.reconDone
      /\ r.lockedByApplication = p.lockedByApplication
      /\ r.queue = p.queue /\ r.parsedSlices = p.parsedSlices
      /\ r.parseFailed = p.parseFailed /\ r.progress = p.progress
      /\ r.borderExtStarted = p.borderExtStarted
      /\ r.parseDone = (IF p.parseDone = "error" THEN "locked" ELSE p.parseDone)
  BY <1>1 DEF Picture
<1>4. Thrown(P, b) = [P EXCEPT ![b] = r]
  BY <1>1 DEF Thrown
<1> HIDE DEF r
<1>5. Thrown(P, b)[b] = r /\ Thrown(P, b) \in [Bufs -> Picture]
      /\ \A x \in Bufs \ {b} : Thrown(P, b)[x] = P[x]
  BY <1>2, <1>4
<1>6. SoundPicture(p) /\ (p.parseDone = "error" => p.queue = {}) => SoundPicture(r)
  BY <1>3 DEF SoundPicture
<1> QED
  BY <1>3, <1>5, <1>6

LEMMA ReportTypes ==
  ASSUME TypeOK, NEW b \in Bufs \cup {NoPic}
  PROVE  /\ Report(b) \in [DOMAIN stream -> Nat]
         /\ \A c : [reports EXCEPT ![c] = @ + 1] \in [DOMAIN stream -> Nat]
<1>1. reports \in [DOMAIN stream -> Nat]
  BY DEF TypeOK
<1>2. ASSUME NEW c PROVE [reports EXCEPT ![c] = @ + 1] \in [DOMAIN stream -> Nat]
  <2>1. \A x \in DOMAIN stream : (IF x = c THEN reports[c] + 1 ELSE reports[x]) \in Nat
    BY <1>1
  <2> QED
    BY <1>1, <2>1
<1> QED
  BY <1>1, <1>2 DEF Report

LEMMA NalTypes ==
  ASSUME TypeOK, MoreNals
  PROVE  /\ NextNal \in (Nat \ {0}) \X (Nat \ {0}) /\ Segment \in Nat
         /\ stream[nal[1]] \in CodedPicture /\ setup \in Setups
         /\ nal[1] \in Nat /\ nal[2] \in Nat
<1>1. /\ setup \in Setups /\ nal[1] \in Nat \ {0} /\ nal[2] \in Nat \ {0} /\ segment \in Nat
  BY DEF TypeOK
<1>2. stream[nal[1]] \in CodedPicture /\ nal[1] \in DOMAIN stream
  BY <1>1, Coded DEF MoreNals, stream
<1> QED
  BY <1>1, <1>2 DEF NextNal, Segment

LEMMA LoseNalStep ==
  ASSUME IndInv, LoseNal
  PROVE  IndInv' /\ \A x \in Bufs : pic[x].progress = finished => pic'[x].progress = finished
<1>1. TypeOK /\ MoreNals
  BY DEF IndInv, LoseNal
<1> QED
  BY <1>1, PicturesGoOn, NatTypes, NalTypes, State
     DEF LoseNal, parserVars, outputVars, InParser, stream, FaultKinds

LEMMA SuffixSeiStep ==
  ASSUME IndInv, SuffixSei
  PROVE  IndInv' /\ \A x \in Bufs : pic[x].progress = finished => pic'[x].progress = finished
<1>1. TypeOK /\ MoreNals /\ main.pc = "idle" /\ main.flushing = FALSE
  BY State DEF IndInv, SuffixSei
<1>2. main.cur = NoPic /\ main.done = NoPic /\ main.outPic = NoPic /\ main.exc \in BOOLEAN
  BY <1>1 DEF IndInv, CallPlace, ParserPc, TypeOK
<1>3. main' = main \/ (main' = [main EXCEPT !.pc = "sei"] /\ parsePic # NoPic)
  BY <1>1 DEF SuffixSei, IndInv, TypeOK
<1>4. InParser
  BY <1>1, <1>2, <1>3 DEF InParser, SuffixSei, parserVars, IndInv, TypeOK, ParserPc
<1> QED
  BY <1>1, <1>4, PicturesGoOn, NatTypes, NalTypes, State
     DEF SuffixSei, parserVars, outputVars, stream

LEMMA WaitForHashStep ==
  ASSUME IndInv, WaitForHash
  PROVE  IndInv' /\ \A x \in Bufs : pic[x].progress = finished => pic'[x].progress = finished
<1>1. TypeOK /\ InParser
  BY DEF IndInv, WaitForHash, InParser, Idle, ParserPc
<1>2. reports' \in [DOMAIN stream -> Nat]
  BY <1>1, State, ReportTypes, NatTypes DEF WaitForHash
<1> QED
  BY <1>1, <1>2, PicturesGoOn, NatTypes, State
     DEF WaitForHash, parserVars, outputVars, stream, MoreNals

LEMMA RejectSliceStep ==
  ASSUME IndInv, RejectSlice
  PROVE  IndInv' /\ \A x \in Bufs : pic[x].progress = finished => pic'[x].progress = finished
<1> DEFINE b == ParsePic
<1>1. /\ TypeOK /\ MoreNals /\ main.pc = "idle" /\ main.flushing = FALSE
      /\ b \in InList \cup {NoPic} /\ b \in {parsePic, NoPic}
      /\ parsePic' = b /\ main' = main
  BY State DEF IndInv, RejectSlice, AtSlice, ParsePic
<1>2. /\ reports' \in [DOMAIN stream -> Nat] /\ segment' \in Nat /\ faults' \in Nat
  <2>1. Report(b) \in [DOMAIN stream -> Nat] /\ reports \in [DOMAIN stream -> Nat]
    BY <1>1, State, ReportTypes, NatTypes
  <2>2. segment \in Nat /\ Segment \in Nat /\ faults \in Nat
    BY <1>1, NatTypes, NalTypes
  <2> QED
    BY <2>1, <2>2 DEF RejectSlice, Fails
<1>3. pic' = pic \/ pic' = Thrown(pic, b)
  BY DEF RejectSlice
<1>4. /\ pic' \in [Bufs -> Picture]
      /\ \A x \in Bufs : pic'[x] = pic[x] \/ (x \in InList /\ GoesOn(x))
  <2>1. CASE pic' = pic
    BY <1>1, <2>1, State
  <2>2. CASE b # NoPic /\ pic' = Thrown(pic, b)
    <3>1. b \in Bufs /\ b \in InList /\ SoundPicture(pic[b])
      BY <1>1, <2>2, State DEF IndInv, PicturesSound
    <3>2. pic[b].parseDone = "error" => pic[b].queue = {}
      BY <3>1 DEF SoundPicture
    <3>3. SoundPicture(pic'[b])
      BY <1>1, <2>2, <3>1, <3>2, ThrownOut, State
    <3>4. /\ pic' \in [Bufs -> Picture] /\ \A x \in Bufs \ {b} : pic'[x] = pic[x]
          /\ pic'[b].refs = pic[b].refs /\ pic'[b].cts = pic[b].cts
          /\ pic'[b].wasLost = pic[b].wasLost /\ pic'[b].complete = pic[b].complete
          /\ pic'[b].stillReferenced = pic[b].stillReferenced
          /\ pic'[b].recon = pic[b].recon /\ pic'[b].exceptionThrownOut
          /\ pic'[b].reconDone = pic[b].reconDone /\ pic'[b].queue = pic[b].queue
          /\ pic'[b].lockedByApplication = pic[b].lockedByApplication
          /\ pic'[b].progress = pic[b].progress
      <4>1. pic \in [Bufs -> Picture]
        BY <1>1, State
      <4> HIDE DEF b
      <4> QED
        BY <2>2, <3>1, <4>1, ThrownOut, ZenonT(30)
    <3>5. GoesOn(b)
      BY <1>1, <2>2, <3>1, <3>3, <3>4, State, Fields
         DEF GoesOn, IndInv, OwnersState, FramesLocked, ParsedLast, RejectSlice, outputVars
    <3> QED
      BY <3>1, <3>4, <3>5
  <2> QED
    BY <1>3, <2>1, <2>2 DEF Thrown
<1> QED
  BY <1>1, <1>2, <1>4, PicturesGoOn, NatTypes, NalTypes
     DEF RejectSlice, InParser, outputVars, stream

\* Picture x is not the one of the slice: the parser can mark it, or throw out
\* its exception.
Keeps(p, q) ==
  /\ q.refs = p.refs /\ q.cts = p.cts /\ q.wasLost = p.wasLost
  /\ q.slices = p.slices /\ q.complete = p.complete /\ q.recon = p.recon
  /\ q.reconDone = p.reconDone /\ q.lockedByApplication = p.lockedByApplication
  /\ q.queue = p.queue /\ q.parsedSlices = p.parsedSlices
  /\ q.parseFailed = p.parseFailed /\ q.progress = p.progress
  /\ q.borderExtStarted = p.borderExtStarted
  /\ q.parseDone \in {p.parseDone, "locked"}
  /\ p.exceptionThrownOut => q.exceptionThrownOut
  /\ p.stillReferenced => q.stillReferenced
  /\ q.dpbReferenceMark => q.stillReferenced

Kept(x) == Keeps(pic[x], pic'[x])

\* Nobody but the parser has the picture in buffer b.
OnlyParsers(b) ==
  /\ b \notin InWork \cup held
  /\ \A x \in Bufs \ {b} : b \in pic[x].refs => pic[x].progress >= reconstructed

\* The picture in buffer b after the slice.
SlicePicture(b) ==
  LET q == pic'[b]
  IN /\ SoundPicture(q) /\ q.recon = FALSE /\ q.progress # finished
     /\ q.refs \subseteq InList \cup {b}
     /\ \A r \in q.refs \ {b} : pic'[r].stillReferenced
     /\ b \in ToSet(parseList') =>
          /\ q.progress \in {parsing, parsed} /\ q.reconDone = "locked"
          /\ \A i \in DOMAIN parseList' : parseList'[i] = b => i = Len(parseList')
     /\ b \notin ToSet(parseList') => q.cts = 0 \/ q.exceptionThrownOut
     /\ \/ /\ parsePic' = b /\ ~q.wasLost /\ q.cts # 0
           /\ ~q.complete => q.progress <= parsed
        \/ /\ parsePic' \in {NoPic, parsePic} \ {b}
           /\ q.refs = {} /\ parseList' = parseList

\* Where the main thread is behind it.
BehindSlice(b) ==
  /\ main'.pc \in {"idle", "fill", "next"} /\ main'.exc \in BOOLEAN
  /\ main' = [pc |-> main'.pc, cur |-> NoPic, exc |-> main'.exc,
              done |-> NoPic, outPic |-> NoPic, flushing |-> FALSE]
  /\ main'.pc = "next" => parsePic' = b /\ pic'[b].complete

\* The step itself.
SliceChanges(b) ==
  /\ UNCHANGED <<setup, instances, first, tuneIn, out, held>>
  /\ pic' \in [Bufs -> Picture]
  /\ \A x \in Bufs \ {b} : Kept(x) /\ (x \notin InList => pic'[x] = pic[x])
  /\ list' \in Seq(Bufs) /\ IsInjective(list') /\ ToSet(list') = 1..Len(list')
  /\ ToSet(list') = InList \cup {b} /\ dpb' \subseteq ToSet(list')
  /\ \/ parseList' = parseList
     \/ parseList' = Append(parseList, b) /\ b \notin ToSet(parseList)
  /\ nal' \in (Nat \ {0}) \X (Nat \ {0}) /\ segment' \in Nat /\ started' \in BOOLEAN
  /\ faults' \in Nat /\ reports' \in [DOMAIN stream -> Nat]

LEMMA SliceStep ==
  ASSUME IndInv, NEW b \in Bufs, OnlyParsers(b), MoreNals, main.pc \in ParserPc,
         SliceChanges(b), SlicePicture(b), BehindSlice(b)
  PROVE  /\ IndInv'
         /\ \A x \in Bufs \ {b} : pic[x].progress = finished => pic'[x].progress = finished
<1>0. /\ \A x \in Bufs \ {b} : Kept(x) /\ (x \notin InList => pic'[x] = pic[x])
      /\ pic' \in [Bufs -> Picture] /\ held' = held
  BY DEF SliceChanges
<1>1. /\ TypeOK /\ InList' = InList \cup {b} /\ InWork' = InWork
      /\ \A x \in Bufs : pic[x] \in Picture /\ pic'[x] \in Picture
      /\ main.done = NoPic /\ main.outPic = NoPic /\ ~main.flushing
      /\ Waiting = ToSet(parseList) /\ Waiting' = ToSet(parseList')
      /\ b # NoPic /\ InList \subseteq InList' /\ parsePic \in InList \cup {NoPic}
      /\ InList \subseteq Bufs /\ NoPic \notin InList /\ InWork \subseteq InList
      /\ ToSet(parseList) \subseteq InList /\ held \subseteq InList
      /\ \A x \in Bufs : pic[x].refs \subseteq InList
      /\ parseList \in Seq(Bufs) /\ \A k \in DOMAIN parseList : parseList[k] \in ToSet(parseList)
  BY <1>0, State, Constants, Owned, ZenonT(30)
     DEF IndInv, InList, Waiting, InWork, CallPlace, ParserPc, BehindSlice, SliceChanges
<1>2. /\ parseList' \in Seq(Bufs) /\ DOMAIN parseList' = 1..Len(parseList')
      /\ Len(parseList') \in Nat
      /\ IsInjective(parseList') /\ ToSet(parseList') \subseteq InList \cup {b}
      /\ ToSet(parseList) \subseteq ToSet(parseList')
      /\ ToSet(parseList') \subseteq ToSet(parseList) \cup {b}
      /\ \A i \in DOMAIN parseList' :
           parseList'[i] = b \/ (i \in DOMAIN parseList /\ parseList'[i] = parseList[i])
  <2>1. CASE parseList' = parseList
    BY <1>1, <2>1, State DEF IndInv, OwnersApart
  <2>2. CASE parseList' = Append(parseList, b) /\ b \notin ToSet(parseList)
    <3>1. /\ parseList \in Seq(Bufs) /\ IsInjective(parseList)
          /\ ToSet(parseList) \subseteq InList
      BY <1>1, State DEF IndInv, OwnersApart
    <3>2. /\ parseList' \in Seq(Bufs) /\ Len(parseList') = Len(parseList) + 1
          /\ Len(parseList) \in Nat /\ DOMAIN parseList = 1..Len(parseList)
          /\ DOMAIN parseList' = 1..(Len(parseList) + 1)
          /\ \A i \in 1..Len(parseList) : parseList'[i] = parseList[i]
          /\ parseList'[Len(parseList) + 1] = b
          /\ ToSet(parseList') = ToSet(parseList) \cup {b}
          /\ IsInjective(parseList')
      BY <2>2, <3>1, Appended
    <3> QED
      BY <3>1, <3>2
  <2> QED
    BY <2>1, <2>2 DEF SliceChanges
<1>3. \A x \in Bufs \ {b} :
        /\ pic'[x].progress = pic[x].progress /\ SoundPicture(pic'[x])
  <2> SUFFICES ASSUME NEW x \in Bufs \ {b}
               PROVE  pic'[x].progress = pic[x].progress /\ SoundPicture(pic'[x])
    OBVIOUS
  <2>1. Kept(x) /\ SoundPicture(pic[x])
    BY <1>0 DEF IndInv, PicturesSound
  <2> QED
    BY <2>1 DEF Kept, Keeps, SoundPicture
<1>4. TypeOK'
  <2>1. /\ instances' \in [1..Instances -> InList' \cup {NoPic}] /\ held' \subseteq InList'
        /\ parsePic' \in InList' \cup {NoPic} /\ stream' = stream
        /\ first' \in BOOLEAN /\ tuneIn' \in Nat /\ out' \in Seq(Nat) /\ setup' \in Setups
    BY <1>1, State, Zenon DEF SlicePicture, TypeOK, stream, SliceChanges
  <2>2. main' \in [pc : ParserPc \cup DecodePc \cup ReconPc \cup FlushPc \cup EndPc,
                   cur : InList' \cup {NoPic}, exc : BOOLEAN,
                   done : InList' \cup {NoPic}, outPic : InList' \cup {NoPic},
                   flushing : BOOLEAN]
    <3>1. main'.pc \in ParserPc \cup DecodePc \cup ReconPc \cup FlushPc \cup EndPc
      BY DEF BehindSlice, ParserPc, DecodePc
    <3>2. PICK p \in ParserPc \cup DecodePc \cup ReconPc \cup FlushPc \cup EndPc, e \in BOOLEAN :
            main' = [pc |-> p, cur |-> NoPic, exc |-> e,
                     done |-> NoPic, outPic |-> NoPic, flushing |-> FALSE]
      BY <3>1 DEF BehindSlice
    <3> QED
      BY <3>2
  <2> QED
    BY <1>0, <1>1, <1>2, <2>1, <2>2 DEF TypeOK, InList, SliceChanges
<1>5. PicturesSound'
  <2>1. \A x \in Bufs : SoundPicture(pic'[x]) /\ pic'[x].refs \subseteq InList'
    BY <1>0, <1>1, <1>3 DEF SlicePicture, Kept, Keeps
  <2>2. \A x \in Bufs \ InList' : pic'[x] = FreshPicture
    BY <1>0, <1>1 DEF IndInv, PicturesSound
  <2> QED
    BY <2>1, <2>2 DEF PicturesSound
<1>6. CallPlace'
  BY <1>0, <1>1 DEF IndInv, CallPlace, BehindSlice, ParserPc, DecodePc, FlushPc
<1>7. OwnersApart'
  <2>1. Waiting' \cap InWork' = {}
    BY <1>0, <1>1, <1>2 DEF IndInv, OwnersApart, OnlyParsers
  <2>2. main'.done \notin Waiting' \cup InWork' /\ main'.pc \notin {"clean", "recon"}
    BY <1>0, <1>1, <1>2, Constants DEF BehindSlice
  <2>3. \A i, j \in 1..Instances :
          instances'[i] = instances'[j] => i = j \/ instances'[i] = NoPic
    BY DEF IndInv, OwnersApart, SliceChanges
  <2> QED
    BY <1>2, <2>1, <2>2, <2>3 DEF OwnersApart
<1>8. OwnersState'
  <2>1. \A x \in Waiting' : pic'[x].progress \in {parsing, parsed} /\ pic'[x].reconDone = "locked"
    BY <1>0, <1>1, <1>2 DEF IndInv, OwnersState, Kept, Keeps, SlicePicture
  <2>2. \A x \in InWork' :
          /\ pic'[x].progress \in {reconstructing, reconstructed}
          /\ pic'[x].reconDone = "unlocked" => pic'[x].queue = {} /\ ~pic'[x].recon
    BY <1>0, <1>1 DEF IndInv, OwnersState, Kept, Keeps, OnlyParsers
  <2>3. main'.done = NoPic
    BY DEF BehindSlice
  <2>4. \A x \in Bufs : pic'[x].recon => x \in InWork'
    BY <1>0, <1>1 DEF IndInv, OwnersState, Kept, Keeps, SlicePicture
  <2> QED
    BY <2>1, <2>2, <2>3, <2>4 DEF OwnersState
<1>9. GivenUp'
  <2> SUFFICES ASSUME NEW x \in Unfinished', x \notin Waiting' \cup InWork'
               PROVE  pic'[x].exceptionThrownOut
    BY DEF GivenUp
  <2>1. x \in Bufs /\ x \in InList \cup {b} /\ pic'[x].progress < finished /\ pic'[x].cts # 0
    BY <1>0, <1>1 DEF Unfinished
  <2>2. CASE x = b
    BY <1>1, <2>1, <2>2 DEF SlicePicture
  <2>3. CASE x # b
    <3>1. /\ pic[x].progress < finished /\ pic[x].cts # 0 /\ x \in InList
          /\ x \notin Waiting \cup InWork /\ x # main.done
      BY <1>0, <1>1, <1>2, <2>1, <2>3 DEF Kept, Keeps
    <3>2. pic[x].exceptionThrownOut
      BY <3>1 DEF IndInv, GivenUp, Unfinished
    <3> QED
      BY <1>0, <2>1, <2>3, <3>2 DEF Kept, Keeps
  <2> QED
    BY <2>2, <2>3
<1>10. ParsedLast'
  <2>1. CASE parsePic' = b
    <3>1. /\ b \notin InWork' /\ ~pic'[b].wasLost /\ pic'[b].cts # 0
          /\ ~pic'[b].complete => pic'[b].progress <= parsed
      BY <1>1, <2>1 DEF SlicePicture, OnlyParsers
    <3>2. \A x \in Bufs \ {b} : b \in pic'[x].refs => pic'[x].progress >= reconstructed
      BY <1>0 DEF OnlyParsers, Kept, Keeps
    <3>3. \A i \in DOMAIN parseList' : parseList'[i] = b => i = Len(parseList')
      BY <1>2 DEF SlicePicture, ToSet
    <3>4. main'.pc \in DecodePc \cup ReconPc => pic'[b].complete
      BY DEF BehindSlice, DecodePc, ReconPc
    <3> QED
      BY <1>1, <2>1, <3>1, <3>2, <3>3, <3>4 DEF ParsedLast
  <2>2. CASE /\ parsePic' \in {NoPic, parsePic} \ {b}
             /\ pic'[b].refs = {} /\ parseList' = parseList
    <3>1. main'.pc \notin DecodePc \cup ReconPc
      BY <2>2 DEF BehindSlice, DecodePc, ReconPc
    <3>2. CASE parsePic' = NoPic
      BY <3>1, <3>2 DEF ParsedLast
    <3>3. CASE parsePic' # NoPic
      <4>1. parsePic' = parsePic /\ parsePic \in Bufs \ {b}
        BY <1>1, <2>2, <3>3
      <4>2. /\ pic'[parsePic].wasLost = pic[parsePic].wasLost
            /\ pic'[parsePic].cts = pic[parsePic].cts
            /\ pic'[parsePic].complete = pic[parsePic].complete
            /\ pic'[parsePic].progress = pic[parsePic].progress
        BY <1>0, <4>1 DEF Kept, Keeps
      <4>3. ~pic'[parsePic].wasLost /\ pic'[parsePic].cts # 0
        BY <3>3, <4>1, <4>2 DEF IndInv, ParsedLast
      <4>4. ASSUME ~pic'[parsePic].complete
            PROVE  /\ parsePic \notin InWork' /\ pic'[parsePic].progress <= parsed
                   /\ \A i \in DOMAIN parseList' :
                        parseList'[i] = parsePic => i = Len(parseList')
                   /\ \A x \in Bufs \ {parsePic} :
                        parsePic \in pic'[x].refs => pic'[x].progress >= reconstructed
        <5>1. /\ parsePic \notin InWork /\ pic[parsePic].progress <= parsed
              /\ \A i \in DOMAIN parseList :
                   parseList[i] = parsePic => i = Len(parseList)
              /\ \A x \in Bufs \ {parsePic} :
                   parsePic \in pic[x].refs => pic[x].progress >= reconstructed
          BY <3>3, <4>1, <4>2, <4>4 DEF IndInv, ParsedLast
        <5>2. \A x \in Bufs \ {parsePic} :
                parsePic \in pic'[x].refs => pic'[x].progress >= reconstructed
          BY <1>0, <2>2, <5>1 DEF Kept, Keeps
        <5> QED
          BY <1>1, <2>2, <4>2, <5>1, <5>2
      <4> QED
        BY <3>1, <4>1, <4>3, <4>4 DEF ParsedLast
    <3> QED
      BY <3>2, <3>3
  <2> QED
    BY <2>1, <2>2 DEF SlicePicture
<1>11. CodingOrder'
  <2>1. ASSUME NEW i \in DOMAIN parseList', NEW j \in DOMAIN parseList',
               parseList'[j] \in pic'[parseList'[i]].refs
        PROVE  j <= i
    <3>1. CASE parseList'[i] = b
      <4>1. i = Len(parseList')
        BY <1>2, <3>1 DEF SlicePicture, ToSet
      <4> QED
        BY <1>2, <4>1
    <3>2. CASE parseList'[i] # b
      <4>1. /\ i \in DOMAIN parseList /\ parseList'[i] = parseList[i]
            /\ parseList[i] \in Waiting /\ parseList[i] \in Bufs \ {b}
            /\ pic'[parseList[i]].refs = pic[parseList[i]].refs
        BY <1>0, <1>1, <1>2, <3>2, State DEF Kept, Keeps
      <4>2. pic[parseList[i]].progress < reconstructed
        BY <4>1 DEF IndInv, OwnersState, parsing, parsed, reconstructed
      <4>3. parseList'[j] # b
        BY <1>1, <2>1, <4>1, <4>2, Fields DEF OnlyParsers, reconstructed
      <4>4. j \in DOMAIN parseList /\ parseList'[j] = parseList[j]
        BY <1>2, <4>3
      <4> QED
        BY <2>1, <4>1, <4>4 DEF IndInv, CodingOrder
    <3> QED
      BY <3>1, <3>2
  <2> QED
    BY <2>1 DEF CodingOrder, BehindSlice
<1>12. ReferencesKept'
  <2> SUFFICES ASSUME NEW x \in Bufs, NEW r \in pic'[x].refs \ {x},
                      pic'[x].progress < reconstructed
               PROVE  pic'[r].stillReferenced
    BY DEF ReferencesKept
  <2>1. CASE x = b
    BY <2>1 DEF SlicePicture
  <2>2. CASE x # b
    <3>1. pic[x].progress < reconstructed /\ r \in pic[x].refs \ {x} /\ pic[x].progress \in Int
      BY <1>0, <1>1, <2>2, Fields DEF Kept, Keeps
    <3>2. r # b /\ r \in Bufs
      BY <1>1, <2>2, <3>1 DEF OnlyParsers, reconstructed
    <3> QED
      BY <1>0, <3>1, <3>2 DEF Kept, Keeps, IndInv, ReferencesKept
  <2> QED
    BY <2>1, <2>2
<1>13. FramesLocked'
  BY <1>0, <1>1 DEF IndInv, FramesLocked, Kept, Keeps, OnlyParsers, BehindSlice
<1> QED
  BY <1>3, <1>4, <1>5, <1>6, <1>7, <1>8, <1>9, <1>10, <1>11, <1>12, <1>13 DEF IndInv

\* What the tasks of the picture that b is now say behind the step.
TellsNext(b) == \A x \in {b} : TasksTell(x)'

\* The parser is behind a slice of the picture in buffer b: what the tasks of
\* the other pictures say is as before.
LEMMA SliceReady ==
  ASSUME IndInv, ReadyInv, NEW b \in Bufs, OnlyParsers(b), main.pc \in ParserPc,
         SliceChanges(b), SlicePicture(b), BehindSlice(b), TellsNext(b)
  PROVE  ReadyInv'
<1>1. /\ \A x \in Bufs \ {b} : Kept(x)
      /\ instances' = instances /\ pic' \in [Bufs -> Picture]
      /\ parseList' = parseList \/ parseList' = Append(parseList, b)
      /\ InList' = InList \cup {b}
  BY DEF SliceChanges, InList
<1>2. /\ InWork' = InWork /\ main.done = NoPic /\ main'.done = NoPic
      /\ Waiting = ToSet(parseList) /\ Waiting' = ToSet(parseList')
      /\ main.pc # "ext" /\ main'.pc # "ext"
      /\ InList \subseteq Bufs /\ parseList \in Seq(Bufs)
      /\ \A x \in Bufs : pic[x] \in Picture
  BY <1>1, State DEF IndInv, InWork, CallPlace, ParserPc, BehindSlice, Waiting
<1>3. Waiting \subseteq Waiting' /\ Waiting' \subseteq Waiting \cup {b}
  <2>1. ToSet(Append(parseList, b)) = ToSet(parseList) \cup {b}
    BY <1>2, Appended
  <2> QED
    BY <1>1, <1>2, <2>1
<1>4. ASSUME NEW x \in Bufs \ {b} PROVE TasksTell(x)'
  <2>1. TasksTell(x) /\ Kept(x)
    BY <1>1, <1>4 DEF ReadyInv
  <2>2. x \in InHand' <=> x \in InHand
    BY <1>2, <1>3 DEF InHand
  <2>3. x \in InWork' \cup {main'.done} <=> x \in InWork \cup {main.done}
    BY <1>2
  <2> QED
    BY <1>2, <2>1, <2>2, <2>3 DEF TasksTell, Kept, Keeps, Prepared
<1>5. ReferencesComplete'
  <2> SUFFICES ASSUME NEW x \in InList', pic'[x].recon, NEW r \in pic'[x].refs
               PROVE  pic'[r].progress >= reconstructed
    BY DEF ReferencesComplete
  <2>1. x \in Bufs \ {b}
    BY <1>1, <1>2 DEF SlicePicture
  <2>2. /\ x \in InList /\ pic[x].recon /\ r \in pic[x].refs
        /\ pic[r].progress >= reconstructed /\ r \in Bufs
        /\ pic[x].progress = reconstructing
    BY <1>1, <1>2, <2>1, Fields DEF Kept, Keeps, ReadyInv, ReferencesComplete, TasksTell
  <2>3. r # b
    BY <2>1, <2>2 DEF OnlyParsers, reconstructing, reconstructed
  <2> QED
    BY <1>1, <2>2, <2>3 DEF Kept, Keeps
<1> QED
  BY <1>4, <1>5 DEF ReadyInv, TellsNext

\* What the tasks of the picture of the slice must say.
LEMMA SliceTells ==
  ASSUME NEW b \in Bufs, OnlyParsers(b), instances' = instances, BehindSlice(b),
         b \in ToSet(parseList') => pic'[b].progress # init,
         ~pic'[b].recon, ~pic'[b].borderExtStarted, b \notin pic'[b].refs,
         pic'[b].progress \in {init, parsing, parsed},
         pic'[b].progress = init =>
           pic'[b].queue = {} /\ pic'[b].parsedSlices = {} /\ ~pic'[b].parseFailed,
         b \notin ToSet(parseList') /\ pic'[b].progress # init =>
           pic'[b].queue # {} /\ 1 \notin pic'[b].queue \cup pic'[b].parsedSlices
  PROVE  TellsNext(b)
<1>1. /\ b \notin InWork' \cup {main'.done} /\ main'.pc # "ext"
      /\ b \notin InHand' => b \notin ToSet(parseList')
  BY Constants DEF OnlyParsers, InWork, BehindSlice, InHand, Waiting
<1> QED
  BY <1>1 DEF TellsNext, TasksTell, Prepared, init, parsing, parsed, reconstructing, reconstructed

\* Buffer b is new or can be reused.
Free(b) == b \in InList => /\ pic[b].progress = finished /\ ~pic[b].stillReferenced
                           /\ ~pic[b].neededForOutput /\ ~pic[b].lockedByApplication

LEMMA NobodyHasFree ==
  ASSUME IndInv, NEW b \in Bufs, Free(b)
  PROVE  /\ OnlyParsers(b) /\ b \notin Waiting
         /\ b \in InList => b # main.done /\ ~pic[b].dpbReferenceMark
         /\ b = ParsePic => ~MoreNals
<1>1. /\ TypeOK /\ Waiting \subseteq InList /\ InWork \subseteq InList /\ held \subseteq InList
      /\ \A x \in Bufs : pic[x].refs \subseteq InList /\ pic[x].progress \in Int
      /\ b # NoPic /\ parsePic \in InList \cup {NoPic} /\ InList \subseteq Bufs
  BY Owned, State, Fields, Constants DEF IndInv
<1>2. b \notin InWork \cup held \cup Waiting
  BY <1>1 DEF Free, IndInv, OwnersState, FramesLocked, parsing, parsed,
              reconstructing, reconstructed, finished
<1>3. ASSUME NEW x \in Bufs \ {b}, b \in pic[x].refs
      PROVE  pic[x].progress >= reconstructed
  <2>1. b \in InList /\ ~pic[b].stillReferenced
    BY <1>1, <1>3 DEF Free
  <2> QED
    BY <1>1, <1>3, <2>1 DEF IndInv, ReferencesKept, reconstructed
<1>4. b \in InList => b # main.done /\ ~pic[b].dpbReferenceMark
  BY <1>1 DEF Free, IndInv, OwnersState, PicturesSound, SoundPicture,
              reconstructing, reconstructed, finished
<1>5. b = ParsePic => ~MoreNals
  <2> SUFFICES ASSUME b = ParsePic, MoreNals PROVE FALSE
    OBVIOUS
  <2>1. b = parsePic /\ ~pic[parsePic].complete /\ parsePic # NoPic /\ b \in InList
    BY <1>1 DEF ParsePic
  <2> QED
    BY <2>1 DEF Free, IndInv, ParsedLast, parsed, finished
<1> QED
  BY <1>2, <1>3, <1>4, <1>5 DEF OnlyParsers

LEMMA TakenFree ==
  ASSUME IndInv, NEW P \in [Bufs -> Picture], NEW d \in SUBSET dpb,
         \A x \in Bufs : /\ P[x].progress = pic[x].progress
                         /\ P[x].stillReferenced = pic[x].stillReferenced
                         /\ P[x].neededForOutput = pic[x].neededForOutput
                         /\ P[x].lockedByApplication = pic[x].lockedByApplication,
         TakeBuffer([pic |-> P, list |-> list, dpb |-> d]).buf \in Bufs
  PROVE  Free(TakeBuffer([pic |-> P, list |-> list, dpb |-> d]).buf)
BY Taken DEF IndInv, Free, Reusable

LEMMA AtSliceState ==
  ASSUME IndInv, AtSlice
  PROVE  /\ TypeOK /\ MoreNals /\ main.pc \in ParserPc /\ main.flushing = FALSE
         /\ \A v : [main EXCEPT !.pc = v] =
                     [pc |-> v, cur |-> NoPic, exc |-> main.exc,
                      done |-> NoPic, outPic |-> NoPic, flushing |-> FALSE]
         /\ main.exc \in BOOLEAN
         /\ stream[nal[1]] \in CodedPicture /\ NextNal \in (Nat \ {0}) \X (Nat \ {0})
         /\ Segment \in Nat /\ nal[1] \in Nat
<1>1. TypeOK /\ MoreNals /\ main.pc \in ParserPc /\ ~main.flushing /\ main.pc \in {"idle", "fill"}
  BY DEF IndInv, AtSlice, ParserPc
<1>2. /\ main.cur = NoPic /\ main.done = NoPic /\ main.outPic = NoPic
  BY <1>1 DEF IndInv, CallPlace
<1>3. main \in [pc : ParserPc \cup DecodePc \cup ReconPc \cup FlushPc \cup EndPc,
               cur : InList \cup {NoPic}, exc : BOOLEAN,
               done : InList \cup {NoPic}, outPic : InList \cup {NoPic},
               flushing : BOOLEAN]
  BY <1>1 DEF TypeOK
<1>4. main.exc \in BOOLEAN /\ main.flushing = FALSE
  BY <1>1, <1>3
<1>5. ASSUME NEW v
      PROVE  [main EXCEPT !.pc = v] =
               [pc |-> v, cur |-> NoPic, exc |-> main.exc,
                done |-> NoPic, outPic |-> NoPic, flushing |-> FALSE]
  <2>1. PICK p, c, e, d, o, f :
          main = [pc |-> p, cur |-> c, exc |-> e, done |-> d, outPic |-> o, flushing |-> f]
    BY <1>3
  <2>2. c = NoPic /\ e = main.exc /\ d = NoPic /\ o = NoPic /\ f = FALSE
    BY <1>2, <1>4, <2>1
  <2>3. [main EXCEPT !.pc = v] =
          [pc |-> v, cur |-> c, exc |-> e, done |-> d, outPic |-> o, flushing |-> f]
    BY <2>1
  <2> QED
    BY <2>2, <2>3
<1> QED
  BY <1>1, <1>4, <1>5, NalTypes

LEMMA LostPictureIs ==
  ASSUME NEW p \in Picture, NEW poc \in Int, p.queue = {}, ~p.recon, p.parsedSlices = {}
  PROVE  LET q == LostPicture(p, poc)
         IN /\ q \in Picture /\ SoundPicture(q)
            /\ q.refs = p.refs /\ q.cts = p.cts /\ q.recon = p.recon
            /\ q.borderExtStarted = p.borderExtStarted
            /\ q.progress = reconstructed /\ q.stillReferenced = TRUE
<1>1. LostPicture(p, poc) \in Picture
  BY Ranges, Zenon DEF LostPicture, Picture
<1>2. /\ LostPicture(p, poc).refs = p.refs /\ LostPicture(p, poc).cts = p.cts
      /\ LostPicture(p, poc).recon = p.recon /\ LostPicture(p, poc).queue = {}
      /\ LostPicture(p, poc).borderExtStarted = p.borderExtStarted
      /\ LostPicture(p, poc).parsedSlices = {}
      /\ LostPicture(p, poc).progress = reconstructed
      /\ LostPicture(p, poc).stillReferenced = TRUE
      /\ LostPicture(p, poc).parseDone = "unlocked"
      /\ LostPicture(p, poc).wasLost = TRUE
  BY DEF LostPicture, Picture
<1> QED
  BY <1>1, <1>2 DEF SoundPicture, reconstructed, finished

LEMMA KeptSame == ASSUME IndInv, NEW x \in Bufs, pic'[x] = pic[x] PROVE Kept(x)
BY DEF Kept, Keeps, IndInv, PicturesSound, SoundPicture

LEMMA FillMissingStep ==
  ASSUME IndInv, FillMissing
  PROVE  /\ IndInv' /\ (ReadyInv => ReadyInv')
         /\ \E b \in Bufs : /\ Free(b)
                            /\ \A x \in Bufs \ {b} : pic[x].progress = finished
                                                     => pic'[x].progress = finished
<1> DEFINE T == TakeBuffer(Dpb)  b == T.buf
<1>1. /\ AtSlice /\ b \in Bufs
      /\ list' = T.list /\ dpb' = T.dpb /\ parsePic' = ParsePic
      /\ UNCHANGED <<setup, parseList, started, instances, outputVars, faults>>
  BY DEF FillMissing
<1>2. PICK r \in Missing(stream[nal[1]]) :
        IF T.ok
        THEN /\ pic' = [T.pic EXCEPT ![b] = LostPicture(@, r)]
             /\ main' = [main EXCEPT !.pc = "fill"]
             /\ UNCHANGED <<nal, segment, reports>>
        ELSE /\ pic' = Thrown(T.pic, ParsePic)
             /\ main' = Idle /\ nal' = NextNal /\ segment' = Segment
             /\ reports' = IF nal[2] = 1
                           THEN [reports EXCEPT ![nal[1]] = @ + 1]
                           ELSE Report(ParsePic)
  BY DEF FillMissing
<1>3. /\ TypeOK /\ pic \in [Bufs -> Picture] /\ dpb \in SUBSET dpb
      /\ Dpb = [pic |-> pic, list |-> list, dpb |-> dpb] /\ r \in Int
      /\ ParsePic \in InList \cup {NoPic} /\ InList \subseteq Bufs /\ NoPic \notin Bufs
      /\ ParsePic \in {parsePic, NoPic}
  BY <1>1, AtSliceState, State, Constants DEF Dpb, Missing, CodedPicture, ParsePic
<1>4. /\ T.list \in Seq(Bufs) /\ IsInjective(T.list)
      /\ ToSet(T.list) = 1..Len(T.list) /\ ToSet(T.list) = InList \cup {b}
      /\ T.dpb \subseteq ToSet(T.list)
      /\ T.pic \in [Bufs -> Picture] /\ T.pic[b] = ResetForUse(pic[b])
      /\ \A x \in Bufs \ {b} : T.pic[x] = pic[x]
  BY <1>1, <1>3, Taken, SMTT(30)
<1>5. Free(b)
  BY <1>1, <1>3, TakenFree
<1>6. OnlyParsers(b) /\ b \notin Waiting /\ b # ParsePic /\ pic[b] \in Picture
  BY <1>1, <1>3, <1>5, NobodyHasFree, AtSliceState
<1> HIDE DEF T, b
<1>7. CASE T.ok
  <2> DEFINE q == LostPicture(T.pic[b], r)
  <2>1. /\ q \in Picture /\ SoundPicture(q) /\ q.refs = {} /\ q.cts = 0
        /\ q.recon = FALSE /\ q.progress = reconstructed
    <3>1. /\ T.pic[b] \in Picture /\ T.pic[b].refs = {} /\ T.pic[b].cts = 0
          /\ T.pic[b].queue = {} /\ T.pic[b].recon = FALSE /\ T.pic[b].parsedSlices = {}
      BY <1>4, <1>6, Reset, Fields
    <3> QED
      BY <1>3, <3>1, LostPictureIs
  <2>2. pic' = [T.pic EXCEPT ![b] = q] /\ main' = [main EXCEPT !.pc = "fill"]
        /\ UNCHANGED <<nal, segment, reports>>
    BY <1>2, <1>7
  <2> HIDE DEF q
  <2>3. /\ pic' \in [Bufs -> Picture] /\ pic'[b] = q
        /\ \A x \in Bufs \ {b} : pic'[x] = pic[x]
    BY <1>1, <1>4, <2>1, <2>2
  <2>4. \A x \in Bufs \ {b} : Kept(x) /\ (x \notin InList => pic'[x] = pic[x])
    BY <2>3, KeptSame
  <2>5. SliceChanges(b)
    BY <1>1, <1>3, <1>4, <2>2, <2>3, <2>4, NatTypes DEF SliceChanges, outputVars
  <2>6. SlicePicture(b)
    <3>1. b \notin ToSet(parseList') /\ parseList' = parseList
      BY <1>1, <1>6 DEF Waiting
    <3> QED
      BY <1>1, <1>3, <1>6, <2>1, <2>3, <3>1 DEF SlicePicture, reconstructed, finished
  <2>7. BehindSlice(b)
    <3>1. /\ main' = [pc |-> "fill", cur |-> NoPic, exc |-> main.exc,
                      done |-> NoPic, outPic |-> NoPic, flushing |-> FALSE]
          /\ main.exc \in BOOLEAN
      BY <1>1, <2>2, AtSliceState
    <3> QED
      BY <3>1 DEF BehindSlice
  <2>8. TellsNext(b)
    <3>1. b \notin InWork' /\ main'.pc # "ext" /\ b # main'.done
      BY <1>1, <1>3, <1>6, <2>7 DEF OnlyParsers, InWork, BehindSlice
    <3> QED
      BY <2>1, <2>3, <3>1
         DEF TellsNext, TasksTell, Prepared, init, parsing, parsed, reconstructing, reconstructed
  <2> QED
    BY <1>1, <1>5, <1>6, <2>5, <2>6, <2>7, <2>8, SliceStep, SliceReady, AtSliceState
<1>8. CASE ~T.ok
  <2>1. /\ pic' = Thrown(T.pic, ParsePic) /\ main' = Idle
        /\ nal' = NextNal /\ segment' = Segment /\ reports' \in [DOMAIN stream -> Nat]
    BY <1>2, <1>3, <1>8, ReportTypes
  <2>2. /\ pic' \in [Bufs -> Picture] /\ pic'[b] = ResetForUse(pic[b])
        /\ \A x \in Bufs \ {b} : Kept(x) /\ (x \notin InList => pic'[x] = pic[x])
    <3>1. CASE ParsePic = NoPic
      <4>1. pic' = T.pic
        BY <2>1, <3>1 DEF Thrown
      <4> QED
        BY <1>1, <1>4, <4>1, KeptSame
    <3>2. CASE ParsePic # NoPic
      <4> DEFINE t == ParsePic
      <4>1. t \in Bufs \ {b} /\ t \in InList /\ T.pic[t] = pic[t] /\ SoundPicture(pic[t])
        BY <1>3, <1>4, <1>6, <3>2 DEF IndInv, PicturesSound
      <4> DEFINE P == T.pic
      <4>0. pic' = Thrown(P, t) /\ P \in [Bufs -> Picture]
        BY <1>4, <2>1
      <4> HIDE DEF t, P
      <4>2. /\ pic' \in [Bufs -> Picture] /\ \A x \in Bufs \ {t} : pic'[x] = P[x]
        BY <4>0, <4>1, ThrownOut, Zenon
      <4>3. Kept(t)
        <5>1. SoundPicture(P[t]) /\ P[t] = pic[t]
          BY <4>1 DEF P
        <5> DEFINE p == P[t]  z == Thrown(P, t)[t]
        <5>2. /\ z.refs = p.refs /\ z.cts = p.cts /\ z.wasLost = p.wasLost
              /\ z.slices = p.slices /\ z.complete = p.complete
              /\ z.stillReferenced = p.stillReferenced
              /\ z.dpbReferenceMark = p.dpbReferenceMark /\ z.recon = p.recon
              /\ z.exceptionThrownOut = TRUE /\ z.reconDone = p.reconDone
              /\ z.lockedByApplication = p.lockedByApplication
              /\ z.queue = p.queue /\ z.parsedSlices = p.parsedSlices
              /\ z.parseFailed = p.parseFailed /\ z.progress = p.progress
              /\ z.borderExtStarted = p.borderExtStarted
              /\ z.parseDone = (IF p.parseDone = "error" THEN "locked" ELSE p.parseDone)
          BY <4>0, <4>1, ThrownOut, ZenonT(30)
        <5> QED
          BY <4>0, <5>1, <5>2 DEF Kept, Keeps, SoundPicture
      <4>4. \A x \in Bufs \ {b, t} : pic'[x] = pic[x]
        BY <1>4, <4>2 DEF P
      <4>5. pic'[b] = ResetForUse(pic[b])
        BY <1>1, <1>4, <4>1, <4>2 DEF P
      <4> QED
        BY <1>1, <4>1, <4>2, <4>3, <4>4, <4>5, KeptSame
    <3> QED
      BY <3>1, <3>2
  <2>3. SliceChanges(b)
    BY <1>1, <1>3, <1>4, <2>1, <2>2, NatTypes, AtSliceState DEF SliceChanges, outputVars
  <2>4. SlicePicture(b)
    <3>1. b \notin ToSet(parseList') /\ parseList' = parseList
      BY <1>1, <1>6 DEF Waiting
    <3>2. /\ SoundPicture(pic'[b]) /\ pic'[b].refs = {} /\ pic'[b].cts = 0
          /\ ~pic'[b].recon /\ pic'[b].recon \in BOOLEAN /\ pic'[b].progress = init
      BY <1>6, <2>2, Reset, Fields
    <3> QED
      BY <1>1, <1>3, <1>6, <3>1, <3>2 DEF SlicePicture, init, finished
  <2>5. BehindSlice(b)
    BY <2>1 DEF BehindSlice, Idle
  <2>6. TellsNext(b)
    <3>1. b \notin InWork' /\ main'.pc # "ext" /\ b # main'.done
      BY <1>1, <1>3, <1>6, <2>5 DEF OnlyParsers, InWork, BehindSlice
    <3>2. /\ pic'[b].progress = init /\ ~pic'[b].recon /\ pic'[b].refs = {}
          /\ pic'[b].queue = {} /\ pic'[b].parsedSlices = {}
          /\ ~pic'[b].parseFailed /\ ~pic'[b].borderExtStarted
      BY <1>6, <2>2, Reset, ResetTasks
    <3> QED
      BY <3>1, <3>2
         DEF TellsNext, TasksTell, Prepared, init, parsing, parsed, reconstructing, reconstructed
  <2> QED
    BY <1>1, <1>5, <1>6, <2>3, <2>4, <2>5, <2>6, SliceStep, SliceReady, AtSliceState
<1> QED
  BY <1>1, <1>5, <1>7, <1>8

\* P is what the parser makes of the pictures on its way to the slice of the
\* picture in buffer b.
OthersKept(P, b) ==
  /\ P \in [Bufs -> Picture]
  /\ \A x \in Bufs \ {b} : Keeps(pic[x], P[x]) /\ (x \notin InList => P[x] = pic[x])

SliceBegun(P, b) ==
  LET q == P[b]
  IN /\ SoundPicture(q) /\ q.recon = FALSE /\ q.progress <= parsed
     /\ q.refs \subseteq InList \cup {b} /\ ~q.wasLost /\ q.cts # 0
     /\ \A r \in q.refs \ {b} : P[r].stillReferenced
     /\ b \in ToSet(parseList) =>
          /\ q.progress \in {parsing, parsed} /\ q.reconDone = "locked"
          /\ \A i \in DOMAIN parseList : parseList[i] = b => i = Len(parseList)

LEMMA Marked ==
  ASSUME IndInv, NEW c \in CodedPicture
  PROVE  LET M == MarkReferences(Dpb, c)
         IN /\ M = [pic |-> M.pic, list |-> list, dpb |-> M.dpb]
            /\ M.dpb \in SUBSET dpb /\ M.pic \in [Bufs -> Picture]
            /\ \A x \in Bufs :
                 /\ Keeps(pic[x], M.pic[x]) /\ (x \notin InList => M.pic[x] = pic[x])
                 /\ M.pic[x].stillReferenced = pic[x].stillReferenced
                 /\ M.pic[x].neededForOutput = pic[x].neededForOutput
            /\ \A x \in M.dpb : M.pic[x].dpbReferenceMark
<1> DEFINE keeps(b) == /\ ~c.idr /\ pic[b].dpbReferenceMark
                       /\ pic[b].poc \in c.rpl \cup {c.poc}
           d == {b \in dpb : keeps(b)}
           P == [b \in Bufs |-> IF b \in dpb /\ ~keeps(b)
                                THEN [pic[b] EXCEPT !.dpbReferenceMark = FALSE]
                                ELSE pic[b]]
           M == MarkReferences(Dpb, c)
<1>1. M = [pic |-> P, list |-> list, dpb |-> d]
  BY DEF MarkReferences, Dpb
<1>2. d \in SUBSET dpb /\ \A x \in d : keeps(x) /\ pic[x].dpbReferenceMark
  OBVIOUS
<1>3. \A x \in Bufs : P[x] = pic[x] \/ (x \in dpb /\ x \notin d
                        /\ P[x] = [pic[x] EXCEPT !.dpbReferenceMark = FALSE])
  OBVIOUS
<1>4. \A x \in d : x \in Bufs /\ P[x] = pic[x]
  BY State DEF IndInv
<1> HIDE DEF keeps, d, P, M
<1>5. DOMAIN P = Bufs /\ P = [x \in Bufs |-> P[x]]
  BY DEF P
<1>6. ASSUME NEW x \in Bufs
      PROVE  /\ P[x] \in Picture /\ Keeps(pic[x], P[x]) /\ (x \notin InList => P[x] = pic[x])
             /\ P[x].stillReferenced = pic[x].stillReferenced
             /\ P[x].neededForOutput = pic[x].neededForOutput
  <2>1. pic[x] \in Picture /\ SoundPicture(pic[x]) /\ dpb \subseteq InList
    BY State DEF IndInv, PicturesSound
  <2>2. CASE P[x] = pic[x]
    BY <2>1, <2>2 DEF Keeps, SoundPicture
  <2>3. CASE x \in dpb /\ P[x] = [pic[x] EXCEPT !.dpbReferenceMark = FALSE]
    <3>1. P[x] \in Picture
      BY <2>1, <2>3, ZenonT(30) DEF Picture
    <3>2. Keeps(pic[x], P[x]) /\ P[x].stillReferenced = pic[x].stillReferenced
          /\ P[x].neededForOutput = pic[x].neededForOutput
      BY <2>1, <2>3 DEF Keeps, Picture
    <3> QED
      BY <2>1, <2>3, <3>1, <3>2
  <2> QED
    BY <1>3, <2>2, <2>3
<1>7. P \in [Bufs -> Picture]
  BY <1>5, <1>6
<1> QED
  BY <1>1, <1>2, <1>4, <1>6, <1>7 DEF M

\* xDecodeSliceMain marks the reference pictures that it finds.
LEMMA SliceSetUp ==
  ASSUME IndInv, NEW b \in Bufs, NEW D, NEW c \in CodedPicture, NEW p \in Nat,
         OthersKept(D.pic, b), D.dpb \subseteq InList \cup {b},
         \A r \in D.pic[b].refs \ {b} : D.pic[r].stillReferenced,
         D.pic[b].refs \subseteq InList
  PROVE  LET S == SetUpSlice(D, b, c, p)  q == S[b]  o == D.pic[b]
         IN /\ OthersKept(S, b)
            /\ q.refs \subseteq InList \cup {b}
            /\ \A r \in q.refs \ {b} : S[r].stillReferenced
            /\ b \in q.refs => b \in o.refs \/ (~c.idr /\ c.poc \in c.active)
            /\ q.dpbReferenceMark => q.stillReferenced
            /\ q.cts = p /\ q.wasLost = o.wasLost /\ q.slices = o.slices
            /\ q.complete = o.complete /\ q.recon = o.recon
            /\ q.reconDone = o.reconDone /\ q.queue = o.queue
            /\ q.parsedSlices = o.parsedSlices /\ q.parseFailed = o.parseFailed
            /\ q.progress = o.progress /\ q.parseDone = o.parseDone
            /\ q.exceptionThrownOut = o.exceptionThrownOut
            /\ q.borderExtStarted = o.borderExtStarted
<1> DEFINE Q == D.pic
           w == WithSlice(Q[b], c, p)
           E == BeginSlice(D, b, c, p)
           found == IF c.idr \/ DuplicatePoc(E) THEN {} ELSE RefPics(E, c.rpl)
           R == found \cap RefPics(E, c.active)
           P == [x \in Bufs |-> IF x \in found THEN [E.pic[x] EXCEPT !.stillReferenced = TRUE]
                                               ELSE E.pic[x]]
           z == [P[b] EXCEPT !.refs = @ \cup R]
           S == SetUpSlice(D, b, c, p)
<1>1. /\ S = [P EXCEPT ![b] = z] /\ E.dpb = D.dpb
      /\ E.pic = [Q EXCEPT ![b] = w]
  BY DEF SetUpSlice, BeginSlice
<1>2. found \subseteq InList \cup {b} /\ R \subseteq found /\ InList \subseteq Bufs
  BY <1>1, State DEF RefPics, IndInv
<1>3. R = {} \/ (~c.idr /\ \A x \in R : E.pic[x].poc \in c.active)
  BY DEF RefPics
<1> HIDE DEF E
<1>4. /\ DOMAIN P = Bufs
      /\ \A x \in Bufs : P[x] = IF x \in found THEN [E.pic[x] EXCEPT !.stillReferenced = TRUE]
                                               ELSE E.pic[x]
  OBVIOUS
<1>5. /\ Q \in [Bufs -> Picture]
      /\ \A x \in Bufs \ {b} : Keeps(pic[x], Q[x]) /\ (x \notin InList => Q[x] = pic[x])
  BY DEF OthersKept
<1> HIDE DEF found, R, P, S
<1>6. /\ w \in Picture /\ w.poc = c.poc /\ w.refs = Q[b].refs
      /\ w.dpbReferenceMark = c.isRef /\ w.stillReferenced = c.isRef
      /\ w.cts = p /\ w.wasLost = Q[b].wasLost /\ w.slices = Q[b].slices
      /\ w.complete = Q[b].complete /\ w.recon = Q[b].recon
      /\ w.reconDone = Q[b].reconDone /\ w.queue = Q[b].queue
      /\ w.parsedSlices = Q[b].parsedSlices /\ w.parseFailed = Q[b].parseFailed
      /\ w.progress = Q[b].progress /\ w.parseDone = Q[b].parseDone
      /\ w.exceptionThrownOut = Q[b].exceptionThrownOut
      /\ w.borderExtStarted = Q[b].borderExtStarted
  <2> DEFINE o == Q[b]
  <2>1. o \in Picture
    BY <1>5
  <2>2. c.poc \in Int /\ c.isRef \in BOOLEAN /\ c.output \in BOOLEAN
    BY DEF CodedPicture
  <2> HIDE DEF o, w
  <2>3. w = WithSlice(o, c, p)
    BY DEF w, o
  <2>4. w \in Picture
    BY <2>1, <2>2, <2>3, Zenon DEF WithSlice, Picture
  <2>5. /\ w.poc = c.poc /\ w.refs = o.refs
        /\ w.dpbReferenceMark = c.isRef /\ w.stillReferenced = c.isRef
        /\ w.cts = p /\ w.wasLost = o.wasLost /\ w.slices = o.slices
        /\ w.complete = o.complete /\ w.recon = o.recon
        /\ w.reconDone = o.reconDone /\ w.queue = o.queue
        /\ w.parsedSlices = o.parsedSlices /\ w.parseFailed = o.parseFailed
        /\ w.progress = o.progress /\ w.parseDone = o.parseDone
        /\ w.exceptionThrownOut = o.exceptionThrownOut
        /\ w.borderExtStarted = o.borderExtStarted
    BY <2>1, <2>3 DEF WithSlice, Picture
  <2> QED
    BY <2>4, <2>5 DEF o
<1> HIDE DEF w
<1>7. /\ E.pic \in [Bufs -> Picture] /\ E.pic[b] = w
      /\ \A x \in Bufs \ {b} : E.pic[x] = Q[x]
  BY <1>1, <1>5, <1>6
<1> HIDE DEF Q
<1>8. ASSUME NEW x \in Bufs
      PROVE  /\ P[x] \in Picture /\ (E.pic[x].stillReferenced => P[x].stillReferenced)
             /\ x \in found => P[x].stillReferenced
             /\ x \notin found => P[x] = E.pic[x]
             /\ Keeps(pic[x], E.pic[x]) => Keeps(pic[x], P[x])
  <2>1. E.pic[x] \in Picture
    BY <1>7
  <2>2. CASE x \in found /\ P[x] = [E.pic[x] EXCEPT !.stillReferenced = TRUE]
    <3>1. P[x] \in Picture /\ P[x].stillReferenced = TRUE
      BY <2>1, <2>2, ZenonT(30) DEF Picture
    <3>2. Keeps(pic[x], E.pic[x]) => Keeps(pic[x], P[x])
      BY <2>1, <2>2 DEF Keeps, Picture
    <3> QED
      BY <2>2, <3>1, <3>2
  <2>3. CASE P[x] = E.pic[x] /\ x \notin found
    BY <2>1, <2>3
  <2> QED
    BY <1>4, <2>2, <2>3
<1>9. /\ P[b] \in Picture /\ P[b].refs = w.refs /\ P[b].wasLost = w.wasLost
      /\ P[b].slices = w.slices /\ P[b].cts = w.cts
      /\ P[b].dpbReferenceMark = w.dpbReferenceMark
      /\ w.stillReferenced => P[b].stillReferenced
      /\ P[b].complete = w.complete /\ P[b].recon = w.recon
      /\ P[b].reconDone = w.reconDone /\ P[b].queue = w.queue
      /\ P[b].parsedSlices = w.parsedSlices /\ P[b].parseFailed = w.parseFailed
      /\ P[b].progress = w.progress /\ P[b].parseDone = w.parseDone
      /\ P[b].exceptionThrownOut = w.exceptionThrownOut
      /\ P[b].borderExtStarted = w.borderExtStarted
  <2>1. w \in Picture /\ (P[b] = w \/ P[b] = [w EXCEPT !.stillReferenced = TRUE])
    BY <1>4, <1>6, <1>7
  <2>2. CASE P[b] = w
    BY <2>1, <2>2
  <2>3. CASE P[b] = [w EXCEPT !.stillReferenced = TRUE]
    BY <1>8, <2>1, <2>3 DEF Picture
  <2> QED
    BY <2>1, <2>2, <2>3
<1>10. /\ z \in Picture /\ z.refs = P[b].refs \cup R
       /\ z.dpbReferenceMark = P[b].dpbReferenceMark
       /\ z.stillReferenced = P[b].stillReferenced
       /\ z.cts = P[b].cts /\ z.wasLost = P[b].wasLost /\ z.slices = P[b].slices
       /\ z.complete = P[b].complete /\ z.recon = P[b].recon
       /\ z.reconDone = P[b].reconDone /\ z.queue = P[b].queue
       /\ z.parsedSlices = P[b].parsedSlices /\ z.parseFailed = P[b].parseFailed
       /\ z.progress = P[b].progress /\ z.parseDone = P[b].parseDone
       /\ z.exceptionThrownOut = P[b].exceptionThrownOut
       /\ z.borderExtStarted = P[b].borderExtStarted
  <2> DEFINE o == P[b]  t == o.refs \cup R
  <2>1. o \in Picture /\ t \in SUBSET Bufs
    BY <1>2, <1>9, Fields
  <2> HIDE DEF o, t
  <2>2. z = [o EXCEPT !.refs = t]
    BY DEF o, t
  <2> HIDE DEF z
  <2>3. z \in Picture
    BY <2>1, <2>2, Zenon DEF Picture
  <2>4. /\ z.refs = t /\ z.dpbReferenceMark = o.dpbReferenceMark
        /\ z.stillReferenced = o.stillReferenced
        /\ z.cts = o.cts /\ z.wasLost = o.wasLost /\ z.slices = o.slices
        /\ z.complete = o.complete /\ z.recon = o.recon
        /\ z.reconDone = o.reconDone /\ z.queue = o.queue
        /\ z.parsedSlices = o.parsedSlices /\ z.parseFailed = o.parseFailed
        /\ z.progress = o.progress /\ z.parseDone = o.parseDone
        /\ z.exceptionThrownOut = o.exceptionThrownOut
        /\ z.borderExtStarted = o.borderExtStarted
    BY <2>1, <2>2 DEF Picture
  <2> QED
    BY <2>3, <2>4 DEF o, t
<1> HIDE DEF z
<1>11. /\ S \in [Bufs -> Picture] /\ S[b] = z
       /\ \A x \in Bufs \ {b} : S[x] = P[x]
  BY <1>1, <1>4, <1>8, <1>10
<1>12. OthersKept(S, b)
  <2>1. ASSUME NEW x \in Bufs \ {b}
        PROVE  Keeps(pic[x], S[x]) /\ (x \notin InList => S[x] = pic[x])
    BY <1>2, <1>5, <1>7, <1>8, <1>11
  <2> QED
    BY <1>11, <2>1 DEF OthersKept
<1>13. \A r \in S[b].refs \ {b} : r \in Bufs /\ S[r].stillReferenced
  <2> SUFFICES ASSUME NEW r \in S[b].refs \ {b} PROVE r \in Bufs /\ S[r].stillReferenced
    OBVIOUS
  <2>1. r \in Q[b].refs \/ r \in found
    BY <1>2, <1>6, <1>9, <1>10, <1>11
  <2>2. r \in Bufs /\ S[r] = P[r] /\ E.pic[r] = Q[r]
    BY <1>2, <1>7, <1>11, <2>1 DEF Q
  <2> QED
    BY <1>8, <2>1, <2>2 DEF Q
<1>14. S[b].refs \subseteq InList \cup {b}
  BY <1>2, <1>6, <1>9, <1>10, <1>11 DEF Q
<1>15. b \in S[b].refs => b \in Q[b].refs \/ (~c.idr /\ c.poc \in c.active)
  BY <1>3, <1>6, <1>7, <1>9, <1>10, <1>11
<1>16. S[b].dpbReferenceMark => S[b].stillReferenced
  BY <1>6, <1>9, <1>10, <1>11
<1> QED
  BY <1>6, <1>9, <1>10, <1>11, <1>12, <1>13, <1>14, <1>15, <1>16 DEF S, Q

LEMMA TaskAdded ==
  ASSUME NEW q \in Picture, NEW s \in Nat
  PROVE  LET y == StartParsing(q)  z == AddParseTask(q, s)
         IN /\ y \in Picture /\ z \in Picture
            /\ y.progress = (IF q.progress = init THEN parsing ELSE q.progress)
            /\ y.queue = q.queue
            /\ y.refs = q.refs /\ y.cts = q.cts /\ y.wasLost = q.wasLost
            /\ y.slices = q.slices /\ y.complete = q.complete /\ y.recon = q.recon
            /\ y.reconDone = q.reconDone /\ y.parsedSlices = q.parsedSlices
            /\ y.stillReferenced = q.stillReferenced
            /\ y.dpbReferenceMark = q.dpbReferenceMark
            /\ y.parseFailed = q.parseFailed /\ y.parseDone = q.parseDone
            /\ y.borderExtStarted = q.borderExtStarted
            /\ y.exceptionThrownOut = q.exceptionThrownOut
            /\ z.queue = q.queue \cup {s} /\ z.progress = y.progress
            /\ z.refs = q.refs /\ z.cts = q.cts /\ z.wasLost = q.wasLost
            /\ z.slices = q.slices /\ z.complete = q.complete /\ z.recon = q.recon
            /\ z.reconDone = q.reconDone /\ z.parsedSlices = q.parsedSlices
            /\ z.stillReferenced = q.stillReferenced
            /\ z.dpbReferenceMark = q.dpbReferenceMark
            /\ z.parseFailed = q.parseFailed /\ z.parseDone = q.parseDone
            /\ z.borderExtStarted = q.borderExtStarted
            /\ z.exceptionThrownOut = q.exceptionThrownOut
<1> DEFINE y == StartParsing(q)  z == AddParseTask(q, s)
<1>1. z = [y EXCEPT !.queue = y.queue \cup {s}]
  BY DEF AddParseTask
<1>2. /\ y \in Picture
      /\ y.progress = (IF q.progress = init THEN parsing ELSE q.progress)
      /\ y.queue = q.queue /\ y.queue \subseteq Nat
      /\ y.refs = q.refs /\ y.cts = q.cts /\ y.wasLost = q.wasLost
      /\ y.slices = q.slices /\ y.complete = q.complete /\ y.recon = q.recon
      /\ y.reconDone = q.reconDone /\ y.parsedSlices = q.parsedSlices
      /\ y.stillReferenced = q.stillReferenced
      /\ y.dpbReferenceMark = q.dpbReferenceMark
      /\ y.parseFailed = q.parseFailed /\ y.parseDone = q.parseDone
      /\ y.borderExtStarted = q.borderExtStarted
      /\ y.exceptionThrownOut = q.exceptionThrownOut
  BY Ranges DEF StartParsing, Picture
<1> HIDE DEF y, z
<1>3. z \in Picture
  BY <1>1, <1>2 DEF Picture
<1>4. /\ z.queue = y.queue \cup {s} /\ z.progress = y.progress
      /\ z.refs = y.refs /\ z.cts = y.cts /\ z.wasLost = y.wasLost
      /\ z.slices = y.slices /\ z.complete = y.complete /\ z.recon = y.recon
      /\ z.reconDone = y.reconDone /\ z.parsedSlices = y.parsedSlices
      /\ z.stillReferenced = y.stillReferenced
      /\ z.dpbReferenceMark = y.dpbReferenceMark
      /\ z.parseFailed = y.parseFailed /\ z.parseDone = y.parseDone
      /\ z.borderExtStarted = y.borderExtStarted
      /\ z.exceptionThrownOut = y.exceptionThrownOut
  BY <1>1, <1>2 DEF Picture
<1> QED
  BY <1>2, <1>3, <1>4 DEF y, z

\* An exception of the slice ends the call.
LEMMA SliceThrown ==
  ASSUME IndInv, NEW b \in Bufs, NEW P, OthersKept(P, b), SliceBegun(P, b),
         pic' = Thrown(P, b), main' = Idle, parsePic' = b, parseList' = parseList
  PROVE  /\ OthersKept(pic', b) /\ SlicePicture(b) /\ BehindSlice(b)
         /\ pic'[b].queue = P[b].queue /\ pic'[b].parsedSlices = P[b].parsedSlices
         /\ pic'[b].parseFailed = P[b].parseFailed /\ pic'[b].refs = P[b].refs
         /\ pic'[b].progress = P[b].progress
         /\ pic'[b].borderExtStarted = P[b].borderExtStarted
<1> DEFINE p == P[b]  q == pic'[b]
<1>1. P \in [Bufs -> Picture] /\ p \in Picture /\ p.progress \in Int
  BY Fields DEF OthersKept
<1>2. p.parseDone = "error" => p.queue = {}
  BY DEF SliceBegun, SoundPicture
<1>3. /\ pic' \in [Bufs -> Picture] /\ \A x \in Bufs \ {b} : pic'[x] = P[x]
      /\ q.refs = p.refs /\ q.cts = p.cts /\ q.wasLost = p.wasLost
      /\ q.complete = p.complete /\ q.recon = p.recon
      /\ q.exceptionThrownOut = TRUE /\ q.reconDone = p.reconDone
      /\ q.progress = p.progress /\ q.queue = p.queue /\ q.parsedSlices = p.parsedSlices
      /\ q.parseFailed = p.parseFailed /\ q.borderExtStarted = p.borderExtStarted
  BY <1>1, ThrownOut, ZenonT(30)
<1>4. SoundPicture(q)
  BY <1>1, <1>2, ThrownOut DEF SliceBegun
<1>5. OthersKept(pic', b)
  BY <1>3 DEF OthersKept
<1>6. \A r \in q.refs \ {b} : pic'[r].stillReferenced
  <2>1. p.refs \subseteq Bufs
    BY <1>1, Fields
  <2> QED
    BY <1>3, <2>1 DEF SliceBegun
<1>7. SlicePicture(b)
  BY <1>1, <1>3, <1>4, <1>6 DEF SlicePicture, SliceBegun, parsed, finished
<1> QED
  BY <1>3, <1>5, <1>7 DEF BehindSlice, Idle

\* The slice gets its parse task.
LEMMA SliceAdded ==
  ASSUME IndInv, AtSlice, NEW b \in Bufs, NEW P, NEW s \in Nat,
         OthersKept(P, b), SliceBegun(P, b),
         s \in 1..P[b].slices, s \notin P[b].parsedSlices, P[b].parseDone = "locked",
         pic' = [P EXCEPT ![b] = AddParseTask(@, s)],
         parsePic' = b, main' = AfterSlice(P[b].complete, parseList'),
         \/ /\ parseList' = Append(parseList, b) /\ b \notin ToSet(parseList)
            /\ P[b].reconDone = "locked"
         \/ /\ parseList' = parseList
            /\ b \in ToSet(parseList) \/ P[b].exceptionThrownOut
  PROVE  /\ OthersKept(pic', b) /\ SlicePicture(b) /\ BehindSlice(b)
         /\ pic'[b].queue = P[b].queue \cup {s} /\ pic'[b].refs = P[b].refs
         /\ pic'[b].parsedSlices = P[b].parsedSlices
         /\ pic'[b].progress \in {parsing, parsed}
         /\ pic'[b].borderExtStarted = P[b].borderExtStarted
<1> DEFINE p == P[b]  q == pic'[b]
<1>1. /\ P \in [Bufs -> Picture] /\ p \in Picture /\ p.progress \in 0..5
      /\ p.refs \subseteq Bufs /\ p.queue \subseteq Nat
  BY Fields DEF OthersKept
<1>2. /\ pic' \in [Bufs -> Picture] /\ q = AddParseTask(p, s)
      /\ \A x \in Bufs \ {b} : pic'[x] = P[x]
  BY <1>1, TaskAdded
<1>3. /\ q.queue = p.queue \cup {s}
      /\ q.progress = (IF p.progress = init THEN parsing ELSE p.progress)
      /\ q.refs = p.refs /\ q.cts = p.cts /\ q.wasLost = p.wasLost
      /\ q.slices = p.slices /\ q.complete = p.complete /\ q.recon = p.recon
      /\ q.reconDone = p.reconDone /\ q.parsedSlices = p.parsedSlices
      /\ q.stillReferenced = p.stillReferenced
      /\ q.dpbReferenceMark = p.dpbReferenceMark
      /\ q.parseFailed = p.parseFailed /\ q.parseDone = p.parseDone
      /\ q.borderExtStarted = p.borderExtStarted
      /\ q.exceptionThrownOut = p.exceptionThrownOut
  <2> DEFINE y == StartParsing(p)  z == AddParseTask(p, s)
  <2>1. p \in Picture /\ s \in Nat /\ q = z
    BY <1>1, <1>2
  <2> HIDE DEF p, q
  <2>2. /\ y.progress = (IF p.progress = init THEN parsing ELSE p.progress)
        /\ z.queue = p.queue \cup {s} /\ z.progress = y.progress
        /\ z.refs = p.refs /\ z.cts = p.cts /\ z.wasLost = p.wasLost
        /\ z.slices = p.slices /\ z.complete = p.complete /\ z.recon = p.recon
        /\ z.reconDone = p.reconDone /\ z.parsedSlices = p.parsedSlices
        /\ z.stillReferenced = p.stillReferenced
        /\ z.dpbReferenceMark = p.dpbReferenceMark
        /\ z.parseFailed = p.parseFailed /\ z.parseDone = p.parseDone
        /\ z.borderExtStarted = p.borderExtStarted
        /\ z.exceptionThrownOut = p.exceptionThrownOut
    BY <2>1, TaskAdded, ZenonT(30)
  <2> HIDE DEF y, z
  <2> QED
    BY <2>1, <2>2
<1>4. SoundPicture(p) /\ p.recon = FALSE /\ p.progress <= parsed
  BY DEF SliceBegun
<1>5. q.progress \in {parsing, parsed} /\ q.progress # finished
  BY <1>1, <1>3, <1>4 DEF init, parsing, parsed, finished
<1>6. SoundPicture(q)
  BY <1>1, <1>3, <1>4, <1>5 DEF SoundPicture
<1>7. OthersKept(pic', b)
  BY <1>2 DEF OthersKept
<1>8. \A r \in q.refs \ {b} : pic'[r].stillReferenced
  BY <1>1, <1>2, <1>3 DEF SliceBegun
<1>9. b \in ToSet(parseList') =>
        /\ q.reconDone = "locked"
        /\ \A i \in DOMAIN parseList' : parseList'[i] = b => i = Len(parseList')
  <2>1. CASE /\ parseList' = Append(parseList, b) /\ b \notin ToSet(parseList)
             /\ P[b].reconDone = "locked"
    <3>1. /\ DOMAIN parseList' = DOMAIN parseList \cup {Len(parseList')}
          /\ \A i \in DOMAIN parseList : /\ parseList'[i] = parseList[i]
                                         /\ parseList[i] \in ToSet(parseList)
      <4>1. parseList \in Seq(Bufs)
        BY State DEF IndInv
      <4>2. /\ Len(parseList) \in Nat /\ DOMAIN parseList = 1..Len(parseList)
            /\ \A i \in DOMAIN parseList : parseList[i] \in ToSet(parseList)
        BY <4>1, InSequence
      <4>3. /\ Len(parseList') = Len(parseList) + 1
            /\ DOMAIN parseList' = 1..(Len(parseList) + 1)
            /\ \A i \in 1..Len(parseList) : parseList'[i] = parseList[i]
        BY <2>1, <4>1, Appended
      <4> QED
        BY <4>2, <4>3
    <3> QED
      BY <1>3, <2>1, <3>1
  <2>2. CASE parseList' = parseList
    BY <1>3, <2>2 DEF SliceBegun
  <2> QED
    BY <2>1, <2>2
<1>10. b \notin ToSet(parseList') => q.exceptionThrownOut
  <2>1. CASE parseList' = Append(parseList, b)
    <3>1. parseList \in Seq(Bufs)
      BY State DEF IndInv
    <3>2. ToSet(Append(parseList, b)) = ToSet(parseList) \cup {b}
      BY <3>1, Appended
    <3> QED
      BY <2>1, <3>2
  <2>2. CASE parseList' = parseList /\ (b \in ToSet(parseList) \/ P[b].exceptionThrownOut)
    BY <1>3, <2>2
  <2> QED
    BY <2>1, <2>2
<1>11. q.refs \subseteq InList \cup {b} /\ ~q.wasLost /\ q.cts # 0 /\ q.recon = FALSE
  BY <1>3, <1>4 DEF SliceBegun
<1>12. SlicePicture(b)
  BY <1>5, <1>6, <1>8, <1>9, <1>10, <1>11 DEF SlicePicture, parsing, parsed
<1>13. BehindSlice(b)
  <2> DEFINE next == P[b].complete /\ Len(parseList') > ParseFrameDelay
             v == IF next THEN "next" ELSE "idle"
  <2>1. /\ main' = [main EXCEPT !.pc = v] /\ v \in {"idle", "next"}
        /\ v = "next" => P[b].complete
    BY DEF AfterSlice
  <2> HIDE DEF v
  <2>2. /\ main' = [pc |-> v, cur |-> NoPic, exc |-> main.exc,
                    done |-> NoPic, outPic |-> NoPic, flushing |-> FALSE]
        /\ main.exc \in BOOLEAN
    BY <2>1, AtSliceState
  <2> QED
    BY <1>3, <2>1, <2>2 DEF BehindSlice
<1> QED
  BY <1>3, <1>5, <1>7, <1>12, <1>13

\* xActivateParameterSets: "reused picture shouldn't be in decoded picture
\* buffer".
LEMMA ReusedNotInDpb ==
  ASSUME IndInv, NEW c \in CodedPicture, NEW p
  PROVE  Activate(Dpb, c, p).ok
<1> DEFINE M == MarkReferences(Dpb, c)  T == TakeBuffer(M)
<1>1. /\ M = [pic |-> M.pic, list |-> list, dpb |-> M.dpb]
      /\ M.dpb \in SUBSET dpb /\ M.pic \in [Bufs -> Picture]
      /\ \A x \in M.dpb : M.pic[x].dpbReferenceMark
  BY Marked
<1>2. Activate(Dpb, c, p).ok = T.ok
  BY DEF Activate, TakeBuffer
<1> HIDE DEF M
<1>3. T.ok = (T.buf \notin M.dpb) /\ (T.buf \in InList => Reusable(M.pic[T.buf]))
  BY <1>1, Taken DEF IndInv
<1>4. M.dpb \subseteq InList
  BY <1>1, State DEF IndInv
<1> QED
  BY <1>1, <1>2, <1>3, <1>4 DEF Reusable

LEMMA Activated ==
  ASSUME IndInv, NEW c \in CodedPicture, NEW p \in Nat \ {0},
         Activate(Dpb, c, p).buf \in Bufs
  PROVE  LET A == Activate(Dpb, c, p)  b == A.buf  q == A.pic[b]
         IN /\ A.list \in Seq(Bufs) /\ IsInjective(A.list)
            /\ ToSet(A.list) = 1..Len(A.list) /\ ToSet(A.list) = InList \cup {b}
            /\ A.dpb \subseteq InList \cup {b} /\ A.ok
            /\ Free(b) /\ OthersKept(A.pic, b) /\ SliceBegun(A.pic, b)
            /\ q.refs = {} /\ q.queue = {} /\ q.parsedSlices = {} /\ q.slices = 1
            /\ q.parseDone = "locked" /\ q.reconDone = "locked"
            /\ ~q.wasLost /\ q.progress = init /\ q.recon = FALSE
            /\ q.parseFailed = FALSE /\ q.borderExtStarted = FALSE
            /\ b \notin ToSet(parseList)
<1> DEFINE M == MarkReferences(Dpb, c)  T == TakeBuffer(M)
           A == Activate(Dpb, c, p)  b == T.buf
           z == NewPicture(T.pic[b], c, p)
<1>1. /\ M = [pic |-> M.pic, list |-> list, dpb |-> M.dpb]
      /\ M.dpb \in SUBSET dpb /\ M.pic \in [Bufs -> Picture]
      /\ \A x \in Bufs :
           /\ Keeps(pic[x], M.pic[x]) /\ (x \notin InList => M.pic[x] = pic[x])
           /\ M.pic[x].stillReferenced = pic[x].stillReferenced
           /\ M.pic[x].neededForOutput = pic[x].neededForOutput
  BY Marked
<1>2. /\ A.buf = b /\ A.list = T.list /\ A.dpb = T.dpb /\ A.ok = T.ok
      /\ A.pic = [T.pic EXCEPT ![b] = z]
  BY DEF Activate, TakeBuffer
<1>3. b \in Bufs /\ A.ok
  BY <1>2, ReusedNotInDpb
<1> DEFINE Q == M.pic  d == M.dpb
<1>4. T = TakeBuffer([pic |-> Q, list |-> list, dpb |-> d])
  BY <1>1
<1>5. \A x \in Bufs : /\ Q[x].progress = pic[x].progress
                      /\ Q[x].stillReferenced = pic[x].stillReferenced
                      /\ Q[x].neededForOutput = pic[x].neededForOutput
                      /\ Q[x].lockedByApplication = pic[x].lockedByApplication
  BY <1>1 DEF Keeps
<1>6. Q \in [Bufs -> Picture] /\ d \in SUBSET dpb /\ TypeOK
  BY <1>1 DEF IndInv
<1> HIDE DEF M, T, A, Q, d
<1>7. /\ T.list \in Seq(Bufs) /\ IsInjective(T.list)
      /\ ToSet(T.list) = 1..Len(T.list) /\ ToSet(T.list) = InList \cup {b}
      /\ T.dpb = d \cup {b}
      /\ T.pic \in [Bufs -> Picture] /\ T.pic[b] = ResetForUse(Q[b])
      /\ \A x \in Bufs \ {b} : T.pic[x] = Q[x]
  <2> DEFINE W == TakeBuffer([pic |-> Q, list |-> list, dpb |-> d])
  <2>1. W.buf \in Bufs =>
          /\ W.list \in Seq(Bufs) /\ IsInjective(W.list)
          /\ ToSet(W.list) = 1..Len(W.list) /\ ToSet(W.list) = InList \cup {W.buf}
          /\ W.pic \in [Bufs -> Picture] /\ W.pic[W.buf] = ResetForUse(Q[W.buf])
          /\ \A x \in Bufs \ {W.buf} : W.pic[x] = Q[x]
    BY <1>6, Taken, SMTT(30)
  <2>2. W.dpb = d \cup {W.buf}
    BY <1>6, Taken
  <2>3. T = W
    BY <1>4
  <2> HIDE DEF W
  <2> QED
    BY <1>3, <2>1, <2>2, <2>3
<1>8. Free(b)
  BY <1>3, <1>4, <1>5, <1>6, TakenFree
<1>9. d \subseteq InList /\ b \notin ToSet(parseList)
  BY <1>3, <1>6, <1>8, State, NobodyHasFree DEF Waiting
<1>10. /\ z \in Picture /\ z.refs = {} /\ z.queue = {} /\ z.parsedSlices = {} /\ z.slices = 1
       /\ z.parseDone = "locked" /\ z.reconDone = "locked"
       /\ z.wasLost = FALSE /\ z.progress = init /\ z.recon = FALSE /\ z.cts = p
       /\ z.stillReferenced = z.dpbReferenceMark
       /\ z.parseFailed = FALSE /\ z.borderExtStarted = FALSE
  <2> DEFINE o == T.pic[b]
  <2>1. /\ o \in Picture /\ o.refs = {} /\ o.progress = init /\ o.recon = FALSE
        /\ o.queue = {} /\ o.reconDone = "locked" /\ o.wasLost = FALSE
        /\ o.parsedSlices = {} /\ o.parseDone = "locked"
    BY <1>3, <1>6, <1>7, Reset, Fields
  <2>10. o.parseFailed = FALSE /\ o.borderExtStarted = FALSE
    <3>1. Q[b] \in Picture /\ o = ResetForUse(Q[b])
      BY <1>3, <1>6, <1>7
    <3> QED
      BY <3>1, ResetTasks
  <2>2. /\ c.poc \in Int /\ c.isRef \in BOOLEAN /\ c.idr \in BOOLEAN
        /\ (c.slices = 1) \in BOOLEAN
    BY DEF CodedPicture
  <2>3. \A v \in BOOLEAN :
          [o EXCEPT !.poc = c.poc, !.cts = p, !.idr = c.idr,
                    !.dpbReferenceMark = c.isRef, !.stillReferenced = c.isRef,
                    !.slices = 1, !.complete = v] \in Picture
    <3> HIDE DEF o
    <3> QED
      BY <2>1, <2>2, ZenonT(30) DEF Picture
  <2>4. z = [o EXCEPT !.poc = c.poc, !.cts = p, !.idr = c.idr,
                      !.dpbReferenceMark = c.isRef, !.stillReferenced = c.isRef,
                      !.slices = 1, !.complete = (c.slices = 1)]
    BY DEF NewPicture
  <2> HIDE DEF z, o
  <2>5. z \in Picture
    BY <2>2, <2>3, <2>4, Zenon
  <2>6. /\ z.refs = o.refs /\ z.queue = o.queue /\ z.parsedSlices = o.parsedSlices
        /\ z.slices = 1 /\ z.parseDone = o.parseDone /\ z.reconDone = o.reconDone
        /\ z.wasLost = o.wasLost /\ z.progress = o.progress /\ z.recon = o.recon
        /\ z.cts = p /\ z.stillReferenced = c.isRef /\ z.dpbReferenceMark = c.isRef
        /\ z.parseFailed = o.parseFailed /\ z.borderExtStarted = o.borderExtStarted
    BY <2>1, <2>4 DEF Picture
  <2> QED
    BY <2>1, <2>5, <2>6, <2>10
<1> HIDE DEF z
<1>11. /\ A.pic \in [Bufs -> Picture] /\ A.pic[b] = z
       /\ \A x \in Bufs \ {b} : A.pic[x] = Q[x]
  BY <1>2, <1>3, <1>7, <1>10
<1>12. OthersKept(A.pic, b)
  BY <1>1, <1>11 DEF OthersKept, Q
<1>13. SoundPicture(z)
  BY <1>10 DEF SoundPicture, init, finished
<1>14. SliceBegun(A.pic, b)
  BY <1>9, <1>10, <1>11, <1>13 DEF SliceBegun, init, parsed
<1> QED
  BY <1>2, <1>3, <1>7, <1>8, <1>9, <1>10, <1>11, <1>12, <1>14 DEF A

LEMMA FirstSliceStep ==
  ASSUME IndInv, FirstSlice
  PROVE  /\ IndInv' /\ (NoSelfReference /\ ReadyInv => ReadyInv')
         /\ \E b \in Bufs : /\ Free(b)
                            /\ \A x \in Bufs \ {b} : pic[x].progress = finished
                                                     => pic'[x].progress = finished
<1> DEFINE c == stream[nal[1]]  p == nal[1]
           A == Activate(Dpb, c, p)  b == A.buf  S == SetUpSlice(A, b, c, p)
           holds == A.ok /\ RplHolds(A, b, c, p)
<1>1. /\ AtSlice /\ b \in Bufs
      /\ list' = A.list /\ dpb' = A.dpb /\ parsePic' = b /\ started' = TRUE
      /\ nal' = NextNal /\ segment' = Segment
      /\ UNCHANGED <<setup, instances, outputVars>>
      /\ \/ /\ A.ok /\ Fails("contents")
            /\ pic' = Thrown(A.pic, b) /\ main' = Idle
            /\ reports' = [reports EXCEPT ![nal[1]] = @ + 1]
            /\ UNCHANGED parseList
         \/ /\ ~holds
            /\ pic' = Thrown(IF A.ok THEN S ELSE A.pic, b) /\ main' = Idle
            /\ reports' = [reports EXCEPT ![nal[1]] = @ + 1]
            /\ UNCHANGED <<parseList, faults>>
         \/ /\ holds
            /\ pic' = [S EXCEPT ![b] = AddParseTask(@, 1)]
            /\ parseList' = Append(parseList, b)
            /\ main' = AfterSlice(A.pic[b].complete, parseList')
            /\ UNCHANGED <<reports, faults>>
  BY DEF FirstSlice
<1>2. /\ TypeOK /\ MoreNals /\ c \in CodedPicture /\ p \in Nat \ {0} /\ NoPic \notin Bufs
      /\ main.pc \in ParserPc /\ Segment \in Nat /\ NextNal \in (Nat \ {0}) \X (Nat \ {0})
  BY <1>1, AtSliceState, Constants DEF TypeOK
<1>3. /\ A.list \in Seq(Bufs) /\ IsInjective(A.list)
      /\ ToSet(A.list) = 1..Len(A.list) /\ ToSet(A.list) = InList \cup {b}
      /\ A.dpb \subseteq InList \cup {b} /\ A.ok
      /\ Free(b) /\ OthersKept(A.pic, b) /\ SliceBegun(A.pic, b)
      /\ A.pic[b].refs = {} /\ A.pic[b].queue = {} /\ A.pic[b].parsedSlices = {}
      /\ A.pic[b].slices = 1 /\ A.pic[b].progress = init /\ A.pic[b].recon = FALSE
      /\ A.pic[b].parseDone = "locked" /\ A.pic[b].reconDone = "locked"
      /\ ~A.pic[b].wasLost /\ b \notin ToSet(parseList)
      /\ A.pic[b].parseFailed = FALSE /\ A.pic[b].borderExtStarted = FALSE
  <2>1. c \in CodedPicture /\ p \in Nat \ {0} /\ Activate(Dpb, c, p).buf \in Bufs
    BY <1>1, <1>2
  <2> HIDE DEF c, p
  <2> QED
    BY <2>1, Activated, ZenonT(30)
<1>4. OnlyParsers(b)
  BY <1>1, <1>3, NobodyHasFree
<1>20. NoSelfReference => c.idr \/ c.poc \notin c.active
  BY <1>2 DEF NoSelfReference, MoreNals, TypeOK, stream
<1> HIDE DEF A, b, c, p, holds
<1>5. /\ OthersKept(S, b) /\ SliceBegun(S, b)
      /\ S[b].slices = 1 /\ S[b].parsedSlices = {} /\ S[b].parseDone = "locked"
      /\ S[b].reconDone = "locked" /\ S[b].complete = A.pic[b].complete
      /\ S[b].progress = init /\ S[b].queue = {} /\ S[b].parseFailed = FALSE
      /\ S[b].borderExtStarted = FALSE /\ (NoSelfReference => b \notin S[b].refs)
  <2>1. /\ OthersKept(S, b)
        /\ S[b].refs \subseteq InList \cup {b}
        /\ \A r \in S[b].refs \ {b} : S[r].stillReferenced
        /\ S[b].dpbReferenceMark => S[b].stillReferenced
        /\ S[b].cts = p /\ S[b].wasLost = A.pic[b].wasLost
        /\ S[b].slices = A.pic[b].slices
        /\ S[b].complete = A.pic[b].complete /\ S[b].recon = A.pic[b].recon
        /\ S[b].reconDone = A.pic[b].reconDone /\ S[b].queue = A.pic[b].queue
        /\ S[b].parsedSlices = A.pic[b].parsedSlices
        /\ S[b].progress = A.pic[b].progress /\ S[b].parseDone = A.pic[b].parseDone
        /\ S[b].parseFailed = A.pic[b].parseFailed
        /\ S[b].borderExtStarted = A.pic[b].borderExtStarted
        /\ b \in S[b].refs => b \in A.pic[b].refs \/ (~c.idr /\ c.poc \in c.active)
    <3>1. /\ b \in Bufs /\ p \in Nat /\ c \in CodedPicture /\ OthersKept(A.pic, b)
          /\ A.dpb \subseteq InList \cup {b} /\ A.pic[b].refs = {}
      BY <1>1, <1>2, <1>3
    <3> QED
      BY <3>1, SliceSetUp
  <2> HIDE DEF S
  <2>2. SoundPicture(S[b])
    BY <1>3, <2>1 DEF SoundPicture, init, finished
  <2> QED
    BY <1>2, <1>3, <1>20, <2>1, <2>2 DEF SliceBegun, init, parsed
<1>6. /\ reports' \in [DOMAIN stream -> Nat] /\ faults' \in Nat
  <2>1. /\ reports \in [DOMAIN stream -> Nat] /\ faults \in Nat
        /\ (Fails("contents") => faults' \in Nat)
        /\ [reports EXCEPT ![nal[1]] = @ + 1] \in [DOMAIN stream -> Nat]
    BY <1>2, NatTypes, ReportTypes, Constants DEF FaultKinds
  <2> QED
    BY <1>1, <2>1
<1> HIDE DEF S
<1>7. /\ OthersKept(pic', b) /\ SlicePicture(b) /\ BehindSlice(b)
      /\ parseList' = parseList \/ (parseList' = Append(parseList, b) /\ b \notin ToSet(parseList))
  <2>1. CASE pic' = Thrown(A.pic, b) /\ main' = Idle /\ parseList' = parseList
    BY <1>1, <1>3, <2>1, SliceThrown
  <2>2. CASE pic' = Thrown(S, b) /\ main' = Idle /\ parseList' = parseList
    BY <1>1, <1>5, <2>2, SliceThrown
  <2>3. CASE /\ pic' = [S EXCEPT ![b] = AddParseTask(@, 1)]
             /\ parseList' = Append(parseList, b)
             /\ main' = AfterSlice(A.pic[b].complete, parseList')
    <3>1. 1 \in 1..S[b].slices /\ 1 \notin S[b].parsedSlices /\ 1 \in Nat
      BY <1>5
    <3>2. main' = AfterSlice(S[b].complete, parseList')
      BY <1>5, <2>3
    <3> QED
      BY <1>1, <1>3, <1>5, <2>3, <3>1, <3>2, SliceAdded
  <2> QED
    BY <1>1, <1>3, <2>1, <2>2, <2>3
<1>8. SliceChanges(b)
  BY <1>1, <1>2, <1>3, <1>6, <1>7 DEF SliceChanges, OthersKept, Kept, outputVars
<1>9. ASSUME NoSelfReference PROVE TellsNext(b)
  <2>1. CASE /\ pic' = Thrown(A.pic, b) /\ main' = Idle /\ parseList' = parseList
    <3>1. /\ pic'[b].queue = {} /\ pic'[b].parsedSlices = {} /\ ~pic'[b].parseFailed
          /\ pic'[b].refs = {} /\ pic'[b].progress = init /\ ~pic'[b].borderExtStarted
      BY <1>1, <1>3, <2>1, SliceThrown
    <3> QED
      BY <1>1, <1>3, <1>4, <1>7, <2>1, <3>1, SliceTells DEF SlicePicture
  <2>2. CASE /\ pic' = Thrown(S, b) /\ main' = Idle /\ parseList' = parseList
    <3>1. /\ pic'[b].queue = {} /\ pic'[b].parsedSlices = {} /\ ~pic'[b].parseFailed
          /\ b \notin pic'[b].refs /\ pic'[b].progress = init /\ ~pic'[b].borderExtStarted
      BY <1>1, <1>5, <1>9, <2>2, SliceThrown
    <3> QED
      BY <1>1, <1>3, <1>4, <1>7, <2>2, <3>1, SliceTells DEF SlicePicture
  <2>3. CASE /\ pic' = [S EXCEPT ![b] = AddParseTask(@, 1)]
             /\ parseList' = Append(parseList, b)
             /\ main' = AfterSlice(A.pic[b].complete, parseList')
    <3>1. 1 \in 1..S[b].slices /\ 1 \notin S[b].parsedSlices /\ 1 \in Nat
      BY <1>5
    <3>2. main' = AfterSlice(S[b].complete, parseList')
      BY <1>5, <2>3
    <3>3. /\ b \notin pic'[b].refs /\ pic'[b].progress \in {parsing, parsed}
          /\ ~pic'[b].borderExtStarted
      BY <1>1, <1>3, <1>5, <1>9, <2>3, <3>1, <3>2, SliceAdded
    <3>4. b \in ToSet(parseList')
      <4>1. parseList \in Seq(Bufs)
        BY <1>2, State
      <4>2. ToSet(Append(parseList, b)) = ToSet(parseList) \cup {b}
        BY <1>1, <4>1, Appended
      <4> QED
        BY <2>3, <4>2
    <3> QED
      BY <1>1, <1>4, <1>7, <3>3, <3>4, SliceTells
         DEF SlicePicture, init, parsing, parsed
  <2> QED
    BY <1>1, <1>3, <2>1, <2>2, <2>3
<1> QED
  BY <1>1, <1>2, <1>3, <1>4, <1>7, <1>8, <1>9, SliceStep, SliceReady

LEMMA NextSliceStep ==
  ASSUME IndInv, NextSlice
  PROVE  /\ IndInv' /\ (NoSelfReference /\ ReadyInv => ReadyInv')
         /\ \A x \in Bufs : pic[x].progress = finished => pic'[x].progress = finished
<1> DEFINE c == stream[nal[1]]  p == nal[1]  b == ParsePic
           s == pic[b].slices + 1
           z == AllocateSlice(pic[b], s, nal[2] = c.slices)
           D == [ pic  |-> [pic EXCEPT ![b] = AllocateSlice(@, s, nal[2] = c.slices)],
                  list |-> list, dpb |-> dpb ]
           S == SetUpSlice(D, b, c, p)
           holds == RplHolds(D, b, c, p)
           added == holds /\ ~S[b].parseFailed
<1>1. /\ AtSlice /\ nal[2] > 1 /\ ~NoPicture
      /\ list' = list /\ dpb' = dpb /\ parsePic' = b /\ parseList' = parseList
      /\ nal' = NextNal /\ segment' = Segment /\ started' = started
      /\ UNCHANGED <<setup, instances, outputVars>>
      /\ \/ /\ Fails("contents")
            /\ pic' = Thrown(D.pic, b)
            /\ reports' = Report(b) /\ main' = Idle
         \/ /\ ~added
            /\ pic' = Thrown(IF holds THEN [S EXCEPT ![b] = StartParsing(@)] ELSE S, b)
            /\ reports' = Report(b) /\ main' = Idle /\ UNCHANGED faults
         \/ /\ added
            /\ pic' = [S EXCEPT ![b] = AddParseTask(@, s)]
            /\ main' = AfterSlice(nal[2] = c.slices, parseList)
            /\ UNCHANGED <<reports, faults>>
  BY DEF NextSlice
<1>2. /\ TypeOK /\ MoreNals /\ c \in CodedPicture /\ p \in Nat \ {0} /\ NoPic \notin Bufs
      /\ main.pc \in ParserPc /\ Segment \in Nat /\ NextNal \in (Nat \ {0}) \X (Nat \ {0})
      /\ pic \in [Bufs -> Picture] /\ dpb \subseteq InList /\ InList \subseteq Bufs
      /\ list \in Seq(Bufs) /\ IsInjective(list) /\ InList = 1..Len(list)
      /\ held \subseteq InList
  BY <1>1, AtSliceState, Constants, State, Zenon DEF TypeOK
<1>3. b = parsePic /\ b \in InList /\ ~pic[b].complete /\ b # NoPic
  <2>1. parsePic \in InList \cup {NoPic} /\ b # NoPic
    BY <1>1, <1>2, State DEF NoPicture
  <2> QED
    BY <2>1 DEF ParsePic
<1>20. /\ NoSelfReference => c.idr \/ c.poc \notin c.active
       /\ pic[b].slices >= 1
  <2>1. NoSelfReference => c.idr \/ c.poc \notin c.active
    BY <1>2 DEF NoSelfReference, MoreNals, TypeOK, stream
  <2>2. segment \in Nat /\ pic[b].slices \in Nat /\ nal[2] \in Nat
    <3>1. pic[b] \in Picture /\ TypeOK /\ MoreNals
      BY <1>2, <1>3
    <3> HIDE DEF b
    <3> QED
      BY <3>1, NatTypes, NalTypes, Fields
  <2>3. pic[b].slices >= 1
    <3>1. Segment = segment + 1 /\ ~(pic[b].slices < Segment)
      BY <1>1, <1>3, <2>2 DEF NoPicture, Segment
    <3> HIDE DEF b
    <3> QED
      BY <2>2, <3>1
  <2> QED
    BY <2>1, <2>3
<1> HIDE DEF b, c, p, holds
<1>4. /\ pic[b] \in Picture /\ SoundPicture(pic[b]) /\ pic[b].refs \subseteq InList
      /\ pic[b].progress \in 0..5 /\ s \in Nat /\ pic[b].slices \in Nat
      /\ ~pic[b].wasLost /\ pic[b].cts # 0 /\ pic[b].progress <= parsed
      /\ pic[b].queue \subseteq Nat /\ pic[b].parsedSlices \subseteq Nat
      /\ b \notin InWork
      /\ \A i \in DOMAIN parseList : parseList[i] = b => i = Len(parseList)
      /\ \A x \in Bufs \ {b} : b \in pic[x].refs => pic[x].progress >= reconstructed
      /\ pic[b].parseDone \in BarrierState
  BY <1>2, <1>3, Fields, SMTT(30) DEF IndInv, PicturesSound, ParsedLast
<1>5. OnlyParsers(b)
  BY <1>3, <1>4 DEF OnlyParsers, IndInv, FramesLocked, parsed, finished
<1>6. /\ pic[b].recon = FALSE
      /\ \A r \in pic[b].refs \ {b} : pic[r].stillReferenced
      /\ b \in ToSet(parseList) => /\ pic[b].progress \in {parsing, parsed}
                                   /\ pic[b].reconDone = "locked"
      /\ b \in ToSet(parseList) \/ pic[b].exceptionThrownOut
  <2>1. pic[b].recon = FALSE
    BY <1>2, <1>3, <1>4, Fields DEF IndInv, OwnersState
  <2>2. \A r \in pic[b].refs \ {b} : pic[r].stillReferenced
    BY <1>2, <1>3, <1>4 DEF IndInv, ReferencesKept, parsed, reconstructed
  <2>3. main.done = NoPic /\ main.pc \notin {"clean", "recon"}
    BY <1>2 DEF IndInv, CallPlace, ParserPc
  <2>4. b \in ToSet(parseList) \/ pic[b].exceptionThrownOut
    BY <1>3, <1>4, <2>3 DEF IndInv, GivenUp, Unfinished, Waiting, parsed, finished
  <2>5. ToSet(parseList) \subseteq Waiting
    BY DEF Waiting
  <2> QED
    BY <2>1, <2>2, <2>4, <2>5 DEF IndInv, OwnersState
<1>7. /\ z \in Picture /\ z.slices = s /\ z.complete = (nal[2] = c.slices)
      /\ z.refs = pic[b].refs /\ z.cts = pic[b].cts /\ z.wasLost = pic[b].wasLost
      /\ z.stillReferenced = pic[b].stillReferenced
      /\ z.dpbReferenceMark = pic[b].dpbReferenceMark /\ z.recon = pic[b].recon
      /\ z.exceptionThrownOut = pic[b].exceptionThrownOut
      /\ z.reconDone = pic[b].reconDone /\ z.queue = pic[b].queue
      /\ z.parsedSlices = pic[b].parsedSlices
      /\ z.parseFailed = pic[b].parseFailed /\ z.progress = pic[b].progress
      /\ z.parseDone = pic[b].parseDone
      /\ z.borderExtStarted = pic[b].borderExtStarted
  <2> DEFINE o == pic[b]  t == s
  <2>1. o \in Picture /\ t \in Nat
    BY <1>4
  <2>2. \A v \in BOOLEAN : [o EXCEPT !.slices = t, !.complete = v] \in Picture
    <3> HIDE DEF o, t
    <3> QED
      BY <2>1, Zenon DEF Picture
  <2>3. (nal[2] = c.slices) \in BOOLEAN
    OBVIOUS
  <2>4. z = [o EXCEPT !.slices = t, !.complete = (nal[2] = c.slices)]
    BY DEF AllocateSlice
  <2> HIDE DEF z, o, t
  <2>5. z \in Picture
    BY <2>2, <2>3, <2>4, Zenon
  <2>6. /\ z.slices = t /\ z.complete = (nal[2] = c.slices)
        /\ z.refs = o.refs /\ z.cts = o.cts /\ z.wasLost = o.wasLost
        /\ z.stillReferenced = o.stillReferenced
        /\ z.dpbReferenceMark = o.dpbReferenceMark /\ z.recon = o.recon
        /\ z.exceptionThrownOut = o.exceptionThrownOut
        /\ z.reconDone = o.reconDone /\ z.queue = o.queue
        /\ z.parsedSlices = o.parsedSlices
        /\ z.parseFailed = o.parseFailed /\ z.progress = o.progress
        /\ z.parseDone = o.parseDone
        /\ z.borderExtStarted = o.borderExtStarted
    BY <2>1, <2>4 DEF Picture
  <2> QED
    BY <2>5, <2>6 DEF o, t
<1>8. /\ D.dpb = dpb /\ D.pic \in [Bufs -> Picture] /\ D.pic[b] = z
      /\ \A x \in Bufs \ {b} : D.pic[x] = pic[x]
  <2>1. D.dpb = dpb /\ D.pic = [pic EXCEPT ![b] = z]
    BY DEF Dpb
  <2> HIDE DEF D, z
  <2> QED
    BY <1>2, <1>3, <1>7, <2>1
<1> HIDE DEF D, z
<1>9. OthersKept(D.pic, b)
  BY <1>8 DEF OthersKept, Keeps, IndInv, PicturesSound, SoundPicture
<1>10. \A P \in [Bufs -> Picture] :
         /\ P[b].slices = s /\ P[b].queue = pic[b].queue
         /\ P[b].parsedSlices = pic[b].parsedSlices
         /\ P[b].parseDone = pic[b].parseDone /\ P[b].parseFailed = pic[b].parseFailed
         /\ P[b].progress = pic[b].progress \/ P[b].progress = parsing
         /\ P[b].dpbReferenceMark => P[b].stillReferenced
         => SoundPicture(P[b])
  <2> SUFFICES ASSUME NEW P \in [Bufs -> Picture],
                      /\ P[b].slices = s /\ P[b].queue = pic[b].queue
                      /\ P[b].parsedSlices = pic[b].parsedSlices
                      /\ P[b].parseDone = pic[b].parseDone
                      /\ P[b].parseFailed = pic[b].parseFailed
                      /\ P[b].progress = pic[b].progress \/ P[b].progress = parsing
                      /\ P[b].dpbReferenceMark => P[b].stillReferenced
               PROVE  SoundPicture(P[b])
    OBVIOUS
  <2>1. pic[b].queue \cup pic[b].parsedSlices \subseteq 1..s
    BY <1>4 DEF SoundPicture
  <2>2. P[b].progress <= parsed /\ P[b].progress # finished
    BY <1>4 DEF parsing, parsed, finished
  <2>3. pic[b].parseDone # "unlocked"
    BY <1>3, <1>4 DEF SoundPicture
  <2>4. pic[b].parseDone = "error" => pic[b].parseFailed
    BY <1>4 DEF SoundPicture, parsed, reconstructed
  <2> QED
    BY <1>4, <2>1, <2>2, <2>3, <2>4 DEF SoundPicture
<1>11. SliceBegun(D.pic, b)
  <2>1. \A r \in D.pic[b].refs \ {b} : r \in Bufs /\ D.pic[r] = pic[r]
    BY <1>2, <1>4, <1>7, <1>8
  <2>2. SoundPicture(D.pic[b])
    <3>1. D.pic[b].dpbReferenceMark => D.pic[b].stillReferenced
      BY <1>4, <1>7, <1>8 DEF SoundPicture
    <3> QED
      BY <1>7, <1>8, <1>10, <3>1
  <2> QED
    BY <1>4, <1>6, <1>7, <1>8, <2>1, <2>2 DEF SliceBegun
<1>12. /\ OthersKept(S, b) /\ SliceBegun(S, b)
       /\ S[b].slices = s /\ S[b].complete = (nal[2] = c.slices)
       /\ S[b].parsedSlices = pic[b].parsedSlices /\ S[b].queue = pic[b].queue
       /\ S[b].parseDone = pic[b].parseDone /\ S[b].parseFailed = pic[b].parseFailed
       /\ S[b].progress = pic[b].progress
       /\ S[b].exceptionThrownOut = pic[b].exceptionThrownOut
       /\ S[b].borderExtStarted = pic[b].borderExtStarted
       /\ b \in S[b].refs => b \in pic[b].refs \/ (~c.idr /\ c.poc \in c.active)
  <2>1. /\ OthersKept(S, b)
        /\ S[b].refs \subseteq InList \cup {b}
        /\ \A r \in S[b].refs \ {b} : S[r].stillReferenced
        /\ S[b].dpbReferenceMark => S[b].stillReferenced
        /\ S[b].cts = p /\ S[b].wasLost = D.pic[b].wasLost
        /\ S[b].slices = D.pic[b].slices /\ S[b].recon = D.pic[b].recon
        /\ S[b].complete = D.pic[b].complete
        /\ S[b].reconDone = D.pic[b].reconDone /\ S[b].queue = D.pic[b].queue
        /\ S[b].parsedSlices = D.pic[b].parsedSlices
        /\ S[b].parseFailed = D.pic[b].parseFailed
        /\ S[b].progress = D.pic[b].progress /\ S[b].parseDone = D.pic[b].parseDone
        /\ S[b].exceptionThrownOut = D.pic[b].exceptionThrownOut
        /\ S[b].borderExtStarted = D.pic[b].borderExtStarted
        /\ b \in S[b].refs => b \in D.pic[b].refs \/ (~c.idr /\ c.poc \in c.active)
    <3>1. /\ D.dpb \subseteq InList \cup {b} /\ D.pic[b].refs \subseteq InList
          /\ \A r \in D.pic[b].refs \ {b} : D.pic[r].stillReferenced /\ b \in Bufs
          /\ p \in Nat /\ b \in Bufs
      BY <1>2, <1>3, <1>4, <1>7, <1>8, <1>11 DEF SliceBegun
    <3> HIDE DEF S
    <3>2. S = SetUpSlice(D, b, c, p)
      BY DEF S
    <3>3. /\ c \in CodedPicture /\ OthersKept(D.pic, b) /\ IndInv
      BY <1>2, <1>9
    <3> QED
      BY <3>1, <3>2, <3>3, SliceSetUp
  <2> HIDE DEF S
  <2>2. S \in [Bufs -> Picture]
    BY <2>1 DEF OthersKept
  <2>3. SoundPicture(S[b])
    BY <1>7, <1>8, <1>10, <2>1, <2>2
  <2> QED
    BY <1>2, <1>4, <1>6, <1>7, <1>8, <2>1, <2>3 DEF SliceBegun
<1> HIDE DEF S
<1>13. /\ OthersKept([S EXCEPT ![b] = StartParsing(@)], b)
       /\ SliceBegun([S EXCEPT ![b] = StartParsing(@)], b)
  <2> DEFINE y == StartParsing(S[b])  Y == [S EXCEPT ![b] = y]
  <2>1. S \in [Bufs -> Picture] /\ b \in Bufs
    BY <1>2, <1>3, <1>12 DEF OthersKept
  <2>2. /\ y \in Picture
        /\ y.progress = (IF S[b].progress = init THEN parsing ELSE S[b].progress)
        /\ y.queue = S[b].queue
        /\ y.refs = S[b].refs /\ y.cts = S[b].cts /\ y.wasLost = S[b].wasLost
        /\ y.slices = S[b].slices /\ y.recon = S[b].recon
        /\ y.reconDone = S[b].reconDone /\ y.parsedSlices = S[b].parsedSlices
        /\ y.stillReferenced = S[b].stillReferenced
        /\ y.dpbReferenceMark = S[b].dpbReferenceMark
        /\ y.parseFailed = S[b].parseFailed /\ y.parseDone = S[b].parseDone
    <3>1. S[b] \in Picture
      BY <2>1
    <3> QED
      BY <3>1, TaskAdded
  <2>3. /\ Y \in [Bufs -> Picture] /\ Y[b] = y /\ \A x \in Bufs \ {b} : Y[x] = S[x]
    BY <2>1, <2>2
  <2> HIDE DEF y
  <2>4. OthersKept(Y, b)
    BY <1>12, <2>3 DEF OthersKept
  <2>5. SoundPicture(Y[b])
    <3>1. S[b].dpbReferenceMark => S[b].stillReferenced
      BY <1>12 DEF SliceBegun, SoundPicture
    <3> HIDE DEF Y
    <3> QED
      BY <1>10, <1>12, <2>2, <2>3, <3>1
  <2>6. y.refs \subseteq Bufs /\ y.progress <= parsed
        /\ (S[b].progress \in {parsing, parsed} => y.progress \in {parsing, parsed})
    BY <1>4, <1>12, <2>2, Fields DEF init, parsing, parsed
  <2> HIDE DEF Y
  <2>7. SliceBegun(Y, b)
    BY <1>12, <2>2, <2>3, <2>5, <2>6 DEF SliceBegun
  <2> QED
    BY <2>4, <2>7 DEF Y, y
<1>14. /\ OthersKept(pic', b) /\ SlicePicture(b) /\ BehindSlice(b)
  <2>1. CASE pic' = Thrown(D.pic, b) /\ main' = Idle
    BY <1>1, <1>2, <1>3, <1>9, <1>11, <2>1, SliceThrown
  <2>2. CASE pic' = Thrown(S, b) /\ main' = Idle
    BY <1>1, <1>2, <1>3, <1>12, <2>2, SliceThrown
  <2>3. CASE pic' = Thrown([S EXCEPT ![b] = StartParsing(@)], b) /\ main' = Idle
    BY <1>1, <1>2, <1>3, <1>13, <2>3, SliceThrown
  <2>4. CASE /\ added
             /\ pic' = [S EXCEPT ![b] = AddParseTask(@, s)]
             /\ main' = AfterSlice(nal[2] = c.slices, parseList)
    <3>0. main' = AfterSlice(S[b].complete, parseList)
      BY <1>12, <2>4
    <3>1. s \in 1..S[b].slices /\ s \notin S[b].parsedSlices
      BY <1>4, <1>12 DEF SoundPicture
    <3>2. S[b].parseDone = "locked"
      BY <1>3, <1>4, <1>12, <2>4
         DEF SoundPicture, BarrierState, parsed, reconstructed
    <3> QED
      BY <1>1, <1>2, <1>3, <1>4, <1>6, <1>12, <2>4, <3>0, <3>1, <3>2, SliceAdded
  <2> QED
    BY <1>1, <2>1, <2>2, <2>3, <2>4
<1>15. /\ reports' \in [DOMAIN stream -> Nat] /\ faults' \in Nat
  <2>1. /\ reports \in [DOMAIN stream -> Nat] /\ faults \in Nat
        /\ (Fails("contents") => faults' \in Nat)
        /\ Report(b) \in [DOMAIN stream -> Nat]
    BY <1>2, <1>3, NatTypes, ReportTypes DEF FaultKinds
  <2> QED
    BY <1>1, <2>1
<1>16. SliceChanges(b)
  BY <1>1, <1>2, <1>3, <1>14, <1>15
     DEF SliceChanges, OthersKept, Kept, outputVars, TypeOK, InList
<1>17. pic[b].progress # finished
  BY <1>4 DEF parsed, finished
<1>18. ASSUME NoSelfReference, ReadyInv PROVE TellsNext(b)
  <2> DEFINE o == pic[b]
  <2>1. /\ o.progress \in {init, parsing, parsed} /\ ~o.borderExtStarted /\ b \notin o.refs
        /\ o.progress = init => o.queue = {} /\ o.parsedSlices = {} /\ ~o.parseFailed
        /\ b \notin ToSet(parseList) /\ o.progress # init =>
             o.queue # {} /\ 1 \notin o.queue \cup o.parsedSlices
    <3>1. TasksTell(b)
      BY <1>2, <1>3, <1>18 DEF ReadyInv
    <3>2. b \notin ToSet(parseList) => b \notin InHand
      BY <1>2, <1>3, <1>4 DEF InHand, Waiting, IndInv, CallPlace, ParserPc
    <3>3. o.progress \in {init, parsing, parsed}
      BY <1>4 DEF init, parsing, parsed
    <3> QED
      BY <3>1, <3>2, <3>3 DEF TasksTell, init, parsing, parsed, reconstructed
  <2>2. /\ b \in ToSet(parseList) => o.progress # init
        /\ s # 1 /\ parseList' = parseList /\ instances' = instances
        /\ b \in Bufs /\ BehindSlice(b) /\ ~pic'[b].recon
    BY <1>1, <1>2, <1>3, <1>4, <1>6, <1>14, <1>20 DEF SlicePicture, init, parsing, parsed
  <2> HIDE DEF o
  <2>3. \/ /\ pic'[b].queue = o.queue /\ pic'[b].parsedSlices = o.parsedSlices
           /\ pic'[b].parseFailed = o.parseFailed /\ b \notin pic'[b].refs
           /\ pic'[b].progress = o.progress /\ ~pic'[b].borderExtStarted
        \/ /\ pic'[b].queue = o.queue \cup {s} /\ pic'[b].parsedSlices = o.parsedSlices
           /\ pic'[b].progress \in {parsing, parsed} /\ b \notin pic'[b].refs
           /\ ~pic'[b].borderExtStarted
    <3>1. b \notin S[b].refs /\ ~S[b].borderExtStarted
      BY <1>12, <1>18, <1>20, <2>1 DEF o
    <3>2. CASE pic' = Thrown(D.pic, b) /\ main' = Idle
      BY <1>1, <1>2, <1>3, <1>7, <1>8, <1>9, <1>11, <2>1, <3>2, SliceThrown DEF o
    <3>3. CASE pic' = Thrown(S, b) /\ main' = Idle
      BY <1>1, <1>2, <1>3, <1>12, <3>1, <3>3, SliceThrown DEF o
    <3>4. CASE /\ pic' = Thrown([S EXCEPT ![b] = StartParsing(@)], b) /\ main' = Idle
               /\ holds /\ ~added
      <4> DEFINE Y == [S EXCEPT ![b] = StartParsing(@)]
      <4>1. /\ pic'[b].queue = Y[b].queue /\ pic'[b].parsedSlices = Y[b].parsedSlices
            /\ pic'[b].parseFailed = Y[b].parseFailed /\ pic'[b].refs = Y[b].refs
            /\ pic'[b].progress = Y[b].progress
            /\ pic'[b].borderExtStarted = Y[b].borderExtStarted
        <5>1. /\ OthersKept(Y, b) /\ SliceBegun(Y, b) /\ pic' = Thrown(Y, b)
              /\ main' = Idle /\ parsePic' = b /\ parseList' = parseList /\ b \in Bufs
          BY <1>1, <1>2, <1>3, <1>13, <3>4
        <5> HIDE DEF Y
        <5> QED
          BY <5>1, SliceThrown
      <4>2. S \in [Bufs -> Picture] /\ S[b] \in Picture /\ Y[b] = StartParsing(S[b])
        BY <1>2, <1>3, <1>12 DEF OthersKept
      <4>3. /\ Y[b].queue = S[b].queue /\ Y[b].parsedSlices = S[b].parsedSlices
            /\ Y[b].parseFailed = S[b].parseFailed /\ Y[b].refs = S[b].refs
            /\ Y[b].progress = (IF S[b].progress = init THEN parsing ELSE S[b].progress)
            /\ Y[b].borderExtStarted = S[b].borderExtStarted
        <5> DEFINE y == StartParsing(S[b])
        <5>1. /\ y.queue = S[b].queue /\ y.parsedSlices = S[b].parsedSlices
              /\ y.parseFailed = S[b].parseFailed /\ y.refs = S[b].refs
              /\ y.progress = (IF S[b].progress = init THEN parsing ELSE S[b].progress)
              /\ y.borderExtStarted = S[b].borderExtStarted
          BY <4>2, TaskAdded
        <5> HIDE DEF Y
        <5> QED
          BY <4>2, <5>1
      <4>4. S[b].progress # init
        BY <1>12, <2>1, <3>4 DEF o
      <4> HIDE DEF Y
      <4> QED
        BY <1>12, <3>1, <4>1, <4>3, <4>4 DEF o
    <3>5. CASE /\ added
               /\ pic' = [S EXCEPT ![b] = AddParseTask(@, s)]
               /\ main' = AfterSlice(nal[2] = c.slices, parseList)
      <4>0. main' = AfterSlice(S[b].complete, parseList)
        BY <1>12, <3>5
      <4>1. s \in 1..S[b].slices /\ s \notin S[b].parsedSlices
        BY <1>4, <1>12 DEF SoundPicture
      <4>2. S[b].parseDone = "locked"
        BY <1>3, <1>4, <1>12, <3>5
           DEF SoundPicture, BarrierState, parsed, reconstructed
      <4>3. /\ pic'[b].queue = S[b].queue \cup {s} /\ pic'[b].refs = S[b].refs
            /\ pic'[b].parsedSlices = S[b].parsedSlices
            /\ pic'[b].progress \in {parsing, parsed}
            /\ pic'[b].borderExtStarted = S[b].borderExtStarted
        <5>1. /\ pic' = [S EXCEPT ![b] = AddParseTask(@, s)] /\ b \in Bufs /\ s \in Nat
              /\ parsePic' = b /\ parseList' = parseList /\ AtSlice
              /\ main' = AfterSlice(S[b].complete, parseList')
              /\ b \in ToSet(parseList) \/ S[b].exceptionThrownOut
          BY <1>1, <1>2, <1>3, <1>4, <1>6, <1>12, <3>5, <4>0
        <5>2. OthersKept(S, b) /\ SliceBegun(S, b)
          BY <1>12
        <5> HIDE DEF D, S, c, s, holds, added
        <5> QED
          BY <4>1, <4>2, <5>1, <5>2, SliceAdded
      <4> QED
        BY <1>12, <3>1, <4>3 DEF o
    <3> QED
      BY <1>1, <3>2, <3>3, <3>4, <3>5
  <2>4. /\ b \in ToSet(parseList') => pic'[b].progress # init
        /\ pic'[b].progress \in {init, parsing, parsed}
        /\ pic'[b].progress = init =>
             pic'[b].queue = {} /\ pic'[b].parsedSlices = {} /\ ~pic'[b].parseFailed
        /\ b \notin ToSet(parseList') /\ pic'[b].progress # init =>
             pic'[b].queue # {} /\ 1 \notin pic'[b].queue \cup pic'[b].parsedSlices
    BY <2>1, <2>2, <2>3 DEF init, parsing, parsed
  <2> QED
    BY <1>5, <2>2, <2>3, <2>4, SliceTells
<1> QED
  BY <1>1, <1>2, <1>3, <1>5, <1>14, <1>16, <1>17, <1>18, SliceStep, SliceReady
-----------------------------------------------------------------------------
(* The other steps of the main thread: pictures pass from owner to owner.    *)

\* What becomes of picture x fits who has it behind the step.
Advances(x) ==
  LET p == pic[x]  q == pic'[x]
  IN /\ SoundPicture(q)
     /\ q.refs = p.refs /\ q.cts = p.cts /\ q.wasLost = p.wasLost /\ q.complete = p.complete
     /\ p.exceptionThrownOut => q.exceptionThrownOut
     /\ p.progress <= q.progress
     /\ x \in Waiting' => q.progress \in {parsing, parsed} /\ q.reconDone = "locked"
     /\ x \in InWork' =>
          /\ q.progress \in {reconstructing, reconstructed}
          /\ q.reconDone = "unlocked" => q.queue = {} /\ ~q.recon
     /\ x = main'.done =>
          q.progress \in {reconstructing, reconstructed} /\ q.queue = {} /\ ~q.recon
     /\ q.recon => x \in InWork'
     /\ p.stillReferenced =>
          \/ q.stillReferenced
          \/ \A y \in Bufs \ {x} : x \in pic[y].refs => pic'[y].progress >= reconstructed

\* The step does not touch the picture, and gives it to nobody.
Untouched(x) ==
  /\ pic'[x] = pic[x]
  /\ x \in Waiting' => x \in Waiting
  /\ x \in InWork' <=> x \in InWork
  /\ x = main'.done => x = main.done

\* Nobody lets an unfinished picture go.
NoneDropped ==
  \A x \in (Waiting \cup InWork \cup {main.done})
           \ (Waiting' \cup InWork' \cup {main'.done, NoPic}) :
    pic'[x].progress = finished

MainPcs == ParserPc \cup DecodePc \cup ReconPc \cup FlushPc \cup EndPc
MainTypes(m) ==
  m \in [pc : MainPcs, cur : InList \cup {NoPic}, exc : BOOLEAN,
         done : InList \cup {NoPic}, outPic : InList \cup {NoPic}, flushing : BOOLEAN]

OwnerTypes ==
  /\ UNCHANGED <<setup, nal, list, dpb, parsePic, segment, faults>>
  /\ parseList' \in Seq(Bufs) /\ ToSet(parseList') \subseteq InList
  /\ instances' \in [1..Instances -> InList \cup {NoPic}]
  /\ MainTypes(main') /\ started' \in BOOLEAN /\ first' \in BOOLEAN /\ tuneIn' \in Nat
  /\ held' \subseteq InList /\ out' \in Seq(Nat) /\ reports' \in [DOMAIN stream -> Nat]

\* The parser is not behind a slice of a picture that goes on.
ParserAway ==
  /\ MoreNals => parsePic # NoPic /\ pic[parsePic].complete
  /\ ~main'.flushing /\ main'.pc \in DecodePc \cup ReconPc =>
       parsePic # NoPic /\ pic[parsePic].complete

LEMMA OwnersGoOn ==
  ASSUME IndInv, pic' \in [Bufs -> Picture], OwnerTypes, ParserAway, NoneDropped,
         \A x \in Bufs : Untouched(x) \/ (x \in InList /\ Advances(x)),
         CallPlace', OwnersApart', CodingOrder', FramesLocked'
  PROVE  IndInv' /\ \A x \in Bufs : pic[x].progress = finished => pic'[x].progress = finished
<1>1. /\ TypeOK /\ InList' = InList /\ InList \subseteq Bufs /\ NoPic \notin InList
      /\ \A x \in Bufs : pic[x] \in Picture /\ pic'[x] \in Picture
      /\ parsePic' = parsePic /\ parsePic \in InList \cup {NoPic}
      /\ list' = list /\ Waiting \subseteq InList /\ InWork \subseteq InList
      /\ \A x \in Bufs : pic[x].refs \subseteq InList
  BY State, Owned DEF IndInv, InList, OwnerTypes
<1>2. \A x \in Bufs : /\ pic'[x].refs = pic[x].refs /\ pic'[x].cts = pic[x].cts
                      /\ pic'[x].wasLost = pic[x].wasLost
                      /\ pic'[x].complete = pic[x].complete
                      /\ pic[x].exceptionThrownOut => pic'[x].exceptionThrownOut
                      /\ pic[x].progress \in 0..5 /\ pic'[x].progress \in 0..5
                      /\ pic[x].progress <= pic'[x].progress
                      /\ SoundPicture(pic'[x])
  <2> SUFFICES ASSUME NEW x \in Bufs
               PROVE  /\ pic'[x].refs = pic[x].refs /\ pic'[x].cts = pic[x].cts
                      /\ pic'[x].wasLost = pic[x].wasLost
                      /\ pic'[x].complete = pic[x].complete
                      /\ pic[x].exceptionThrownOut => pic'[x].exceptionThrownOut
                      /\ pic[x].progress \in 0..5 /\ pic'[x].progress \in 0..5
                      /\ pic[x].progress <= pic'[x].progress
                      /\ SoundPicture(pic'[x])
    OBVIOUS
  <2>1. pic[x].progress \in 0..5 /\ pic'[x].progress \in 0..5 /\ SoundPicture(pic[x])
    BY <1>1, Fields DEF IndInv, PicturesSound
  <2> QED
    BY <2>1 DEF Advances, Untouched
<1>3. \A x \in Bufs : pic[x].progress = finished => pic'[x].progress = finished
  BY <1>2 DEF finished
<1>4. TypeOK'
  <2>1. /\ setup' \in Setups /\ list' \in Seq(Bufs) /\ IsInjective(list')
        /\ InList' = 1..Len(list') /\ dpb' \subseteq InList' /\ parsePic' \in InList' \cup {NoPic}
        /\ nal' \in (Nat \ {0}) \X (Nat \ {0}) /\ segment' \in Nat /\ faults' \in Nat
        /\ stream' = stream
    BY <1>1 DEF TypeOK, OwnerTypes, stream
  <2> QED
    BY <1>1, <2>1 DEF TypeOK, OwnerTypes, MainTypes, MainPcs
<1>5. PicturesSound'
  <2>1. \A x \in Bufs \ InList : pic'[x] = FreshPicture
    BY DEF IndInv, PicturesSound, Untouched
  <2> QED
    BY <1>1, <1>2, <2>1 DEF PicturesSound
<1>6. OwnersState'
  <2>1. \A x \in Waiting' : pic'[x].progress \in {parsing, parsed} /\ pic'[x].reconDone = "locked"
    <3>1. Waiting' \subseteq Bufs
      <4>1. main'.pc \in {"clean", "recon"} => main'.cur \in InList
        BY <1>1 DEF CallPlace, OwnerTypes, MainTypes
      <4> QED
        BY <1>1, <4>1 DEF Waiting, OwnerTypes
    <3> QED
      BY <3>1 DEF IndInv, OwnersState, Advances, Untouched
  <2>2. \A x \in InWork' :
          /\ pic'[x].progress \in {reconstructing, reconstructed}
          /\ pic'[x].reconDone = "unlocked" => pic'[x].queue = {} /\ ~pic'[x].recon
    <3>1. InWork' \subseteq Bufs
      BY <1>1 DEF InWork, OwnerTypes, ToSet
    <3> QED
      BY <3>1 DEF IndInv, OwnersState, Advances, Untouched
  <2>3. main'.done # NoPic =>
          /\ pic'[main'.done].progress \in {reconstructing, reconstructed}
          /\ pic'[main'.done].queue = {} /\ ~pic'[main'.done].recon
    <3>1. main'.done \in Bufs \cup {NoPic}
      BY <1>1 DEF OwnerTypes, MainTypes
    <3>2. ASSUME NEW x \in Bufs, x = main'.done, x # NoPic
          PROVE  /\ pic'[x].progress \in {reconstructing, reconstructed}
                 /\ pic'[x].queue = {} /\ ~pic'[x].recon
      BY <3>2 DEF IndInv, OwnersState, Advances, Untouched
    <3> QED
      BY <3>1, <3>2
  <2>4. \A x \in Bufs : pic'[x].recon => x \in InWork'
    BY DEF IndInv, OwnersState, Advances, Untouched
  <2> QED
    BY <2>1, <2>2, <2>3, <2>4 DEF OwnersState
<1>7. GivenUp'
  <2> SUFFICES ASSUME NEW x \in Unfinished', x \notin Waiting' \cup InWork' \cup {main'.done}
               PROVE  pic'[x].exceptionThrownOut
    BY DEF GivenUp
  <2>1. x \in InList /\ x \in Bufs /\ pic'[x].progress # finished /\ pic'[x].cts # 0 /\ x # NoPic
    BY <1>1, <1>2 DEF Unfinished, finished
  <2>2. x \notin Waiting \cup InWork \cup {main.done}
    BY <2>1 DEF NoneDropped
  <2>3. x \in Unfinished
    BY <1>2, <1>3, <2>1 DEF Unfinished, finished
  <2>4. pic[x].exceptionThrownOut
    BY <2>2, <2>3 DEF IndInv, GivenUp
  <2> QED
    BY <1>2, <2>1, <2>4
<1>8. ParsedLast'
  <2>1. MoreNals' = MoreNals
    BY DEF MoreNals, stream, OwnerTypes
  <2>2. parsePic # NoPic => /\ parsePic \in Bufs /\ ~pic'[parsePic].wasLost
                            /\ pic'[parsePic].cts # 0
                            /\ pic'[parsePic].complete = pic[parsePic].complete
    BY <1>1, <1>2 DEF IndInv, ParsedLast
  <2> QED
    BY <1>1, <2>1, <2>2 DEF ParsedLast, ParserAway
<1>9. ReferencesKept'
  <2> SUFFICES ASSUME NEW x \in Bufs, NEW b \in pic'[x].refs \ {x},
                      pic'[x].progress < reconstructed
               PROVE  pic'[b].stillReferenced
    BY DEF ReferencesKept
  <2>1. /\ pic[x].progress < reconstructed /\ b \in pic[x].refs \ {x} /\ b \in Bufs
        /\ ~(pic'[x].progress >= reconstructed)
    BY <1>1, <1>2 DEF reconstructed
  <2>2. pic[b].stillReferenced
    BY <2>1 DEF IndInv, ReferencesKept
  <2> QED
    BY <2>1, <2>2 DEF Advances, Untouched
<1> QED
  BY <1>3, <1>4, <1>5, <1>6, <1>7, <1>8, <1>9 DEF IndInv

\* getNextDecodablePicture takes the first picture of the list, or one whose
\* references are reconstructed.
LEMMA ChosenPlace ==
  ASSUME IndInv, parseList # <<>>
  PROVE  /\ NextDecodable \in 1..Len(parseList)
         /\ NextDecodable = 1 \/ Decodable(parseList[NextDecodable])
<1> DEFINE I == {i \in 1..Len(parseList) : Decodable(parseList[i])}
           at == SelectInSeq(parseList, Decodable)
<1>1. Len(parseList) \in Nat /\ Len(parseList) # 0
  BY State DEF IndInv
<1>2. at = IF I # {} THEN Min(I) ELSE 0
  BY DEF SelectInSeq
<1>3. I \in SUBSET Nat /\ 0 \notin I
  BY <1>1
<1>4. at = 0 \/ at \in I
  <2> HIDE DEF I
  <2> QED
    BY <1>2, <1>3, SelectedFirst
<1>5. NextDecodable = 1 \/ (NextDecodable = at /\ at # 0)
  BY DEF NextDecodable
<1> HIDE DEF at
<1> QED
  BY <1>1, <1>4, <1>5

LEMMA TakeStep ==
  ASSUME IndInv, main.pc \in {"next", "flushNext"}, parseList # <<>>,
         TakeDecodable(NextDecodable), MainTypes(main'),
         main'.cur = parseList[NextDecodable], main'.pc \in {"clean", "recon"},
         main'.done = main.done, main'.outPic = main.outPic,
         main'.flushing = main.flushing, main'.pc = "clean" => ~main.flushing,
         UNCHANGED <<setup, nal, list, dpb, parsePic, segment, started, instances,
                     outputVars, reports, faults>>
  PROVE  IndInv' /\ \A x \in Bufs : pic[x].progress = finished => pic'[x].progress = finished
<1> DEFINE i == NextDecodable  b == parseList[i]  L == parseList'
<1>1. i \in 1..Len(parseList) /\ (i = 1 \/ Decodable(b))
  BY ChosenPlace
<1>2. /\ TypeOK /\ parseList \in Seq(Bufs) /\ Len(parseList) \in Nat
      /\ DOMAIN parseList = 1..Len(parseList) /\ IsInjective(parseList)
      /\ \A j \in DOMAIN parseList : parseList[j] \in ToSet(parseList)
      /\ ToSet(parseList) \subseteq InList /\ InList \subseteq Bufs /\ NoPic \notin InList
      /\ pic \in [Bufs -> Picture] /\ Waiting = ToSet(parseList)
  BY State DEF IndInv, OwnersApart, Waiting
<1>3. L = RemoveAt(parseList, i)
  BY DEF TakeDecodable
<1> HIDE DEF i
<1>4. b \in ToSet(parseList) /\ b \in InList /\ b \in Bufs
  BY <1>1, <1>2
<1>5. /\ L \in Seq(Bufs) /\ Len(L) = Len(parseList) - 1 /\ DOMAIN L = 1..(Len(parseList) - 1)
      /\ \A j \in 1..(Len(parseList) - 1) :
           L[j] = IF j < i THEN parseList[j] ELSE parseList[j + 1]
      /\ IsInjective(L) /\ ToSet(L) = ToSet(parseList) \ {b}
  <2> DEFINE s == parseList  r == RemoveAt(s, i)
  <2>1. s \in Seq(Bufs) /\ i \in 1..Len(s) /\ IsInjective(s)
    BY <1>1, <1>2
  <2>2. L = r /\ b = s[i]
    BY <1>3
  <2> HIDE DEF s
  <2>3. /\ r \in Seq(Bufs) /\ Len(r) = Len(s) - 1
        /\ \A j \in 1..(Len(s) - 1) : r[j] = IF j < i THEN s[j] ELSE s[j + 1]
    BY <2>1, Removed
  <2>4. IsInjective(r) /\ ToSet(r) = ToSet(s) \ {s[i]}
    BY <2>1, RemovedFrom
  <2>5. DOMAIN r = 1..(Len(s) - 1)
    BY <2>3, LenProperties
  <2> HIDE DEF r, L, b
  <2> QED
    BY <2>2, <2>3, <2>4, <2>5 DEF s
<1> HIDE DEF b, L
<1>6. ASSUME NEW x \in Bufs
      PROVE  /\ pic'[x] \in Picture
             /\ \/ pic'[x] = pic[x]
                \/ /\ x \in ToSet(parseList)
                   /\ pic'[x] = [pic[x] EXCEPT !.skippedDecCount = @ + 1]
  <2>1. pic[x] \in Picture /\ pic[x].skippedDecCount \in Nat
    BY <1>2, Fields
  <2>2. [pic[x] EXCEPT !.skippedDecCount = @ + 1] \in Picture
    BY <2>1, SMTT(30) DEF Picture
  <2>3. pic'[x] = IF \E j \in 1..(i - 1) : parseList[j] = x
                  THEN [pic[x] EXCEPT !.skippedDecCount = @ + 1] ELSE pic[x]
    BY DEF TakeDecodable, i
  <2>4. \A j \in 1..(i - 1) : parseList[j] \in ToSet(parseList)
    BY <1>1, <1>2
  <2> QED
    BY <2>1, <2>2, <2>3, <2>4
<1>7. pic' \in [Bufs -> Picture]
  <2>1. pic' = [x \in Bufs |-> pic'[x]]
    BY DEF TakeDecodable
  <2> QED
    BY <1>6, <2>1
<1>8. Waiting' = Waiting /\ InWork' = InWork /\ main'.done = main.done /\ main'.cur = b
      /\ held' = held /\ parseList' = L /\ instances' = instances
  BY <1>2, <1>4, <1>5 DEF Waiting, InWork, outputVars, b, L, i
<1>9. ASSUME NEW x \in Bufs
      PROVE  Untouched(x) \/ (x \in InList /\ Advances(x))
  <2>1. CASE pic'[x] = pic[x]
    BY <1>8, <2>1 DEF Untouched
  <2>2. CASE x \in ToSet(parseList) /\ pic'[x] = [pic[x] EXCEPT !.skippedDecCount = @ + 1]
    <3> DEFINE p == pic[x]  q == pic'[x]
    <3>1. p \in Picture /\ SoundPicture(p) /\ p.progress \in 0..5 /\ p.recon \in BOOLEAN
      BY <1>2, Fields DEF IndInv, PicturesSound
    <3>2. /\ q.refs = p.refs /\ q.cts = p.cts /\ q.wasLost = p.wasLost /\ q.slices = p.slices
          /\ q.complete = p.complete /\ q.stillReferenced = p.stillReferenced
          /\ q.dpbReferenceMark = p.dpbReferenceMark /\ q.recon = p.recon
          /\ q.exceptionThrownOut = p.exceptionThrownOut /\ q.reconDone = p.reconDone
          /\ q.queue = p.queue /\ q.parsedSlices = p.parsedSlices
          /\ q.parseDone = p.parseDone /\ q.parseFailed = p.parseFailed
          /\ q.progress = p.progress
      BY <2>2, <3>1 DEF Picture
    <3>3. SoundPicture(q)
      BY <3>1, <3>2 DEF SoundPicture
    <3>4. x \in InList /\ x \in Waiting /\ x \notin InWork /\ x # main.done
      BY <1>2, <2>2 DEF IndInv, OwnersApart
    <3> QED
      BY <1>8, <3>1, <3>2, <3>3, <3>4 DEF Advances, IndInv, OwnersState
  <2> QED
    BY <1>6, <2>1, <2>2
<1>10. OwnerTypes
  BY <1>2, <1>5, <1>8, State, NatTypes DEF OwnerTypes, TypeOK, outputVars
<1>11. ParserAway
  <2>1. main.flushing \/ main.pc = "next"
    BY DEF IndInv, CallPlace, FlushPc
  <2> QED
    BY <2>1 DEF ParserAway, IndInv, ParsedLast, CallPlace, DecodePc
<1>12. CallPlace'
  <2>1. /\ main'.cur # NoPic /\ main'.done = NoPic /\ (main.flushing => ~MoreNals)
        /\ MoreNals' = MoreNals /\ (~main.flushing => main.outPic = NoPic)
        /\ main.flushing \in BOOLEAN
    <3>1. main.done = NoPic /\ (~main.flushing => main.outPic = NoPic)
          /\ (main.flushing => ~MoreNals) /\ main.flushing \in BOOLEAN
      BY <1>2, State DEF IndInv, CallPlace
    <3>2. MoreNals' = MoreNals
      BY DEF MoreNals, stream
    <3> QED
      BY <1>2, <1>4, <1>8, <3>1, <3>2
  <2> QED
    BY <2>1 DEF CallPlace, ParserPc, DecodePc, FlushPc, IndInv
<1>13. OwnersApart'
  BY <1>4, <1>5, <1>8 DEF OwnersApart, IndInv
<1>14. CodingOrder'
  <2>1. \A x \in Bufs : pic'[x].refs = pic[x].refs
    BY <1>9 DEF Untouched, Advances
  <2>2. ASSUME NEW j \in DOMAIN L, NEW k \in DOMAIN L, L[k] \in pic'[L[j]].refs
        PROVE  k <= j
    <3> DEFINE jj == IF j < i THEN j ELSE j + 1
               kk == IF k < i THEN k ELSE k + 1
    <3>1. /\ jj \in DOMAIN parseList /\ kk \in DOMAIN parseList
          /\ L[j] = parseList[jj] /\ L[k] = parseList[kk] /\ parseList[jj] \in Bufs
          /\ j \in Int /\ k \in Int /\ i \in Int
      BY <1>1, <1>2, <1>5
    <3>2. kk <= jj
      <4> HIDE DEF jj, kk
      <4> QED
        BY <2>1, <2>2, <3>1 DEF IndInv, CodingOrder
    <3> QED
      BY <3>1, <3>2
  <2>3. pic[b].refs \cap ToSet(L) = {}
    <3> SUFFICES ASSUME NEW r \in pic[b].refs, r \in ToSet(L) PROVE FALSE
      OBVIOUS
    <3>1. PICK j \in DOMAIN parseList : r = parseList[j]
      BY <1>5 DEF ToSet
    <3>2. j <= i /\ j # i
      <4>1. j <= i
        BY <1>1, <1>2, <3>1 DEF IndInv, CodingOrder, b
      <4>2. j # i
        BY <1>5, <3>1 DEF b
      <4> QED
        BY <4>1, <4>2
    <3>3. i # 1 /\ Decodable(b)
      BY <1>1, <1>2, <3>2
    <3>4. r \in Waiting /\ r \in Bufs
      BY <1>2, <3>1
    <3>5. pic[r].progress >= reconstructed
      BY <3>3 DEF Decodable
    <3> QED
      BY <3>4, <3>5 DEF IndInv, OwnersState, parsing, parsed, reconstructed
  <2> QED
    BY <1>4, <1>8, <2>1, <2>2, <2>3 DEF CodingOrder
<1>15. FramesLocked'
  <2>1. \A x \in held \cup ({main.outPic} \ {NoPic}) : x \in Bufs /\ x \notin Waiting
    BY Owned DEF IndInv, FramesLocked, OwnersState, parsing, parsed, finished
  <2>2. \A x \in Bufs \ Waiting : pic'[x] = pic[x]
    BY <1>2, <1>6
  <2> QED
    BY <1>8, <2>1, <2>2 DEF FramesLocked, IndInv
<1>16. NoneDropped
  BY <1>8 DEF NoneDropped
<1> QED
  BY <1>7, <1>9, <1>10, <1>11, <1>12, <1>13, <1>14, <1>15, <1>16, OwnersGoOn

\* The main thread goes on and touches no picture.
LEMMA OnlyMain ==
  ASSUME IndInv, main.pc \notin {"clean", "recon"}, main'.pc \notin {"clean", "recon", "ext"},
         UNCHANGED <<setup, nal, pic, list, dpb, parsePic, parseList, segment, started,
                     instances, first, tuneIn, reports, faults>>,
         MainTypes(main'), main'.done = main.done, CallPlace', ParserAway, out' \in Seq(Nat),
         held' \cup ({main'.outPic} \ {NoPic}) = held \cup ({main.outPic} \ {NoPic})
  PROVE  IndInv' /\ \A x \in Bufs : pic[x].progress = finished => pic'[x].progress = finished
<1>1. /\ Waiting' = Waiting /\ InWork' = InWork /\ TypeOK /\ pic \in [Bufs -> Picture]
      /\ held' \subseteq InList /\ parseList' = parseList /\ instances' = instances /\ pic' = pic
  BY State, Owned DEF IndInv, Waiting, InWork
<1>2. OwnerTypes
  BY <1>1, State DEF OwnerTypes, TypeOK
<1>3. NoneDropped
  BY <1>1 DEF NoneDropped
<1>4. \A x \in Bufs : Untouched(x)
  BY <1>1 DEF Untouched
<1>5. OwnersApart'
  BY <1>1 DEF IndInv, OwnersApart
<1>6. CodingOrder'
  BY <1>1 DEF IndInv, CodingOrder
<1>7. FramesLocked'
  BY <1>1 DEF IndInv, FramesLocked
<1> QED
  BY <1>1, <1>2, <1>3, <1>4, <1>5, <1>6, <1>7, OwnersGoOn

\* What main holds behind an update, by its fields.
LEMMA MainFields ==
  ASSUME TypeOK
  PROVE  /\ MainTypes(main) /\ main.exc \in BOOLEAN /\ main.flushing \in BOOLEAN
         /\ main.pc \in MainPcs
         /\ \A v \in MainPcs : LET m == [main EXCEPT !.pc = v]
              IN /\ MainTypes(m) /\ m.pc = v /\ m.cur = main.cur /\ m.done = main.done
                 /\ m.outPic = main.outPic /\ m.flushing = main.flushing
                 /\ m.exc = main.exc
         /\ MainTypes(Idle)
<1>1. main \in [pc : MainPcs, cur : InList \cup {NoPic}, exc : BOOLEAN,
                done : InList \cup {NoPic}, outPic : InList \cup {NoPic},
                flushing : BOOLEAN]
  BY DEF TypeOK, MainPcs
<1>2. \A v \in MainPcs : [main EXCEPT !.pc = v] \in
        [pc : MainPcs, cur : InList \cup {NoPic}, exc : BOOLEAN,
         done : InList \cup {NoPic}, outPic : InList \cup {NoPic}, flushing : BOOLEAN]
  BY <1>1
<1>3. Idle \in
        [pc : MainPcs, cur : InList \cup {NoPic}, exc : BOOLEAN,
         done : InList \cup {NoPic}, outPic : InList \cup {NoPic}, flushing : BOOLEAN]
  BY DEF Idle, MainPcs, ParserPc
<1> QED
  BY <1>1, <1>2, <1>3 DEF MainTypes

LEMMA GetNextDecodableStep ==
  ASSUME IndInv, GetNextDecodable
  PROVE  IndInv' /\ \A x \in Bufs : pic[x].progress = finished => pic'[x].progress = finished
<1>1. /\ main.pc = "next" /\ TypeOK /\ main.flushing = FALSE /\ main.done = NoPic
      /\ main.outPic = NoPic /\ parsePic # NoPic /\ pic[parsePic].complete
      /\ UNCHANGED <<setup, nal, list, dpb, parsePic, segment, started, instances,
                     outputVars, reports, faults>>
  BY State DEF IndInv, GetNextDecodable, CallPlace, ParsedLast, DecodePc
<1>2. CASE parseList = <<>>
  <2>1. /\ UNCHANGED <<pic, parseList>>
        /\ \E v \in {"output", "null"} : main' = [main EXCEPT !.pc = v]
    BY <1>1, <1>2 DEF GetNextDecodable
  <2>2. /\ MainTypes(main') /\ main'.pc \in {"output", "null"} /\ main'.done = NoPic
        /\ main'.outPic = NoPic /\ main'.flushing = FALSE
    BY <1>1, <2>1, MainFields DEF MainPcs, DecodePc, EndPc
  <2>3. CallPlace'
    BY <2>2 DEF CallPlace, ParserPc, DecodePc, FlushPc
  <2>4. ParserAway
    BY <1>1 DEF ParserAway
  <2>5. out' \in Seq(Nat) /\ held' = held
    BY <1>1 DEF TypeOK, outputVars
  <2> QED
    BY <1>1, <2>1, <2>2, <2>3, <2>4, <2>5, OnlyMain DEF outputVars
<1>3. CASE parseList # <<>>
  <2> DEFINE i == NextDecodable
             b == parseList[i]
             exc == pic[b].parseDone = "error"
             broken == pic[b].error \/ pic[b].wasLost \/ exc
             v == IF broken THEN "clean" ELSE "recon"
  <2>1. /\ TakeDecodable(i)
        /\ main' = [main EXCEPT !.cur = b, !.exc = exc, !.pc = v]
    BY <1>3 DEF GetNextDecodable
  <2>2. i \in 1..Len(parseList) /\ b \in InList
    BY <1>1, <1>3, ChosenPlace, State
  <2>3. exc \in BOOLEAN /\ v \in {"clean", "recon"}
    OBVIOUS
  <2> HIDE DEF i, b, exc, v
  <2>4. \A c \in InList, e \in BOOLEAN, w \in {"clean", "recon"} :
          main' = [main EXCEPT !.cur = c, !.exc = e, !.pc = w] =>
            /\ MainTypes(main') /\ main'.cur = c /\ main'.pc = w /\ main'.done = main.done
            /\ main'.outPic = main.outPic /\ main'.flushing = main.flushing
    BY <1>1, MainFields, ZenonT(30) DEF MainTypes, MainPcs, DecodePc, ReconPc
  <2>5. /\ MainTypes(main') /\ main'.cur = b /\ main'.pc \in {"clean", "recon"}
        /\ main'.done = main.done /\ main'.outPic = main.outPic
        /\ main'.flushing = main.flushing
    BY <2>1, <2>2, <2>3, <2>4, Zenon
  <2> QED
    BY <1>1, <1>3, <2>1, <2>5, TakeStep DEF i, b
<1> QED
  BY <1>2, <1>3

LEMMA FlushNextStep ==
  ASSUME IndInv, FlushNext
  PROVE  IndInv' /\ \A x \in Bufs : pic[x].progress = finished => pic'[x].progress = finished
<1>1. /\ main.pc = "flushNext" /\ TypeOK /\ main.flushing = TRUE /\ main.done = NoPic
      /\ ~MoreNals /\ MoreNals' = MoreNals
      /\ UNCHANGED <<setup, nal, list, dpb, parsePic, segment, started, instances, first,
                     tuneIn, reports, faults>>
      /\ held \subseteq InList /\ main.outPic \in InList \cup {NoPic} /\ NoPic \notin InList
      /\ InList \subseteq Bufs
  BY State DEF IndInv, FlushNext, CallPlace, FlushPc, MoreNals, stream
<1>2. CASE parseList = <<>>
  <2>1. /\ UNCHANGED <<pic, parseList>> /\ Deliver(main.outPic)
        /\ main' = IF main.outPic = NoPic THEN [main EXCEPT !.pc = "block"] ELSE Idle
    BY <1>2 DEF FlushNext
  <2>2. CASE main.outPic = NoPic
    <3>1. /\ MainTypes(main') /\ main'.pc = "block" /\ main'.done = NoPic
          /\ main'.outPic = NoPic /\ main'.flushing = TRUE
      BY <1>1, <2>1, <2>2, MainFields DEF MainPcs, FlushPc
    <3>2. CallPlace'
      BY <1>1, <1>2, <2>1, <3>1 DEF CallPlace, ParserPc, DecodePc, FlushPc
    <3>3. ParserAway
      BY <1>1, <3>1 DEF ParserAway
    <3>4. out' \in Seq(Nat) /\ held' = held
      BY <1>1, <2>1, <2>2 DEF TypeOK, Deliver
    <3> QED
      BY <1>1, <2>1, <2>2, <3>1, <3>2, <3>3, <3>4, OnlyMain
  <2>3. CASE main.outPic # NoPic
    <3>1. main' = Idle /\ MainTypes(main')
      BY <1>1, <2>1, <2>3, MainFields
    <3>2. main'.pc = "idle" /\ main'.done = NoPic /\ main'.cur = NoPic
          /\ main'.outPic = NoPic /\ main'.flushing = FALSE
      BY <3>1 DEF Idle
    <3>3. CallPlace'
      BY <1>1, <3>2 DEF CallPlace, ParserPc, DecodePc, FlushPc
    <3>4. ParserAway
      BY <1>1, <3>2 DEF ParserAway, DecodePc, ReconPc
    <3>5. held' = held \cup {main.outPic} /\ out' \in Seq(Nat)
      <4>1. out \in Seq(Nat) /\ pic[main.outPic].cts \in Nat
        BY <1>1, <2>3, State, Fields DEF TypeOK
      <4> QED
        BY <2>1, <2>3, <4>1, AppendProperties, SMTT(30) DEF Deliver
    <3> QED
      BY <1>1, <2>1, <2>3, <3>1, <3>2, <3>3, <3>4, <3>5, OnlyMain
  <2> QED
    BY <2>2, <2>3
<1>3. CASE parseList # <<>>
  <2> DEFINE i == NextDecodable  b == parseList[i]
  <2>1. /\ TakeDecodable(i) /\ main' = [main EXCEPT !.cur = b, !.pc = "recon"]
        /\ UNCHANGED <<held, out>>
    BY <1>3 DEF FlushNext
  <2>2. i \in 1..Len(parseList) /\ b \in InList
    BY <1>1, <1>3, ChosenPlace, State
  <2> HIDE DEF i, b
  <2>3. \A c \in InList :
          LET m == [main EXCEPT !.cur = c, !.pc = "recon"]
          IN /\ MainTypes(m) /\ m.cur = c /\ m.pc = "recon" /\ m.done = main.done
             /\ m.outPic = main.outPic /\ m.flushing = main.flushing
    BY <1>1, MainFields, Zenon DEF MainTypes, MainPcs, ReconPc
  <2>4. /\ MainTypes(main') /\ main'.cur = b /\ main'.pc = "recon"
        /\ main'.done = main.done /\ main'.outPic = main.outPic
        /\ main'.flushing = main.flushing
    BY <2>1, <2>2, <2>3
  <2> QED
    BY <1>1, <1>3, <2>1, <2>4, TakeStep DEF i, b, outputVars
<1> QED
  BY <1>2, <1>3

\* markUnusedPicturesReusable touches only what no picture still to be
\* reconstructed refers to.
LEMMA UnusedMarked ==
  ASSUME NEW P \in [Bufs -> Picture], NEW L \in Seq(Bufs), NEW x \in Bufs
  PROVE  LET U == MarkUnused(P, L)
         IN /\ DOMAIN U = Bufs
            /\ \/ U[x] = P[x]
               \/ /\ U[x] = [P[x] EXCEPT !.stillReferenced = FALSE]
                  /\ x \in ToSet(L) /\ ~P[x].dpbReferenceMark
                  /\ \A y \in ToSet(L) : x \in P[y].refs => ~(P[y].progress < reconstructed)
<1> DEFINE inProgress == {b \in ToSet(L) : P[b].progress < reconstructed}
           allRefPics == UNION {P[b].refs : b \in inProgress}
           I == {i \in 1..Len(L) : P[L[i]].progress < finished}
           stop == SelectInSeq(L, LAMBDA b : P[b].progress < finished)
           upTo == IF stop = 0 THEN Len(L) ELSE stop - 1
           unused == {L[i] : i \in 1..upTo} \ allRefPics
           U == MarkUnused(P, L)
<1>1. /\ DOMAIN U = Bufs
      /\ U[x] = IF x \in unused /\ ~P[x].dpbReferenceMark
                THEN [P[x] EXCEPT !.stillReferenced = FALSE] ELSE P[x]
  BY DEF MarkUnused
<1>2. unused \subseteq ToSet(L)
  <2>1. /\ Len(L) \in Nat /\ DOMAIN L = 1..Len(L) /\ \A i \in DOMAIN L : L[i] \in ToSet(L)
    BY InSequence
  <2>2. stop = IF I # {} THEN Min(I) ELSE 0
    BY DEF SelectInSeq
  <2>3. I \in SUBSET Nat /\ 0 \notin I
    BY <2>1
  <2>4. stop = 0 \/ stop \in I
    <3> HIDE DEF I
    <3> QED
      BY <2>2, <2>3, SelectedFirst
  <2> HIDE DEF stop
  <2>5. 1..upTo \subseteq 1..Len(L)
    BY <2>1, <2>4
  <2> QED
    BY <2>1, <2>5
<1>3. x \in unused => \A y \in ToSet(L) : x \in P[y].refs => ~(P[y].progress < reconstructed)
  OBVIOUS
<1>4. \/ U[x] = P[x]
      \/ /\ U[x] = [P[x] EXCEPT !.stillReferenced = FALSE]
         /\ x \in ToSet(L) /\ ~P[x].dpbReferenceMark
         /\ \A y \in ToSet(L) : x \in P[y].refs => ~(P[y].progress < reconstructed)
  <2> HIDE DEF U, unused
  <2>1. CASE x \in unused /\ ~P[x].dpbReferenceMark
    BY <1>1, <1>2, <1>3, <2>1
  <2>2. CASE ~(x \in unused /\ ~P[x].dpbReferenceMark)
    <3>1. U[x] = P[x]
      BY <1>1, <2>2
    <3> QED
      BY <3>1
  <2> QED
    BY <2>1, <2>2
<1> QED
  BY <1>1, <1>4

\* finishPicture
LEMMA FinishIs ==
  ASSUME TypeOK, NEW P \in [Bufs -> Picture], NEW b \in Bufs
  PROVE  LET F == Finish(P, b)
         IN /\ F \in [Bufs -> Picture]
            /\ F[b].progress = finished
            /\ \A x \in Bufs :
                 /\ F[x].refs = P[x].refs /\ F[x].cts = P[x].cts
                 /\ F[x].wasLost = P[x].wasLost /\ F[x].slices = P[x].slices
                 /\ F[x].complete = P[x].complete /\ F[x].recon = P[x].recon
                 /\ F[x].queue = P[x].queue /\ F[x].parsedSlices = P[x].parsedSlices
                 /\ F[x].parseFailed = P[x].parseFailed /\ F[x].parseDone = P[x].parseDone
                 /\ F[x].dpbReferenceMark = P[x].dpbReferenceMark
                 /\ F[x].lockedByApplication = P[x].lockedByApplication
                 /\ P[x].exceptionThrownOut => F[x].exceptionThrownOut
                 /\ x # b => F[x].progress = P[x].progress /\ F[x].reconDone = P[x].reconDone
                 /\ x \notin InList \cup {b} => F[x] = P[x]
                 /\ \/ F[x].stillReferenced = P[x].stillReferenced
                    \/ /\ ~P[x].dpbReferenceMark
                       /\ \A y \in InList : x \in P[y].refs
                                            => ~(P[y].progress < reconstructed)
<1> DEFINE F == Finish(P, b)
<1>1. list \in Seq(Bufs) /\ P[b] \in Picture
  BY State
<1>2. CASE Broken(P[b])
  <2> DEFINE z == FinishedBroken(P[b])
  <2>1. /\ z \in Picture /\ z.progress = finished
        /\ z.refs = P[b].refs /\ z.cts = P[b].cts
        /\ z.wasLost = P[b].wasLost /\ z.slices = P[b].slices
        /\ z.complete = P[b].complete /\ z.recon = P[b].recon
        /\ z.queue = P[b].queue /\ z.parsedSlices = P[b].parsedSlices
        /\ z.parseFailed = P[b].parseFailed /\ z.parseDone = P[b].parseDone
        /\ z.dpbReferenceMark = P[b].dpbReferenceMark
        /\ z.lockedByApplication = P[b].lockedByApplication
        /\ P[b].exceptionThrownOut => z.exceptionThrownOut
        /\ z.stillReferenced = P[b].stillReferenced
    <3> DEFINE p == P[b]
    <3>1. p \in Picture
      BY <1>1
    <3> HIDE DEF p
    <3>2. CASE z = [p EXCEPT !.progress = finished, !.reconDone = "unlocked",
                             !.error = TRUE, !.exceptionThrownOut = TRUE]
      <4> HIDE DEF z
      <4>1. z \in Picture
        BY <3>1, <3>2, Ranges, ZenonT(30) DEF Picture
      <4> QED
        BY <3>1, <3>2, <4>1 DEF Picture, p
    <3>3. CASE z = [p EXCEPT !.progress = finished]
      <4> HIDE DEF z
      <4>1. z \in Picture
        BY <3>1, <3>3, Ranges DEF Picture
      <4> QED
        BY <3>1, <3>3, <4>1 DEF Picture, p
    <3> QED
      BY <3>2, <3>3 DEF FinishedBroken, p
  <2>2. F = [P EXCEPT ![b] = z]
    BY <1>2 DEF Finish
  <2> HIDE DEF F, z
  <2>3. F \in [Bufs -> Picture] /\ F[b] = z /\ \A x \in Bufs \ {b} : F[x] = P[x]
    BY <2>1, <2>2
  <2> QED
    BY <2>1, <2>3 DEF F
<1>3. CASE ~Broken(P[b])
  <2> DEFINE U == MarkUnused(P, list)
  <2>1. /\ DOMAIN U = Bufs
        /\ \A x \in Bufs :
             \/ U[x] = P[x]
             \/ /\ U[x] = [P[x] EXCEPT !.stillReferenced = FALSE]
                /\ x \in InList /\ ~P[x].dpbReferenceMark
                /\ \A y \in InList : x \in P[y].refs => ~(P[y].progress < reconstructed)
    BY <1>1, UnusedMarked DEF InList
  <2>2. F = [U EXCEPT ![b] = [U[b] EXCEPT !.progress = finished]]
    BY <1>3 DEF Finish
  <2>3. U = [x \in Bufs |-> U[x]]
    BY DEF MarkUnused
  <2> HIDE DEF U, F
  <2>4. ASSUME NEW x \in Bufs
        PROVE  /\ U[x] \in Picture
               /\ U[x].refs = P[x].refs /\ U[x].cts = P[x].cts
               /\ U[x].wasLost = P[x].wasLost /\ U[x].slices = P[x].slices
               /\ U[x].complete = P[x].complete /\ U[x].recon = P[x].recon
               /\ U[x].queue = P[x].queue /\ U[x].parsedSlices = P[x].parsedSlices
               /\ U[x].parseFailed = P[x].parseFailed /\ U[x].parseDone = P[x].parseDone
               /\ U[x].dpbReferenceMark = P[x].dpbReferenceMark
               /\ U[x].lockedByApplication = P[x].lockedByApplication
               /\ U[x].exceptionThrownOut = P[x].exceptionThrownOut
               /\ U[x].progress = P[x].progress /\ U[x].reconDone = P[x].reconDone
               /\ U[x].stillReferenced = P[x].stillReferenced \/ U[x] # P[x]
    <3>1. P[x] \in Picture
      OBVIOUS
    <3>2. CASE U[x] = P[x]
      BY <3>1, <3>2
    <3>3. CASE U[x] # P[x] /\ U[x] = [P[x] EXCEPT !.stillReferenced = FALSE]
      BY <3>1, <3>3, ZenonT(30) DEF Picture
    <3> QED
      BY <2>1, <3>2, <3>3
  <2> DEFINE u == U[b]  z == [u EXCEPT !.progress = finished]
  <2>5. u \in Picture
    BY <2>4
  <2>6. /\ z \in Picture /\ z.progress = finished
        /\ z.refs = u.refs /\ z.cts = u.cts
        /\ z.wasLost = u.wasLost /\ z.slices = u.slices
        /\ z.complete = u.complete /\ z.recon = u.recon
        /\ z.queue = u.queue /\ z.parsedSlices = u.parsedSlices
        /\ z.parseFailed = u.parseFailed /\ z.parseDone = u.parseDone
        /\ z.dpbReferenceMark = u.dpbReferenceMark
        /\ z.lockedByApplication = u.lockedByApplication
        /\ z.exceptionThrownOut = u.exceptionThrownOut
        /\ z.stillReferenced = u.stillReferenced
    <3> HIDE DEF u
    <3> QED
      BY <2>5, Ranges DEF Picture
  <2>7. F = [U EXCEPT ![b] = z]
    BY <2>2
  <2> HIDE DEF z
  <2>8. F \in [Bufs -> Picture] /\ F[b] = z /\ \A x \in Bufs \ {b} : F[x] = U[x]
    BY <2>3, <2>4, <2>6, <2>7
  <2>9. ASSUME NEW x \in Bufs
        PROVE  /\ F[x].refs = P[x].refs /\ F[x].cts = P[x].cts
               /\ F[x].wasLost = P[x].wasLost /\ F[x].slices = P[x].slices
               /\ F[x].complete = P[x].complete /\ F[x].recon = P[x].recon
               /\ F[x].queue = P[x].queue /\ F[x].parsedSlices = P[x].parsedSlices
               /\ F[x].parseFailed = P[x].parseFailed /\ F[x].parseDone = P[x].parseDone
               /\ F[x].dpbReferenceMark = P[x].dpbReferenceMark
               /\ F[x].lockedByApplication = P[x].lockedByApplication
               /\ F[x].exceptionThrownOut = P[x].exceptionThrownOut
               /\ F[x].stillReferenced = U[x].stillReferenced
    <3>1. CASE x = b
      BY <2>4, <2>6, <2>8, <3>1
    <3>2. CASE x # b
      BY <2>4, <2>8, <3>2
    <3> QED
      BY <3>1, <3>2
  <2>10. F[b].progress = finished
    BY <2>6, <2>8
  <2>11. ASSUME NEW x \in Bufs
         PROVE  /\ x # b => F[x].progress = P[x].progress /\ F[x].reconDone = P[x].reconDone
                /\ x \notin InList \cup {b} => F[x] = P[x]
                /\ \/ F[x].stillReferenced = P[x].stillReferenced
                   \/ /\ ~P[x].dpbReferenceMark
                      /\ \A y \in InList : x \in P[y].refs
                                           => ~(P[y].progress < reconstructed)
    BY <2>1, <2>4, <2>8, <2>9
  <2> QED
    BY <2>8, <2>9, <2>10, <2>11 DEF F
<1> QED
  BY <1>2, <1>3

\* A picture b is finished in the step and nobody has it any more; P is what
\* finishPicture finds.
LEMMA FinishPictures ==
  ASSUME IndInv, NEW b \in InList, NEW P \in [Bufs -> Picture], NEW e \in BOOLEAN,
         pic' = Finish(P, b) \/ pic' = [Finish(P, b) EXCEPT ![b] = Reported(@, e)],
         \A x \in Bufs \ {b} : P[x] = pic[x],
         P[b].refs = pic[b].refs, P[b].cts = pic[b].cts, P[b].wasLost = pic[b].wasLost,
         P[b].complete = pic[b].complete,
         pic[b].exceptionThrownOut => P[b].exceptionThrownOut,
         pic[b].stillReferenced => P[b].stillReferenced,
         SoundPicture(P[b]), P[b].queue = {}, ~P[b].recon,
         b \notin Waiting' \cup InWork' \cup {main'.done},
         \A x \in Bufs \ {b} : /\ x \in Waiting' => x \in Waiting
                               /\ x \in InWork' <=> x \in InWork
                               /\ x = main'.done => x = main.done
  PROVE  /\ pic' \in [Bufs -> Picture] /\ pic'[b].progress = finished
         /\ \A x \in Bufs : Untouched(x) \/ (x \in InList /\ Advances(x))
         /\ \A x \in Bufs : pic'[x].refs = pic[x].refs
         /\ \A x \in Bufs \ {b} : /\ pic'[x].progress = pic[x].progress
                                  /\ pic'[x].lockedByApplication = pic[x].lockedByApplication
<1> DEFINE F == Finish(P, b)
<1>1. /\ TypeOK /\ InList \subseteq Bufs /\ b \in Bufs /\ pic \in [Bufs -> Picture]
      /\ P[b].progress \in 0..5 /\ P[b] \in Picture
  BY State, Fields DEF IndInv
<1>2. /\ F \in [Bufs -> Picture]
      /\ F[b].progress = finished
      /\ \A x \in Bufs :
           /\ F[x].refs = P[x].refs /\ F[x].cts = P[x].cts
           /\ F[x].wasLost = P[x].wasLost /\ F[x].slices = P[x].slices
           /\ F[x].complete = P[x].complete /\ F[x].recon = P[x].recon
           /\ F[x].queue = P[x].queue /\ F[x].parsedSlices = P[x].parsedSlices
           /\ F[x].parseFailed = P[x].parseFailed /\ F[x].parseDone = P[x].parseDone
           /\ F[x].dpbReferenceMark = P[x].dpbReferenceMark
           /\ F[x].lockedByApplication = P[x].lockedByApplication
           /\ P[x].exceptionThrownOut => F[x].exceptionThrownOut
           /\ x # b => F[x].progress = P[x].progress /\ F[x].reconDone = P[x].reconDone
           /\ x \notin InList \cup {b} => F[x] = P[x]
           /\ \/ F[x].stillReferenced = P[x].stillReferenced
              \/ /\ ~P[x].dpbReferenceMark
                 /\ \A y \in InList : x \in P[y].refs
                                      => ~(P[y].progress < reconstructed)
  BY <1>1, FinishIs
<1> HIDE DEF F
<1>3. /\ pic' \in [Bufs -> Picture]
      /\ \A x \in Bufs \ {b} : pic'[x] = F[x]
      /\ pic'[b].progress = finished /\ pic'[b].refs = F[b].refs /\ pic'[b].cts = F[b].cts
      /\ pic'[b].wasLost = F[b].wasLost /\ pic'[b].slices = F[b].slices
      /\ pic'[b].complete = F[b].complete /\ pic'[b].recon = F[b].recon
      /\ pic'[b].queue = F[b].queue /\ pic'[b].parsedSlices = F[b].parsedSlices
      /\ pic'[b].parseFailed = F[b].parseFailed /\ pic'[b].parseDone = F[b].parseDone
      /\ pic'[b].dpbReferenceMark = F[b].dpbReferenceMark
      /\ F[b].exceptionThrownOut => pic'[b].exceptionThrownOut
      /\ pic'[b].stillReferenced = F[b].stillReferenced
  <2>1. CASE pic' = F
    BY <1>2, <2>1
  <2>2. CASE pic' = [F EXCEPT ![b] = Reported(F[b], e)]
    <3> DEFINE p == F[b]  q == Reported(p, e)
    <3>1. p \in Picture /\ p.exceptionThrownOut \in BOOLEAN
      BY <1>1, <1>2, Fields
    <3> HIDE DEF p
    <3>2. (p.exceptionThrownOut \/ e) \in BOOLEAN
      OBVIOUS
    <3>3. \A v \in BOOLEAN : [p EXCEPT !.exceptionThrownOut = v] \in Picture
      BY <3>1 DEF Picture
    <3>4. q \in Picture
      BY <3>2, <3>3, Zenon DEF Reported
    <3>5. /\ q.progress = p.progress /\ q.refs = p.refs /\ q.cts = p.cts
          /\ q.wasLost = p.wasLost /\ q.slices = p.slices
          /\ q.complete = p.complete /\ q.recon = p.recon
          /\ q.queue = p.queue /\ q.parsedSlices = p.parsedSlices
          /\ q.parseFailed = p.parseFailed /\ q.parseDone = p.parseDone
          /\ q.dpbReferenceMark = p.dpbReferenceMark
          /\ q.stillReferenced = p.stillReferenced
      BY <3>1 DEF Picture, Reported
    <3>6. q.exceptionThrownOut = (p.exceptionThrownOut \/ e)
      BY <3>1 DEF Picture, Reported
    <3>7. pic' = [F EXCEPT ![b] = q]
      BY <2>2 DEF p
    <3> HIDE DEF q
    <3>8. pic'[b] = q /\ pic' \in [Bufs -> Picture] /\ \A x \in Bufs \ {b} : pic'[x] = F[x]
      BY <1>1, <1>2, <3>4, <3>7
    <3>9. p.exceptionThrownOut => q.exceptionThrownOut
      BY <3>6
    <3> QED
      BY <1>2, <3>5, <3>8, <3>9 DEF p
  <2> QED
    BY <2>1, <2>2 DEF F
<1>4. \A x \in Bufs : pic'[x].refs = pic[x].refs
  BY <1>2, <1>3
<1>5. \A x \in Bufs \ {b} : /\ pic'[x].progress = pic[x].progress
                            /\ pic'[x].lockedByApplication = pic[x].lockedByApplication
  BY <1>2, <1>3
<1>6. ASSUME NEW x \in InList, pic[x].stillReferenced
      PROVE  \/ pic'[x].stillReferenced
             \/ \A y \in Bufs \ {x} : x \in pic[y].refs => pic'[y].progress >= reconstructed
  <2>1. x \in Bufs /\ P[x].stillReferenced /\ pic'[x].stillReferenced = F[x].stillReferenced
    BY <1>1, <1>3, <1>6
  <2>2. CASE F[x].stillReferenced = P[x].stillReferenced
    BY <2>1, <2>2
  <2>3. CASE \A y \in InList : x \in P[y].refs => ~(P[y].progress < reconstructed)
    <3> SUFFICES ASSUME NEW y \in Bufs \ {x}, x \in pic[y].refs
                 PROVE  pic'[y].progress >= reconstructed
      OBVIOUS
    <3>1. y \in InList
      BY DEF IndInv, PicturesSound, FreshPicture
    <3>2. pic[y].progress \in Int
      BY <1>1, Fields
    <3> QED
      BY <1>3, <1>5, <2>3, <3>1, <3>2 DEF reconstructed, finished
  <2> QED
    BY <1>2, <2>1, <2>2, <2>3
<1>7. ASSUME NEW x \in Bufs
      PROVE  Untouched(x) \/ (x \in InList /\ Advances(x))
  <2> DEFINE p == pic[x]  q == pic'[x]
  <2>1. p \in Picture /\ SoundPicture(p) /\ p.progress \in 0..5
    BY <1>1, Fields DEF IndInv, PicturesSound
  <2>2. CASE x \notin InList
    BY <1>2, <1>3, <2>2 DEF Untouched
  <2>3. CASE x = b
    <3>1. /\ q.progress = finished /\ q.refs = p.refs /\ q.cts = p.cts
          /\ q.wasLost = p.wasLost /\ q.complete = p.complete
          /\ p.exceptionThrownOut => q.exceptionThrownOut
          /\ q.queue = {} /\ ~q.recon
      BY <1>1, <1>2, <1>3, <2>3
    <3>2. SoundPicture(q)
      <4> DEFINE o == P[b]
      <4>1. /\ q.slices = o.slices /\ q.complete = o.complete /\ q.wasLost = o.wasLost
            /\ q.parsedSlices = o.parsedSlices /\ q.parseFailed = o.parseFailed
            /\ q.parseDone = o.parseDone /\ q.dpbReferenceMark = o.dpbReferenceMark
            /\ q.queue = o.queue
            /\ q.stillReferenced = o.stillReferenced \/ ~o.dpbReferenceMark
        BY <1>1, <1>2, <1>3, <2>3
      <4> HIDE DEF o, p, q
      <4> QED
        BY <3>1, <4>1 DEF SoundPicture, reconstructed, finished, o
    <3> QED
      BY <1>6, <2>1, <2>3, <3>1, <3>2 DEF Advances, finished
  <2>4. CASE x # b /\ x \in InList
    <3>1. /\ q.progress = p.progress /\ q.refs = p.refs /\ q.cts = p.cts
          /\ q.wasLost = p.wasLost /\ q.complete = p.complete /\ q.slices = p.slices
          /\ q.parsedSlices = p.parsedSlices /\ q.parseFailed = p.parseFailed
          /\ q.parseDone = p.parseDone /\ q.dpbReferenceMark = p.dpbReferenceMark
          /\ p.exceptionThrownOut => q.exceptionThrownOut
          /\ q.queue = p.queue /\ q.recon = p.recon /\ q.reconDone = p.reconDone
          /\ q.stillReferenced = p.stillReferenced \/ ~p.dpbReferenceMark
      BY <1>2, <1>3, <2>4
    <3>2. SoundPicture(q)
      <4> HIDE DEF p, q
      <4> QED
        BY <2>1, <3>1 DEF SoundPicture
    <3>3. /\ x \in Waiting' => x \in Waiting
          /\ x \in InWork' <=> x \in InWork
          /\ x = main'.done => x = main.done
      BY <2>4
    <3>4. x # NoPic
      BY <1>1, Constants
    <3> QED
      BY <1>6, <2>1, <2>4, <3>1, <3>2, <3>3, <3>4 DEF Advances, IndInv, OwnersState
  <2> QED
    BY <2>2, <2>3, <2>4
<1> QED
  BY <1>3, <1>4, <1>5, <1>7

\* What finishPicture finds of a picture b that passes to nobody.
FoundAs(P, b) ==
  /\ \A x \in Bufs \ {b} : P[x] = pic[x]
  /\ P[b].refs = pic[b].refs /\ P[b].cts = pic[b].cts /\ P[b].wasLost = pic[b].wasLost
  /\ P[b].complete = pic[b].complete
  /\ pic[b].exceptionThrownOut => P[b].exceptionThrownOut
  /\ pic[b].stillReferenced => P[b].stillReferenced
  /\ SoundPicture(P[b]) /\ P[b].queue = {} /\ ~P[b].recon

\* Whoever had picture b has it no more, everybody else keeps his.
LetGo(b) ==
  /\ b \in Waiting \cup InWork \cup {main.done}
  /\ Waiting' = Waiting \ {b} /\ InWork' = InWork \ {b}
  /\ main.done \in {b, NoPic} /\ main'.done = NoPic
  /\ main'.pc \notin {"clean", "recon", "ext"}
  /\ main'.outPic \in {main.outPic, NoPic}
  /\ instances' \in [1..Instances -> InList \cup {NoPic}]
  /\ \A i \in 1..Instances : instances'[i] \in {instances[i], NoPic}

LEMMA FinishStep ==
  ASSUME IndInv, NEW b \in InList, NEW P \in [Bufs -> Picture], NEW e \in BOOLEAN,
         pic' = Finish(P, b) \/ pic' = [Finish(P, b) EXCEPT ![b] = Reported(@, e)],
         FoundAs(P, b), LetGo(b), CallPlace', ParserAway, MainTypes(main'),
         reports' \in [DOMAIN stream -> Nat],
         UNCHANGED <<setup, nal, list, parserVars, outputVars, faults>>
  PROVE  IndInv' /\ \A x \in Bufs : pic[x].progress = finished => pic'[x].progress = finished
<1>1. /\ TypeOK /\ InList \subseteq Bufs /\ NoPic \notin InList /\ parseList \in Seq(Bufs)
      /\ ToSet(parseList) \subseteq InList /\ held \subseteq InList
      /\ parseList' = parseList /\ held' = held /\ started' = started /\ first' = first
      /\ tuneIn' = tuneIn /\ out' = out /\ dpb' = dpb /\ parsePic' = parsePic
      /\ segment' = segment
      /\ \A i \in DOMAIN parseList : parseList[i] \in ToSet(parseList)
  BY State DEF IndInv, parserVars, outputVars
<1>2. /\ pic' \in [Bufs -> Picture] /\ pic'[b].progress = finished
      /\ \A x \in Bufs : Untouched(x) \/ (x \in InList /\ Advances(x))
      /\ \A x \in Bufs : pic'[x].refs = pic[x].refs
      /\ \A x \in Bufs \ {b} : /\ pic'[x].progress = pic[x].progress
                               /\ pic'[x].lockedByApplication = pic[x].lockedByApplication
  <2>1. /\ b \notin Waiting' \cup InWork' \cup {main'.done}
        /\ \A x \in Bufs \ {b} : /\ x \in Waiting' => x \in Waiting
                                 /\ x \in InWork' <=> x \in InWork
                                 /\ x = main'.done => x = main.done
    BY <1>1, Constants DEF LetGo
  <2> QED
    BY <2>1, FinishPictures DEF FoundAs
<1>3. OwnerTypes
  BY <1>1 DEF OwnerTypes, LetGo, TypeOK
<1>4. NoneDropped
  BY <1>1, <1>2 DEF NoneDropped, LetGo
<1>5. OwnersApart'
  <2>1. \A i, j \in 1..Instances :
          instances'[i] = instances'[j] => i = j \/ instances'[i] = NoPic
    BY DEF LetGo, IndInv, OwnersApart
  <2>2. Waiting' \cap InWork' = {} /\ main'.done \notin Waiting' \cup InWork'
    <3>1. NoPic \notin Waiting /\ NoPic \notin InWork
      BY <1>1, Owned
    <3> QED
      BY <3>1 DEF LetGo, IndInv, OwnersApart
  <2> QED
    BY <1>1, <2>1, <2>2 DEF LetGo, IndInv, OwnersApart
<1>6. CodingOrder'
  BY <1>1, <1>2 DEF CodingOrder, IndInv, LetGo
<1>7. FramesLocked'
  <2>1. pic[b].progress # finished
    BY <1>1 DEF LetGo, IndInv, OwnersState, parsing, parsed, reconstructing, reconstructed,
                finished
  <2>2. \A x \in held \cup ({main.outPic} \ {NoPic}) : x \in Bufs \ {b}
    BY <1>1, <2>1, Owned DEF IndInv, FramesLocked
  <2> QED
    BY <1>1, <1>2, <2>2 DEF FramesLocked, IndInv, LetGo
<1> QED
  BY <1>2, <1>3, <1>4, <1>5, <1>6, <1>7, OwnersGoOn

\* What decode() makes of a broken picture whose parse tasks are over.
LEMMA CleanedIs ==
  ASSUME NEW p \in Picture, NEW e \in BOOLEAN, SoundPicture(p), p.queue = {}, ~p.recon,
         p.progress \in {parsing, parsed}
  PROVE  LET q == Cleaned(p, e)
         IN /\ q \in Picture /\ SoundPicture(q)
            /\ q.refs = p.refs /\ q.cts = p.cts /\ q.wasLost = p.wasLost
            /\ q.complete = p.complete /\ q.exceptionThrownOut = p.exceptionThrownOut
            /\ q.stillReferenced = p.stillReferenced
            /\ q.queue = {} /\ ~q.recon /\ q.progress = reconstructed
<1> DEFINE q == Cleaned(p, e)
           err == p.error \/ e
           done == IF e THEN "locked" ELSE p.parseDone
<1>1. err \in BOOLEAN /\ done \in BarrierState
  BY Fields, Ranges
<1>2. q = [p EXCEPT !.error = err, !.parseDone = done, !.reconDone = "unlocked",
                    !.progress = reconstructed]
  <2>1. ~(p.progress < parsing)
    BY DEF parsing, parsed
  <2> QED
    BY <2>1, Zenon DEF Cleaned
<1>3. ASSUME NEW u \in BOOLEAN, NEW v \in BarrierState,
             q = [p EXCEPT !.error = u, !.parseDone = v, !.reconDone = "unlocked",
                           !.progress = reconstructed]
      PROVE  /\ q \in Picture
             /\ q.refs = p.refs /\ q.cts = p.cts /\ q.wasLost = p.wasLost
             /\ q.complete = p.complete /\ q.exceptionThrownOut = p.exceptionThrownOut
             /\ q.stillReferenced = p.stillReferenced /\ q.parseDone = v
             /\ q.queue = p.queue /\ q.recon = p.recon /\ q.progress = reconstructed
             /\ q.slices = p.slices /\ q.parsedSlices = p.parsedSlices
             /\ q.dpbReferenceMark = p.dpbReferenceMark
  <2> HIDE DEF q
  <2> QED
    BY <1>3, Ranges, ZenonT(30) DEF Picture
<1> HIDE DEF q, err
<1>4. /\ q \in Picture
      /\ q.refs = p.refs /\ q.cts = p.cts /\ q.wasLost = p.wasLost
      /\ q.complete = p.complete /\ q.exceptionThrownOut = p.exceptionThrownOut
      /\ q.stillReferenced = p.stillReferenced /\ q.parseDone = done
      /\ q.queue = p.queue /\ q.recon = p.recon /\ q.progress = reconstructed
      /\ q.slices = p.slices /\ q.parsedSlices = p.parsedSlices
      /\ q.dpbReferenceMark = p.dpbReferenceMark
  <2> HIDE DEF done
  <2> QED
    BY <1>1, <1>2, <1>3, Zenon
<1>5. SoundPicture(q)
  BY <1>4 DEF SoundPicture, reconstructed, finished
<1> QED
  BY <1>4, <1>5 DEF q

LEMMA ReportType ==
  ASSUME IndInv, NEW b \in InList
  PROVE  Report(b) \in [DOMAIN stream -> Nat]
BY State, ReportTypes DEF IndInv

LEMMA CleanUpStep ==
  ASSUME IndInv, CleanUp
  PROVE  IndInv' /\ \A x \in Bufs : pic[x].progress = finished => pic'[x].progress = finished
<1> DEFINE b == main.cur  e == main.exc
           C == Cleaned(pic[b], e)
           P == [pic EXCEPT ![b] = C]
           thrown == e \/ FinishThrows(C)
<1>1. /\ main.pc = "clean" /\ TypeOK /\ b \in InList /\ b \in Bufs /\ b \in Waiting
      /\ b # NoPic /\ e \in BOOLEAN /\ pic \in [Bufs -> Picture] /\ pic[b] \in Picture
      /\ main.flushing = FALSE /\ main.done = NoPic /\ main.outPic = NoPic
      /\ InList \subseteq Bufs /\ NoPic \notin InList
      /\ instances \in [1..Instances -> InList \cup {NoPic}]
      /\ parsePic # NoPic /\ pic[parsePic].complete
  BY Owned, State, MainFields DEF IndInv, CleanUp, CallPlace, DecodePc, ParsedLast
<1>2. pic[b].queue = {} /\ ~pic[b].recon /\ pic[b].progress \in {parsing, parsed}
      /\ SoundPicture(pic[b])
  BY <1>1 DEF CleanUp, TasksDone, IndInv, OwnersState, PicturesSound
<1>3. /\ pic' = [Finish(P, b) EXCEPT ![b] = Reported(@, e)]
      /\ reports' = IF thrown THEN Report(b) ELSE reports
      /\ main' = IF e /\ pic[b].exceptionThrownOut
                 THEN [main EXCEPT !.pc = "reported_before"]
                 ELSE IF thrown THEN Idle ELSE [main EXCEPT !.pc = "next"]
      /\ UNCHANGED <<setup, nal, list, parserVars, instances, outputVars, faults>>
  BY DEF CleanUp
<1>4. /\ C \in Picture /\ SoundPicture(C)
      /\ C.refs = pic[b].refs /\ C.cts = pic[b].cts /\ C.wasLost = pic[b].wasLost
      /\ C.complete = pic[b].complete /\ C.exceptionThrownOut = pic[b].exceptionThrownOut
      /\ C.stillReferenced = pic[b].stillReferenced
      /\ C.queue = {} /\ ~C.recon /\ C.progress = reconstructed
  <2> DEFINE p == pic[b]
  <2>1. /\ p \in Picture /\ e \in BOOLEAN /\ SoundPicture(p) /\ p.queue = {} /\ ~p.recon
        /\ p.progress \in {parsing, parsed}
    BY <1>1, <1>2
  <2> HIDE DEF p, e
  <2>2. LET q == Cleaned(p, e)
        IN /\ q \in Picture /\ SoundPicture(q)
           /\ q.refs = p.refs /\ q.cts = p.cts /\ q.wasLost = p.wasLost
           /\ q.complete = p.complete /\ q.exceptionThrownOut = p.exceptionThrownOut
           /\ q.stillReferenced = p.stillReferenced
           /\ q.queue = {} /\ ~q.recon /\ q.progress = reconstructed
    BY <2>1, CleanedIs
  <2> QED
    BY <2>2 DEF p
<1> HIDE DEF C
<1>5. P \in [Bufs -> Picture] /\ P[b] = C /\ \A x \in Bufs \ {b} : P[x] = pic[x]
  BY <1>1, <1>4
<1>6. FoundAs(P, b)
  <2> HIDE DEF P
  <2> QED
    BY <1>4, <1>5 DEF FoundAs
<1>7. /\ main'.pc \in {"reported_before", "idle", "next"} /\ main'.done = NoPic
      /\ main'.outPic = NoPic /\ main'.flushing = FALSE /\ MainTypes(main')
      /\ main'.pc = "idle" => main'.cur = NoPic
  <2>1. main' \in {[main EXCEPT !.pc = "reported_before"], Idle, [main EXCEPT !.pc = "next"]}
    BY <1>3
  <2>2. LET m == [main EXCEPT !.pc = "reported_before"]
        IN MainTypes(m) /\ m.pc = "reported_before" /\ m.done = NoPic /\ m.outPic = NoPic
           /\ m.flushing = FALSE
    BY <1>1, MainFields DEF MainPcs, EndPc
  <2>3. LET m == [main EXCEPT !.pc = "next"]
        IN MainTypes(m) /\ m.pc = "next" /\ m.done = NoPic /\ m.outPic = NoPic
           /\ m.flushing = FALSE
    BY <1>1, MainFields DEF MainPcs, DecodePc
  <2>4. /\ MainTypes(Idle) /\ Idle.pc = "idle" /\ Idle.done = NoPic /\ Idle.outPic = NoPic
        /\ Idle.flushing = FALSE /\ Idle.cur = NoPic
    BY <1>1, MainFields DEF Idle
  <2> QED
    BY <2>1, <2>2, <2>3, <2>4
<1>8. CallPlace'
  BY <1>7 DEF CallPlace, ParserPc, DecodePc, FlushPc
<1>9. ParserAway
  BY <1>1 DEF ParserAway
<1>10. LetGo(b)
  <2>1. parseList' = parseList /\ instances' = instances
    BY <1>3 DEF parserVars
  <2>2. Waiting = ToSet(parseList) \cup {b} /\ b \notin ToSet(parseList) /\ b \notin InWork
    BY <1>1 DEF Waiting, IndInv, OwnersApart
  <2>3. Waiting' = ToSet(parseList) /\ InWork' = InWork
    BY <1>7, <2>1 DEF Waiting, InWork
  <2> QED
    BY <1>1, <1>7, <2>1, <2>2, <2>3 DEF LetGo
<1>11. reports' \in [DOMAIN stream -> Nat]
  BY <1>1, <1>3, ReportType DEF TypeOK
<1> HIDE DEF P, b, e
<1> QED
  BY <1>1, <1>3, <1>5, <1>6, <1>7, <1>8, <1>9, <1>10, <1>11, FinishStep

LEMMA FinishDoneStep ==
  ASSUME IndInv, FinishDone
  PROVE  IndInv' /\ \A x \in Bufs : pic[x].progress = finished => pic'[x].progress = finished
<1> DEFINE b == main.done
           v == IF main.flushing THEN "flushOut" ELSE "output"
           next == [main EXCEPT !.pc = v, !.cur = NoPic, !.done = NoPic]
<1>1. /\ main.pc = "finish" /\ TypeOK /\ b \in InList \cup {NoPic} /\ InList \subseteq Bufs
      /\ NoPic \notin InList /\ main.flushing \in BOOLEAN /\ pic \in [Bufs -> Picture]
      /\ main.outPic \in InList \cup {NoPic} /\ (~main.flushing => main.outPic = NoPic)
      /\ (main.flushing => ~MoreNals)
      /\ (~main.flushing => parsePic # NoPic /\ pic[parsePic].complete)
      /\ instances \in [1..Instances -> InList \cup {NoPic}]
      /\ UNCHANGED <<setup, nal, list, parserVars, instances, outputVars, faults>>
  BY State DEF IndInv, FinishDone, CallPlace, ReconPc, ParsedLast
<1>2. /\ MainTypes(next) /\ next.pc = v /\ next.cur = NoPic /\ next.done = NoPic
      /\ next.outPic = main.outPic /\ next.flushing = main.flushing
      /\ v \in {"flushOut", "output"} /\ (v = "flushOut" <=> main.flushing)
  <2>1. v \in {"flushOut", "output"} /\ (v = "flushOut" <=> main.flushing)
    BY <1>1
  <2>2. \A w \in {"flushOut", "output"} :
          LET m == [main EXCEPT !.pc = w, !.cur = NoPic, !.done = NoPic]
          IN /\ MainTypes(m) /\ m.pc = w /\ m.cur = NoPic /\ m.done = NoPic
             /\ m.outPic = main.outPic /\ m.flushing = main.flushing
    BY <1>1, MainFields DEF MainTypes, MainPcs, DecodePc, FlushPc
  <2> HIDE DEF v
  <2> QED
    BY <2>1, <2>2
<1>3. /\ MainTypes(Idle) /\ Idle.pc = "idle" /\ Idle.done = NoPic /\ Idle.outPic = NoPic
      /\ Idle.flushing = FALSE /\ Idle.cur = NoPic
  BY <1>1, MainFields DEF Idle
<1>4. FinishDone =>
        IF b = NoPic
        THEN main' = next /\ UNCHANGED <<pic, reports>>
        ELSE /\ pic' = Finish(pic, b)
             /\ IF FinishThrows(pic[b])
                THEN main' = Idle /\ reports' = Report(b)
                ELSE main' = next /\ UNCHANGED reports
  BY DEF FinishDone
<1> HIDE DEF next
<1>5. main' \in {next, Idle}
  BY <1>4
<1>6. /\ MainTypes(main') /\ main'.pc \in {"flushOut", "output", "idle"} /\ main'.done = NoPic
      /\ main'.cur = NoPic /\ main'.outPic \in {main.outPic, NoPic}
      /\ main'.pc = "flushOut" => main'.flushing /\ main.flushing
      /\ main'.pc # "flushOut" => main'.flushing = FALSE /\ main'.outPic = NoPic
      /\ main'.pc = "output" => ~main.flushing
  BY <1>1, <1>2, <1>3, <1>5
<1>7. MoreNals' = MoreNals /\ parseList' = parseList /\ instances' = instances
      /\ held' = held /\ out' = out /\ parsePic' = parsePic
  BY <1>1 DEF MoreNals, stream, parserVars, outputVars
<1>8. CallPlace'
  BY <1>1, <1>6, <1>7 DEF CallPlace, ParserPc, DecodePc, FlushPc
<1>9. ParserAway
  BY <1>1, <1>6 DEF ParserAway, DecodePc, ReconPc
<1>10. CASE b = NoPic
  <2>1. main' = next /\ UNCHANGED <<pic, reports>>
    BY <1>4, <1>10
  <2>2. main'.outPic = main.outPic /\ main'.done = main.done
    BY <1>2, <1>10, <2>1
  <2>3. out' \in Seq(Nat)
    BY <1>1, <1>7 DEF TypeOK
  <2> QED
    BY <1>1, <1>6, <1>7, <1>8, <1>9, <2>1, <2>2, <2>3, OnlyMain DEF parserVars, outputVars
<1>11. CASE b # NoPic
  <2>1. b \in InList /\ b \in Bufs /\ b \notin Waiting \cup InWork
    BY <1>1, <1>11 DEF IndInv, OwnersApart
  <2>2. FoundAs(pic, b)
    <3>1. pic[b].queue = {} /\ ~pic[b].recon /\ SoundPicture(pic[b])
      BY <1>11, <2>1 DEF IndInv, OwnersState, PicturesSound
    <3> QED
      BY <3>1 DEF FoundAs
  <2>3. LetGo(b)
    <3>1. Waiting' = Waiting /\ InWork' = InWork
      BY <1>1, <1>6, <1>7 DEF Waiting, InWork
    <3> QED
      BY <1>1, <1>6, <1>7, <2>1, <3>1 DEF LetGo
  <2>4. reports' \in [DOMAIN stream -> Nat]
    BY <1>1, <1>4, <1>11, <2>1, ReportType DEF TypeOK
  <2>5. pic' = Finish(pic, b)
    BY <1>4, <1>11
  <2> HIDE DEF b
  <2>6. TRUE \in BOOLEAN
    OBVIOUS
  <2> QED
    BY <1>1, <1>6, <1>8, <1>9, <2>1, <2>2, <2>3, <2>4, <2>5, <2>6, FinishStep
<1> QED
  BY <1>10, <1>11

\* waitForPrevDecompressedPic leaves a picture as it is but for its error flag.
LEMMA AfterWaitIs ==
  ASSUME NEW p \in Picture, SoundPicture(p)
  PROVE  LET q == AfterWait(p)
         IN /\ q \in Picture /\ SoundPicture(q)
            /\ q.refs = p.refs /\ q.cts = p.cts /\ q.wasLost = p.wasLost
            /\ q.complete = p.complete /\ q.exceptionThrownOut = p.exceptionThrownOut
            /\ q.stillReferenced = p.stillReferenced
            /\ q.queue = p.queue /\ q.recon = p.recon /\ q.progress = p.progress
            /\ q.reconDone = p.reconDone /\ q.lockedByApplication = p.lockedByApplication
<1> DEFINE q == AfterWait(p)
           err == p.error \/ p.reconDone = "error"
<1>1. err \in BOOLEAN
  BY Fields
<1>2. q = [p EXCEPT !.error = err]
  BY DEF AfterWait
<1>3. ASSUME NEW u \in BOOLEAN, q = [p EXCEPT !.error = u]
      PROVE  /\ q \in Picture
             /\ q.refs = p.refs /\ q.cts = p.cts /\ q.wasLost = p.wasLost
             /\ q.complete = p.complete /\ q.exceptionThrownOut = p.exceptionThrownOut
             /\ q.stillReferenced = p.stillReferenced /\ q.parseDone = p.parseDone
             /\ q.queue = p.queue /\ q.recon = p.recon /\ q.progress = p.progress
             /\ q.slices = p.slices /\ q.parsedSlices = p.parsedSlices
             /\ q.dpbReferenceMark = p.dpbReferenceMark /\ q.parseFailed = p.parseFailed
             /\ q.reconDone = p.reconDone /\ q.lockedByApplication = p.lockedByApplication
  <2> HIDE DEF q
  <2> QED
    BY <1>3 DEF Picture
<1> HIDE DEF q, err
<1>4. /\ q \in Picture
      /\ q.refs = p.refs /\ q.cts = p.cts /\ q.wasLost = p.wasLost
      /\ q.complete = p.complete /\ q.exceptionThrownOut = p.exceptionThrownOut
      /\ q.stillReferenced = p.stillReferenced /\ q.parseDone = p.parseDone
      /\ q.queue = p.queue /\ q.recon = p.recon /\ q.progress = p.progress
      /\ q.slices = p.slices /\ q.parsedSlices = p.parsedSlices
      /\ q.dpbReferenceMark = p.dpbReferenceMark /\ q.parseFailed = p.parseFailed
      /\ q.reconDone = p.reconDone /\ q.lockedByApplication = p.lockedByApplication
  BY <1>1, <1>2, <1>3, Zenon
<1>5. SoundPicture(q)
  BY <1>4 DEF SoundPicture
<1> QED
  BY <1>4, <1>5 DEF q

\* Where waitForPrevDecompressedPic returns, the tasks of the picture are over.
LEMMA WaitedOver ==
  ASSUME IndInv, NEW b \in InWork, Waited(b)
  PROVE  LET P == WaitedPic(b)
         IN /\ P \in [Bufs -> Picture] /\ FoundAs(P, b)
            /\ P[b].progress \in {reconstructing, reconstructed}
            /\ P[b].progress = pic[b].progress
            /\ P[b].lockedByApplication = pic[b].lockedByApplication
<1> DEFINE p == pic[b]  q == AfterWait(p)  P == WaitedPic(b)
<1>1. b \in InList /\ b \in Bufs /\ b # NoPic /\ pic \in [Bufs -> Picture] /\ p \in Picture
  BY State, Constants DEF IndInv, InWork
<1>2. SoundPicture(p) /\ p.progress \in {reconstructing, reconstructed}
  BY <1>1 DEF IndInv, OwnersState, PicturesSound
<1>3. p.queue = {} /\ ~p.recon
  <2>1. p.reconDone # "locked" /\ (p.reconDone = "error" => TasksDone(p))
    BY <1>1 DEF Waited
  <2>2. p.reconDone \in {"unlocked", "error"}
    BY <1>1, <2>1, Fields DEF BarrierState
  <2> QED
    BY <2>1, <2>2 DEF TasksDone, IndInv, OwnersState
<1> HIDE DEF p
<1>4. /\ q \in Picture /\ SoundPicture(q)
      /\ q.refs = p.refs /\ q.cts = p.cts /\ q.wasLost = p.wasLost
      /\ q.complete = p.complete /\ q.exceptionThrownOut = p.exceptionThrownOut
      /\ q.stillReferenced = p.stillReferenced
      /\ q.queue = p.queue /\ q.recon = p.recon /\ q.progress = p.progress
      /\ q.lockedByApplication = p.lockedByApplication
  BY <1>1, <1>2, AfterWaitIs
<1>5. P = [pic EXCEPT ![b] = q]
  BY DEF WaitedPic, p
<1> HIDE DEF q, P
<1>6. P \in [Bufs -> Picture] /\ P[b] = q /\ \A x \in Bufs \ {b} : P[x] = pic[x]
  BY <1>1, <1>4, <1>5
<1>7. FoundAs(P, b)
  BY <1>3, <1>4, <1>6 DEF FoundAs, p
<1> QED
  BY <1>2, <1>4, <1>6, <1>7 DEF P, p

LEMMA BlockAndFinishStep ==
  ASSUME IndInv, BlockAndFinish
  PROVE  IndInv' /\ \A x \in Bufs : pic[x].progress = finished => pic'[x].progress = finished
<1> DEFINE i == SelectInSeq(instances, LAMBDA x : x # NoPic)
           b == instances[i]
           I == {k \in 1..Len(instances) : instances[k] # NoPic}
<1>1. /\ main.pc = "block" /\ TypeOK /\ main.flushing = TRUE /\ ~MoreNals
      /\ main.done = NoPic /\ main.outPic = NoPic /\ parseList = <<>>
      /\ InList \subseteq Bufs /\ NoPic \notin InList
      /\ instances \in [1..Instances -> InList \cup {NoPic}]
      /\ UNCHANGED <<setup, nal, list, parserVars, outputVars, faults>>
  BY State DEF IndInv, BlockAndFinish, CallPlace, FlushPc
<1>2. Len(instances) = Instances /\ Instances \in Nat
  <2>1. instances \in Seq(InList \cup {NoPic}) /\ DOMAIN instances = 1..Instances
        /\ Instances \in Nat
    BY <1>1, Constants, IsASeq
  <2> QED
    BY <2>1, LenProperties
<1>3. i = IF I # {} THEN Min(I) ELSE 0
  BY DEF SelectInSeq
<1>4. (i = 0 => I = {}) /\ (i # 0 => i \in I)
  <2>1. I \in SUBSET Nat /\ 0 \notin I
    BY <1>2
  <2> HIDE DEF I
  <2> QED
    BY <1>3, <2>1, SelectedFirst
<1>5. BlockAndFinish =>
        IF i = 0
        THEN main' = [main EXCEPT !.pc = "flushLast"] /\ UNCHANGED <<pic, instances, reports>>
        ELSE /\ Waited(b)
             /\ pic' = Finish(WaitedPic(b), b)
             /\ instances' = [instances EXCEPT ![i] = NoPic]
             /\ IF FinishThrows(WaitedPic(b)[b])
                THEN main' = Idle /\ reports' = Report(b)
                ELSE UNCHANGED <<main, reports>>
  BY DEF BlockAndFinish
<1> HIDE DEF i
<1>6. MoreNals' = MoreNals /\ parseList' = parseList /\ held' = held /\ out' = out
      /\ parsePic' = parsePic
  BY <1>1 DEF MoreNals, stream, parserVars, outputVars
<1>7. CASE i = 0
  <2>1. main' = [main EXCEPT !.pc = "flushLast"] /\ UNCHANGED <<pic, instances, reports>>
    BY <1>5, <1>7
  <2>2. ToSet(instances) = {NoPic}
    BY <1>1, <1>2, <1>4, <1>7, Constants DEF ToSet
  <2>3. /\ MainTypes(main') /\ main'.pc = "flushLast" /\ main'.done = main.done
        /\ main'.outPic = main.outPic /\ main'.flushing = TRUE
    BY <1>1, <2>1, MainFields DEF MainPcs, FlushPc
  <2>4. CallPlace'
    BY <1>1, <1>6, <2>1, <2>2, <2>3 DEF CallPlace, ParserPc, DecodePc, FlushPc
  <2>5. ParserAway
    BY <1>1, <2>3 DEF ParserAway
  <2>6. out' \in Seq(Nat)
    BY <1>1, <1>6 DEF TypeOK
  <2> QED
    BY <1>1, <1>6, <2>1, <2>3, <2>4, <2>5, <2>6, OnlyMain DEF parserVars, outputVars
<1>8. CASE i # 0
  <2>1. /\ i \in 1..Instances /\ b # NoPic /\ b \in InList /\ b \in InWork
        /\ b \notin Waiting /\ b \in Bufs
    BY <1>1, <1>2, <1>4, <1>8, State DEF InWork, IndInv, OwnersApart
  <2>2. /\ Waited(b) /\ pic' = Finish(WaitedPic(b), b)
        /\ instances' = [instances EXCEPT ![i] = NoPic]
        /\ IF FinishThrows(WaitedPic(b)[b])
           THEN main' = Idle /\ reports' = Report(b)
           ELSE UNCHANGED <<main, reports>>
    BY <1>5, <1>8
  <2>3. /\ MainTypes(Idle) /\ Idle.pc = "idle" /\ Idle.done = NoPic /\ Idle.outPic = NoPic
        /\ Idle.flushing = FALSE /\ Idle.cur = NoPic
    BY <1>1, MainFields DEF Idle
  <2>4. /\ MainTypes(main') /\ main'.pc \in {"block", "idle"} /\ main'.done = NoPic
        /\ main'.outPic \in {main.outPic, NoPic}
        /\ main'.pc = "block" => main'.flushing = TRUE
        /\ main'.pc = "idle" => main' = Idle
    <3>1. main' = Idle \/ main' = main
      BY <2>2
    <3> QED
      BY <1>1, <2>3, <3>1, MainFields
  <2>5. CallPlace'
    BY <1>1, <1>6, <2>3, <2>4 DEF CallPlace, ParserPc, DecodePc, FlushPc
  <2>6. ParserAway
    BY <1>1, <2>3, <2>4 DEF ParserAway, DecodePc, ReconPc, FlushPc
  <2>7. reports' \in [DOMAIN stream -> Nat]
    BY <1>1, <2>1, <2>2, ReportType DEF TypeOK
  <2>8. /\ instances' \in [1..Instances -> InList \cup {NoPic}]
        /\ instances'[i] = NoPic
        /\ \A k \in (1..Instances) \ {i} : instances'[k] = instances[k]
    BY <1>1, <2>1, <2>2
  <2>9. LetGo(b)
    <3>1. Waiting' = Waiting
      BY <1>1, <1>6, <2>3, <2>4 DEF Waiting
    <3>2. \A k \in 1..Instances : instances[k] = b => k = i
      BY <2>1 DEF IndInv, OwnersApart
    <3>3. DOMAIN instances = 1..Instances /\ DOMAIN instances' = 1..Instances
      BY <1>1, <2>8
    <3>4. ASSUME NEW x \in InWork' PROVE x \in InWork \ {b}
      <4>1. PICK k \in 1..Instances : instances'[k] = x /\ x # NoPic
        BY <3>3 DEF InWork, ToSet
      <4>2. k # i /\ instances[k] = x
        BY <2>8, <4>1
      <4> QED
        BY <3>2, <3>3, <4>1, <4>2 DEF InWork, ToSet
    <3>5. ASSUME NEW x \in InWork \ {b} PROVE x \in InWork'
      <4>1. PICK k \in 1..Instances : instances[k] = x /\ x # NoPic
        BY <3>3 DEF InWork, ToSet
      <4>2. k # i
        BY <4>1
      <4>3. instances'[k] = x
        BY <2>8, <4>1, <4>2
      <4> QED
        BY <3>3, <4>1, <4>3 DEF InWork, ToSet
    <3>6. InWork' = InWork \ {b}
      BY <3>4, <3>5
    <3>7. \A k \in 1..Instances : instances'[k] \in {instances[k], NoPic}
      BY <2>8
    <3> QED
      BY <1>1, <2>1, <2>4, <2>8, <3>1, <3>6, <3>7 DEF LetGo
  <2> HIDE DEF b
  <2>10. WaitedPic(b) \in [Bufs -> Picture] /\ FoundAs(WaitedPic(b), b)
    BY <2>1, <2>2, WaitedOver
  <2>11. TRUE \in BOOLEAN
    OBVIOUS
  <2> QED
    BY <1>1, <2>1, <2>2, <2>4, <2>5, <2>6, <2>7, <2>9, <2>10, <2>11, FinishStep
<1> QED
  BY <1>7, <1>8

\* The front instance moves to the end of the list with another picture c.
Turned(f, c) == Append(Tail(f), c)
Behind(f) == {f[k] : k \in (1..Instances) \ {1}}

LEMMA Rotated ==
  ASSUME NEW S, NEW f \in [1..Instances -> S], NEW c \in S
  PROVE  LET g == Turned(f, c) IN
         /\ g \in [1..Instances -> S] /\ g[Instances] = c /\ 1 \in 1..Instances
         /\ Instances \in 1..Instances
         /\ \A k \in 1..Instances : k # Instances => g[k] = f[k + 1] /\ k + 1 \in 1..Instances
<1> DEFINE g == Turned(f, c)
<1>1. f \in Seq(S) /\ Len(f) = Instances /\ Instances \in Nat /\ Instances >= 1
  <2>1. f \in Seq(S) /\ DOMAIN f = 1..Instances /\ Instances \in Nat /\ Instances >= 1
    BY Constants, IsASeq
  <2> QED
    BY <2>1, LenProperties
<1>2. /\ Tail(f) \in Seq(S) /\ Len(Tail(f)) = Instances - 1
      /\ \A k \in 1..(Instances - 1) : Tail(f)[k] = f[k + 1]
  BY <1>1, HeadTailProperties, EmptySeq
<1>3. /\ g \in Seq(S) /\ Len(g) = Instances /\ g[Instances] = c
      /\ \A k \in 1..(Instances - 1) : g[k] = Tail(f)[k]
  <2> DEFINE t == Tail(f)
  <2>1. t \in Seq(S) /\ Len(t) = Instances - 1
    BY <1>2
  <2> HIDE DEF t
  <2>2. /\ Append(t, c) \in Seq(S) /\ Len(Append(t, c)) = Len(t) + 1
        /\ \A k \in 1..Len(t) : Append(t, c)[k] = t[k]
        /\ Append(t, c)[Len(t) + 1] = c
    BY <2>1, AppendProperties
  <2>3. g = Append(t, c)
    BY DEF t, Turned
  <2> HIDE DEF g
  <2> QED
    BY <1>1, <2>1, <2>2, <2>3 DEF t
<1>4. g \in [1..Instances -> S] /\ DOMAIN g = 1..Instances
  BY <1>1, <1>3, LenProperties, ElementOfSeq
<1>5. \A k \in 1..Instances : k # Instances => g[k] = f[k + 1] /\ k + 1 \in 1..Instances
  BY <1>1, <1>2, <1>3
<1> QED
  BY <1>1, <1>3, <1>4, <1>5

LEMMA RotatedSet ==
  ASSUME NEW S, NEW f \in [1..Instances -> S], NEW c \in S
  PROVE  ToSet(Turned(f, c)) = Behind(f) \cup {c}
<1> DEFINE g == Turned(f, c)
<1>1. Instances \in Nat /\ Instances >= 1
  BY Constants
<1>2. g \in [1..Instances -> S] /\ g[Instances] = c /\ DOMAIN g = 1..Instances
  BY Rotated
<1>3. \A k \in 1..Instances : k # Instances => g[k] = f[k + 1] /\ k + 1 \in 1..Instances
  BY Rotated
<1> HIDE DEF g
<1>4. ToSet(g) \subseteq {f[k] : k \in (1..Instances) \ {1}} \cup {c}
  <2> SUFFICES ASSUME NEW k \in 1..Instances, g[k] # c
               PROVE  g[k] \in {f[j] : j \in (1..Instances) \ {1}}
    BY <1>2 DEF ToSet
  <2>1. g[k] = f[k + 1] /\ k + 1 \in (1..Instances) \ {1}
    BY <1>1, <1>2, <1>3
  <2> QED
    BY <2>1
<1>5. {f[k] : k \in (1..Instances) \ {1}} \cup {c} \subseteq ToSet(g)
  <2>1. c \in ToSet(g)
    BY <1>1, <1>2 DEF ToSet
  <2>2. ASSUME NEW k \in (1..Instances) \ {1} PROVE f[k] \in ToSet(g)
    <3>1. k - 1 \in 1..Instances /\ k - 1 # Instances /\ (k - 1) + 1 = k
      BY <1>1
    <3>2. g[k - 1] = f[(k - 1) + 1]
      BY <1>3, <3>1
    <3>3. g[k - 1] = f[k]
      BY <3>1, <3>2
    <3> QED
      BY <1>2, <3>1, <3>3 DEF ToSet
  <2> QED
    BY <2>1, <2>2
<1> QED
  BY <1>4, <1>5 DEF g, Behind

LEMMA WaitForPrevStep ==
  ASSUME IndInv, WaitForPrev
  PROVE  IndInv' /\ \A x \in Bufs : pic[x].progress = finished => pic'[x].progress = finished
<1> DEFINE c == main.cur  prev == instances[1]
           P == IF prev = NoPic THEN pic ELSE WaitedPic(prev)
<1>1. /\ main.pc = "recon" /\ TypeOK /\ c \in InList /\ c \in Bufs /\ c \in Waiting
      /\ c \notin ToSet(parseList) /\ c \notin InWork /\ c # NoPic
      /\ InList \subseteq Bufs /\ NoPic \notin InList /\ pic \in [Bufs -> Picture]
      /\ main.done = NoPic /\ main.flushing \in BOOLEAN
      /\ (main.flushing => ~MoreNals) /\ (~main.flushing => main.outPic = NoPic)
      /\ (~main.flushing => parsePic # NoPic /\ pic[parsePic].complete)
      /\ instances \in [1..Instances -> InList \cup {NoPic}]
  BY Owned, State DEF IndInv, WaitForPrev, CallPlace, OwnersApart, ParsedLast, ReconPc
<1>2. /\ pic' = [P EXCEPT ![c] = [P[c] EXCEPT !.progress = reconstructing]]
      /\ main' = [main EXCEPT !.pc = "ext", !.done = prev]
      /\ instances' = Append(Tail(instances), c)
      /\ Waited(prev)
      /\ UNCHANGED <<setup, nal, list, parserVars, outputVars, reports, faults>>
  BY DEF WaitForPrev
<1>3. /\ instances' \in [1..Instances -> InList \cup {NoPic}] /\ instances'[Instances] = c
      /\ 1 \in 1..Instances /\ Instances \in 1..Instances
      /\ \A k \in 1..Instances :
           k # Instances => instances'[k] = instances[k + 1] /\ k + 1 \in 1..Instances
      /\ \A x : x \in ToSet(instances') <=> x = c \/ \E k \in (1..Instances) \ {1} : x = instances[k]
  <2> DEFINE S == InList \cup {NoPic}
  <2>1. instances \in [1..Instances -> S] /\ c \in S
    BY <1>1
  <2>2. instances' = Append(Tail(instances), c)
    BY <1>2
  <2> HIDE DEF S
  <2>3. instances' = Turned(instances, c)
    BY <2>2 DEF Turned
  <2> HIDE DEF c
  <2>4. /\ instances' \in [1..Instances -> S] /\ instances'[Instances] = c
        /\ 1 \in 1..Instances /\ Instances \in 1..Instances
        /\ \A k \in 1..Instances :
             k # Instances => instances'[k] = instances[k + 1] /\ k + 1 \in 1..Instances
    BY <2>1, <2>3, Rotated
  <2>5. ToSet(instances') = Behind(instances) \cup {c}
    BY <2>1, <2>3, RotatedSet
  <2> QED
    BY <2>4, <2>5 DEF S, Behind
<1>4. prev \in InList \cup {NoPic} /\ prev \in ToSet(instances) /\ DOMAIN instances = 1..Instances
  BY <1>1, <1>3, State
<1>5. prev # NoPic => prev \in InWork /\ prev \in Bufs /\ prev # c /\ prev \notin ToSet(parseList)
  BY <1>1, <1>4 DEF InWork, IndInv, OwnersApart, Waiting
<1>6. InWork' = (InWork \ {prev}) \cup {c}
  <2>1. \A k \in (1..Instances) \ {1} : instances[k] # NoPic => instances[k] # prev
    BY <1>3 DEF IndInv, OwnersApart
  <2>2. \A x : x \in ToSet(instances)
               <=> x = prev \/ \E k \in (1..Instances) \ {1} : x = instances[k]
    BY <1>3, <1>4 DEF ToSet
  <2> QED
    BY <1>1, <1>3, <2>1, <2>2 DEF InWork
<1>7. /\ MainTypes(main') /\ main'.pc = "ext" /\ main'.cur = c /\ main'.done = prev
      /\ main'.outPic = main.outPic /\ main'.flushing = main.flushing
  <2>1. \A d \in InList \cup {NoPic} :
          LET m == [main EXCEPT !.pc = "ext", !.done = d]
          IN /\ MainTypes(m) /\ m.pc = "ext" /\ m.cur = main.cur /\ m.done = d
             /\ m.outPic = main.outPic /\ m.flushing = main.flushing
    BY <1>1, MainFields DEF MainTypes, MainPcs, ReconPc
  <2> HIDE DEF prev
  <2> QED
    BY <1>2, <1>4, <2>1
<1>8. parseList' = parseList /\ held' = held /\ MoreNals' = MoreNals
  BY <1>2 DEF parserVars, outputVars, MoreNals, stream
<1>9. Waiting' = Waiting \ {c} /\ Waiting' = ToSet(parseList)
  BY <1>1, <1>7, <1>8 DEF Waiting
<1>10. /\ P \in [Bufs -> Picture] /\ P[c] = pic[c]
       /\ \A x \in Bufs \ {prev} : P[x] = pic[x]
       /\ prev # NoPic => FoundAs(P, prev) /\ P[prev].progress \in {reconstructing, reconstructed}
                          /\ P[prev].progress = pic[prev].progress
  <2>1. CASE prev = NoPic
    BY <1>1, <2>1, Constants
  <2>2. CASE prev # NoPic
    <3>1. P = WaitedPic(prev) /\ prev \in InWork /\ Waited(prev)
      BY <1>2, <1>5, <2>2
    <3> HIDE DEF P, prev
    <3>2. /\ P \in [Bufs -> Picture] /\ FoundAs(P, prev)
          /\ P[prev].progress \in {reconstructing, reconstructed}
          /\ P[prev].progress = pic[prev].progress
      BY <3>1, WaitedOver
    <3> QED
      BY <1>1, <1>5, <2>2, <3>2 DEF FoundAs
  <2> QED
    BY <2>1, <2>2
<1> DEFINE p == pic[c]  q == pic'[c]
<1>11. p \in Picture /\ SoundPicture(p) /\ p.progress \in {parsing, parsed} /\ p.reconDone = "locked"
  BY <1>1 DEF IndInv, OwnersState, PicturesSound
<1>12. /\ q = [p EXCEPT !.progress = reconstructing] /\ pic' = [P EXCEPT ![c] = q]
       /\ \A x \in Bufs \ {c} : pic'[x] = P[x]
  <2>1. DOMAIN P = Bufs
    BY <1>10
  <2> HIDE DEF P, c
  <2> QED
    BY <1>1, <1>2, <1>10, <2>1
<1>13. /\ q \in Picture /\ q.progress = reconstructing /\ q.reconDone = p.reconDone
       /\ q.refs = p.refs /\ q.cts = p.cts /\ q.wasLost = p.wasLost
       /\ q.complete = p.complete /\ q.exceptionThrownOut = p.exceptionThrownOut
       /\ q.stillReferenced = p.stillReferenced /\ q.parseDone = p.parseDone
       /\ q.queue = p.queue /\ q.recon = p.recon
       /\ q.slices = p.slices /\ q.parsedSlices = p.parsedSlices
       /\ q.dpbReferenceMark = p.dpbReferenceMark /\ q.parseFailed = p.parseFailed
  <2>1. p \in Picture /\ q = [p EXCEPT !.progress = reconstructing]
    BY <1>11, <1>12
  <2> HIDE DEF p, q
  <2> QED
    BY <2>1, Ranges DEF Picture
<1>14. SoundPicture(q)
  <2> HIDE DEF p, q
  <2> QED
    BY <1>11, <1>13 DEF SoundPicture, parsing, parsed, reconstructing, reconstructed, finished
<1>15. pic' \in [Bufs -> Picture]
  <2> HIDE DEF P, q
  <2> QED
    BY <1>10, <1>12, <1>13
<1>16. Advances(c)
  <2>1. p.progress <= q.progress
    BY <1>11, <1>13 DEF parsing, parsed, reconstructing
  <2>2. c \notin Waiting' /\ c \in InWork' /\ c # main'.done
    BY <1>1, <1>5, <1>6, <1>7, <1>9
  <2> HIDE DEF P
  <2> QED
    BY <1>11, <1>13, <1>14, <2>1, <2>2 DEF Advances
<1>17. prev # NoPic => Advances(prev)
  <2> SUFFICES ASSUME prev # NoPic PROVE Advances(prev)
    OBVIOUS
  <2>1. pic'[prev] = P[prev] /\ prev \notin Waiting' /\ prev \notin InWork'
    BY <1>5, <1>6, <1>9, <1>12
  <2>2. pic[prev].progress \in Int
    BY <1>1, <1>5, Fields
  <2> HIDE DEF P, prev
  <2> QED
    BY <1>7, <1>10, <2>1, <2>2 DEF Advances, FoundAs
<1>18. \A x \in Bufs : Untouched(x) \/ (x \in InList /\ Advances(x))
  <2> SUFFICES ASSUME NEW x \in Bufs, x # c, x # prev PROVE Untouched(x)
    BY <1>1, <1>4, <1>16, <1>17, Constants
  <2> HIDE DEF P, c, prev
  <2> QED
    BY <1>6, <1>7, <1>9, <1>10, <1>12 DEF Untouched
<1>19. OwnerTypes
  BY <1>1, <1>2, <1>3, <1>7, State DEF OwnerTypes, TypeOK, parserVars, outputVars
<1>20. ParserAway
  BY <1>1, <1>7 DEF ParserAway
<1>21. NoneDropped
  BY <1>1, <1>6, <1>7, <1>9 DEF NoneDropped
<1>22. CallPlace'
  <2>1. c \in ToSet(instances') \ {NoPic}
    BY <1>1, <1>3
  <2> QED
    BY <1>1, <1>7, <1>8, <2>1 DEF CallPlace, ParserPc, DecodePc, FlushPc
<1>23. OwnersApart'
  <2>1. \A j, k \in 1..Instances :
          instances'[j] = instances'[k] => j = k \/ instances'[j] = NoPic
    <3> SUFFICES ASSUME NEW j \in 1..Instances, NEW k \in 1..Instances,
                        instances'[j] = instances'[k], instances'[j] # NoPic
                 PROVE  j = k
      OBVIOUS
    <3>1. \A m \in 1..Instances : m # Instances => instances'[m] \in InWork \cup {NoPic}
      BY <1>1, <1>3, <1>4 DEF InWork, ToSet
    <3>2. CASE j = Instances \/ k = Instances
      BY <1>1, <1>3, <3>1, <3>2
    <3>3. CASE j # Instances /\ k # Instances
      <4>1. j + 1 = k + 1
        BY <1>3, <3>3 DEF IndInv, OwnersApart
      <4> QED
        BY <4>1
    <3> QED
      BY <3>2, <3>3
  <2>2. Waiting' \cap InWork' = {} /\ main'.done \notin Waiting' \cup InWork'
    <3>1. Waiting \cap InWork = {} /\ ToSet(parseList) \subseteq InList
      BY State DEF IndInv, OwnersApart
    <3> QED
      BY <1>1, <1>5, <1>6, <1>7, <1>9, <3>1 DEF InWork
  <2> QED
    BY <1>7, <1>8, <2>1, <2>2 DEF OwnersApart, IndInv
<1>24. CodingOrder'
  <2>1. \A x \in Bufs : pic'[x].refs = pic[x].refs
    BY <1>18 DEF Untouched, Advances
  <2> QED
    BY <1>1, <1>7, <1>8, <2>1, State DEF CodingOrder, IndInv
<1>25. FramesLocked'
  <2>1. \A x \in held \cup ({main.outPic} \ {NoPic}) :
          x \in Bufs /\ x \notin Waiting \cup InWork
    BY Owned DEF IndInv, FramesLocked, OwnersState, parsing, parsed, reconstructing,
                 reconstructed, finished
  <2>2. \A x \in Bufs : x \notin Waiting \cup InWork => pic'[x] = pic[x]
    BY <1>1, <1>5, <1>10, <1>12, Constants
  <2> QED
    BY <1>7, <1>8, <2>1, <2>2 DEF FramesLocked, IndInv
<1> QED
  BY <1>15, <1>18, <1>19, <1>20, <1>21, <1>22, <1>23, <1>24, <1>25, OwnersGoOn

\* decompressPicture ends: the picture it was about goes on with its instance.
LEMMA ScheduledStep ==
  ASSUME IndInv, main.pc = "ext", main' = [main EXCEPT !.pc = "finish"],
         UNCHANGED <<setup, nal, list, parserVars, instances, outputVars, reports, faults>>,
         NEW q \in Picture, pic' = [pic EXCEPT ![main.cur] = q],
         LET p == pic[main.cur]
         IN /\ SoundPicture(p) /\ p.progress \in {reconstructing, reconstructed} => SoundPicture(q)
            /\ q.refs = p.refs /\ q.cts = p.cts /\ q.wasLost = p.wasLost
            /\ q.complete = p.complete /\ q.exceptionThrownOut = p.exceptionThrownOut
            /\ q.stillReferenced = p.stillReferenced /\ q.progress = p.progress
            /\ q.reconDone # "unlocked"
  PROVE  IndInv' /\ \A x \in Bufs : pic[x].progress = finished => pic'[x].progress = finished
<1> DEFINE c == main.cur  p == pic[c]
<1>1. /\ TypeOK /\ c \in InList /\ c \in Bufs /\ c \in InWork
      /\ c \notin Waiting /\ c # main.done /\ c # NoPic
      /\ InList \subseteq Bufs /\ NoPic \notin InList /\ pic \in [Bufs -> Picture]
      /\ main.done \in InList \cup {NoPic} /\ main.flushing \in BOOLEAN
      /\ (main.flushing => ~MoreNals) /\ (~main.flushing => main.outPic = NoPic)
      /\ (~main.flushing => parsePic # NoPic /\ pic[parsePic].complete)
      /\ c \in ToSet(instances) \ {NoPic}
      /\ p.progress \in {reconstructing, reconstructed} /\ SoundPicture(p)
  BY Owned, State DEF IndInv, CallPlace, OwnersApart, ParsedLast, ReconPc, OwnersState,
                      PicturesSound
<1>2. /\ MainTypes(main') /\ main'.pc = "finish" /\ main'.cur = c /\ main'.done = main.done
      /\ main'.outPic = main.outPic /\ main'.flushing = main.flushing
  BY <1>1, MainFields DEF MainPcs, ReconPc
<1>3. /\ parseList' = parseList /\ held' = held /\ MoreNals' = MoreNals
      /\ instances' = instances
  BY DEF parserVars, outputVars, MoreNals, stream
<1>4. Waiting' = Waiting /\ InWork' = InWork
  BY <1>2, <1>3 DEF Waiting, InWork
<1>5. pic' \in [Bufs -> Picture] /\ pic'[c] = q /\ \A x \in Bufs \ {c} : pic'[x] = pic[x]
  BY <1>1
<1>6. Advances(c)
  <2>1. p.progress \in Int
    BY <1>1, Fields
  <2> QED
    BY <1>1, <1>2, <1>4, <1>5, <2>1 DEF Advances
<1>7. \A x \in Bufs : Untouched(x) \/ (x \in InList /\ Advances(x))
  BY <1>1, <1>2, <1>4, <1>5, <1>6 DEF Untouched
<1>8. OwnerTypes
  BY <1>1, <1>2, <1>3, State DEF OwnerTypes, TypeOK, parserVars, outputVars
<1>9. ParserAway
  BY <1>1, <1>2 DEF ParserAway
<1>10. NoneDropped
  BY <1>2, <1>4 DEF NoneDropped
<1>11. CallPlace'
  BY <1>1, <1>2, <1>3 DEF CallPlace, ParserPc, DecodePc, FlushPc
<1>12. OwnersApart'
  BY <1>2, <1>3, <1>4 DEF OwnersApart, IndInv
<1>13. CodingOrder'
  <2>1. \A x \in Bufs : pic'[x].refs = pic[x].refs
    BY <1>5
  <2> QED
    BY <1>2, <1>3, <2>1, State DEF CodingOrder, IndInv
<1>14. FramesLocked'
  <2>1. \A x \in held \cup ({main.outPic} \ {NoPic}) : x \in Bufs /\ x # c
    BY <1>1, Owned DEF IndInv, FramesLocked, reconstructing, reconstructed, finished
  <2> QED
    BY <1>2, <1>3, <1>5, <2>1 DEF FramesLocked, IndInv
<1> QED
  BY <1>5, <1>7, <1>8, <1>9, <1>10, <1>11, <1>12, <1>13, <1>14, OwnersGoOn

LEMMA NotScheduledStep ==
  ASSUME IndInv, main.pc = "ext", NotScheduled,
         UNCHANGED <<setup, nal, list, parserVars, instances, outputVars, reports, faults>>
  PROVE  IndInv' /\ \A x \in Bufs : pic[x].progress = finished => pic'[x].progress = finished
<1> DEFINE p == pic[main.cur]
           q == [p EXCEPT !.error = TRUE, !.reconDone = "error"]
<1>1. pic' = [pic EXCEPT ![main.cur] = q] /\ main' = [main EXCEPT !.pc = "finish"]
  BY DEF NotScheduled
<1>2. p \in Picture
  BY Owned, State DEF IndInv
<1>3. /\ q \in Picture
      /\ q.refs = p.refs /\ q.cts = p.cts /\ q.wasLost = p.wasLost
      /\ q.complete = p.complete /\ q.exceptionThrownOut = p.exceptionThrownOut
      /\ q.stillReferenced = p.stillReferenced /\ q.progress = p.progress
      /\ q.reconDone # "unlocked" /\ q.parseDone = p.parseDone
      /\ q.queue = p.queue /\ q.recon = p.recon
      /\ q.slices = p.slices /\ q.parsedSlices = p.parsedSlices
      /\ q.dpbReferenceMark = p.dpbReferenceMark /\ q.parseFailed = p.parseFailed
  <2> HIDE DEF p
  <2> QED
    BY <1>2, Ranges, Zenon DEF Picture
<1> HIDE DEF q
<1>4. SoundPicture(p) => SoundPicture(q)
  <2> HIDE DEF p
  <2> QED
    BY <1>3 DEF SoundPicture
<1> QED
  BY <1>1, <1>3, <1>4, ScheduledStep

LEMMA ScheduleStep ==
  ASSUME IndInv, Schedule
  PROVE  IndInv' /\ \A x \in Bufs : pic[x].progress = finished => pic'[x].progress = finished
<1> DEFINE p == pic[main.cur]
           q == Scheduled(p)
           err == p.error \/ p.parseFailed
           done == IF p.parseFailed THEN "error" ELSE "locked"
<1>1. /\ pic' = [pic EXCEPT ![main.cur] = q] /\ main' = [main EXCEPT !.pc = "finish"]
      /\ main.pc = "ext"
      /\ UNCHANGED <<setup, nal, list, parserVars, instances, outputVars, reports, faults>>
  BY DEF Schedule
<1>2. p \in Picture
  BY <1>1, Owned, State DEF IndInv
<1>3. err \in BOOLEAN /\ done \in {"error", "locked"}
  BY <1>2, Fields
<1>4. q = [p EXCEPT !.recon = TRUE, !.error = err, !.reconDone = done]
  BY DEF Scheduled
<1>5. ASSUME NEW u \in BOOLEAN, NEW v \in {"error", "locked"},
             q = [p EXCEPT !.recon = TRUE, !.error = u, !.reconDone = v]
      PROVE  /\ q \in Picture
             /\ q.refs = p.refs /\ q.cts = p.cts /\ q.wasLost = p.wasLost
             /\ q.complete = p.complete /\ q.exceptionThrownOut = p.exceptionThrownOut
             /\ q.stillReferenced = p.stillReferenced /\ q.progress = p.progress
             /\ q.reconDone # "unlocked" /\ q.parseDone = p.parseDone
             /\ q.queue = p.queue
             /\ q.slices = p.slices /\ q.parsedSlices = p.parsedSlices
             /\ q.dpbReferenceMark = p.dpbReferenceMark /\ q.parseFailed = p.parseFailed
  <2> HIDE DEF p, q
  <2> QED
    BY <1>2, <1>5, Ranges, ZenonT(30) DEF Picture
<1> HIDE DEF q, err, done
<1>6. /\ q \in Picture
      /\ q.refs = p.refs /\ q.cts = p.cts /\ q.wasLost = p.wasLost
      /\ q.complete = p.complete /\ q.exceptionThrownOut = p.exceptionThrownOut
      /\ q.stillReferenced = p.stillReferenced /\ q.progress = p.progress
      /\ q.reconDone # "unlocked" /\ q.parseDone = p.parseDone
      /\ q.queue = p.queue
      /\ q.slices = p.slices /\ q.parsedSlices = p.parsedSlices
      /\ q.dpbReferenceMark = p.dpbReferenceMark /\ q.parseFailed = p.parseFailed
  BY <1>3, <1>4, <1>5, Zenon
<1>7. SoundPicture(p) /\ p.progress \in {reconstructing, reconstructed} => SoundPicture(q)
  <2> HIDE DEF p
  <2> QED
    BY <1>6 DEF SoundPicture, reconstructing, reconstructed, finished
<1> QED
  BY <1>1, <1>6, <1>7, ScheduledStep

LEMMA BorderExtFailedStep ==
  ASSUME IndInv, BorderExtFailed
  PROVE  IndInv' /\ \A x \in Bufs : pic[x].progress = finished => pic'[x].progress = finished
BY NotScheduledStep DEF BorderExtFailed

\* borderExtPic: what it makes of a reference whose tasks are over.
LEMMA ForReferenceIs ==
  ASSUME NEW p \in Picture, SoundPicture(p), p.queue = {}, ~p.recon
  PROVE  LET q == ForReference(p)
         IN /\ q \in Picture /\ SoundPicture(q)
            /\ q.refs = p.refs /\ q.cts = p.cts /\ q.wasLost = p.wasLost
            /\ q.complete = p.complete /\ q.exceptionThrownOut = p.exceptionThrownOut
            /\ q.stillReferenced = p.stillReferenced /\ q.queue = {} /\ ~q.recon
            /\ q.lockedByApplication = p.lockedByApplication
            /\ \/ q.progress = p.progress
               \/ q.progress = reconstructed /\ p.progress < reconstructed
<1> DEFINE q == ForReference(p)
           f == [p EXCEPT !.error = TRUE, !.reconDone = "unlocked", !.parseDone = "error",
                          !.progress = reconstructed]
<1>1. /\ f \in Picture
      /\ f.refs = p.refs /\ f.cts = p.cts /\ f.wasLost = p.wasLost
      /\ f.complete = p.complete /\ f.exceptionThrownOut = p.exceptionThrownOut
      /\ f.stillReferenced = p.stillReferenced /\ f.queue = p.queue /\ f.recon = p.recon
      /\ f.lockedByApplication = p.lockedByApplication /\ f.parseDone = "error"
      /\ f.progress = reconstructed
      /\ f.slices = p.slices /\ f.parsedSlices = p.parsedSlices
      /\ f.dpbReferenceMark = p.dpbReferenceMark /\ f.parseFailed = p.parseFailed
  BY Ranges, Zenon DEF Picture
<1> HIDE DEF f
<1>2. SoundPicture(f)
  BY <1>1 DEF SoundPicture, reconstructed, finished
<1>3. ASSUME NEW o \in Picture, q = [o EXCEPT !.borderExtStarted = TRUE, !.border = TRUE]
      PROVE  /\ q \in Picture
             /\ q.refs = o.refs /\ q.cts = o.cts /\ q.wasLost = o.wasLost
             /\ q.complete = o.complete /\ q.exceptionThrownOut = o.exceptionThrownOut
             /\ q.stillReferenced = o.stillReferenced /\ q.queue = o.queue /\ q.recon = o.recon
             /\ q.lockedByApplication = o.lockedByApplication /\ q.parseDone = o.parseDone
             /\ q.progress = o.progress
             /\ q.slices = o.slices /\ q.parsedSlices = o.parsedSlices
             /\ q.dpbReferenceMark = o.dpbReferenceMark /\ q.parseFailed = o.parseFailed
  <2> HIDE DEF q
  <2> QED
    BY <1>3, ZenonT(30) DEF Picture
<1>4. \/ q = [p EXCEPT !.borderExtStarted = TRUE, !.border = TRUE]
      \/ /\ q = [f EXCEPT !.borderExtStarted = TRUE, !.border = TRUE]
         /\ p.progress < reconstructed
  BY DEF ForReference, f
<1> HIDE DEF q
<1>5. CASE q = [p EXCEPT !.borderExtStarted = TRUE, !.border = TRUE]
  <2> DEFINE o == p
  <2>1. /\ q \in Picture
        /\ q.refs = o.refs /\ q.cts = o.cts /\ q.wasLost = o.wasLost
        /\ q.complete = o.complete /\ q.exceptionThrownOut = o.exceptionThrownOut
        /\ q.stillReferenced = o.stillReferenced /\ q.queue = o.queue /\ q.recon = o.recon
        /\ q.lockedByApplication = o.lockedByApplication /\ q.parseDone = o.parseDone
        /\ q.progress = o.progress
        /\ q.slices = o.slices /\ q.parsedSlices = o.parsedSlices
        /\ q.dpbReferenceMark = o.dpbReferenceMark /\ q.parseFailed = o.parseFailed
    BY <1>3, <1>5
  <2>2. SoundPicture(q)
    BY <2>1 DEF SoundPicture
  <2> QED
    BY <2>1, <2>2 DEF q
<1>6. CASE q = [f EXCEPT !.borderExtStarted = TRUE, !.border = TRUE]
           /\ p.progress < reconstructed
  <2> DEFINE o == f
  <2>1. /\ q \in Picture
        /\ q.refs = o.refs /\ q.cts = o.cts /\ q.wasLost = o.wasLost
        /\ q.complete = o.complete /\ q.exceptionThrownOut = o.exceptionThrownOut
        /\ q.stillReferenced = o.stillReferenced /\ q.queue = o.queue /\ q.recon = o.recon
        /\ q.lockedByApplication = o.lockedByApplication /\ q.parseDone = o.parseDone
        /\ q.progress = o.progress
        /\ q.slices = o.slices /\ q.parsedSlices = o.parsedSlices
        /\ q.dpbReferenceMark = o.dpbReferenceMark /\ q.parseFailed = o.parseFailed
    BY <1>1, <1>3, <1>6
  <2>2. SoundPicture(q)
    BY <1>2, <2>1 DEF SoundPicture
  <2> QED
    BY <1>1, <1>6, <2>1, <2>2 DEF q
<1> QED
  BY <1>4, <1>5, <1>6

LEMMA BorderExtPicStep ==
  ASSUME IndInv, NEW r \in Bufs, BorderExtPic(r)
  PROVE  IndInv' /\ \A x \in Bufs : pic[x].progress = finished => pic'[x].progress = finished
<1>1. /\ main.pc = "ext" /\ TypeOK /\ r \in pic[main.cur].refs /\ TasksDone(pic[r])
      /\ UNCHANGED <<setup, nal, list, parserVars, instances, outputVars, reports, faults>>
  BY DEF BorderExtPic, Unextended, IndInv
<1>2. CASE pic[r].progress < parsing
  BY <1>1, <1>2, NotScheduledStep DEF BorderExtPic
<1>3. CASE ~(pic[r].progress < parsing)
  <2> DEFINE p == pic[r]  q == ForReference(p)
  <2>1. pic' = [pic EXCEPT ![r] = q] /\ main' = main
    BY <1>3 DEF BorderExtPic
  <2>2. /\ p \in Picture /\ SoundPicture(p) /\ p.queue = {} /\ ~p.recon
        /\ p.progress \in 0..5 /\ pic \in [Bufs -> Picture] /\ r \in InList
        /\ InList \subseteq Bufs
    BY <1>1, State, Owned, Fields DEF IndInv, PicturesSound, TasksDone
  <2>3. /\ q \in Picture /\ SoundPicture(q)
        /\ q.refs = p.refs /\ q.cts = p.cts /\ q.wasLost = p.wasLost
        /\ q.complete = p.complete /\ q.exceptionThrownOut = p.exceptionThrownOut
        /\ q.stillReferenced = p.stillReferenced /\ q.queue = {} /\ ~q.recon
        /\ q.lockedByApplication = p.lockedByApplication
        /\ \/ q.progress = p.progress
           \/ q.progress = reconstructed /\ p.progress < reconstructed
    <3> HIDE DEF p
    <3> QED
      BY <2>2, ForReferenceIs
  <2> HIDE DEF q
  <2>4. pic' \in [Bufs -> Picture] /\ pic'[r] = q /\ \A x \in Bufs \ {r} : pic'[x] = pic[x]
    BY <2>1, <2>2, <2>3
  <2>5. r \notin Waiting
    BY <1>1 DEF IndInv, CodingOrder, Waiting
  <2>6. r = parsePic /\ MoreNals => p.complete
    BY <1>1, State DEF IndInv, ParsedLast, CallPlace, ReconPc
  <2>7. r \in held \cup {main.outPic} => q.lockedByApplication
    BY <2>2, <2>3, State, Constants DEF IndInv, FramesLocked
  <2>8. /\ r \in InWork => p.progress \in {reconstructing, reconstructed}
        /\ r = main.done => p.progress \in {reconstructing, reconstructed}
    BY <2>2, Constants DEF IndInv, OwnersState
  <2>9. held' = held
    BY <1>1 DEF outputVars
  <2>10. GoesOn(r)
    <3>1. p.progress <= q.progress /\ (q.progress = finished => p.progress = finished)
      BY <2>2, <2>3 DEF reconstructed, finished
    <3>2. q.progress \in {p.progress, reconstructed}
      BY <2>3
    <3> QED
      BY <2>3, <2>4, <2>5, <2>6, <2>7, <2>8, <2>9, <3>1, <3>2 DEF GoesOn
  <2>11. \A x \in Bufs : pic'[x] = pic[x] \/ (x \in InList /\ GoesOn(x))
    BY <2>2, <2>4, <2>10
  <2>12. InParser /\ MoreNals' = MoreNals
    BY <1>1, <2>1 DEF InParser, MoreNals, stream
  <2> QED
    BY <1>1, <2>1, <2>4, <2>9, <2>11, <2>12, NatTypes, PicturesGoOn DEF parserVars, outputVars
<1> QED
  BY <1>2, <1>3
-----------------------------------------------------------------------------
(* Output.                                                                   *)

\* Among some pictures one has the lowest picture order count.
LEMMA LowestPoc ==
  ASSUME NEW P \in [Bufs -> Picture], NEW R \in SUBSET Bufs, R # {}
  PROVE  \E b \in R : \A o \in R : P[b].poc <= P[o].poc
<1> DEFINE Below(b) == {o \in R : P[o].poc <= P[b].poc}
           D == {Below(b) : b \in R}
<1>1. IsWellFoundedOn(StrictSubsetOrdering(Bufs), FiniteSubsetsOf(Bufs))
  BY FS_StrictSubsetOrderingWellFounded
<1>2. \A b \in R : P[b].poc \in Int
  BY Fields
<1>3. D \subseteq FiniteSubsetsOf(Bufs) /\ D # {}
  <2>1. IsFiniteSet(Bufs)
    BY FS_Interval, Constants DEF Bufs
  <2>2. \A b \in R : Below(b) \in SUBSET Bufs /\ IsFiniteSet(Below(b))
    <3> SUFFICES ASSUME NEW b \in R PROVE Below(b) \in SUBSET Bufs /\ IsFiniteSet(Below(b))
      OBVIOUS
    <3>1. Below(b) \in SUBSET Bufs
      OBVIOUS
    <3> HIDE DEF Below
    <3> QED
      BY <2>1, <3>1, FS_Subset
  <2> QED
    BY <2>2 DEF FiniteSubsetsOf
<1>4. PICK S \in D : \A U \in D : ~(<<U, S>> \in StrictSubsetOrdering(Bufs))
  <2> HIDE DEF D
  <2> QED
    BY <1>1, <1>3, WFMin
<1>5. PICK b \in R : S = Below(b)
  OBVIOUS
<1>6. ASSUME NEW o \in R PROVE P[b].poc <= P[o].poc
  <2> SUFFICES ASSUME ~(P[b].poc <= P[o].poc) PROVE FALSE
    OBVIOUS
  <2>1. Below(o) \in SUBSET Bufs /\ Below(b) \in SUBSET Bufs /\ Below(o) \in D
    OBVIOUS
  <2>2. b \in Below(b) /\ b \notin Below(o)
    BY <1>2
  <2>3. Below(o) \subseteq Below(b)
    <3> SUFFICES ASSUME NEW x \in R, P[x].poc <= P[o].poc PROVE P[x].poc <= P[b].poc
      OBVIOUS
    <3> QED
      BY <1>2
  <2> HIDE DEF Below, D
  <2>4. <<Below(o), Below(b)>> \in StrictSubsetOrdering(Bufs)
    BY <2>1, <2>2, <2>3 DEF StrictSubsetOrdering
  <2> QED
    BY <1>4, <1>5, <2>1, <2>4
<1> QED
  BY <1>6

\* The pictures that can be output are finished.
LEMMA InOutputRange ==
  ASSUME TypeOK, NEW P \in [Bufs -> Picture], NEW b \in OutputRange(P, list)
  PROVE  b \in InList /\ P[b].progress = finished
<1> DEFINE L == list
           stops(i) ==
             /\ P[L[i]].neededForOutput \/ P[L[i]].progress < reconstructed
             /\ \/ P[L[i]].progress < finished
                \/ P[L[i]].idr /\ \E j \in 1..(i - 1) : P[L[j]].neededForOutput
           T == {i \in 1..Len(L) : stops(i)} \cup {Len(L) + 1}
           IsEnd(e) == (e \in DOMAIN L => stops(e)) /\ \A i \in 1..(e - 1) : ~stops(i)
<1>1. /\ L \in Seq(Bufs) /\ Len(L) \in Nat /\ DOMAIN L = 1..Len(L)
      /\ \A i \in DOMAIN L : L[i] \in Bufs /\ L[i] \in InList
  BY State, InSequence DEF InList
<1>2. \E e \in 1..(Len(L) + 1) : IsEnd(e)
  <2> HIDE DEF stops
  <2>1. T \in SUBSET Nat /\ T # {}
    BY <1>1
  <2>2. PICK e \in T : \A n \in T : e <= n
    <3> HIDE DEF T
    <3> QED
      BY <2>1, Least
  <2>3. e \in 1..(Len(L) + 1) /\ (e \in DOMAIN L => stops(e))
    BY <1>1, <2>2
  <2>4. \A i \in 1..(e - 1) : ~stops(i)
    BY <1>1, <2>2
  <2> QED
    BY <2>3, <2>4
<1>3. OutputEnd(P, L) = CHOOSE e \in 1..(Len(L) + 1) : IsEnd(e)
  BY DEF OutputEnd
<1> HIDE DEF stops, IsEnd
<1>4. OutputEnd(P, L) \in 1..(Len(L) + 1) /\ IsEnd(OutputEnd(P, L))
  BY <1>2, <1>3
<1>5. PICK i \in 1..(OutputEnd(P, L) - 1) : P[L[i]].neededForOutput /\ b = L[i]
  BY DEF OutputRange
<1>6. i \in DOMAIN L /\ ~stops(i)
  BY <1>1, <1>4, <1>5 DEF IsEnd
<1>7. ~(P[L[i]].progress < finished)
  BY <1>5, <1>6 DEF stops
<1>8. b \in Bufs /\ b \in InList /\ P[b].progress \in 0..5
  BY <1>1, <1>5, <1>6, Fields
<1> QED
  BY <1>5, <1>7, <1>8 DEF finished

\* getNextOutputPic gives nothing, or a finished picture that it locks.
GivesOutput(o, P) ==
  /\ o.tuneIn \in Nat
  /\ \/ o.out = NoPic /\ o.pic = P
     \/ /\ o.out \in InList /\ o.out # NoPic /\ P[o.out].progress = finished
        /\ o.pic = [P EXCEPT ![o.out] = Shown(@)]

LEMMA OutputIs ==
  ASSUME TypeOK, NEW P \in [Bufs -> Picture], NEW flush, NEW fst, NEW t \in Nat
  PROVE  GivesOutput(GetNextOutputPic(P, list, flush, NumReorder, NumReorder + Instances + 1,
                                      MaxOutOfOrderPics, fst, t), P)
<1> DEFINE range == OutputRange(P, list)
           lowest == CHOOSE b \in range : \A x \in range : P[b].poc <= P[x].poc
           o == GetNextOutputPic(P, list, flush, NumReorder, NumReorder + Instances + 1,
                                 MaxOutOfOrderPics, fst, t)
<1>1. \A b \in range : b \in InList /\ b \in Bufs /\ b # NoPic /\ P[b].progress = finished
  BY InOutputRange, State
<1>2. range # {} => lowest \in range
  <2>1. range \in SUBSET Bufs
    BY <1>1
  <2> HIDE DEF range
  <2> QED
    BY <2>1, LowestPoc
<1>3. \/ o = [pic |-> P, tuneIn |-> t, out |-> NoPic]
      \/ o = [pic |-> P, tuneIn |-> t + 1, out |-> NoPic]
      \/ /\ range # {}
         /\ o = [pic |-> [P EXCEPT ![lowest] = Shown(@)], tuneIn |-> t, out |-> lowest]
  BY DEF GetNextOutputPic
<1> HIDE DEF o, lowest, range
<1>4. /\ o.tuneIn \in Nat
      /\ \/ o.out = NoPic /\ o.pic = P
         \/ /\ o.out \in InList /\ o.out # NoPic /\ P[o.out].progress = finished
            /\ o.pic = [P EXCEPT ![o.out] = Shown(@)]
  <2>1. CASE \E u \in {t, t + 1} : o = [pic |-> P, tuneIn |-> u, out |-> NoPic]
    BY <2>1
  <2>2. CASE /\ range # {}
             /\ o = [pic |-> [P EXCEPT ![lowest] = Shown(@)], tuneIn |-> t, out |-> lowest]
    <3>1. /\ o.out = lowest /\ o.tuneIn = t /\ o.pic = [P EXCEPT ![lowest] = Shown(@)]
          /\ lowest \in range
      BY <1>2, <2>2
    <3>2. o.pic = [P EXCEPT ![o.out] = Shown(@)]
      BY <3>1
    <3> QED
      BY <1>1, <3>1, <3>2
  <2> QED
    BY <1>3, <2>1, <2>2
<1> QED
  BY <1>4 DEF o, GivesOutput

\* At most one finished picture b is locked, and shown or held for the end of
\* the call.
LEMMA ShowStep ==
  ASSUME IndInv, NEW b \in InList \cup {NoPic},
         pic' = IF b = NoPic THEN pic ELSE [pic EXCEPT ![b] = Shown(@)],
         b # NoPic => pic[b].progress = finished,
         main.pc \notin {"clean", "recon"}, main'.pc \notin {"clean", "recon", "ext"},
         UNCHANGED <<setup, nal, list, dpb, parsePic, parseList, segment, instances, reports,
                     faults>>,
         started' \in BOOLEAN, first' \in BOOLEAN, tuneIn' \in Nat, out' \in Seq(Nat),
         MainTypes(main'), main'.done = main.done, CallPlace', ParserAway,
         held' \cup ({main'.outPic} \ {NoPic})
           \subseteq held \cup ({main.outPic, b} \ {NoPic})
  PROVE  IndInv' /\ \A x \in Bufs : pic[x].progress = finished => pic'[x].progress = finished
<1>1. /\ Waiting' = Waiting /\ InWork' = InWork /\ TypeOK /\ pic \in [Bufs -> Picture]
      /\ held \subseteq InList /\ main.outPic \in InList \cup {NoPic}
      /\ InList \subseteq Bufs /\ NoPic \notin InList
      /\ parseList' = parseList /\ instances' = instances
  BY State, Owned DEF IndInv, Waiting, InWork
<1>2. held' \subseteq InList
  BY <1>1
<1>3. OwnerTypes
  BY <1>1, <1>2, State DEF OwnerTypes, TypeOK
<1>4. NoneDropped
  BY <1>1 DEF NoneDropped
<1>5. OwnersApart'
  BY <1>1 DEF IndInv, OwnersApart
<1>6. CASE b = NoPic
  <2>1. pic' = pic /\ \A x \in Bufs : Untouched(x)
    BY <1>1, <1>6 DEF Untouched
  <2>2. CodingOrder'
    BY <1>1, <2>1 DEF IndInv, CodingOrder
  <2>3. FramesLocked'
    BY <1>1, <1>6, <2>1 DEF IndInv, FramesLocked
  <2> QED
    BY <1>1, <1>3, <1>4, <1>5, <2>1, <2>2, <2>3, OwnersGoOn
<1>7. CASE b # NoPic
  <2> DEFINE p == pic[b]  q == Shown(p)
  <2>1. /\ b \in InList /\ b \in Bufs /\ p \in Picture /\ SoundPicture(p)
        /\ p.progress = finished
    BY <1>1, <1>7 DEF IndInv, PicturesSound
  <2>2. /\ q \in Picture /\ q.progress = p.progress /\ q.reconDone = p.reconDone
        /\ q.refs = p.refs /\ q.cts = p.cts /\ q.wasLost = p.wasLost
        /\ q.complete = p.complete /\ q.exceptionThrownOut = p.exceptionThrownOut
        /\ q.stillReferenced = p.stillReferenced /\ q.parseDone = p.parseDone
        /\ q.queue = p.queue /\ q.recon = p.recon
        /\ q.slices = p.slices /\ q.parsedSlices = p.parsedSlices
        /\ q.dpbReferenceMark = p.dpbReferenceMark /\ q.parseFailed = p.parseFailed
        /\ q.lockedByApplication = TRUE
    <3> HIDE DEF p
    <3> QED
      BY <2>1, ZenonT(30) DEF Picture, Shown
  <2>3. pic' = [pic EXCEPT ![b] = q]
    BY <1>7
  <2> HIDE DEF q
  <2>4. SoundPicture(q)
    <3> HIDE DEF p
    <3> QED
      BY <2>1, <2>2 DEF SoundPicture
  <2>5. pic' \in [Bufs -> Picture] /\ pic'[b] = q /\ \A x \in Bufs \ {b} : pic'[x] = pic[x]
    BY <1>1, <2>1, <2>2, <2>3
  <2>6. b \notin Waiting /\ b \notin InWork /\ b # main.done
    BY <1>7, <2>1, SMTT(30) DEF IndInv, OwnersState, parsing, parsed, reconstructing, reconstructed,
                      finished
  <2>7. Advances(b)
    <3>1. ~p.recon
      BY <2>1 DEF SoundPicture
    <3> HIDE DEF p
    <3>2. q.progress = finished /\ p.progress <= q.progress
      BY <2>1, <2>2 DEF finished
    <3> QED
      BY <1>1, <2>2, <2>4, <2>5, <2>6, <3>1, <3>2 DEF Advances, p
  <2>8. \A x \in Bufs : Untouched(x) \/ (x \in InList /\ Advances(x))
    BY <1>1, <2>1, <2>5, <2>7 DEF Untouched
  <2>9. CodingOrder'
    <3>1. \A x \in Bufs : pic'[x].refs = pic[x].refs
      BY <2>2, <2>5
    <3> QED
      BY <1>1, <3>1, State DEF IndInv, CodingOrder
  <2>10. FramesLocked'
    <3>1. \A x \in held \cup ({main.outPic, b} \ {NoPic}) : x \in Bufs
      BY <1>1, <2>1
    <3>2. \A x \in held \cup ({main.outPic, b} \ {NoPic}) :
            pic'[x].progress = finished /\ pic'[x].lockedByApplication
      BY <2>1, <2>2, <2>5, <3>1 DEF IndInv, FramesLocked
    <3> QED
      BY <3>2 DEF FramesLocked
  <2> QED
    BY <1>1, <1>3, <1>4, <1>5, <2>5, <2>8, <2>9, <2>10, OwnersGoOn
<1> QED
  BY <1>6, <1>7

\* A frame is delivered, or none.
LEMMA Delivered ==
  ASSUME IndInv, NEW b \in InList \cup {NoPic}, Deliver(b)
  PROVE  held' = held \cup ({b} \ {NoPic}) /\ out' \in Seq(Nat)
<1>1. out \in Seq(Nat) /\ (b # NoPic => pic[b].cts \in Nat)
  BY State, Fields DEF TypeOK, IndInv
<1>2. CASE b = NoPic
  BY <1>1, <1>2 DEF Deliver
<1>3. CASE b # NoPic
  BY <1>1, <1>3, AppendProperties DEF Deliver
<1> QED
  BY <1>2, <1>3

LEMMA NextOutputIs ==
  ASSUME IndInv, NEW flush
  PROVE  LET o == NextOutput(flush)
         IN /\ o.tuneIn \in Nat /\ o.out \in InList \cup {NoPic}
            /\ o.pic = IF o.out = NoPic THEN pic ELSE [pic EXCEPT ![o.out] = Shown(@)]
            /\ o.out # NoPic => pic[o.out].progress = finished
            /\ (first /\ o.out = NoPic) \in BOOLEAN
<1> DEFINE o == NextOutput(flush)
<1>1. GivesOutput(o, pic)
  <2>1. TypeOK /\ pic \in [Bufs -> Picture] /\ tuneIn \in Nat
    BY DEF IndInv, TypeOK
  <2> QED
    BY <2>1, OutputIs DEF NextOutput
<1> HIDE DEF o
<1>2. /\ o.tuneIn \in Nat /\ o.out \in InList \cup {NoPic}
      /\ o.pic = IF o.out = NoPic THEN pic ELSE [pic EXCEPT ![o.out] = Shown(@)]
      /\ o.out # NoPic => pic[o.out].progress = finished
      /\ (first /\ o.out = NoPic) \in BOOLEAN
  BY <1>1 DEF GivesOutput
<1> QED
  BY <1>2 DEF o

LEMMA OutputStep ==
  ASSUME IndInv, Output
  PROVE  IndInv' /\ \A x \in Bufs : pic[x].progress = finished => pic'[x].progress = finished
<1> DEFINE o == NextOutput(FALSE)
<1>1. /\ main.pc = "output" /\ main.flushing = FALSE /\ main.outPic = NoPic
      /\ main.done = NoPic /\ parsePic # NoPic /\ pic[parsePic].complete /\ TypeOK
  BY State DEF IndInv, Output, CallPlace, ParsedLast, DecodePc
<1>2. /\ Chosen(o) /\ Deliver(o.out) /\ main' = Idle
      /\ UNCHANGED <<setup, nal, list, parserVars, instances, reports, faults>>
  BY DEF Output
<1>3. /\ o.tuneIn \in Nat /\ o.out \in InList \cup {NoPic}
      /\ o.pic = IF o.out = NoPic THEN pic ELSE [pic EXCEPT ![o.out] = Shown(@)]
      /\ o.out # NoPic => pic[o.out].progress = finished
      /\ (first /\ o.out = NoPic) \in BOOLEAN
  BY NextOutputIs
<1> HIDE DEF o
<1>4. /\ MainTypes(main') /\ main'.pc = "idle" /\ main'.done = NoPic /\ main'.outPic = NoPic
      /\ main'.flushing = FALSE /\ main'.cur = NoPic
  BY <1>1, <1>2, MainFields DEF Idle
<1>5. CallPlace'
  BY <1>4 DEF CallPlace, ParserPc, DecodePc, FlushPc
<1>6. ParserAway
  BY <1>1 DEF ParserAway
<1>7. held' = held \cup ({o.out} \ {NoPic}) /\ out' \in Seq(Nat)
  BY <1>2, <1>3, Delivered
<1>8. first' \in BOOLEAN
  BY <1>2, <1>3, Zenon DEF Chosen
<1>9. pic' = o.pic /\ tuneIn' = o.tuneIn
  BY <1>2 DEF Chosen
<1>10. started' \in BOOLEAN /\ UNCHANGED <<dpb, parsePic, parseList, segment>>
  BY <1>1, <1>2 DEF TypeOK, parserVars
<1> DEFINE b == o.out
<1>11. /\ b \in InList \cup {NoPic} /\ b # NoPic => pic[b].progress = finished
       /\ pic' = IF b = NoPic THEN pic ELSE [pic EXCEPT ![b] = Shown(@)]
       /\ held' \cup ({main'.outPic} \ {NoPic}) \subseteq held \cup ({main.outPic, b} \ {NoPic})
  BY <1>3, <1>4, <1>7, <1>9
<1> HIDE DEF b
<1> QED
  BY <1>1, <1>2, <1>3, <1>4, <1>5, <1>6, <1>7, <1>8, <1>9, <1>10, <1>11, ShowStep

LEMMA FlushStep ==
  ASSUME IndInv, Flush
  PROVE  IndInv' /\ \A x \in Bufs : pic[x].progress = finished => pic'[x].progress = finished
<1> DEFINE o == NextOutput(FALSE)
<1>1. /\ main.pc = "idle" /\ main.flushing = FALSE /\ main.outPic = NoPic
      /\ main.done = NoPic /\ ~MoreNals /\ TypeOK
  BY State DEF IndInv, Flush, CallPlace, ParserPc
<1>2. /\ Chosen(o)
      /\ main' = [Idle EXCEPT !.pc = "flushNext", !.outPic = o.out, !.flushing = TRUE]
      /\ UNCHANGED <<setup, nal, list, parserVars, instances, held, out, reports, faults>>
  BY DEF Flush
<1>3. /\ o.tuneIn \in Nat /\ o.out \in InList \cup {NoPic}
      /\ o.pic = IF o.out = NoPic THEN pic ELSE [pic EXCEPT ![o.out] = Shown(@)]
      /\ o.out # NoPic => pic[o.out].progress = finished
      /\ (first /\ o.out = NoPic) \in BOOLEAN
  BY NextOutputIs
<1> HIDE DEF o
<1>4. /\ MainTypes(main') /\ main'.pc = "flushNext" /\ main'.done = NoPic
      /\ main'.outPic = o.out /\ main'.flushing = TRUE /\ main'.cur = NoPic
  <2>1. main' = [pc |-> "flushNext", cur |-> NoPic, exc |-> FALSE, done |-> NoPic,
                 outPic |-> o.out, flushing |-> TRUE]
    BY <1>2 DEF Idle
  <2> QED
    BY <1>3, <2>1 DEF MainTypes, MainPcs, FlushPc
<1>5. CallPlace'
  <2>1. MoreNals' = MoreNals
    BY <1>2 DEF MoreNals, stream
  <2> QED
    BY <1>1, <1>4, <2>1 DEF CallPlace, ParserPc, DecodePc, FlushPc
<1>6. ParserAway
  BY <1>1, <1>4 DEF ParserAway
<1>7. held' = held /\ out' \in Seq(Nat)
  BY <1>1, <1>2 DEF TypeOK
<1>8. first' \in BOOLEAN
  BY <1>2, <1>3, Zenon DEF Chosen
<1>9. pic' = o.pic /\ tuneIn' = o.tuneIn
  BY <1>2 DEF Chosen
<1>10. started' \in BOOLEAN /\ UNCHANGED <<dpb, parsePic, parseList, segment>>
  BY <1>1, <1>2 DEF TypeOK, parserVars
<1> DEFINE b == o.out
<1>11. /\ b \in InList \cup {NoPic} /\ b # NoPic => pic[b].progress = finished
       /\ pic' = IF b = NoPic THEN pic ELSE [pic EXCEPT ![b] = Shown(@)]
       /\ held' \cup ({main'.outPic} \ {NoPic}) \subseteq held \cup ({main.outPic, b} \ {NoPic})
  BY <1>3, <1>4, <1>7, <1>9
<1> HIDE DEF b
<1> QED
  BY <1>1, <1>2, <1>3, <1>4, <1>5, <1>6, <1>7, <1>8, <1>9, <1>10, <1>11, ShowStep, Zenon

LEMMA FlushOutStep ==
  ASSUME IndInv, FlushOut
  PROVE  IndInv' /\ \A x \in Bufs : pic[x].progress = finished => pic'[x].progress = finished
<1> DEFINE n == NextOutput(FALSE)
           o == IF main.outPic = NoPic THEN n
                ELSE [pic |-> pic, tuneIn |-> tuneIn, out |-> main.outPic]
           b == IF main.outPic = NoPic THEN n.out ELSE NoPic
<1>1. /\ main.pc = "flushOut" /\ main.flushing = TRUE /\ ~MoreNals
      /\ main.outPic \in InList \cup {NoPic} /\ main.done = NoPic /\ TypeOK
      /\ tuneIn \in Nat
  BY State DEF IndInv, FlushOut, CallPlace, FlushPc, TypeOK
<1>2. /\ Chosen(o) /\ Deliver(o.out)
      /\ main' = IF o.out = NoPic THEN [main EXCEPT !.pc = "flushNext"] ELSE Idle
      /\ UNCHANGED <<setup, nal, list, parserVars, instances, reports, faults>>
  BY DEF FlushOut
<1>3. /\ n.tuneIn \in Nat /\ n.out \in InList \cup {NoPic}
      /\ n.pic = IF n.out = NoPic THEN pic ELSE [pic EXCEPT ![n.out] = Shown(@)]
      /\ n.out # NoPic => pic[n.out].progress = finished
  BY NextOutputIs
<1> HIDE DEF n
<1>4. /\ o.tuneIn \in Nat /\ o.out \in InList \cup {NoPic} /\ b \in InList \cup {NoPic}
      /\ o.pic = IF b = NoPic THEN pic ELSE [pic EXCEPT ![b] = Shown(@)]
      /\ b # NoPic => pic[b].progress = finished
      /\ o.out = NoPic => main.outPic = NoPic
      /\ o.out \in {main.outPic, b}
  BY <1>1, <1>3
<1> HIDE DEF o, b
<1>5. /\ MainTypes(main') /\ main'.done = NoPic
      /\ \/ main'.pc = "flushNext" /\ main'.flushing = TRUE /\ main'.outPic = main.outPic
         \/ main'.pc = "idle" /\ main'.flushing = FALSE /\ main'.outPic = NoPic
            /\ main'.cur = NoPic
  <2>1. CASE o.out = NoPic
    BY <1>1, <1>2, <2>1, MainFields DEF MainPcs, FlushPc
  <2>2. CASE o.out # NoPic
    <3>1. main' = Idle /\ MainTypes(Idle)
      BY <1>1, <1>2, <2>2, MainFields
    <3> QED
      BY <3>1 DEF Idle
  <2> QED
    BY <2>1, <2>2
<1>6. CallPlace'
  <2>1. MoreNals' = MoreNals
    BY <1>2 DEF MoreNals, stream
  <2> QED
    BY <1>1, <1>5, <2>1 DEF CallPlace, ParserPc, DecodePc, FlushPc
<1>7. ParserAway
  BY <1>1, <1>5 DEF ParserAway, DecodePc, ReconPc
<1>8. held' = held \cup ({o.out} \ {NoPic}) /\ out' \in Seq(Nat)
  BY <1>2, <1>4, Delivered
<1>9. first' \in BOOLEAN
  <2>1. (first /\ o.out = NoPic) \in BOOLEAN
    OBVIOUS
  <2> QED
    BY <1>2, <2>1, Zenon DEF Chosen
<1>10. pic' = o.pic /\ tuneIn' = o.tuneIn
  BY <1>2 DEF Chosen
<1>11. started' \in BOOLEAN /\ UNCHANGED <<dpb, parsePic, parseList, segment>>
  BY <1>1, <1>2 DEF TypeOK, parserVars
<1>12. /\ pic' = IF b = NoPic THEN pic ELSE [pic EXCEPT ![b] = Shown(@)]
       /\ held' \cup ({main'.outPic} \ {NoPic}) \subseteq held \cup ({main.outPic, b} \ {NoPic})
  BY <1>4, <1>5, <1>8, <1>10
<1>13. main'.pc \notin {"clean", "recon", "ext"} /\ main'.done = main.done
  BY <1>1, <1>5
<1> QED
  BY <1>1, <1>2, <1>4, <1>5, <1>6, <1>7, <1>8, <1>9, <1>10, <1>11, <1>12, <1>13, ShowStep

LEMMA FlushLastStep ==
  ASSUME IndInv, FlushLast
  PROVE  IndInv' /\ \A x \in Bufs : pic[x].progress = finished => pic'[x].progress = finished
<1> DEFINE o == NextOutput(FALSE)
           g == GetNextOutputPic(o.pic, list, TRUE, NumReorder, NumReorder + Instances + 1,
                                 MaxOutOfOrderPics, first, o.tuneIn)
           l == IF o.out = NoPic THEN g ELSE o
           b == l.out
<1>1. /\ main.pc = "flushLast" /\ main.flushing = TRUE /\ ~MoreNals
      /\ main.done = NoPic /\ TypeOK /\ pic \in [Bufs -> Picture]
  BY State DEF IndInv, FlushLast, CallPlace, FlushPc
<1>2. /\ pic' = l.pic /\ Deliver(l.out)
      /\ IF l.out = NoPic
         THEN /\ first' = TRUE /\ tuneIn' = 0 /\ started' = FALSE
              /\ main' = [Idle EXCEPT !.pc = "eof"]
         ELSE /\ first' = FALSE /\ tuneIn' = l.tuneIn
              /\ main' = Idle
              /\ UNCHANGED started
      /\ UNCHANGED <<setup, nal, list, dpb, parsePic, parseList, segment, instances,
                     reports, faults>>
  BY DEF FlushLast
<1>3. /\ o.tuneIn \in Nat /\ o.out \in InList \cup {NoPic}
      /\ o.pic = IF o.out = NoPic THEN pic ELSE [pic EXCEPT ![o.out] = Shown(@)]
      /\ o.out # NoPic => pic[o.out].progress = finished
  BY NextOutputIs
<1> HIDE DEF o
<1>4. o.out = NoPic => GivesOutput(g, pic)
  BY <1>1, <1>3, OutputIs
<1> HIDE DEF g
<1>5. /\ b \in InList \cup {NoPic} /\ l.tuneIn \in Nat
      /\ l.pic = IF b = NoPic THEN pic ELSE [pic EXCEPT ![b] = Shown(@)]
      /\ b # NoPic => pic[b].progress = finished
  <2>1. CASE o.out = NoPic
    BY <1>4, <2>1 DEF GivesOutput
  <2>2. CASE o.out # NoPic
    BY <1>3, <2>2
  <2> QED
    BY <2>1, <2>2
<1>6. /\ MainTypes(main') /\ main'.done = NoPic /\ main'.pc \in {"idle", "eof"}
      /\ main'.flushing = FALSE /\ main'.outPic = NoPic /\ main'.cur = NoPic
  <2>1. main' \in {Idle, [Idle EXCEPT !.pc = "eof"]}
    BY <1>2
  <2>2. LET m == [Idle EXCEPT !.pc = "eof"]
        IN /\ MainTypes(m) /\ m.done = NoPic /\ m.pc = "eof" /\ m.flushing = FALSE
           /\ m.outPic = NoPic /\ m.cur = NoPic
    BY DEF Idle, MainTypes, MainPcs, EndPc
  <2>3. /\ MainTypes(Idle) /\ Idle.pc = "idle" /\ Idle.done = NoPic /\ Idle.outPic = NoPic
        /\ Idle.flushing = FALSE /\ Idle.cur = NoPic
    BY <1>1, MainFields DEF Idle
  <2> QED
    BY <2>1, <2>2, <2>3
<1>7. CallPlace'
  BY <1>6 DEF CallPlace, ParserPc, DecodePc, FlushPc
<1>8. ParserAway
  BY <1>1, <1>6 DEF ParserAway, DecodePc, ReconPc
<1>9. held' = held \cup ({b} \ {NoPic}) /\ out' \in Seq(Nat)
  BY <1>2, <1>5, Delivered
<1>10. first' \in BOOLEAN /\ tuneIn' \in Nat /\ started' \in BOOLEAN
  <2>1. started \in BOOLEAN
    BY <1>1 DEF TypeOK
  <2> HIDE DEF l
  <2>2. CASE l.out = NoPic
    <3>1. first' = TRUE /\ tuneIn' = 0 /\ started' = FALSE
      BY <1>2, <2>2, Zenon
    <3> QED
      BY <3>1
  <2>3. CASE l.out # NoPic
    <3>1. first' = FALSE /\ tuneIn' = l.tuneIn /\ started' = started
      BY <1>2, <2>3, Zenon
    <3> QED
      BY <3>1, <1>5, <2>1
  <2> QED
    BY <2>2, <2>3
<1>11. pic' = IF b = NoPic THEN pic ELSE [pic EXCEPT ![b] = Shown(@)]
  BY <1>2, <1>5
<1>12. held' \cup ({main'.outPic} \ {NoPic}) \subseteq held \cup ({main.outPic, b} \ {NoPic})
  BY <1>6, <1>9
<1>13. main'.pc \notin {"clean", "recon", "ext"} /\ main'.done = main.done
  BY <1>1, <1>6
<1> HIDE DEF b, l
<1> QED
  BY <1>1, <1>2, <1>5, <1>6, <1>7, <1>8, <1>9, <1>10, <1>11, <1>12, <1>13, ShowStep
-----------------------------------------------------------------------------
(* The references of a picture that is reconstructed are complete: the tasks  *)
(* behind every step tell how far the pictures are.                           *)

\* Two pictures of which TasksTell says the same.
SameTasks(p, q) ==
  /\ q.progress = p.progress /\ q.queue = p.queue /\ q.parsedSlices = p.parsedSlices
  /\ q.parseFailed = p.parseFailed /\ q.recon = p.recon /\ q.reconDone = p.reconDone
  /\ q.borderExtStarted = p.borderExtStarted /\ q.refs = p.refs

NextPrepared(x) == main'.pc = "ext" /\ x = main'.cur

\* The tasks of picture x stay, and so does who has it.
Calm(x) ==
  /\ SameTasks(pic[x], pic'[x])
  /\ x \in InHand => x \in InHand'
  /\ x \in InWork' \cup {main'.done} /\ ~NextPrepared(x) =>
       x \in InWork \cup {main.done} /\ ~Prepared(x)
  /\ NextPrepared(x) => Prepared(x)

\* Picture x is reconstructed or finished behind the step.
Over(x) ==
  /\ pic'[x].progress \in {reconstructed, finished} /\ ~pic'[x].recon
  /\ pic'[x].refs = pic[x].refs /\ ~NextPrepared(x)

\* Picture x is neither taken back nor started too early.
Ordered(x) ==
  /\ pic'[x].refs = pic[x].refs
  /\ pic[x].progress >= reconstructed => pic'[x].progress >= reconstructed
  /\ pic'[x].recon => \/ pic[x].recon
                      \/ \A r \in pic[x].refs : pic[r].progress >= reconstructed

LEMMA ReadyGoesOn ==
  ASSUME IndInv, ReadyInv, list' = list,
         \A x \in Bufs : Calm(x) \/ Over(x) \/ (TellsNext(x) /\ Ordered(x))
  PROVE  ReadyInv'
<1>1. /\ InList' = InList /\ InList \subseteq Bufs
      /\ \A x \in Bufs : pic[x].refs \subseteq Bufs /\ pic[x] \in Picture
  BY State DEF IndInv, InList, PicturesSound
<1>2. ASSUME NEW x \in Bufs
      PROVE  TasksTell(x)' /\ Ordered(x)
  <2>1. TasksTell(x) /\ x \notin pic[x].refs
    BY DEF ReadyInv, TasksTell
  <2>2. CASE Calm(x)
    <3>1. Prepared(x)' <=> NextPrepared(x)
      BY DEF Prepared, NextPrepared
    <3>2. TasksTell(x)'
      BY <2>1, <2>2, <3>1 DEF Calm, SameTasks, TasksTell
    <3>3. Ordered(x)
      BY <2>2 DEF Calm, SameTasks, Ordered
    <3> QED
      BY <3>2, <3>3
  <2>3. CASE Over(x)
    <3>1. Prepared(x)' <=> NextPrepared(x)
      BY DEF Prepared, NextPrepared
    <3>2. TasksTell(x)'
      BY <2>1, <2>3, <3>1
         DEF Over, TasksTell, init, parsing, parsed, reconstructing, reconstructed, finished
    <3>3. Ordered(x)
      BY <2>3 DEF Over, Ordered, reconstructed, finished
    <3> QED
      BY <3>2, <3>3
  <2> QED
    BY <2>2, <2>3 DEF TellsNext
<1>3. ReferencesComplete'
  <2> SUFFICES ASSUME NEW x \in InList, pic'[x].recon, NEW r \in pic'[x].refs
               PROVE  pic'[r].progress >= reconstructed
    BY <1>1 DEF ReferencesComplete
  <2>1. r \in pic[x].refs /\ r \in Bufs /\ x \in Bufs /\ Ordered(r) /\ Ordered(x)
    BY <1>1, <1>2 DEF Ordered
  <2>2. pic[r].progress >= reconstructed
    BY <2>1 DEF Ordered, ReadyInv, ReferencesComplete
  <2> QED
    BY <2>1, <2>2 DEF Ordered
<1> QED
  BY <1>2, <1>3 DEF ReadyInv

\* No task of a picture changes in the step, and everybody keeps his picture.
LEMMA QuietStep ==
  ASSUME IndInv, ReadyInv, UNCHANGED <<list, instances>>, Waiting \subseteq Waiting',
         main'.done = main.done,
         main' = main \/ (main.pc # "ext" /\ main'.pc # "ext"),
         \A x \in Bufs : SameTasks(pic[x], pic'[x])
  PROVE  ReadyInv'
<1>1. ASSUME NEW x \in Bufs PROVE Calm(x)
  <2>1. InWork' = InWork
    BY DEF InWork
  <2> QED
    BY <2>1 DEF Calm, InHand, NextPrepared, Prepared
<1> QED
  BY <1>1, ReadyGoesOn

LEMMA SamePicture == \A p : SameTasks(p, p)
BY DEF SameTasks

\* The steps that only pass pictures on, or the main thread alone.
LEMMA LoseNalReady == ASSUME IndInv, ReadyInv, LoseNal PROVE ReadyInv'
BY QuietStep, SamePicture DEF LoseNal, Waiting, parserVars

LEMMA ReleaseReady ==
  ASSUME IndInv, ReadyInv, NEW b \in Bufs, Release(b)
  PROVE  ReadyInv'
<1>1. \A p \in Picture : SameTasks(p, [p EXCEPT !.lockedByApplication = FALSE])
  BY ZenonT(30) DEF Picture, SameTasks
<1>2. \A x \in Bufs : SameTasks(pic[x], pic'[x])
  BY <1>1, SamePicture, State DEF IndInv, Release, ReleasePicture
<1> QED
  BY <1>2, QuietStep DEF Release, Waiting, parserVars

LEMMA ExtendBorderReady ==
  ASSUME IndInv, ReadyInv, NEW b \in Bufs, ExtendBorder(b)
  PROVE  ReadyInv'
<1>1. \A p \in Picture : SameTasks(p, BorderExtended(p))
  BY ZenonT(30) DEF Picture, SameTasks, BorderExtended
<1>2. \A x \in Bufs : SameTasks(pic[x], pic'[x])
  BY <1>1, SamePicture, State DEF IndInv, ExtendBorder
<1> QED
  BY <1>2, QuietStep DEF ExtendBorder, WorkerFrame, Waiting, parserVars

LEMMA SuffixSeiReady == ASSUME IndInv, ReadyInv, SuffixSei PROVE ReadyInv'
<1>1. TypeOK /\ main.pc = "idle" /\ MainTypes(main)
  BY MainFields DEF IndInv, SuffixSei
<1>2. /\ main'.pc # "ext" /\ main'.pc \notin {"clean", "recon"}
      /\ main'.done = main.done
  BY <1>1 DEF SuffixSei, MainTypes
<1> QED
  BY <1>1, <1>2, QuietStep, SamePicture DEF SuffixSei, Waiting, parserVars

LEMMA WaitForHashReady == ASSUME IndInv, ReadyInv, WaitForHash PROVE ReadyInv'
<1>1. main.pc = "sei" /\ main.done = NoPic
  BY DEF IndInv, WaitForHash, CallPlace
<1>2. main'.pc = "idle" /\ main'.done = NoPic
  BY DEF WaitForHash, Idle
<1> QED
  BY <1>1, <1>2, QuietStep, SamePicture DEF WaitForHash, Waiting, parserVars

LEMMA ThrownTasks ==
  ASSUME NEW P \in [Bufs -> Picture], NEW b \in Bufs \cup {NoPic}, NEW x \in Bufs
  PROVE  SameTasks(P[x], Thrown(P, b)[x])
<1>1. CASE b = NoPic
  BY <1>1 DEF Thrown, SameTasks
<1>2. CASE b # NoPic /\ x = b
  BY <1>2, ThrownOut DEF SameTasks
<1>3. CASE b # NoPic /\ x # b
  <2>1. Thrown(P, b)[x] = P[x]
    BY <1>3 DEF Thrown
  <2> QED
    BY <2>1 DEF SameTasks
<1> QED
  BY <1>1, <1>2, <1>3

LEMMA RejectSliceReady == ASSUME IndInv, ReadyInv, RejectSlice PROVE ReadyInv'
<1>1. /\ main.pc = "idle" /\ main' = main /\ TypeOK
      /\ UNCHANGED <<list, instances, parseList>>
      /\ pic' = pic \/ pic' = Thrown(pic, ParsePic)
  BY DEF IndInv, RejectSlice
<1>2. pic \in [Bufs -> Picture] /\ ParsePic \in Bufs \cup {NoPic}
  BY <1>1, State DEF ParsePic
<1>3. \A x \in Bufs : SameTasks(pic[x], pic'[x])
  <2>1. \A x \in Bufs : SameTasks(pic[x], Thrown(pic, ParsePic)[x])
    BY <1>2, ThrownTasks
  <2> QED
    BY <1>1, <2>1, SamePicture
<1> QED
  BY <1>1, <1>3, QuietStep DEF Waiting

LEMMA OutputTasks ==
  ASSUME NEW P \in [Bufs -> Picture], NEW flush, NEW fst, NEW t, NEW x \in Bufs
  PROVE  SameTasks(P[x], GetNextOutputPic(P, list, flush, NumReorder,
                                          NumReorder + Instances + 1, MaxOutOfOrderPics,
                                          fst, t).pic[x])
<1> DEFINE G == GetNextOutputPic(P, list, flush, NumReorder, NumReorder + Instances + 1,
                                 MaxOutOfOrderPics, fst, t).pic
           range == OutputRange(P, list)
           lowest == CHOOSE b \in range : \A o \in range : P[b].poc <= P[o].poc
<1>1. G = P \/ G = [P EXCEPT ![lowest] = Shown(@)]
  BY DEF GetNextOutputPic
<1> HIDE DEF G, lowest
<1>2. G[x] \in {P[x], Shown(P[x])}
  BY <1>1
<1>3. \A p \in Picture : SameTasks(p, Shown(p))
  BY ZenonT(30) DEF Picture, SameTasks, Shown
<1> QED
  BY <1>2, <1>3, SamePicture DEF G

\* Behind the reconstruction of a picture, or between two: the main thread shows
\* what getNextOutputPic chose, at most.
LEMMA ShowReady ==
  ASSUME IndInv, ReadyInv, UNCHANGED <<list, parseList, instances>>,
         main.pc \notin {"clean", "recon", "ext", "finish"},
         main'.pc # "ext", main'.done = NoPic,
         \A x \in Bufs : SameTasks(pic[x], pic'[x])
  PROVE  ReadyInv'
<1>1. main.done = NoPic /\ Waiting \subseteq Waiting'
  BY DEF IndInv, CallPlace, Waiting
<1> QED
  BY <1>1, QuietStep

LEMMA OutputReady == ASSUME IndInv, ReadyInv, Output PROVE ReadyInv'
<1>1. /\ main.pc = "output" /\ main'.pc = "idle" /\ main'.done = NoPic
      /\ UNCHANGED <<list, parseList, instances>> /\ pic \in [Bufs -> Picture]
      /\ pic' = NextOutput(FALSE).pic
  BY State DEF IndInv, Output, Idle, Chosen, parserVars
<1>2. \A x \in Bufs : SameTasks(pic[x], pic'[x])
  BY <1>1, OutputTasks DEF NextOutput
<1> QED
  BY <1>1, <1>2, ShowReady

LEMMA FlushReady == ASSUME IndInv, ReadyInv, Flush PROVE ReadyInv'
<1>1. /\ main.pc = "idle" /\ main'.pc = "flushNext" /\ main'.done = NoPic
      /\ UNCHANGED <<list, parseList, instances>> /\ pic \in [Bufs -> Picture]
      /\ pic' = NextOutput(FALSE).pic
  BY State DEF IndInv, Flush, Idle, Chosen, parserVars
<1>2. \A x \in Bufs : SameTasks(pic[x], pic'[x])
  BY <1>1, OutputTasks DEF NextOutput
<1> QED
  BY <1>1, <1>2, ShowReady

LEMMA FlushOutReady == ASSUME IndInv, ReadyInv, FlushOut PROVE ReadyInv'
<1> DEFINE n == NextOutput(FALSE)
           o == IF main.outPic = NoPic THEN n
                ELSE [pic |-> pic, tuneIn |-> tuneIn, out |-> main.outPic]
<1>1. /\ main.pc = "flushOut" /\ main.done = NoPic /\ TypeOK
      /\ UNCHANGED <<list, parseList, instances>> /\ pic \in [Bufs -> Picture]
      /\ pic' = o.pic
      /\ main' = (IF o.out = NoPic THEN [main EXCEPT !.pc = "flushNext"] ELSE Idle)
  BY State DEF IndInv, FlushOut, CallPlace, Chosen, parserVars
<1> HIDE DEF n
<1>2. pic' = pic \/ pic' = n.pic
  BY <1>1
<1> HIDE DEF o
<1>3. main'.pc # "ext" /\ main'.done = NoPic
  <2>1. Idle.pc = "idle" /\ Idle.done = NoPic
    BY DEF Idle
  <2>2. LET m == [main EXCEPT !.pc = "flushNext"] IN m.pc = "flushNext" /\ m.done = main.done
    BY <1>1, MainFields DEF MainPcs, FlushPc
  <2> QED
    BY <1>1, <2>1, <2>2
<1>4. \A x \in Bufs : SameTasks(pic[x], pic'[x])
  <2>1. \A x \in Bufs : SameTasks(pic[x], n.pic[x])
    BY <1>1, OutputTasks DEF n, NextOutput
  <2> QED
    BY <1>2, <2>1, SamePicture
<1> QED
  BY <1>1, <1>3, <1>4, ShowReady

LEMMA FlushLastReady == ASSUME IndInv, ReadyInv, FlushLast PROVE ReadyInv'
<1> DEFINE o == NextOutput(FALSE)
           g == GetNextOutputPic(o.pic, list, TRUE, NumReorder, NumReorder + Instances + 1,
                                 MaxOutOfOrderPics, first, o.tuneIn)
           l == IF o.out = NoPic THEN g ELSE o
<1>1. /\ main.pc = "flushLast" /\ TypeOK /\ UNCHANGED <<list, parseList, instances>>
      /\ pic \in [Bufs -> Picture] /\ pic' = l.pic
      /\ main' \in {Idle, [Idle EXCEPT !.pc = "eof"]}
  BY State DEF IndInv, FlushLast
<1> HIDE DEF l
<1>2. main'.pc # "ext" /\ main'.done = NoPic
  BY <1>1 DEF Idle
<1>3. /\ o.out # NoPic \/ o.pic = pic
      /\ \A x \in Bufs : SameTasks(pic[x], o.pic[x])
  <2>1. o.out \in InList \cup {NoPic} /\ o.pic = IF o.out = NoPic THEN pic
                                                 ELSE [pic EXCEPT ![o.out] = Shown(@)]
    BY NextOutputIs
  <2> QED
    BY <1>1, <2>1, OutputTasks DEF NextOutput
<1> HIDE DEF o
<1>4. o.out = NoPic => \A x \in Bufs : SameTasks(pic[x], g.pic[x])
  BY <1>1, <1>3, OutputTasks
<1> HIDE DEF g
<1>5. \A x \in Bufs : SameTasks(pic[x], pic'[x])
  BY <1>1, <1>3, <1>4 DEF l
<1> QED
  BY <1>1, <1>2, <1>5, ShowReady

\* getNextDecodablePicture: the picture taken is in the hand of the main thread.
LEMMA TakeReady ==
  ASSUME IndInv, ReadyInv, main.pc \in {"next", "flushNext"}, parseList # <<>>,
         TakeDecodable(NextDecodable), UNCHANGED <<list, instances>>,
         main'.pc \in {"clean", "recon"}, main'.cur = parseList[NextDecodable],
         main'.done = main.done
  PROVE  ReadyInv'
<1>1. /\ TypeOK /\ parseList \in Seq(Bufs) /\ IsInjective(parseList)
      /\ pic \in [Bufs -> Picture]
  BY State DEF IndInv, OwnersApart
<1>2. NextDecodable \in 1..Len(parseList)
  BY ChosenPlace
<1>3. ToSet(parseList') = ToSet(parseList) \ {parseList[NextDecodable]}
  BY <1>1, <1>2, RemovedFrom DEF TakeDecodable
<1>4. Waiting \subseteq Waiting'
  BY <1>3 DEF Waiting
<1>5. \A p \in Picture : SameTasks(p, [p EXCEPT !.skippedDecCount = @ + 1])
  BY ZenonT(30) DEF Picture, SameTasks
<1>6. \A x \in Bufs : pic'[x] \in {pic[x], [pic[x] EXCEPT !.skippedDecCount = @ + 1]}
  BY <1>1 DEF TakeDecodable
<1>7. \A x \in Bufs : SameTasks(pic[x], pic'[x])
  BY <1>1, <1>5, <1>6, SamePicture, Zenon
<1> QED
  BY <1>4, <1>7, QuietStep

LEMMA GetNextDecodableReady == ASSUME IndInv, ReadyInv, GetNextDecodable PROVE ReadyInv'
<1>1. /\ main.pc = "next" /\ UNCHANGED <<list, instances>> /\ main.done = NoPic /\ TypeOK
  BY DEF IndInv, GetNextDecodable, CallPlace
<1>2. CASE parseList = <<>>
  <2>1. /\ UNCHANGED <<pic, parseList>>
        /\ \E v \in {"output", "null"} : main' = [main EXCEPT !.pc = v]
    BY <1>1, <1>2 DEF GetNextDecodable
  <2>2. main'.pc # "ext" /\ main'.done = NoPic
    BY <1>1, <2>1, MainFields DEF MainPcs, DecodePc, EndPc
  <2> QED
    BY <1>1, <2>1, <2>2, ShowReady, SamePicture
<1>3. CASE parseList # <<>>
  <2> DEFINE i == NextDecodable
             b == parseList[i]
             exc == pic[b].parseDone = "error"
             broken == pic[b].error \/ pic[b].wasLost \/ exc
             v == IF broken THEN "clean" ELSE "recon"
  <2>1. /\ TakeDecodable(i)
        /\ main' = [main EXCEPT !.cur = b, !.exc = exc, !.pc = v]
    BY <1>3 DEF GetNextDecodable
  <2>2. v \in {"clean", "recon"}
    OBVIOUS
  <2> HIDE DEF i, b, exc, v
  <2>3. main'.cur = b /\ main'.pc = v /\ main'.done = main.done
    BY <1>1, <2>1, MainFields, ZenonT(30) DEF MainTypes
  <2> QED
    BY <1>1, <1>3, <2>1, <2>2, <2>3, TakeReady DEF i, b
<1> QED
  BY <1>2, <1>3

LEMMA FlushNextReady == ASSUME IndInv, ReadyInv, FlushNext PROVE ReadyInv'
<1>1. /\ main.pc = "flushNext" /\ UNCHANGED <<list, instances>> /\ main.done = NoPic /\ TypeOK
  BY DEF IndInv, FlushNext, CallPlace
<1>2. CASE parseList = <<>>
  <2>1. /\ UNCHANGED <<pic, parseList>>
        /\ main' \in {[main EXCEPT !.pc = "block"], Idle}
    BY <1>2 DEF FlushNext
  <2>2. main'.pc # "ext" /\ main'.done = NoPic
    <3>1. Idle.pc = "idle" /\ Idle.done = NoPic
      BY DEF Idle
    <3>2. LET m == [main EXCEPT !.pc = "block"] IN m.pc = "block" /\ m.done = main.done
      BY <1>1, MainFields DEF MainPcs, FlushPc
    <3> QED
      BY <1>1, <2>1, <3>1, <3>2
  <2> QED
    BY <1>1, <2>1, <2>2, ShowReady, SamePicture
<1>3. CASE parseList # <<>>
  <2> DEFINE i == NextDecodable  b == parseList[i]
  <2>1. TakeDecodable(i) /\ main' = [main EXCEPT !.cur = b, !.pc = "recon"]
    BY <1>3 DEF FlushNext
  <2> HIDE DEF i, b
  <2>2. main'.cur = b /\ main'.pc = "recon" /\ main'.done = main.done
    BY <1>1, <2>1, MainFields, ZenonT(30) DEF MainTypes
  <2> QED
    BY <1>1, <1>3, <2>1, <2>2, TakeReady DEF i, b
<1> QED
  BY <1>2, <1>3

\* finishPicture changes the tasks of no other picture.
LEMMA FinishTasks ==
  ASSUME TypeOK, NEW P \in [Bufs -> Picture], NEW b \in Bufs, NEW x \in Bufs \ {b}
  PROVE  SameTasks(P[x], Finish(P, b)[x])
<1>1. list \in Seq(Bufs) /\ P[x] \in Picture
  BY State
<1>2. Finish(P, b)[x] \in {P[x], MarkUnused(P, list)[x]}
  <2>1. CASE Broken(P[b])
    BY <2>1 DEF Finish
  <2>2. CASE ~Broken(P[b])
    <3> DEFINE M == MarkUnused(P, list)
    <3>1. DOMAIN M = Bufs
      BY <1>1, UnusedMarked
    <3>2. Finish(P, b) = [M EXCEPT ![b] = [@ EXCEPT !.progress = finished]]
      BY <2>2 DEF Finish
    <3> HIDE DEF M
    <3>3. Finish(P, b)[x] = M[x]
      BY <3>1, <3>2
    <3> QED
      BY <3>3 DEF M
  <2> QED
    BY <2>1, <2>2
<1>3. MarkUnused(P, list)[x] \in {P[x], [P[x] EXCEPT !.stillReferenced = FALSE]}
  BY <1>1, UnusedMarked
<1>4. \A p \in Picture : SameTasks(p, [p EXCEPT !.stillReferenced = FALSE])
  BY ZenonT(30) DEF Picture, SameTasks
<1> QED
  BY <1>1, <1>2, <1>3, <1>4, SamePicture

LEMMA FinishReady ==
  ASSUME IndInv, ReadyInv, NEW b \in InList, NEW P \in [Bufs -> Picture], NEW e \in BOOLEAN,
         pic' = Finish(P, b) \/ pic' = [Finish(P, b) EXCEPT ![b] = Reported(@, e)],
         \A x \in Bufs \ {b} : P[x] = pic[x],
         P[b].refs = pic[b].refs, ~P[b].recon, UNCHANGED <<list, parseList>>,
         InWork \ {b} \subseteq InWork', InWork' \subseteq InWork,
         main.pc # "ext", main'.pc \notin {"clean", "recon", "ext"}, main'.done = NoPic,
         main.done \in {b, NoPic}, main.pc \in {"clean", "recon"} => main.cur = b
  PROVE  ReadyInv'
<1> DEFINE F == Finish(P, b)
<1>1. TypeOK /\ b \in Bufs /\ InList \subseteq Bufs /\ NoPic \notin Bufs
  BY State, Constants DEF IndInv
<1>2. /\ F \in [Bufs -> Picture] /\ F[b].progress = finished
      /\ F[b].refs = pic[b].refs /\ ~F[b].recon
  BY <1>1, FinishIs
<1>3. \A x \in Bufs \ {b} : SameTasks(pic[x], F[x])
  BY <1>1, FinishTasks
<1> HIDE DEF F
<1>4. /\ pic'[b].progress = finished /\ ~pic'[b].recon /\ pic'[b].refs = pic[b].refs
      /\ \A x \in Bufs \ {b} : pic'[x] = F[x]
  <2>1. CASE pic' = F
    BY <1>2, <2>1
  <2>2. CASE pic' = [F EXCEPT ![b] = Reported(@, e)]
    <3>1. /\ pic'[b] = Reported(F[b], e) /\ F[b] \in Picture
          /\ \A x \in Bufs \ {b} : pic'[x] = F[x]
      BY <1>1, <1>2, <2>2
    <3>2. LET r == Reported(F[b], e)
          IN r.progress = F[b].progress /\ r.recon = F[b].recon /\ r.refs = F[b].refs
      BY <3>1, ZenonT(30) DEF Picture, Reported
    <3> QED
      BY <1>2, <3>1, <3>2
  <2> QED
    BY <2>1, <2>2 DEF F
<1>5. Over(b)
  BY <1>4 DEF Over, NextPrepared
<1>6. ASSUME NEW x \in Bufs \ {b} PROVE Calm(x)
  <2>1. Waiting \ {b} \subseteq Waiting'
    BY DEF Waiting
  <2> QED
    BY <1>1, <1>3, <1>4, <2>1 DEF Calm, InHand, Prepared, NextPrepared
<1> QED
  BY <1>5, <1>6, ReadyGoesOn

LEMMA CleanUpReady == ASSUME IndInv, ReadyInv, CleanUp PROVE ReadyInv'
<1> DEFINE b == main.cur  e == main.exc
           C == Cleaned(pic[b], e)
           P == [pic EXCEPT ![b] = C]
<1>1. /\ main.pc = "clean" /\ TypeOK /\ b \in InList /\ b \in Bufs /\ b \in Waiting
      /\ e \in BOOLEAN /\ pic \in [Bufs -> Picture] /\ pic[b] \in Picture
      /\ main.done = NoPic /\ ~pic[b].recon
  BY Owned, State, MainFields DEF IndInv, CleanUp, CallPlace, TasksDone
<1>2. /\ pic' = [Finish(P, b) EXCEPT ![b] = Reported(@, e)]
      /\ main' \in {[main EXCEPT !.pc = "reported_before"], Idle, [main EXCEPT !.pc = "next"]}
      /\ UNCHANGED <<list, parseList, instances>>
  BY DEF CleanUp, parserVars
<1>3. main'.pc \notin {"clean", "recon", "ext"} /\ main'.done = NoPic
  <2>1. Idle.pc = "idle" /\ Idle.done = NoPic
    BY DEF Idle
  <2>2. LET m == [main EXCEPT !.pc = "reported_before"]
        IN m.pc = "reported_before" /\ m.done = main.done
    BY <1>1, MainFields DEF MainPcs, EndPc
  <2>3. LET m == [main EXCEPT !.pc = "next"] IN m.pc = "next" /\ m.done = main.done
    BY <1>1, MainFields DEF MainPcs, DecodePc
  <2> QED
    BY <1>1, <1>2, <2>1, <2>2, <2>3
<1>4. C \in Picture /\ C.refs = pic[b].refs /\ ~C.recon
  <2> DEFINE p == pic[b]
  <2>1. /\ p \in Picture /\ e \in BOOLEAN /\ SoundPicture(p) /\ p.queue = {} /\ ~p.recon
        /\ p.progress \in {parsing, parsed}
    BY <1>1 DEF CleanUp, TasksDone, IndInv, OwnersState, PicturesSound
  <2> HIDE DEF p, e
  <2>2. LET q == Cleaned(p, e) IN q \in Picture /\ q.refs = p.refs /\ ~q.recon
    BY <2>1, CleanedIs
  <2> QED
    BY <2>2 DEF p
<1> HIDE DEF C
<1>5. P \in [Bufs -> Picture] /\ P[b] = C /\ \A x \in Bufs \ {b} : P[x] = pic[x]
  BY <1>1, <1>4
<1>6. P[b].refs = pic[b].refs /\ ~P[b].recon /\ InWork' = InWork
  BY <1>2, <1>4, <1>5 DEF InWork
<1> HIDE DEF P, b, e
<1> QED
  BY <1>1, <1>2, <1>3, <1>5, <1>6, FinishReady DEF b

LEMMA FinishDoneReady == ASSUME IndInv, ReadyInv, FinishDone PROVE ReadyInv'
<1> DEFINE b == main.done
           v == IF main.flushing THEN "flushOut" ELSE "output"
           next == [main EXCEPT !.pc = v, !.cur = NoPic, !.done = NoPic]
<1>1. /\ main.pc = "finish" /\ TypeOK /\ b \in InList \cup {NoPic}
      /\ InList \subseteq Bufs /\ pic \in [Bufs -> Picture]
      /\ UNCHANGED <<list, parseList, instances>>
  BY State DEF IndInv, FinishDone, parserVars
<1>2. next.pc = v /\ next.done = NoPic /\ v \in {"flushOut", "output"}
  <2>1. v \in {"flushOut", "output"}
    OBVIOUS
  <2> HIDE DEF v
  <2> QED
    BY <1>1, <2>1, MainFields, ZenonT(30) DEF MainTypes
<1>3. main' \in {next, Idle} /\ (b = NoPic => pic' = pic) /\ (b # NoPic => pic' = Finish(pic, b))
  BY DEF FinishDone
<1> HIDE DEF next, v
<1>4. main'.pc \notin {"clean", "recon", "ext"} /\ main'.done = NoPic
  BY <1>2, <1>3 DEF Idle
<1>5. CASE b = NoPic
  <2>1. Waiting \subseteq Waiting'
    BY <1>1 DEF Waiting
  <2> QED
    BY <1>1, <1>3, <1>4, <1>5, <2>1, QuietStep, SamePicture
<1>6. CASE b # NoPic
  <2>1. b \in InList /\ pic' = Finish(pic, b) /\ ~pic[b].recon /\ InWork' = InWork
    BY <1>1, <1>3, <1>6 DEF IndInv, OwnersState, InWork
  <2> HIDE DEF b
  <2>2. main.done \in {b, NoPic}
    BY DEF b
  <2> QED
    BY <1>1, <1>4, <2>1, <2>2, FinishReady
<1> QED
  BY <1>5, <1>6

LEMMA BlockAndFinishReady == ASSUME IndInv, ReadyInv, BlockAndFinish PROVE ReadyInv'
<1> DEFINE i == SelectInSeq(instances, LAMBDA x : x # NoPic)
           b == instances[i]
           I == {k \in 1..Len(instances) : instances[k] # NoPic}
<1>1. /\ main.pc = "block" /\ TypeOK /\ main.done = NoPic
      /\ instances \in [1..Instances -> InList \cup {NoPic}] /\ Len(instances) = Instances
      /\ Instances \in Nat /\ InList \subseteq Bufs
      /\ list' = list /\ parseList' = parseList
  BY State, Constants, LenProperties DEF IndInv, BlockAndFinish, CallPlace, parserVars
<1>2. i = 0 \/ i \in I
  <2>1. i = IF I # {} THEN Min(I) ELSE 0
    BY DEF SelectInSeq
  <2>2. I \in SUBSET Nat /\ 0 \notin I
    BY <1>1
  <2> HIDE DEF I
  <2> QED
    BY <2>1, <2>2, SelectedFirst
<1> HIDE DEF i
<1>3. main'.pc \notin {"clean", "recon", "ext"} /\ main'.done = NoPic
  <2>1. main' \in {[main EXCEPT !.pc = "flushLast"], Idle, main}
    BY DEF BlockAndFinish
  <2>2. LET m == [main EXCEPT !.pc = "flushLast"] IN m.pc = "flushLast" /\ m.done = main.done
    BY <1>1, MainFields DEF MainPcs, FlushPc
  <2>3. Idle.pc = "idle" /\ Idle.done = NoPic
    BY DEF Idle
  <2> QED
    BY <1>1, <2>1, <2>2, <2>3
<1>4. CASE i = 0
  <2>1. UNCHANGED <<pic, instances>>
    BY <1>4 DEF BlockAndFinish, i
  <2> QED
    BY <1>1, <1>3, <2>1, ShowReady, SamePicture
<1>5. CASE i \in I
  <2>1. /\ i # 0 /\ b # NoPic /\ i \in 1..Instances /\ b \in InList /\ b \in InWork
    BY <1>1, <1>5, State DEF InWork
  <2>2. /\ Waited(b) /\ pic' = Finish(WaitedPic(b), b)
        /\ instances' = [instances EXCEPT ![i] = NoPic]
    BY <2>1 DEF BlockAndFinish, i
  <2>3. InWork' = InWork \ {b}
    <3>1. \A k \in 1..Instances : instances[k] = b => k = i
      BY <1>1, <2>1 DEF IndInv, OwnersApart
    <3>2. DOMAIN instances = 1..Instances /\ DOMAIN instances' = 1..Instances
      BY <1>1, <2>2
    <3>3. \A k \in 1..Instances : instances'[k] = (IF k = i THEN NoPic ELSE instances[k])
      BY <1>1, <2>2
    <3> HIDE DEF b
    <3>4. instances[i] = b
      BY DEF b
    <3> QED
      BY <2>1, <3>1, <3>2, <3>3, <3>4 DEF InWork, ToSet
  <2> HIDE DEF b
  <2>4. /\ WaitedPic(b) \in [Bufs -> Picture] /\ FoundAs(WaitedPic(b), b)
    BY <2>1, <2>2, WaitedOver
  <2> QED
    BY <1>1, <1>3, <2>1, <2>2, <2>3, <2>4, FinishReady DEF FoundAs
<1> QED
  BY <1>2, <1>4, <1>5

\* A slice of a picture that was given up is not parsed: none of its slices gets
\* to the front.
LEMMA ParseSliceReady ==
  ASSUME IndInv, ReadyInv, NEW b \in Bufs, NEW s \in pic[b].queue, ParseSlice(b, s)
  PROVE  ReadyInv'
<1> DEFINE p == pic[b]  q == pic'[b]
<1>1. /\ pic \in [Bufs -> Picture] /\ p \in Picture /\ SoundPicture(p) /\ TasksTell(b)
      /\ UNCHANGED <<list, main, parseList, instances>>
      /\ InHand' = InHand /\ InWork' = InWork
  BY State
     DEF IndInv, PicturesSound, ReadyInv, ParseSlice, WorkerFrame, parserVars, InHand, Waiting,
         InWork
<1>2. \A x \in Bufs \ {b} : pic'[x] = pic[x]
  BY <1>1 DEF ParseSlice
<1>3. q \in {SliceParsed(p, s), ParsingFailed(p)}
  BY <1>1 DEF ParseSlice
<1>4. /\ q.refs = p.refs /\ q.recon = p.recon /\ q.reconDone = p.reconDone
      /\ q.borderExtStarted = p.borderExtStarted
      /\ \/ q.progress = p.progress
         \/ p.progress = parsing /\ q.progress = parsed
  <2>1. CASE q = SliceParsed(p, s)
    BY <1>1, <2>1 DEF Picture, SliceParsed
  <2>2. CASE q = ParsingFailed(p)
    BY <1>1, <2>2 DEF Picture, ParsingFailed
  <2> QED
    BY <1>3, <2>1, <2>2
<1>5. p.progress # init
  BY <1>1 DEF TasksTell
<1>6. 1 \in p.queue \cup p.parsedSlices
  <2>1. p.queue \subseteq 1..p.slices /\ p.slices \in Nat /\ p.parsedSlices \subseteq Nat
    BY <1>1, Fields DEF SoundPicture
  <2>2. CASE s = 1
    BY <2>2
  <2>3. CASE s # 1
    <3>1. s \in Nat /\ s > 1
      BY <2>1, <2>3
    <3>2. s - 1 \in p.parsedSlices
      BY <3>1 DEF ParseSlice
    <3>3. 1..(s - 1) \subseteq p.parsedSlices
      BY <1>1, <3>2 DEF SoundPicture
    <3> QED
      BY <3>1, <3>3
  <2> QED
    BY <2>2, <2>3
<1>7. \A x \in Bufs \ {b} : Calm(x)
  BY <1>1, <1>2, SamePicture DEF Calm, NextPrepared, Prepared
<1>8. p.progress \in 0..5
  BY <1>1, Fields
<1>9. TellsNext(b)
  <2> SUFFICES ASSUME NEW x, x = b PROVE TasksTell(x)'
    BY DEF TellsNext
  <2>1. /\ x \notin InHand' /\ q.progress \in {parsing, parsed, reconstructing} => FALSE
    BY <1>1, <1>4, <1>6 DEF TasksTell, parsing, parsed, reconstructing
  <2>2. Prepared(x)' <=> Prepared(b)
    BY <1>1 DEF Prepared
  <2> QED
    BY <1>1, <1>4, <1>5, <1>8, <2>1, <2>2
       DEF TasksTell, init, parsing, parsed, reconstructing, reconstructed
<1>10. Ordered(b)
  BY <1>4, <1>8 DEF Ordered, parsing, parsed, reconstructed
<1> QED
  BY <1>1, <1>7, <1>9, <1>10, ReadyGoesOn

LEMMA ReconstructReady ==
  ASSUME IndInv, ReadyInv, NEW b \in Bufs, Reconstruct(b)
  PROVE  ReadyInv'
<1> DEFINE p == pic[b]  q == pic'[b]
<1>1. /\ pic \in [Bufs -> Picture] /\ p \in Picture /\ TasksTell(b)
      /\ UNCHANGED <<list, main, parseList, instances>>
      /\ InHand' = InHand /\ InWork' = InWork
      /\ p.recon /\ b \in InWork
  BY State
     DEF IndInv, OwnersState, ReadyInv, Reconstruct, WorkerFrame, parserVars, InHand, Waiting,
         InWork
<1>2. p.progress = reconstructing /\ ~Prepared(b)
  BY <1>1 DEF TasksTell
<1>3. /\ \A x \in Bufs \ {b} : pic'[x] = pic[x]
      /\ \/ q = [p EXCEPT !.recon = FALSE, !.reconDone = "unlocked",
                          !.progress = reconstructed]
         \/ q = [p EXCEPT !.recon = FALSE, !.reconDone = "error"]
  BY <1>1, ZenonT(30) DEF Reconstruct
<1>4. \A x \in Bufs \ {b} : Calm(x)
  BY <1>1, <1>3, SamePicture DEF Calm, NextPrepared, Prepared
<1>5. CASE q = [p EXCEPT !.recon = FALSE, !.reconDone = "unlocked",
                         !.progress = reconstructed]
  <2>1. q.progress = reconstructed /\ q.recon = FALSE /\ q.refs = p.refs
    BY <1>1, <1>5 DEF Picture
  <2>2. Over(b)
    BY <1>1, <1>2, <2>1 DEF Over, NextPrepared, Prepared
  <2> QED
    BY <1>1, <1>4, <2>2, ReadyGoesOn
<1>6. CASE q = [p EXCEPT !.recon = FALSE, !.reconDone = "error"]
  <2>1. /\ q.progress = p.progress /\ q.recon = FALSE /\ q.refs = p.refs
        /\ q.reconDone = "error" /\ q.borderExtStarted = p.borderExtStarted
    BY <1>1, <1>6 DEF Picture
  <2>2. TellsNext(b)
    <3> SUFFICES ASSUME NEW x, x = b PROVE TasksTell(x)'
      BY DEF TellsNext
    <3>1. x \in InHand' /\ ~Prepared(x)'
      BY <1>1, <1>2 DEF Prepared, InHand
    <3> QED
      BY <1>1, <1>2, <2>1, <3>1
         DEF TasksTell, init, parsing, parsed, reconstructing, reconstructed
  <2>3. Ordered(b)
    BY <2>1 DEF Ordered
  <2> QED
    BY <1>1, <1>4, <2>2, <2>3, ReadyGoesOn
<1> QED
  BY <1>3, <1>5, <1>6

\* The instance of the picture that is prepared gives its last one to the main
\* thread.
LEMMA WaitForPrevReady == ASSUME IndInv, ReadyInv, WaitForPrev PROVE ReadyInv'
<1> DEFINE c == main.cur  prev == instances[1]
           P == IF prev = NoPic THEN pic ELSE WaitedPic(prev)
<1>1. /\ main.pc = "recon" /\ TypeOK /\ c \in InList /\ c \in Bufs /\ c \in Waiting
      /\ c \notin InWork /\ InList \subseteq Bufs /\ NoPic \notin Bufs
      /\ pic \in [Bufs -> Picture] /\ main.done = NoPic
      /\ instances \in [1..Instances -> InList \cup {NoPic}]
      /\ prev \in InList \cup {NoPic}
      /\ UNCHANGED <<list, parseList>>
      /\ TasksTell(c) /\ pic[c].progress \in {parsing, parsed} /\ ~pic[c].recon
  <2>1. /\ main.pc = "recon" /\ TypeOK /\ c \in InList /\ c \in Bufs /\ c \in Waiting
        /\ InList \subseteq Bufs /\ NoPic \notin Bufs /\ pic \in [Bufs -> Picture]
        /\ instances \in [1..Instances -> InList \cup {NoPic}]
        /\ UNCHANGED <<list, parseList>>
    BY Owned, State, Constants DEF WaitForPrev, parserVars
  <2>2. prev \in InList \cup {NoPic}
    BY <2>1, Constants
  <2>3. main.done = NoPic /\ c \notin InWork
    BY <2>1 DEF IndInv, CallPlace, OwnersApart
  <2>4. TasksTell(c) /\ pic[c].progress \in {parsing, parsed} /\ ~pic[c].recon
    BY <2>1, <2>3 DEF IndInv, OwnersState, ReadyInv
  <2> QED
    BY <2>1, <2>2, <2>3, <2>4
<1>2. /\ pic' = [P EXCEPT ![c] = [P[c] EXCEPT !.progress = reconstructing]]
      /\ main' = [main EXCEPT !.pc = "ext", !.done = prev]
      /\ instances' = Append(Tail(instances), c)
  BY DEF WaitForPrev
<1>3. main'.pc = "ext" /\ main'.done = prev /\ main'.cur = c
  BY <1>1, <1>2, MainFields, ZenonT(30) DEF MainTypes
<1>4. \A x : x \in ToSet(instances') <=> x = c \/ x \in Behind(instances)
  <2> DEFINE S == InList \cup {NoPic}
  <2>1. instances \in [1..Instances -> S] /\ c \in S /\ instances' = Turned(instances, c)
    BY <1>1, <1>2 DEF Turned
  <2> HIDE DEF S, c
  <2> QED
    BY <2>1, RotatedSet
<1>5. ToSet(instances) = Behind(instances) \cup {prev}
  <2>1. Instances \in Nat \ {0}
    BY Constants
  <2> QED
    BY <1>1, <2>1 DEF ToSet, Behind
<1>6. /\ P \in [Bufs -> Picture] /\ P[c] = pic[c]
      /\ \A x \in Bufs : SameTasks(pic[x], P[x])
  <2>1. CASE prev = NoPic
    BY <1>1, <2>1, SamePicture
  <2>2. CASE prev # NoPic
    <3>1. prev \in Bufs /\ prev # c /\ P = [pic EXCEPT ![prev] = AfterWait(pic[prev])]
      BY <1>1, <1>5, <2>2 DEF WaitedPic, InWork
    <3>2. \A p \in Picture : SoundPicture(p) => AfterWait(p) \in Picture
      BY AfterWaitIs
    <3>3. \A p \in Picture : SameTasks(p, AfterWait(p))
      BY ZenonT(30) DEF Picture, SameTasks, AfterWait
    <3>4. AfterWait(pic[prev]) \in Picture
      BY <1>1, <3>1, <3>2 DEF IndInv, PicturesSound
    <3> HIDE DEF P, c, prev
    <3> QED
      BY <1>1, <3>1, <3>3, <3>4, SamePicture
  <2> QED
    BY <2>1, <2>2
<1> HIDE DEF P
<1>7. /\ \A x \in Bufs \ {c} : SameTasks(pic[x], pic'[x])
      /\ pic'[c] = [pic[c] EXCEPT !.progress = reconstructing]
  BY <1>1, <1>2, <1>6
<1>8. ASSUME NEW x \in Bufs \ {c} PROVE Calm(x)
  <2>1. x \in InWork' \cup {main'.done} <=> x \in InWork
    BY <1>1, <1>3, <1>4, <1>5 DEF InWork
  <2>2. x \in InHand => x \in InHand'
    <3>1. x \in InHand => x \in ToSet(parseList) \cup InWork
      BY <1>1 DEF InHand, Waiting
    <3> QED
      BY <1>1, <2>1, <3>1 DEF InHand, Waiting
  <2> QED
    BY <1>1, <1>3, <1>7, <2>1, <2>2 DEF Calm, NextPrepared, Prepared
<1>9. LET p == pic[c]  q == pic'[c]
      IN /\ q.progress = reconstructing /\ q.recon = p.recon /\ q.refs = p.refs
         /\ q.borderExtStarted = p.borderExtStarted
  BY <1>1, <1>7 DEF Picture
<1>10. TellsNext(c)
  <2> SUFFICES ASSUME NEW x, x = c PROVE TasksTell(x)'
    BY DEF TellsNext
  <2>1. x \in InHand' /\ Prepared(x)'
    BY <1>1, <1>3, <1>4 DEF InHand, InWork, Prepared
  <2>2. ~pic[c].borderExtStarted
    BY <1>1 DEF TasksTell, parsing, parsed, reconstructed
  <2> QED
    BY <1>1, <1>9, <2>1, <2>2 DEF TasksTell, init, reconstructing
<1>11. Ordered(c)
  BY <1>1, <1>9 DEF Ordered, parsing, parsed, reconstructed
<1> QED
  BY <1>1, <1>8, <1>10, <1>11, ReadyGoesOn

\* decompressPicture ends with the picture it was about.
LEMMA PreparedOver ==
  ASSUME IndInv, ReadyInv, main.pc = "ext", NEW q,
         pic' = [pic EXCEPT ![main.cur] = q], main' = [main EXCEPT !.pc = "finish"],
         UNCHANGED <<list, parseList, instances>>,
         LET p == pic[main.cur]
         IN /\ q.progress = p.progress /\ q.refs = p.refs
            /\ q.borderExtStarted = p.borderExtStarted
            /\ q.recon \/ q.reconDone = "error"
            /\ q.recon => \/ p.recon
                          \/ \A r \in p.refs : pic[r].progress >= reconstructed
  PROVE  ReadyInv'
<1> DEFINE c == main.cur
<1>1. /\ TypeOK /\ c \in Bufs /\ c \in InWork /\ pic \in [Bufs -> Picture]
      /\ TasksTell(c) /\ Prepared(c)
  BY Owned, State DEF IndInv, ReadyInv, Prepared
<1>2. pic[c].progress = reconstructing
  BY <1>1 DEF TasksTell
<1>3. main'.pc = "finish" /\ main'.cur = c /\ main'.done = main.done
  BY <1>1, MainFields DEF MainPcs, ReconPc
<1>4. pic'[c] = q /\ \A x \in Bufs \ {c} : pic'[x] = pic[x]
  BY <1>1
<1>5. /\ InWork' = InWork /\ InHand' = InHand
  BY <1>3 DEF InWork, InHand, Waiting
<1> HIDE DEF c
<1>6. \A x \in Bufs \ {c} : Calm(x)
  BY <1>3, <1>4, <1>5, SamePicture DEF Calm, NextPrepared, Prepared, c
<1>7. TellsNext(c)
  <2> SUFFICES ASSUME NEW x, x = c PROVE TasksTell(x)'
    BY DEF TellsNext
  <2>1. x \in InHand' /\ ~Prepared(x)'
    BY <1>1, <1>3, <1>5 DEF InHand, Prepared
  <2> QED
    BY <1>1, <1>2, <1>4, <2>1 DEF TasksTell, init, reconstructing, c
<1>8. Ordered(c)
  BY <1>4 DEF Ordered, c
<1> QED
  BY <1>1, <1>6, <1>7, <1>8, ReadyGoesOn

LEMMA NotScheduledReady ==
  ASSUME IndInv, ReadyInv, main.pc = "ext", NotScheduled,
         UNCHANGED <<list, parserVars, instances>>
  PROVE  ReadyInv'
<1> DEFINE p == pic[main.cur]
           q == [p EXCEPT !.error = TRUE, !.reconDone = "error"]
<1>1. pic' = [pic EXCEPT ![main.cur] = q] /\ main' = [main EXCEPT !.pc = "finish"]
  BY DEF NotScheduled
<1>2. p \in Picture /\ ~p.recon
  BY Owned, State DEF IndInv, ReadyInv, TasksTell, Prepared
<1>3. /\ q.progress = p.progress /\ q.refs = p.refs /\ q.reconDone = "error"
      /\ q.borderExtStarted = p.borderExtStarted /\ q.recon = p.recon
  <2> HIDE DEF p
  <2> QED
    BY <1>2, Zenon DEF Picture
<1> HIDE DEF q
<1> QED
  BY <1>1, <1>2, <1>3, PreparedOver DEF parserVars

LEMMA BorderExtFailedReady == ASSUME IndInv, ReadyInv, BorderExtFailed PROVE ReadyInv'
BY NotScheduledReady DEF BorderExtFailed

\* The border of every reference is extended, or is about to be: it is
\* reconstructed.
LEMMA ScheduleReady == ASSUME IndInv, ReadyInv, Schedule PROVE ReadyInv'
<1> DEFINE p == pic[main.cur]  q == Scheduled(p)
<1>1. /\ pic' = [pic EXCEPT ![main.cur] = q] /\ main' = [main EXCEPT !.pc = "finish"]
      /\ main.pc = "ext" /\ Unextended = {} /\ UNCHANGED <<list, parseList, instances>>
  BY DEF Schedule, parserVars
<1>2. p \in Picture /\ p.refs \subseteq Bufs
  BY <1>1, Owned, State DEF IndInv
<1>3. \A r \in p.refs : pic[r].progress >= reconstructed
  BY <1>1, <1>2 DEF Unextended, ReadyInv, TasksTell
<1>4. /\ q.progress = p.progress /\ q.refs = p.refs /\ q.recon = TRUE
      /\ q.borderExtStarted = p.borderExtStarted
  <2> HIDE DEF p
  <2> QED
    BY <1>2, ZenonT(30) DEF Picture, Scheduled
<1> HIDE DEF q
<1> QED
  BY <1>1, <1>3, <1>4, PreparedOver

\* A reference that nobody reconstructs any more and whose tasks are over has
\* failed: borderExtPic finds its exception.
LEMMA BorderExtPicReady ==
  ASSUME IndInv, ReadyInv, NEW r \in Bufs, BorderExtPic(r)
  PROVE  ReadyInv'
<1>1. /\ main.pc = "ext" /\ TypeOK /\ r \in pic[main.cur].refs /\ TasksDone(pic[r])
      /\ UNCHANGED <<list, parserVars, instances>>
      /\ main.cur \in Bufs
  BY Owned DEF BorderExtPic, Unextended, IndInv
<1>2. CASE pic[r].progress < parsing
  BY <1>1, <1>2, NotScheduledReady DEF BorderExtPic
<1>3. CASE ~(pic[r].progress < parsing)
  <2> DEFINE p == pic[r]  q == ForReference(p)
  <2>1. pic' = [pic EXCEPT ![r] = q] /\ main' = main
    BY <1>3 DEF BorderExtPic
  <2>2. /\ p \in Picture /\ SoundPicture(p) /\ p.queue = {} /\ ~p.recon
        /\ p.progress \in 0..5 /\ pic \in [Bufs -> Picture] /\ TasksTell(r)
    BY <1>1, State, Fields DEF IndInv, PicturesSound, TasksDone, ReadyInv
  <2>3. r # main.cur
    BY <1>1 DEF ReadyInv, TasksTell
  <2>4. p.progress < reconstructed => Throws(p)
    <3>1. r \notin Waiting /\ ~Prepared(r)
      BY <1>1, <2>3 DEF IndInv, CodingOrder, Waiting, Prepared
    <3>2. p.progress < reconstructed => p.progress \in {parsing, parsed, reconstructing}
      BY <1>3, <2>2 DEF parsing, parsed, reconstructing, reconstructed
    <3> QED
      BY <2>2, <3>1, <3>2 DEF TasksTell, InHand, Throws
  <2>5. /\ q.refs = p.refs /\ ~q.recon
    <3> HIDE DEF p
    <3> QED
      BY <2>2, ForReferenceIs
  <2>6. q.progress = IF p.progress < reconstructed THEN reconstructed ELSE p.progress
    <3> HIDE DEF p
    <3>1. CASE p.progress < reconstructed
      <4> DEFINE f == [p EXCEPT !.error = TRUE, !.reconDone = "unlocked",
                                !.parseDone = "error", !.progress = reconstructed]
      <4>1. f.progress = reconstructed /\ f \in Picture
        BY <2>2, Ranges, Zenon DEF Picture
      <4>2. q = [f EXCEPT !.borderExtStarted = TRUE, !.border = TRUE]
        BY <2>4, <3>1 DEF ForReference
      <4> HIDE DEF f, q
      <4>3. q.progress = f.progress
        BY <4>1, <4>2 DEF Picture
      <4> QED
        BY <3>1, <4>1, <4>3
    <3>2. CASE ~(p.progress < reconstructed)
      BY <2>2, <3>2 DEF ForReference, Picture
    <3> QED
      BY <3>1, <3>2
  <2> HIDE DEF q
  <2>7. pic'[r] = q /\ \A x \in Bufs \ {r} : pic'[x] = pic[x]
    BY <2>1, <2>2
  <2>8. q.progress \in {reconstructed, finished}
    BY <2>2, <2>6 DEF reconstructed, finished
  <2>9. Over(r)
    BY <2>1, <2>3, <2>5, <2>7, <2>8 DEF Over, NextPrepared
  <2>10. InWork' = InWork /\ InHand' = InHand
    BY <1>1, <2>1 DEF InWork, InHand, Waiting, parserVars
  <2>11. \A x \in Bufs \ {r} : Calm(x)
    BY <2>1, <2>7, <2>10, SamePicture DEF Calm, NextPrepared, Prepared
  <2> QED
    BY <1>1, <2>9, <2>11, ReadyGoesOn
<1> QED
  BY <1>2, <1>3

LEMMA StutterReady == ASSUME ReadyInv, UNCHANGED vars PROVE ReadyInv'
<1>1. /\ UNCHANGED <<pic, list, parseList, instances, main>>
      /\ InList' = InList /\ InHand' = InHand /\ InWork' = InWork
  BY DEF vars, parserVars, InList, InHand, InWork, Waiting
<1>2. \A b \in Bufs : TasksTell(b)'
  BY <1>1 DEF ReadyInv, TasksTell, Prepared
<1>3. ReferencesComplete'
  BY <1>1 DEF ReadyInv, ReferencesComplete
<1> QED
  BY <1>2, <1>3 DEF ReadyInv

LEMMA ReadyStep ==
  ASSUME NoSelfReference, IndInv, ReadyInv, [Next]_vars
  PROVE  ReadyInv'
<1>1. CASE FillMissing
  BY <1>1, FillMissingStep
<1>2. CASE FirstSlice
  BY <1>2, FirstSliceStep
<1>3. CASE NextSlice
  BY <1>3, NextSliceStep
<1>4. CASE RejectSlice
  BY <1>4, RejectSliceReady
<1>5. CASE SuffixSei
  BY <1>5, SuffixSeiReady
<1>6. CASE WaitForHash
  BY <1>6, WaitForHashReady
<1>7. CASE GetNextDecodable
  BY <1>7, GetNextDecodableReady
<1>8. CASE CleanUp
  BY <1>8, CleanUpReady
<1>9. CASE WaitForPrev
  BY <1>9, WaitForPrevReady
<1>10. ASSUME NEW r \in Bufs, BorderExtPic(r) PROVE ReadyInv'
  BY <1>10, BorderExtPicReady
<1>11. CASE BorderExtFailed
  BY <1>11, BorderExtFailedReady
<1>12. CASE Schedule
  BY <1>12, ScheduleReady
<1>13. CASE FinishDone
  BY <1>13, FinishDoneReady
<1>14. CASE Output
  BY <1>14, OutputReady
<1>15. CASE Flush
  BY <1>15, FlushReady
<1>16. CASE FlushNext
  BY <1>16, FlushNextReady
<1>17. CASE FlushOut
  BY <1>17, FlushOutReady
<1>18. CASE BlockAndFinish
  BY <1>18, BlockAndFinishReady
<1>19. CASE FlushLast
  BY <1>19, FlushLastReady
<1>20. CASE LoseNal
  BY <1>20, LoseNalReady
<1>21. ASSUME NEW b \in Bufs, Release(b) PROVE ReadyInv'
  BY <1>21, ReleaseReady
<1>22. ASSUME NEW b \in Bufs, NEW s \in pic[b].queue, ParseSlice(b, s) PROVE ReadyInv'
  BY <1>22, ParseSliceReady
<1>23. ASSUME NEW b \in Bufs, Reconstruct(b) PROVE ReadyInv'
  BY <1>23, ReconstructReady
<1>24. ASSUME NEW b \in Bufs, ExtendBorder(b) PROVE ReadyInv'
  BY <1>24, ExtendBorderReady
<1>25. CASE UNCHANGED vars
  BY <1>25, StutterReady
<1> QED
  BY <1>1, <1>2, <1>3, <1>4, <1>5, <1>6, <1>7, <1>8, <1>9, <1>10, <1>11, <1>12, <1>13,
     <1>14, <1>15, <1>16, <1>17, <1>18, <1>19, <1>20, <1>21, <1>22, <1>23, <1>24, <1>25
     DEF Next, Main, Workers, Terminated

LEMMA InitReady == ASSUME Init PROVE ReadyInv
<1>1. /\ \A b \in Bufs : pic[b] = FreshPicture
      /\ main.pc = "idle" /\ main.done = NoPic /\ InList = {}
      /\ \A i \in 1..Instances : instances[i] = NoPic
      /\ DOMAIN instances = 1..Instances
  BY DEF Init, Idle, InList, ToSet
<1>2. InWork = {} /\ NoPic \notin Bufs
  BY <1>1, Constants DEF InWork, ToSet
<1>3. \A b \in Bufs : TasksTell(b)
  BY <1>1, <1>2
     DEF TasksTell, FreshPicture, Prepared, init, parsing, parsed, reconstructing, reconstructed
<1>4. ReferencesComplete
  BY <1>1 DEF ReferencesComplete
<1> QED
  BY <1>3, <1>4 DEF ReadyInv
-----------------------------------------------------------------------------
(* The theorems.                                                            *)

LEMMA InitInv == ASSUME Init PROVE IndInv
<1>1. /\ setup \in Setups /\ nal = <<1, 1>> /\ pic = [b \in Bufs |-> FreshPicture]
      /\ list = <<>> /\ dpb = {} /\ parsePic = NoPic /\ parseList = <<>>
      /\ segment = 0 /\ started = FALSE
      /\ instances = [i \in 1..Instances |-> NoPic]
      /\ first = TRUE /\ tuneIn = 0 /\ main = Idle
      /\ held = {} /\ out = <<>> /\ reports = [c \in DOMAIN stream |-> 0] /\ faults = 0
  BY DEF Init
<1>2. /\ Len(list) = 0 /\ InList = {} /\ ToSet(parseList) = {} /\ DOMAIN parseList = {}
      /\ list \in Seq(Bufs) /\ parseList \in Seq(Bufs) /\ out \in Seq(Nat)
      /\ IsInjective(list) /\ IsInjective(parseList) /\ 1..Len(list) = {}
  BY <1>1 DEF InList, ToSet, IsInjective
<1>3. /\ \A b \in Bufs : pic[b] = FreshPicture
      /\ FreshPicture \in Picture /\ SoundPicture(FreshPicture)
  <2>1. FreshPicture \in Picture
    BY DEF FreshPicture, Picture, init, finished, BarrierState
  <2>2. SoundPicture(FreshPicture)
    BY DEF SoundPicture, FreshPicture, init, finished
  <2> QED
    BY <1>1, <2>1, <2>2
<1>4. /\ MainTypes(main) /\ main.pc = "idle" /\ main.cur = NoPic /\ main.done = NoPic
      /\ main.outPic = NoPic /\ main.flushing = FALSE
  BY <1>1 DEF MainTypes, MainPcs, Idle, ParserPc
<1>5. /\ \A i \in 1..Instances : instances[i] = NoPic
      /\ ToSet(instances) \subseteq {NoPic} /\ InWork = {} /\ Waiting = {}
  BY <1>1, <1>2, <1>4 DEF ToSet, InWork, Waiting
<1>6. TypeOK
  <2>1. pic \in [Bufs -> Picture]
    BY <1>1, <1>3
  <2>2. instances \in [1..Instances -> InList \cup {NoPic}]
    BY <1>1
  <2>3. main \in [pc : ParserPc \cup DecodePc \cup ReconPc \cup FlushPc \cup EndPc,
                  cur : InList \cup {NoPic}, exc : BOOLEAN,
                  done : InList \cup {NoPic}, outPic : InList \cup {NoPic},
                  flushing : BOOLEAN]
    BY <1>1 DEF Idle, ParserPc
  <2>4. nal \in (Nat \ {0}) \X (Nat \ {0})
    BY <1>1
  <2>5. reports \in [DOMAIN stream -> Nat]
    BY <1>1
  <2>6. /\ dpb \subseteq InList /\ held \subseteq InList /\ InList = 1..Len(list)
        /\ ToSet(parseList) \subseteq InList /\ parsePic \in InList \cup {NoPic}
        /\ segment \in Nat /\ started \in BOOLEAN /\ first \in BOOLEAN
        /\ tuneIn \in Nat /\ faults \in Nat /\ setup \in Setups
    BY <1>1, <1>2
  <2> QED
    BY <1>2, <2>1, <2>2, <2>3, <2>4, <2>5, <2>6 DEF TypeOK
<1>7. PicturesSound
  <2>1. FreshPicture.refs = {}
    BY DEF FreshPicture
  <2> QED
    BY <1>2, <1>3, <2>1 DEF PicturesSound
<1>8. CallPlace
  BY <1>4 DEF CallPlace, DecodePc, FlushPc
<1>9. OwnersApart /\ CodingOrder /\ FramesLocked
  BY <1>1, <1>2, <1>4, <1>5, Constants DEF OwnersApart, CodingOrder, FramesLocked
<1>10. OwnersState
  BY <1>3, <1>4, <1>5 DEF OwnersState, FreshPicture
<1>11. GivenUp /\ ReferencesKept
  BY <1>2, <1>3 DEF GivenUp, Unfinished, ReferencesKept, FreshPicture
<1>12. ParsedLast
  BY <1>1, <1>4 DEF ParsedLast, DecodePc, ReconPc
<1> QED
  BY <1>6, <1>7, <1>8, <1>9, <1>10, <1>11, <1>12 DEF IndInv

\* A buffer is free, or it stays what it is when its picture is finished.
FreeOrFinished(b) == Free(b) \/ (pic[b].progress = finished => pic'[b].progress = finished)

LEMMA StutterStep == ASSUME IndInv, UNCHANGED vars PROVE IndInv' /\ pic' = pic
<1>1. /\ InList' = InList /\ InWork' = InWork /\ Waiting' = Waiting
      /\ stream' = stream /\ MoreNals' = MoreNals /\ Unfinished' = Unfinished
  BY DEF vars, parserVars, outputVars, InList, InWork, Waiting, stream, MoreNals, Unfinished
<1>2. /\ TypeOK' /\ PicturesSound' /\ CallPlace' /\ OwnersApart' /\ OwnersState'
  BY <1>1 DEF IndInv, vars, parserVars, outputVars, TypeOK, PicturesSound, CallPlace,
              OwnersApart, OwnersState
<1>3. GivenUp' /\ ParsedLast' /\ CodingOrder' /\ ReferencesKept' /\ FramesLocked'
  BY <1>1 DEF IndInv, vars, parserVars, outputVars, GivenUp, ParsedLast, CodingOrder,
              ReferencesKept, FramesLocked
<1> QED
  BY <1>2, <1>3 DEF IndInv, vars

LEMMA MainStep ==
  ASSUME IndInv, Main
  PROVE  IndInv' /\ \A x \in Bufs : FreeOrFinished(x)
<1>1. CASE FillMissing
  BY <1>1, FillMissingStep DEF FreeOrFinished
<1>2. CASE FirstSlice
  BY <1>2, FirstSliceStep DEF FreeOrFinished
<1>3. CASE NextSlice
  BY <1>3, NextSliceStep DEF FreeOrFinished
<1>4. CASE RejectSlice
  BY <1>4, RejectSliceStep DEF FreeOrFinished
<1>5. CASE SuffixSei
  BY <1>5, SuffixSeiStep DEF FreeOrFinished
<1>6. CASE WaitForHash
  BY <1>6, WaitForHashStep DEF FreeOrFinished
<1>7. CASE GetNextDecodable
  BY <1>7, GetNextDecodableStep DEF FreeOrFinished
<1>8. CASE CleanUp
  BY <1>8, CleanUpStep DEF FreeOrFinished
<1>9. CASE WaitForPrev
  BY <1>9, WaitForPrevStep DEF FreeOrFinished
<1>10. ASSUME NEW r \in Bufs, BorderExtPic(r)
       PROVE  IndInv' /\ \A x \in Bufs : FreeOrFinished(x)
  BY <1>10, BorderExtPicStep DEF FreeOrFinished
<1>11. CASE BorderExtFailed
  BY <1>11, BorderExtFailedStep DEF FreeOrFinished
<1>12. CASE Schedule
  BY <1>12, ScheduleStep DEF FreeOrFinished
<1>13. CASE FinishDone
  BY <1>13, FinishDoneStep DEF FreeOrFinished
<1>14. CASE Output
  BY <1>14, OutputStep DEF FreeOrFinished
<1>15. CASE Flush
  BY <1>15, FlushStep DEF FreeOrFinished
<1>16. CASE FlushNext
  BY <1>16, FlushNextStep DEF FreeOrFinished
<1>17. CASE FlushOut
  BY <1>17, FlushOutStep DEF FreeOrFinished
<1>18. CASE BlockAndFinish
  BY <1>18, BlockAndFinishStep DEF FreeOrFinished
<1>19. CASE FlushLast
  BY <1>19, FlushLastStep DEF FreeOrFinished
<1> QED
  BY <1>1, <1>2, <1>3, <1>4, <1>5, <1>6, <1>7, <1>8, <1>9, <1>10, <1>11, <1>12,
     <1>13, <1>14, <1>15, <1>16, <1>17, <1>18, <1>19 DEF Main

LEMMA NextStep ==
  ASSUME IndInv, [Next]_vars
  PROVE  IndInv' /\ \A x \in Bufs : FreeOrFinished(x)
<1>1. CASE Main
  BY <1>1, MainStep
<1>2. CASE LoseNal
  BY <1>2, LoseNalStep DEF FreeOrFinished
<1>3. ASSUME NEW b \in Bufs, Release(b)
      PROVE  IndInv' /\ \A x \in Bufs : FreeOrFinished(x)
  BY <1>3, ReleaseStep DEF FreeOrFinished
<1>4. ASSUME NEW b \in Bufs, NEW s \in pic[b].queue, ParseSlice(b, s)
      PROVE  IndInv' /\ \A x \in Bufs : FreeOrFinished(x)
  BY <1>4, ParseSliceStep DEF FreeOrFinished
<1>5. ASSUME NEW b \in Bufs, Reconstruct(b)
      PROVE  IndInv' /\ \A x \in Bufs : FreeOrFinished(x)
  BY <1>5, ReconstructStep DEF FreeOrFinished
<1>6. ASSUME NEW b \in Bufs, ExtendBorder(b)
      PROVE  IndInv' /\ \A x \in Bufs : FreeOrFinished(x)
  BY <1>6, ExtendBorderStep DEF FreeOrFinished
<1>7. CASE UNCHANGED vars
  BY <1>7, StutterStep DEF FreeOrFinished
<1> QED
  BY <1>1, <1>2, <1>3, <1>4, <1>5, <1>6, <1>7 DEF Next, Workers, Terminated

\* The invariant of the front end: who has a picture and how far it is.
THEOREM Inductive == Spec => []IndInv
<1>1. Init => IndInv
  BY InitInv
<1>2. IndInv /\ [Next]_vars => IndInv'
  BY NextStep
<1> QED
  BY <1>1, <1>2, PTL DEF Spec

\* The state keeps its ranges, and what the DPB, the parser, an instance, the
\* main thread or the application has is always a buffer of m_cPicList.
THEOREM TypeCorrect == Spec => []TypeOK
<1>1. IndInv => TypeOK
  BY DEF IndInv
<1> QED
  BY <1>1, Inductive, PTL

\* Every coded picture that is not finished is with exactly one of parse list,
\* instances and main thread, unless the parser gave it up and threw.
THEOREM ExactlyOneOwner == Spec => []OneOwner
<1>1. ASSUME IndInv, NEW b \in Unfinished
      PROVE  /\ \A o1, o2 \in Owners(b) : o1 = o2
             /\ Owners(b) = {} => pic[b].exceptionThrownOut
  <2>1. /\ TypeOK /\ b \in InList /\ b # NoPic
        /\ DOMAIN instances = 1..Instances /\ OwnersApart
    BY <1>1, State DEF IndInv, Unfinished, TypeOK
  <2>2. \A i, j \in DOMAIN parseList : parseList[i] = b /\ parseList[j] = b => i = j
    BY <2>1 DEF OwnersApart, IsInjective
  <2>3. \A i, j \in DOMAIN instances : instances[i] = b /\ instances[j] = b => i = j
    BY <2>1 DEF OwnersApart
  <2>4. /\ \A i \in DOMAIN parseList : parseList[i] \in ToSet(parseList)
        /\ \A i \in DOMAIN instances : instances[i] \in ToSet(instances)
        /\ b \in ToSet(parseList) => \E i \in DOMAIN parseList : parseList[i] = b
        /\ b \in ToSet(instances) => \E i \in DOMAIN instances : instances[i] = b
    BY DEF ToSet
  <2>5. /\ b \in ToSet(parseList) => b \notin ToSet(instances) /\ b # main.done
        /\ b \in ToSet(instances) => b # main.done
        /\ main.cur = b /\ main.pc \in {"clean", "recon"} =>
             b \notin ToSet(parseList) /\ b \notin ToSet(instances) /\ b # main.done
    BY <2>1 DEF OwnersApart, Waiting, InWork
  <2>6. \A o1, o2 \in Owners(b) : o1 = o2
    BY <2>2, <2>3, <2>4, <2>5 DEF Owners
  <2>7. ASSUME Owners(b) = {} PROVE b \notin Waiting \cup InWork \cup {main.done}
    <3>1. \A i \in DOMAIN parseList : parseList[i] # b
      BY <2>7 DEF Owners
    <3>2. \A i \in DOMAIN instances : instances[i] # b
      BY <2>7 DEF Owners
    <3>3. ~(main.cur = b /\ main.pc \in {"clean", "recon"}) /\ main.done # b
      BY <2>7 DEF Owners
    <3> QED
      BY <2>4, <3>1, <3>2, <3>3 DEF Waiting, InWork
  <2> QED
    BY <1>1, <2>6, <2>7 DEF IndInv, GivenUp
<1>2. IndInv => OneOwner
  BY <1>1 DEF OneOwner
<1> QED
  BY <1>2, Inductive, PTL

\* When flushPic() has no picture left to reconstruct, every picture is
\* finished but those the parser gave up, whose exceptions were thrown.
THEOREM EveryPictureFinished == Spec => []AllFinished
<1>1. ASSUME IndInv, main.pc = "flushLast", NEW b \in Unfinished
      PROVE  pic[b].exceptionThrownOut
  <2>1. Waiting = {} /\ InWork = {} /\ main.done = NoPic
    BY <1>1, State DEF IndInv, CallPlace, Waiting, InWork
  <2>2. b # NoPic
    BY <1>1, State DEF IndInv, Unfinished
  <2> QED
    BY <1>1, <2>1, <2>2 DEF IndInv, GivenUp
<1>2. IndInv => AllFinished
  BY <1>1 DEF AllFinished
<1> QED
  BY <1>2, Inductive, PTL

\* No picture that is still to be reconstructed, nor one to come, reads a frame
\* that the application holds and may have changed in place.
THEOREM GrainInPlace == Spec => []GrainInPlaceSafe
<1>1. ASSUME IndInv, NEW b \in held, ~pic[b].stillReferenced
      PROVE  ~ReadLater(b)
  <2>1. /\ b \in InList /\ InList \subseteq Bufs /\ pic[b].progress = finished
        /\ \A x \in Bufs : pic[x].progress \in Int
    BY <1>1, State, Fields DEF IndInv, FramesLocked
  <2>2. ~pic[b].dpbReferenceMark
    BY <1>1, <2>1 DEF IndInv, PicturesSound, SoundPicture
  <2>3. ASSUME NEW x \in Unfinished, pic[x].progress < reconstructed, b \in pic[x].refs
        PROVE  FALSE
    <3>1. x # b /\ x \in Bufs
      BY <2>1, <2>3 DEF Unfinished, finished
    <3> QED
      BY <1>1, <2>1, <2>3, <3>1 DEF IndInv, ReferencesKept
  <2> QED
    BY <2>2, <2>3 DEF ReadLater
<1>2. IndInv => GrainInPlaceSafe
  BY <1>1 DEF GrainInPlaceSafe
<1> QED
  BY <1>2, Inductive, PTL

\* Three assertions of the code: a broken picture is not in reconstruction yet,
\* a picture to be reconstructed is in no instance, and a buffer taken for a new
\* picture is not in the DPB.
THEOREM NoAssertionFails == Spec => []AssertionsHold
<1>1. ASSUME IndInv, main.pc \in {"clean", "recon"}
      PROVE  pic[main.cur].progress < reconstructing /\ main.cur \notin ToSet(instances)
  <2>1. main.cur \in Waiting /\ main.cur # NoPic /\ main.cur \notin InWork
    BY <1>1 DEF IndInv, CallPlace, OwnersApart, Waiting
  <2> QED
    BY <1>1, <2>1 DEF IndInv, OwnersState, InWork, parsing, parsed, reconstructing
<1>2. ASSUME IndInv, AtSlice PROVE Activate(Dpb, stream[nal[1]], nal[1]).ok
  BY <1>2, AtSliceState, ReusedNotInDpb
<1>3. IndInv => AssertionsHold
  BY <1>1, <1>2 DEF AssertionsHold
<1> QED
  BY <1>3, Inductive, PTL

\* getNewPicBuffer takes no buffer that anybody still works on or counts on,
\* although it looks at five flags of it only.
THEOREM ReusedOnlyUnused == Spec => ReuseOnlyUnused
<1>1. ASSUME IndInv, [Next]_vars, NEW b \in InList, pic[b].progress = finished,
             pic'[b].progress # finished
      PROVE  ~InUse(b)
  <2>1. TypeOK /\ b \in Bufs /\ b # NoPic /\ InList \subseteq Bufs
    BY <1>1, State DEF IndInv
  <2>2. Free(b)
    BY <1>1, <2>1, NextStep DEF FreeOrFinished
  <2>3. OnlyParsers(b) /\ b \notin Waiting /\ ~pic[b].dpbReferenceMark
    BY <1>1, <2>1, <2>2, NobodyHasFree
  <2>4. b \notin InWork \cup held
    BY <2>3 DEF OnlyParsers
  <2>5. pic[b].queue = {} /\ ~pic[b].recon
    BY <1>1, <2>1 DEF IndInv, PicturesSound, SoundPicture
  <2>6. ~\E x \in InList : pic[x].progress < reconstructed /\ b \in pic[x].refs
    BY <1>1, <2>1, <2>2 DEF Free, IndInv, ReferencesKept, reconstructed, finished
  <2>7. b \notin ToSet(instances) \cup ToSet(parseList) /\ ~pic[b].neededForOutput
    BY <1>1, <2>1, <2>2, <2>3, <2>4 DEF Free, Waiting, InWork
  <2> QED
    BY <2>3, <2>4, <2>5, <2>6, <2>7 DEF InUse
<1>2. IndInv /\ [Next]_vars
      => [\A b \in InList : pic[b].progress = finished /\ pic'[b].progress # finished
                            => ~InUse(b)]_vars
  BY <1>1
<1> QED
  BY <1>2, Inductive, PTL DEF Spec, ReuseOnlyUnused

\* What the tasks of the pictures tell, beside the invariant of the front end.
\* That no picture refers to itself the parser checks only when the reference is
\* in the list (Slice.cpp: "shall not be the current picture"), so it is asked
\* of the stream here.
THEOREM TasksTellProgress == NoSelfReference => (Spec => []ReadyInv)
<1>1. ASSUME NoSelfReference PROVE Spec => []ReadyInv
  <2>1. Init => ReadyInv
    BY InitReady
  <2>2. IndInv /\ ReadyInv /\ [Next]_vars => ReadyInv'
    BY <1>1, ReadyStep
  <2> QED
    BY <2>1, <2>2, Inductive, PTL DEF Spec
<1> QED
  BY <1>1

\* A picture is reconstructed only while all its reference pictures are
\* complete, out of order or not, and whatever fails or gets lost.
THEOREM ReferencesAreComplete == NoSelfReference => (Spec => []ReferencesComplete)
<1>1. ReadyInv => ReferencesComplete
  BY DEF ReadyInv
<1> QED
  BY <1>1, TasksTellProgress, PTL
=============================================================================
