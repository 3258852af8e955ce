------------------------ MODULE DecoderStream_proofs ------------------------
(***************************************************************************)
(* Proofs about conforming streams in which only tasks fail, for any number *)
(* of buffers, pictures and instances and any parse delay.                 *)
(***************************************************************************)
EXTENDS DecoderStream, Decoder_proofs

LEMMA StreamIs ==
  ASSUME TypeOK
  PROVE  /\ Len(stream) \in Nat /\ DOMAIN stream = 1..Len(stream) /\ setup \in Setups
         /\ \A p \in DOMAIN stream :
              /\ stream[p] \in CodedPicture /\ p \in Nat \ {0}
              /\ stream[p].poc \in Int /\ stream[p].idr \in BOOLEAN
              /\ stream[p].rpl \subseteq Int /\ stream[p].active \subseteq Int
              /\ stream[p].isRef \in BOOLEAN /\ stream[p].output \in BOOLEAN
              /\ stream[p].slices \in Nat \ {0} /\ stream[p].sei \in BOOLEAN
         /\ ParseFrameDelay \in Nat
<1>1. setup \in Setups
  BY DEF TypeOK
<1>2. stream \in Seq(CodedPicture) /\ ParseFrameDelay \in Nat
  BY <1>1, DecoderAssumption DEF stream, ParseFrameDelay
<1>3. Len(stream) \in Nat /\ DOMAIN stream = 1..Len(stream)
  BY <1>2
<1>4. ASSUME NEW p \in DOMAIN stream
      PROVE  /\ stream[p] \in CodedPicture /\ p \in Nat \ {0}
             /\ stream[p].poc \in Int /\ stream[p].idr \in BOOLEAN
             /\ stream[p].rpl \subseteq Int /\ stream[p].active \subseteq Int
             /\ stream[p].isRef \in BOOLEAN /\ stream[p].output \in BOOLEAN
             /\ stream[p].slices \in Nat \ {0} /\ stream[p].sei \in BOOLEAN
  BY <1>1, <1>4, Coded DEF stream
<1> QED
  BY <1>1, <1>2, <1>3, <1>4

\* Where the parser is, in numbers.
LEMMA NalIs ==
  ASSUME TypeOK, AtNal
  PROVE  /\ nal[1] \in Nat /\ nal[2] \in Nat /\ nal[1] >= 1 /\ nal[2] >= 1
         /\ LastBegun \in Nat /\ LastBegun <= Len(stream) /\ Len(stream) \in Nat
         /\ DOMAIN stream = 1..Len(stream) /\ 1..LastBegun \subseteq DOMAIN stream
         /\ MoreNals <=> nal[1] <= Len(stream)
         /\ LastBegun < nal[1] \/ (LastBegun = nal[1] /\ MoreNals /\ nal[2] > 1)
<1>1. nal[1] \in Nat \ {0} /\ nal[2] \in Nat \ {0}
  BY DEF TypeOK
<1>2. Len(stream) \in Nat /\ DOMAIN stream = 1..Len(stream)
  BY StreamIs
<1>3. nal[1] <= Len(stream) + 1
  BY <1>1, <1>2 DEF AtNal
<1>4. MoreNals <=> nal[1] <= Len(stream)
  BY <1>1, <1>2 DEF MoreNals
<1>5. CASE nal[2] = 1
  BY <1>1, <1>2, <1>3, <1>4, <1>5 DEF LastBegun
<1>6. CASE nal[2] # 1
  <2>1. MoreNals /\ nal[2] > 1
    BY <1>1, <1>6 DEF AtNal
  <2> QED
    BY <1>1, <1>2, <1>4, <1>6, <2>1 DEF LastBegun
<1> QED
  BY <1>5, <1>6

\* The place of a picture in the stream.
LEMMA CtsIs ==
  ASSUME TypeOK, ParserInv, NEW b \in InList
  PROVE  /\ pic[b].cts \in 1..LastBegun /\ pic[b].cts \in DOMAIN stream
         /\ pic[b].cts \in Nat /\ reports[pic[b].cts] \in Nat /\ b \in Bufs
         /\ HashSeen(pic[b].cts) \in {0, 1} /\ pic[b].slices \in Nat
<1>1. pic[b].cts \in 1..LastBegun
  BY DEF ParserInv, PicturesInOrder, HoldsCoded
<1>2. b \in Bufs /\ pic[b] \in Picture
  BY State
<1>3. pic[b].cts \in Nat /\ pic[b].slices \in Nat
  BY <1>2, Fields
<1>4. pic[b].cts \in DOMAIN stream
  BY <1>1, NalIs DEF ParserInv
<1>5. reports[pic[b].cts] \in Nat
  BY <1>4, NatTypes
<1> QED
  BY <1>1, <1>2, <1>3, <1>4, <1>5 DEF HashSeen

-----------------------------------------------------------------------------
(* Steps of FrameOrder.                                                      *)

FrameStep == [Frames!Next]_(Frames!vars)

LEMMA FrameBefore == \A p, q : Frames!Before(p, q) <=> Before(p, q)
BY DEF Frames!Before, Frames!Cvs, Before, Cvs, Frames!Cardinality, Cardinality

\* The call goes on, or an exception of a picture that was begun ends it.
GoesOnOrThrows ==
  \/ main'.outPic = main.outPic /\ reports' = reports
  \/ /\ main'.outPic \in {main.outPic, NoPic}
     /\ \E c \in 1..LastBegun : reports' = [reports EXCEPT ![c] = @ + 1]

\* The frame of flushPic's outPic comes next.
LEMMA OutPicNext ==
  ASSUME TypeOK, ParserInv, OrderInv, main.outPic # NoPic, NEW p,
         p = pic[main.outPic].cts
  PROVE  /\ Frames!Turn(p) /\ Due = Pending \cup {p} /\ p \notin Pending
         /\ p \in 1..LastBegun
<1>1. main.outPic \in InList /\ p \in 1..LastBegun /\ LastBegun \in Nat
  BY State, CtsIs, NalIs DEF ParserInv
<1>2. Due = Pending \cup {p} /\ p \in Gone
  BY DEF Due, OrderInv
<1>3. p \notin Pending /\ \A q \in Pending : Before(p, q)
  BY <1>2 DEF Gone, OrderInv
<1> QED
  BY <1>1, <1>2, <1>3, FrameBefore DEF Frames!Turn

\* Nothing is chosen or shown.
LEMMA FramesGoOn ==
  ASSUME TypeOK, ParserInv, OrderInv, GoesOnOrThrows, out' = out,
         stream' = stream, LastBegun' = LastBegun, Pending' = Pending,
         \A x \in InList : pic'[x].cts = pic[x].cts
  PROVE  FrameStep
<1>1. /\ main.outPic \in InList \cup {NoPic} /\ LastBegun \in Nat
      /\ main'.outPic = NoPic => Due' = Pending
      /\ main'.outPic = main.outPic => Due' = Due
  BY State, NalIs DEF Due, ParserInv
<1>2. CASE main'.outPic = main.outPic /\ reports' = reports
  BY <1>1, <1>2 DEF FrameStep, Frames!vars
<1>3. ASSUME main'.outPic \in {main.outPic, NoPic}, NEW c \in 1..LastBegun,
             reports' = [reports EXCEPT ![c] = @ + 1]
      PROVE  FrameStep
  <2>1. Due' = Due \/ \E p \in Due : Frames!Turn(p) /\ Due' = Due \ {p}
    <3>1. CASE main.outPic = NoPic \/ main'.outPic = main.outPic
      BY <1>1, <1>3, <3>1 DEF Due
    <3>2. CASE main.outPic # NoPic /\ main'.outPic # main.outPic
      <4>1. PICK p : p = pic[main.outPic].cts
        OBVIOUS
      <4>2. Frames!Turn(p) /\ Due = Pending \cup {p} /\ p \notin Pending
        BY <3>2, <4>1, OutPicNext
      <4> QED
        BY <1>1, <1>3, <3>2, <4>2
    <3> QED
      BY <3>1, <3>2
  <2>2. Frames!Throw
    BY <1>3, <2>1 DEF Frames!Throw
  <2> QED
    BY <2>2 DEF FrameStep, Frames!Next
<1> QED
  BY <1>2, <1>3 DEF GoesOnOrThrows
-----------------------------------------------------------------------------
(* Steps behind the parser: what they leave alone.                          *)

SameCoded(p, q) ==
  /\ q.cts = p.cts /\ q.poc = p.poc /\ q.idr = p.idr /\ q.wasLost = p.wasLost
  /\ q.refs = p.refs /\ q.slices = p.slices /\ q.complete = p.complete
  /\ q.dpbReferenceMark = p.dpbReferenceMark

SameFlags(p, q) ==
  /\ q.error = p.error /\ q.exceptionThrownOut = p.exceptionThrownOut
  /\ q.parseDone = p.parseDone /\ q.reconDone = p.reconDone
  /\ q.parseFailed = p.parseFailed /\ q.recon = p.recon
  /\ q.queue = p.queue /\ q.progress = p.progress

SameOutput(p, q) ==
  /\ q.neededForOutput = p.neededForOutput
  /\ q.progress < finished => p.progress < finished

ParserStays ==
  /\ UNCHANGED <<setup, nal, list, dpb, parsePic, segment>>
  /\ MoreNals => started' = started
  /\ \A x \in Bufs : SameCoded(pic[x], pic'[x])

LEMMA Unmoved ==
  ASSUME TypeOK, UNCHANGED <<setup, nal, list>>
  PROVE  /\ stream' = stream /\ InList' = InList /\ InList \subseteq Bufs
         /\ LastBegun' = LastBegun /\ MoreNals' = MoreNals
         /\ ParseFrameDelay' = ParseFrameDelay /\ (Conforming' <=> Conforming)
BY State DEF stream, InList, LastBegun, MoreNals, ParseFrameDelay, Conforming, Accepted

LEMMA ParserGoesOn ==
  ASSUME TypeOK, ParserInv, ParserStays, NobodyLost'
  PROVE  ParserInv'
<1>1. /\ stream' = stream /\ InList' = InList /\ InList \subseteq Bufs
      /\ LastBegun' = LastBegun /\ MoreNals' = MoreNals /\ dpb \subseteq InList
      /\ UNCHANGED <<setup, nal, list, dpb, parsePic, segment>>
      /\ \A x \in Bufs : SameCoded(pic[x], pic'[x])
  BY Unmoved, State DEF ParserStays
<1>2. AtNal'
  <2>1. parsePic # NoPic => parsePic \in Bufs
    BY <1>1, State
  <2>2. NalUnits(stream[nal[1]])' = NalUnits(stream[nal[1]])
    BY <1>1 DEF NalUnits
  <2>3. nal[2] > 1 => parsePic \in Bufs
    BY <2>1 DEF ParserInv, AtNal
  <2>4. parsePic \in Bufs => /\ pic'[parsePic].cts = pic[parsePic].cts
                             /\ pic'[parsePic].slices = pic[parsePic].slices
                             /\ pic'[parsePic].complete = pic[parsePic].complete
    BY <1>1 DEF SameCoded
  <2>5. MoreNals => started' = started
    BY DEF ParserStays
  <2> QED
    BY <1>1, <2>2, <2>3, <2>4, <2>5 DEF ParserInv, AtNal
<1>3. \A b \in InList : HoldsCoded(b)'
  <2>1. ASSUME NEW b \in InList PROVE HoldsCoded(b)'
    <3>1. HoldsCoded(b) /\ SameCoded(pic[b], pic'[b])
      BY <1>1 DEF ParserInv, PicturesInOrder
    <3> QED
      BY <1>1, <3>1 DEF HoldsCoded, SameCoded
  <2> QED
    BY <2>1
<1>4. \A i, j \in DOMAIN list : i < j => pic'[list[i]].cts < pic'[list[j]].cts
  <2>1. \A i \in DOMAIN list : list[i] \in Bufs
    BY State
  <2> QED
    BY <1>1, <2>1 DEF ParserInv, PicturesInOrder, SameCoded
<1>5. \A b \in dpb : /\ pic'[b].cts = pic[b].cts
                     /\ pic'[b].dpbReferenceMark = pic[b].dpbReferenceMark
  BY <1>1 DEF SameCoded
<1>6. PicturesInOrder'
  BY <1>1, <1>3, <1>4, <1>5 DEF ParserInv, PicturesInOrder
<1> QED
  BY <1>2, <1>6 DEF ParserInv

LEMMA OvertakenGoesOn ==
  ASSUME TypeOK, OvertakenInv, ParserStays, parseList' = parseList,
         \A x \in ToSet(parseList) : pic'[x].skippedDecCount = pic[x].skippedDecCount
  PROVE  OvertakenInv'
<1>1. /\ LastBegun' = LastBegun /\ ToSet(parseList) \subseteq Bufs
      /\ \A i \in DOMAIN parseList : parseList[i] \in ToSet(parseList)
  BY Unmoved, State DEF ParserStays
<1>2. \A x \in ToSet(parseList) : pic'[x].cts = pic[x].cts
  BY <1>1 DEF ParserStays, SameCoded
<1>3. \A b \in ToSet(parseList) : Passed(b)' = Passed(b)
  BY <1>1, <1>2 DEF Passed
<1> QED
  BY <1>1, <1>2, <1>3 DEF OvertakenInv

\* Nothing happens to the exceptions of a picture.
ReportsCalm(x) ==
  /\ SameFlags(pic[x], pic'[x])
  /\ x \in Waiting' => x \in Waiting
  /\ Prepared(x)' => Prepared(x)
  /\ reports'[pic[x].cts] = reports[pic[x].cts]

LEMMA ReportsGoOn ==
  ASSUME IndInv, ParserInv, ReportsInv, ParserStays, main.pc = "sei" <=> main'.pc = "sei",
         \A x \in InList : ReportsCalm(x) \/ ReportsTell(x)',
         \A c \in DOMAIN stream :
           \/ reports'[c] = reports[c]
           \/ c <= LastBegun /\ reports'[c] <= MostReports(c) + HashSeen(c),
         main'.pc = "clean" /\ main'.exc => ~pic'[main'.cur].exceptionThrownOut
  PROVE  ReportsInv' /\ \A c : HashSeen(c)' = HashSeen(c)
<1>0. TypeOK
  BY DEF IndInv
<1>1. /\ stream' = stream /\ InList' = InList /\ InList \subseteq Bufs
      /\ LastBegun' = LastBegun /\ ParseFrameDelay' = ParseFrameDelay
      /\ UNCHANGED <<nal, parsePic>>
      /\ \A x \in Bufs : SameCoded(pic[x], pic'[x])
  BY <1>0, Unmoved DEF ParserStays
<1>2. \A c : HashSeen(c)' = HashSeen(c) /\ MostReports(c)' = MostReports(c)
  BY <1>1 DEF HashSeen, MostReports
<1>3. ASSUME NEW x \in InList PROVE ReportsTell(x)'
  <2>1. CASE ReportsTell(x)'
    BY <2>1
  <2>2. CASE ReportsCalm(x)
    <3>1. ReportsTell(x) /\ SameCoded(pic[x], pic'[x])
      BY <1>1 DEF ReportsInv
    <3> QED
      BY <1>1, <2>2, <3>1
         DEF ReportsTell, ReportsCalm, SameFlags, SameCoded, Throws, HashSeen
  <2> QED
    BY <2>1, <2>2
<1>4. \A c \in DOMAIN stream : /\ c > LastBegun => reports'[c] = 0
                               /\ reports'[c] <= MostReports(c) + HashSeen(c)
  <2>1. LastBegun \in Int /\ DOMAIN stream \subseteq Int
    BY <1>0, NalIs DEF ParserInv
  <2> QED
    BY <2>1 DEF ReportsInv
<1>5. main'.pc = "sei" => /\ nal[2] = 1 /\ pic'[parsePic].cts = nal[1] - 1
                          /\ stream[nal[1] - 1].sei /\ ParseFrameDelay = 0
  <2>1. main.pc = "sei" => parsePic \in Bufs
    BY <1>1, <1>0, State DEF IndInv, CallPlace
  <2> QED
    BY <1>1, <2>1 DEF ReportsInv, SameCoded
<1> QED
  BY <1>1, <1>2, <1>3, <1>4, <1>5 DEF ReportsInv

LEMMA PendingStays ==
  ASSUME TypeOK, ParserStays, \A x \in InList : SameOutput(pic[x], pic'[x])
  PROVE  /\ stream' = stream /\ LastBegun' = LastBegun /\ Pending' = Pending
         /\ \A x \in InList : pic'[x].cts = pic[x].cts
<1>1. /\ stream' = stream /\ LastBegun' = LastBegun /\ InList' = InList
      /\ InList \subseteq Bufs /\ \A x \in Bufs : SameCoded(pic[x], pic'[x])
  BY Unmoved DEF ParserStays
<1>2. \A x \in InList : /\ pic'[x].cts = pic[x].cts
                        /\ pic'[x].neededForOutput = pic[x].neededForOutput
  BY <1>1 DEF SameCoded, SameOutput
<1> QED
  BY <1>1, <1>2 DEF Pending

LEMMA OrderGoesOn ==
  ASSUME TypeOK, ParserInv, OrderInv, ParserStays, out' = out,
         \A x \in InList : SameOutput(pic[x], pic'[x]),
         main'.outPic \in {main.outPic, NoPic}, main'.pc = "eof" => main.pc = "eof"
  PROVE  OrderInv'
<1>1. /\ stream' = stream /\ InList' = InList /\ InList \subseteq Bufs
      /\ LastBegun' = LastBegun /\ \A x \in Bufs : SameCoded(pic[x], pic'[x])
      /\ main.outPic # NoPic => main.outPic \in InList
  BY Unmoved, State DEF ParserStays
<1>2. \A x \in InList : /\ pic'[x].cts = pic[x].cts
                        /\ pic'[x].neededForOutput = pic[x].neededForOutput
  BY <1>1 DEF SameCoded, SameOutput
<1>3. Pending' = Pending /\ Gone' = Gone
  BY <1>1, PendingStays DEF Gone
<1>4. \A p, q : Cvs(p)' = Cvs(p) /\ (Before(p, q)' <=> Before(p, q))
  BY <1>1 DEF Cvs, Before
<1>5. OutputInOrder'
  BY <1>1, <1>4 DEF OrderInv, OutputInOrder
<1>6. AllDelivered'
  BY <1>1, <1>2 DEF OrderInv, AllDelivered
<1>7. \A b \in InList :
        /\ pic'[b].neededForOutput => stream[pic'[b].cts].output
        /\ pic'[b].progress < finished =>
             (pic'[b].neededForOutput <=> stream[pic'[b].cts].output)
  BY <1>2 DEF OrderInv, SameOutput
<1>8. main'.outPic # NoPic => /\ pic'[main'.outPic].cts \in Gone
                              /\ \A i \in DOMAIN out : Before(out[i], pic'[main'.outPic].cts)
  BY <1>1, <1>2 DEF OrderInv
<1> QED
  BY <1>1, <1>3, <1>4, <1>5, <1>6, <1>7, <1>8 DEF OrderInv

LEMMA StreamGoesOn ==
  ASSUME IndInv, StreamInv, ParserStays, NobodyLost', parseList' = parseList, out' = out,
         \A x \in Bufs : /\ pic'[x].skippedDecCount = pic[x].skippedDecCount
                         /\ SameOutput(pic[x], pic'[x]),
         main.pc = "sei" <=> main'.pc = "sei",
         \A x \in InList : ReportsCalm(x) \/ ReportsTell(x)',
         \A c \in DOMAIN stream :
           \/ reports'[c] = reports[c]
           \/ c <= LastBegun /\ reports'[c] <= MostReports(c) + HashSeen(c),
         main'.pc = "clean" /\ main'.exc => ~pic'[main'.cur].exceptionThrownOut,
         GoesOnOrThrows, main'.pc = "eof" => main.pc = "eof"
  PROVE  StreamInv' /\ FrameStep
<1>1. /\ TypeOK /\ ParserInv /\ OvertakenInv /\ ReportsInv /\ OrderInv
      /\ InList \subseteq Bufs /\ ToSet(parseList) \subseteq Bufs
      /\ main'.outPic \in {main.outPic, NoPic}
  BY State DEF IndInv, StreamInv, GoesOnOrThrows
<1>2. ParserInv'
  BY <1>1, ParserGoesOn
<1>3. OvertakenInv'
  BY <1>1, OvertakenGoesOn
<1>4. ReportsInv'
  BY <1>1, ReportsGoOn
<1>5. OrderInv'
  BY <1>1, OrderGoesOn
<1>6. FrameStep
  BY <1>1, PendingStays, FramesGoOn
<1> QED
  BY <1>2, <1>3, <1>4, <1>5, <1>6 DEF StreamInv

\* Nobody lets go of a picture that is not finished.
LEMMA KeptInHand ==
  ASSUME TypeOK, NobodyLost, ParserStays, InHand \ {NoPic} \subseteq InHand',
         \A x \in Bufs : pic'[x].progress < finished => pic[x].progress < finished
  PROVE  NobodyLost'
<1>1. InList' = InList /\ InList \subseteq Bufs /\ NoPic \notin InList
  BY Unmoved, State DEF ParserStays
<1>2. \A x \in Unfinished' : x \in Unfinished
  BY <1>1 DEF Unfinished, ParserStays, SameCoded
<1> QED
  BY <1>1, <1>2 DEF NobodyLost, Unfinished

LEMMA SameAgain == \A p : SameCoded(p, p) /\ SameFlags(p, p) /\ SameOutput(p, p)
BY DEF SameCoded, SameFlags, SameOutput

\* A worker changes one picture.
LEMMA WorkerGoesOn ==
  ASSUME IndInv, StreamInv, NEW b \in Bufs, WorkerFrame,
         \A x \in Bufs \ {b} : pic'[x] = pic[x],
         SameCoded(pic[b], pic'[b]), SameOutput(pic[b], pic'[b]),
         pic'[b].skippedDecCount = pic[b].skippedDecCount,
         pic'[b].exceptionThrownOut = pic[b].exceptionThrownOut,
         SameFlags(pic[b], pic'[b]) \/ ReportsTell(b)'
  PROVE  StreamInv' /\ FrameStep
<1>1. /\ UNCHANGED <<setup, nal, list, dpb, parsePic, parseList, segment, started>>
      /\ UNCHANGED <<instances, main, out, reports>>
  BY DEF WorkerFrame, parserVars, outputVars
<1>2. \A x \in Bufs : /\ SameCoded(pic[x], pic'[x]) /\ SameOutput(pic[x], pic'[x])
                      /\ pic'[x].skippedDecCount = pic[x].skippedDecCount
                      /\ SameFlags(pic[x], pic'[x]) \/ ReportsTell(x)'
  BY SameAgain
<1>3. ParserStays
  BY <1>1, <1>2 DEF ParserStays
<1>4. Waiting' = Waiting /\ InHand' = InHand
  BY <1>1 DEF Waiting, InHand, InWork
<1>5. NobodyLost'
  BY <1>2, <1>3, <1>4, KeptInHand DEF IndInv, StreamInv, ParserInv, SameOutput
<1>6. \A x : Prepared(x)' = Prepared(x)
  BY <1>1 DEF Prepared
<1>7. \A x \in InList : ReportsCalm(x) \/ ReportsTell(x)'
  <2>1. InList \subseteq Bufs
    BY State DEF IndInv
  <2> QED
    BY <1>1, <1>2, <1>4, <1>6, <2>1 DEF ReportsCalm
<1>8. main'.pc = "clean" /\ main'.exc => ~pic'[main'.cur].exceptionThrownOut
  <2>1. SUFFICES ASSUME main.pc = "clean", main.exc
                 PROVE  ~pic'[main.cur].exceptionThrownOut
    BY <1>1
  <2>2. main.cur \in Waiting /\ main.cur \in InList /\ main.cur \in Bufs
    BY <2>1, Owned
  <2>3. ~pic[main.cur].exceptionThrownOut
    BY <2>1 DEF StreamInv, ReportsInv
  <2> QED
    BY <2>2, <2>3
<1>9. GoesOnOrThrows
  BY <1>1 DEF GoesOnOrThrows
<1> QED
  BY <1>1, <1>2, <1>3, <1>5, <1>7, <1>8, <1>9, StreamGoesOn

\* ReportsTell of a picture q with n reports.
Tells(q, n, hash, prepared, waiting) ==
  /\ q.exceptionThrownOut \/ (q.progress = finished /\ q.error) => n >= 1
  /\ q.error /\ q.progress < finished => q.exceptionThrownOut \/ Throws(q)
  /\ ~q.exceptionThrownOut /\ q.progress < finished => n <= hash
  /\ ~q.complete => n <= q.slices - 1
  /\ q.parseFailed => q.queue = {}
  /\ q.recon => q.reconDone = "locked" \/ q.parseFailed
  /\ prepared => q.reconDone = "locked" /\ ~q.recon
  /\ waiting /\ q.exceptionThrownOut => q.parseFailed /\ q.parseDone # "error"

LEMMA TellsNow ==
  ASSUME NEW b
  PROVE  ReportsTell(b) <=> Tells(pic[b], reports[pic[b].cts], HashSeen(pic[b].cts),
                                  Prepared(b), b \in Waiting)
BY DEF ReportsTell, Tells

LEMMA TellsThen ==
  ASSUME UNCHANGED <<setup, nal>>, main.pc = "sei" <=> main'.pc = "sei", NEW b,
         pic'[b].cts = pic[b].cts
  PROVE  ReportsTell(b)' <=> Tells(pic'[b], reports'[pic[b].cts], HashSeen(pic[b].cts),
                                   Prepared(b)', (b \in Waiting)')
<1>1. stream' = stream /\ ParseFrameDelay' = ParseFrameDelay
  BY DEF stream, ParseFrameDelay
<1> QED
  BY <1>1 DEF ReportsTell, Tells, HashSeen, Throws

LEMMA ParseSliceStream ==
  ASSUME IndInv, StreamInv, NEW b \in Bufs, NEW s \in pic[b].queue, ParseSlice(b, s)
  PROVE  StreamInv' /\ FrameStep
<1> DEFINE p == pic[b]  q == pic'[b]
<1>1. /\ b \in InList /\ pic \in [Bufs -> Picture] /\ p \in Picture /\ SoundPicture(p)
      /\ ReportsTell(b)
  BY InTheList, State DEF IndInv, PicturesSound, StreamInv, ReportsInv
<1>2. p.progress # finished /\ p.parseDone = "locked" /\ p.progress \in 0..5
  BY <1>1, Fields DEF SoundPicture, BarrierState
<1>3. /\ \A x \in Bufs \ {b} : pic'[x] = pic[x]
      /\ q \in {SliceParsed(p, s), ParsingFailed(p)}
  BY <1>1, ZenonT(30) DEF ParseSlice
<1>4. /\ SameCoded(p, q) /\ SameOutput(p, q) /\ q.skippedDecCount = p.skippedDecCount
      /\ q.exceptionThrownOut = p.exceptionThrownOut
      /\ q.reconDone = p.reconDone /\ q.recon = p.recon /\ q.progress # finished
      /\ \/ q.error = p.error /\ q.parseFailed = p.parseFailed /\ q.parseDone # "error"
            /\ q.queue = p.queue \ {s}
         \/ q.error /\ q.parseFailed /\ q.parseDone = "error" /\ q.queue = {}
  <2>1. CASE q = SliceParsed(p, s)
    BY <1>1, <1>2, <2>1
       DEF SameCoded, SameOutput, Picture, SliceParsed, parsing, parsed, finished
  <2>2. CASE q = ParsingFailed(p)
    BY <1>1, <1>2, <2>2 DEF SameCoded, SameOutput, Picture, ParsingFailed, finished
  <2> QED
    BY <1>3, <2>1, <2>2
<1>5. /\ UNCHANGED <<setup, nal, instances, main, parseList, parsePic, reports>>
      /\ Waiting' = Waiting
  BY DEF ParseSlice, WorkerFrame, parserVars, Waiting
<1> HIDE DEF q
<1>6. ReportsTell(b)'
  <2>1. ~p.parseFailed
    BY <1>1 DEF ReportsTell
  <2>2. ~(b \in Waiting /\ p.exceptionThrownOut)
    BY <1>1, <2>1 DEF ReportsTell
  <2>3. Prepared(b)' = Prepared(b)
    BY <1>5 DEF Prepared
  <2> QED
    BY <1>1, <1>2, <1>4, <1>5, <2>1, <2>2, <2>3, TellsNow, TellsThen
       DEF Tells, SameCoded, Throws, finished, q
<1> QED
  BY <1>3, <1>4, <1>6, WorkerGoesOn DEF ParseSlice, q

LEMMA ReconstructStream ==
  ASSUME IndInv, StreamInv, NEW b \in Bufs, Reconstruct(b)
  PROVE  StreamInv' /\ FrameStep
<1> DEFINE p == pic[b]  q == pic'[b]
<1>1. /\ p.recon /\ b \in InList /\ p \in Picture /\ ReportsTell(b)
      /\ pic \in [Bufs -> Picture]
  BY InTheList, State DEF IndInv, StreamInv, ReportsInv, Reconstruct
<1>2. /\ b \in InWork /\ p.progress \in {reconstructing, reconstructed}
      /\ b \notin Waiting
  BY <1>1 DEF IndInv, OwnersState, OwnersApart
<1>3. /\ \A x \in Bufs \ {b} : pic'[x] = pic[x]
      /\ \/ /\ q = [p EXCEPT !.recon = FALSE, !.reconDone = "unlocked",
                             !.progress = reconstructed]
            /\ ~p.parseFailed
         \/ q = [p EXCEPT !.recon = FALSE, !.reconDone = "error"]
  BY <1>1, ZenonT(30) DEF Reconstruct
<1>4. /\ SameCoded(p, q) /\ SameOutput(p, q) /\ q.skippedDecCount = p.skippedDecCount
      /\ q.exceptionThrownOut = p.exceptionThrownOut /\ q.error = p.error
      /\ q.parseDone = p.parseDone /\ q.parseFailed = p.parseFailed
      /\ q.queue = p.queue /\ ~q.recon /\ q.progress # finished
      /\ p.parseFailed => q.reconDone = "error"
  <2>1. CASE /\ q = [p EXCEPT !.recon = FALSE, !.reconDone = "unlocked",
                              !.progress = reconstructed]
             /\ ~p.parseFailed
    BY <1>1, <1>2, <2>1
       DEF SameCoded, SameOutput, Picture, reconstructing, reconstructed, finished
  <2>2. CASE q = [p EXCEPT !.recon = FALSE, !.reconDone = "error"]
    BY <1>1, <1>2, <2>2
       DEF SameCoded, SameOutput, Picture, reconstructing, reconstructed, finished
  <2> QED
    BY <1>3, <2>1, <2>2
<1>5. /\ UNCHANGED <<setup, nal, instances, main, parseList, parsePic, reports>>
      /\ Waiting' = Waiting
  BY DEF Reconstruct, WorkerFrame, parserVars, Waiting
<1> HIDE DEF q
<1>6. ReportsTell(b)'
  <2>1. ~Prepared(b)' /\ p.progress < finished
    BY <1>1, <1>2, <1>5 DEF ReportsTell, Prepared, reconstructing, reconstructed, finished
  <2>2. p.reconDone = "error" => p.parseFailed
    BY <1>1 DEF ReportsTell
  <2> QED
    BY <1>1, <1>2, <1>4, <1>5, <2>1, <2>2, TellsNow, TellsThen
       DEF Tells, SameCoded, Throws, q
<1> QED
  BY <1>3, <1>4, <1>6, WorkerGoesOn DEF Reconstruct, q

LEMMA ExtendBorderStream ==
  ASSUME IndInv, StreamInv, NEW b \in Bufs, ExtendBorder(b)
  PROVE  StreamInv' /\ FrameStep
<1> DEFINE p == pic[b]  q == pic'[b]
<1>1. /\ pic \in [Bufs -> Picture] /\ p \in Picture /\ q = BorderExtended(p)
      /\ \A x \in Bufs \ {b} : pic'[x] = pic[x]
  BY State DEF IndInv, ExtendBorder
<1>2. /\ SameCoded(p, q) /\ SameOutput(p, q) /\ q.skippedDecCount = p.skippedDecCount
      /\ SameFlags(p, q)
  BY <1>1 DEF SameCoded, SameOutput, SameFlags, Picture, BorderExtended
<1> QED
  BY <1>1, <1>2, WorkerGoesOn DEF ExtendBorder, SameFlags
-----------------------------------------------------------------------------
(* finishPicture and what it reports.                                       *)

\* Nothing changes that the invariants of the stream look at.
SameRest(p, q) ==
  /\ SameCoded(p, q) /\ SameFlags(p, q)
  /\ q.neededForOutput = p.neededForOutput /\ q.skippedDecCount = p.skippedDecCount

LEMMA RestAgain == \A p : SameRest(p, p)
BY DEF SameRest, SameCoded, SameFlags

LEMMA UnmarkedAgain ==
  ASSUME NEW p \in Picture
  PROVE  /\ SameRest(p, [p EXCEPT !.stillReferenced = FALSE])
         /\ [p EXCEPT !.stillReferenced = FALSE] \in Picture
BY DEF SameRest, SameCoded, SameFlags, Picture

LEMMA FinishFlags ==
  ASSUME TypeOK, NEW P \in [Bufs -> Picture], NEW b \in Bufs
  PROVE  LET F == Finish(P, b)  p == P[b]  q == F[b]
         IN /\ \A x \in Bufs \ {b} : SameRest(P[x], F[x])
            /\ SameCoded(p, q) /\ q.progress = finished
            /\ q.neededForOutput = p.neededForOutput
            /\ q.skippedDecCount = p.skippedDecCount
            /\ q.parseFailed = p.parseFailed /\ q.queue = p.queue /\ q.recon = p.recon
            /\ IF Broken(p) /\ Throws(p) THEN q.error /\ q.exceptionThrownOut
               ELSE q.error = p.error /\ q.exceptionThrownOut = p.exceptionThrownOut
<1> DEFINE F == Finish(P, b)  p == P[b]  U == MarkUnused(P, list)
<1>1. /\ p \in Picture /\ list \in Seq(Bufs) /\ \A x \in Bufs : P[x] \in Picture
  BY State
<1>2. CASE Broken(p)
  <2>1. F = [P EXCEPT ![b] = FinishedBroken(@)]
    BY <1>2 DEF Finish
  <2>2. \A x \in Bufs \ {b} : F[x] = P[x]
    BY <2>1
  <2>3. F[b] = FinishedBroken(p)
    BY <2>1
  <2>4. CASE Throws(p)
    <3>1. F[b] = [p EXCEPT !.progress = finished, !.reconDone = "unlocked",
                           !.error = TRUE, !.exceptionThrownOut = TRUE]
      BY <2>3, <2>4 DEF FinishedBroken
    <3> QED
      BY <1>1, <1>2, <2>2, <2>4, <3>1, RestAgain DEF Picture, SameCoded
  <2>5. CASE ~Throws(p)
    <3>1. F[b] = [p EXCEPT !.progress = finished]
      BY <2>3, <2>5 DEF FinishedBroken
    <3> QED
      BY <1>1, <1>2, <2>2, <2>5, <3>1, RestAgain DEF Picture, SameCoded
  <2> QED
    BY <2>4, <2>5
<1>3. CASE ~Broken(p)
  <2>1. F = [U EXCEPT ![b] = [@ EXCEPT !.progress = finished]]
    BY <1>3 DEF Finish
  <2>2. /\ DOMAIN U = Bufs
        /\ \A x \in Bufs : U[x] = P[x] \/ U[x] = [P[x] EXCEPT !.stillReferenced = FALSE]
    BY <1>1, UnusedMarked
  <2> HIDE DEF U
  <2>3. ASSUME NEW x \in Bufs PROVE SameRest(P[x], U[x]) /\ U[x] \in Picture
    <3>1. CASE U[x] = P[x]
      BY <1>1, <3>1, RestAgain
    <3>2. CASE U[x] = [P[x] EXCEPT !.stillReferenced = FALSE]
      BY <1>1, <3>2, UnmarkedAgain
    <3> QED
      BY <2>2, <3>1, <3>2
  <2>4. /\ \A x \in Bufs \ {b} : F[x] = U[x]
        /\ F[b] = [U[b] EXCEPT !.progress = finished]
    BY <2>1, <2>2
  <2>5. SameRest(p, U[b]) /\ U[b] \in Picture
    BY <2>3
  <2> QED
    BY <1>3, <2>3, <2>4, <2>5 DEF Picture, SameRest, SameCoded, SameFlags
<1> QED
  BY <1>2, <1>3

\* A picture that is cleaned up or reconstructed has all its slices.
LEMMA CompleteWhenTaken ==
  ASSUME IndInv, StreamInv, NEW b \in InList,
         b \in InWork \cup {main.done} \/ (main.pc = "clean" /\ b = main.cur)
  PROVE  pic[b].complete /\ pic[b].progress < finished
<1>1. TypeOK /\ b \in Bufs /\ b # NoPic /\ pic[b].progress \in Int
  BY State, Fields DEF IndInv
<1>2. HoldsCoded(b) /\ (~MoreNals => nal[2] = 1)
  BY DEF StreamInv, ParserInv, PicturesInOrder, AtNal
<1>3. CASE b \in InWork \cup {main.done}
  <2>1. pic[b].progress \in {reconstructing, reconstructed}
    BY <1>1, <1>3 DEF IndInv, OwnersState
  <2>2. ~(b = parsePic /\ MoreNals /\ ~pic[b].complete)
    BY <1>1, <1>3, <2>1 DEF IndInv, ParsedLast, parsed, reconstructing, reconstructed
  <2> QED
    BY <1>2, <2>1, <2>2 DEF HoldsCoded, reconstructing, reconstructed, finished
<1>4. CASE main.pc = "clean" /\ b = main.cur
  <2>1. b \in Waiting /\ main.flushing = FALSE
    BY <1>1, <1>4, State DEF Waiting, IndInv, CallPlace, DecodePc
  <2>2. pic[b].progress \in {parsing, parsed} /\ pic[parsePic].complete
    BY <1>4, <2>1 DEF IndInv, OwnersState, ParsedLast, DecodePc
  <2> QED
    BY <1>2, <2>2 DEF HoldsCoded, parsing, parsed, finished
<1> QED
  BY <1>3, <1>4

\* Picture b is finished; e: it was reported already in this step.
LEMMA FinishStream ==
  ASSUME IndInv, StreamInv, NEW b \in InList, NEW P \in [Bufs -> Picture], NEW e \in BOOLEAN,
         pic' = Finish(P, b) \/ (pic' = [Finish(P, b) EXCEPT ![b] = Reported(@, e)]),
         ~e \/ pic' = [Finish(P, b) EXCEPT ![b] = Reported(@, e)],
         \A x \in Bufs \ {b} : P[x] = pic[x],
         SameCoded(pic[b], P[b]), P[b].neededForOutput = pic[b].neededForOutput,
         P[b].skippedDecCount = pic[b].skippedDecCount,
         P[b].exceptionThrownOut = pic[b].exceptionThrownOut,
         P[b].parseFailed = pic[b].parseFailed, P[b].queue = pic[b].queue, ~P[b].recon,
         P[b].error => pic[b].exceptionThrownOut \/ e \/ Throws(P[b]),
         e => ~pic[b].exceptionThrownOut,
         pic[b].progress < finished, pic[b].complete,
         reports' = IF e \/ FinishThrows(P[b]) THEN Report(b) ELSE reports,
         \A x \in Bufs : (x \in Waiting)' => x \in Waiting \ {b},
         main.pc \notin {"sei", "eof"}, main'.pc \notin {"sei", "clean", "ext", "eof"},
         main'.outPic \in {main.outPic, NoPic},
         e \/ FinishThrows(P[b]) \/ main'.outPic = main.outPic,
         InHand \subseteq InHand' \cup {b},
         UNCHANGED <<setup, nal, list, parserVars, outputVars, faults>>
  PROVE  StreamInv' /\ FrameStep
<1> DEFINE F == Finish(P, b)  p == pic[b]  o == P[b]  q == pic'[b]  c == p.cts
<1>1. /\ TypeOK /\ b \in Bufs /\ b # NoPic /\ InList \subseteq Bufs
      /\ StreamInv /\ ParserInv /\ ReportsInv /\ reports \in [DOMAIN stream -> Nat]
      /\ p.progress \in Int /\ F \in [Bufs -> Picture]
  <2>1. TypeOK
    BY DEF IndInv
  <2>2. b \in Bufs /\ b # NoPic /\ InList \subseteq Bufs /\ p \in Picture
    BY <2>1, State
  <2>3. reports \in [DOMAIN stream -> Nat]
    BY <2>1, NatTypes
  <2>4. p.progress \in Int
    BY <2>2, Fields
  <2>5. F \in [Bufs -> Picture]
    BY <2>1, <2>2, FinishIs
  <2> QED
    BY <2>1, <2>2, <2>3, <2>4, <2>5 DEF StreamInv
<1>2. /\ UNCHANGED <<setup, nal, list, dpb, parsePic, parseList, segment, started>>
      /\ out' = out
  BY DEF parserVars, outputVars
<1>3. ASSUME NEW x \in Bufs \ {b} PROVE SameRest(pic[x], pic'[x])
  <2>1. SameRest(pic[x], F[x])
    BY <1>1, <1>3, FinishFlags
  <2> QED
    BY <1>1, <1>3, <2>1
<1>4. /\ SameCoded(p, q) /\ q.progress = finished /\ q.neededForOutput = p.neededForOutput
      /\ q.skippedDecCount = p.skippedDecCount
      /\ q.parseFailed = p.parseFailed /\ q.queue = p.queue /\ ~q.recon
      /\ q.exceptionThrownOut \/ q.error =>
           p.exceptionThrownOut \/ e \/ FinishThrows(o)
  <2>1. /\ SameCoded(o, F[b]) /\ F[b].progress = finished
        /\ F[b].neededForOutput = o.neededForOutput
        /\ F[b].skippedDecCount = o.skippedDecCount
        /\ F[b].parseFailed = o.parseFailed /\ F[b].queue = o.queue /\ F[b].recon = o.recon
        /\ IF Broken(o) /\ Throws(o) THEN F[b].error /\ F[b].exceptionThrownOut
           ELSE F[b].error = o.error /\ F[b].exceptionThrownOut = o.exceptionThrownOut
    BY <1>1, FinishFlags
  <2>2. F[b] \in Picture
    BY <1>1
  <2>3. \/ q = F[b] /\ ~e
        \/ q = [F[b] EXCEPT !.exceptionThrownOut = F[b].exceptionThrownOut \/ e]
    BY <1>1 DEF Reported
  <2> HIDE DEF F, q
  <2>4. /\ SameCoded(F[b], q) /\ q.progress = finished
        /\ q.neededForOutput = F[b].neededForOutput
        /\ q.skippedDecCount = F[b].skippedDecCount
        /\ q.parseFailed = F[b].parseFailed /\ q.queue = F[b].queue /\ q.recon = F[b].recon
        /\ q.error = F[b].error /\ q.exceptionThrownOut = (F[b].exceptionThrownOut \/ e)
    <3>1. CASE q = F[b] /\ ~e
      BY <2>1, <2>2, <3>1 DEF SameCoded, Picture
    <3>2. CASE q = [F[b] EXCEPT !.exceptionThrownOut = F[b].exceptionThrownOut \/ e]
      BY <2>1, <2>2, <3>2 DEF SameCoded, Picture
    <3> QED
      BY <2>3, <3>1, <3>2
  <2>5. SameCoded(p, q)
    BY <2>1, <2>4 DEF SameCoded
  <2>6. q.exceptionThrownOut \/ q.error => p.exceptionThrownOut \/ e \/ FinishThrows(o)
    BY <2>1, <2>4 DEF FinishThrows, Broken
  <2> QED
    BY <2>1, <2>4, <2>5, <2>6
<1> HIDE DEF F, q, o
<1>5. \A x \in Bufs : /\ SameCoded(pic[x], pic'[x])
                      /\ pic'[x].skippedDecCount = pic[x].skippedDecCount
                      /\ SameOutput(pic[x], pic'[x])
  BY <1>3, <1>4 DEF SameRest, SameFlags, SameOutput, finished, q
<1>6. ParserStays
  BY <1>2, <1>5 DEF ParserStays
<1>7. NobodyLost'
  <2>1. InList' = InList
    BY <1>2 DEF InList
  <2>2. ASSUME NEW x \in Unfinished' PROVE x \in InHand'
    <3>1. x \in InList /\ x \in Bufs /\ x # b
      BY <1>1, <1>4, <2>1, <2>2 DEF Unfinished, q, finished
    <3>2. x \in Unfinished
      BY <1>5, <2>2, <3>1 DEF Unfinished, SameCoded, SameOutput
    <3> QED
      BY <1>1, <3>1, <3>2 DEF ParserInv, NobodyLost
  <2> QED
    BY <2>2 DEF NobodyLost
<1>8. /\ c \in DOMAIN stream /\ c \in 1..LastBegun /\ reports[c] \in Nat
      /\ \A x \in InList : pic[x].cts = c => x = b
      /\ ReportsTell(b) /\ HashSeen(c) \in {0, 1} /\ MostReports(c) >= 1
      /\ MostReports(c) \in Nat
  <2>1. c \in 1..LastBegun /\ c \in DOMAIN stream
    BY <1>1, NalIs DEF ParserInv, PicturesInOrder, HoldsCoded
  <2>2. ASSUME NEW x \in InList, pic[x].cts = c PROVE x = b
    <3>1. PICK i \in DOMAIN list, j \in DOMAIN list : list[i] = x /\ list[j] = b
      BY <1>1, <2>2 DEF InList, ToSet
    <3>2. i \in Int /\ j \in Int /\ pic[b].cts \in Int
      BY <1>1, <2>1, <3>1, State
    <3> QED
      BY <1>1, <2>2, <3>1, <3>2 DEF ParserInv, PicturesInOrder
  <2>3. stream[c].slices \in Nat
    BY <1>1, <2>1, StreamIs
  <2> QED
    BY <1>1, <2>1, <2>2, <2>3 DEF ReportsInv, HashSeen, MostReports
<1>9. /\ \A d \in DOMAIN stream \ {c} : reports'[d] = reports[d]
      /\ reports'[c] = (IF e \/ FinishThrows(o) THEN reports[c] + 1 ELSE reports[c])
  <2>1. Report(b) = [reports EXCEPT ![c] = @ + 1]
    BY <1>1, <1>8 DEF Report
  <2> QED
    BY <1>1, <1>8, <2>1 DEF o
<1>10. e \/ FinishThrows(o) => ~p.exceptionThrownOut
  BY DEF FinishThrows, o
<1>11. ReportsTell(b)'
  <2>1. /\ q.exceptionThrownOut \/ q.error => reports'[c] >= 1
    BY <1>4, <1>8, <1>9 DEF ReportsTell
  <2>2. p.complete /\ q.complete
    BY <1>4 DEF SameCoded
  <2>3. p.parseFailed => p.queue = {}
    BY <1>8 DEF ReportsTell
  <2>4. ~Prepared(b)' /\ ~(b \in Waiting)'
    BY <1>1 DEF Prepared
  <2>5. ~(q.progress < finished)
    BY <1>4 DEF finished
  <2>6. Tells(q, reports'[c], HashSeen(c), Prepared(b)', (b \in Waiting)')
    BY <1>4, <2>1, <2>2, <2>3, <2>4, <2>5 DEF Tells
  <2> QED
    BY <1>2, <1>4, <2>6, TellsThen DEF SameCoded, q
<1>12. \A x \in InList : ReportsCalm(x) \/ ReportsTell(x)'
  <2>1. ASSUME NEW x \in InList, x # b PROVE ReportsCalm(x)
    <3>1. /\ SameFlags(pic[x], pic'[x]) /\ ~Prepared(x)'
          /\ x \in Waiting' => x \in Waiting
      BY <1>1, <1>3, <2>1 DEF SameRest, Prepared
    <3>2. pic[x].cts \in DOMAIN stream /\ pic[x].cts # c
      BY <1>1, <1>8, <2>1, NalIs DEF ParserInv, PicturesInOrder, HoldsCoded
    <3> QED
      BY <1>9, <3>1, <3>2 DEF ReportsCalm
  <2> QED
    BY <1>11, <2>1
<1>13. \A d \in DOMAIN stream :
         \/ reports'[d] = reports[d]
         \/ d <= LastBegun /\ reports'[d] <= MostReports(d) + HashSeen(d)
  <2>1. reports'[c] = reports[c] \/ reports'[c] <= MostReports(c) + HashSeen(c)
    BY <1>8, <1>9, <1>10 DEF ReportsTell
  <2>2. c <= LastBegun
    BY <1>1, <1>8, NalIs DEF ParserInv
  <2> QED
    BY <1>9, <2>1, <2>2
<1>14. GoesOnOrThrows
  <2>1. Report(b) = [reports EXCEPT ![c] = @ + 1]
    BY <1>1, <1>8 DEF Report
  <2>2. CASE e \/ FinishThrows(o)
    <3>1. reports' = [reports EXCEPT ![c] = @ + 1]
      BY <2>1, <2>2 DEF o
    <3> QED
      BY <1>8, <3>1 DEF GoesOnOrThrows
  <2>3. CASE ~(e \/ FinishThrows(o))
    BY <2>3 DEF GoesOnOrThrows, o
  <2> QED
    BY <2>2, <2>3
<1> QED
  BY <1>2, <1>5, <1>6, <1>7, <1>12, <1>13, <1>14, StreamGoesOn

LEMMA CleanUpStream ==
  ASSUME IndInv, StreamInv, CleanUp
  PROVE  StreamInv' /\ FrameStep
<1> DEFINE b == main.cur  e == main.exc
           C == Cleaned(pic[b], e)
           P == [pic EXCEPT ![b] = C]
           thrown == e \/ FinishThrows(C)
<1>1. /\ main.pc = "clean" /\ TypeOK /\ b \in InList /\ b \in Bufs /\ b \in Waiting
      /\ b # NoPic /\ e \in BOOLEAN /\ pic \in [Bufs -> Picture] /\ pic[b] \in Picture
      /\ main.done = NoPic /\ main.outPic = NoPic
  BY Owned, State, MainFields DEF IndInv, CleanUp, CallPlace, DecodePc
<1>2. pic[b].queue = {} /\ ~pic[b].recon /\ pic[b].progress \in {parsing, parsed}
      /\ pic[b].reconDone = "locked" /\ SoundPicture(pic[b])
  BY <1>1 DEF CleanUp, TasksDone, IndInv, OwnersState, PicturesSound
<1>3. /\ pic' = [Finish(P, b) EXCEPT ![b] = Reported(@, e)]
      /\ reports' = IF thrown THEN Report(b) ELSE reports
      /\ main' = IF e /\ pic[b].exceptionThrownOut
                 THEN [main EXCEPT !.pc = "reported_before"]
                 ELSE IF thrown THEN Idle ELSE [main EXCEPT !.pc = "next"]
      /\ UNCHANGED <<setup, nal, list, parserVars, instances, outputVars, faults>>
  BY DEF CleanUp
<1>4. /\ C \in Picture /\ SameCoded(pic[b], C) /\ C.neededForOutput = pic[b].neededForOutput
      /\ C.skippedDecCount = pic[b].skippedDecCount
      /\ C.exceptionThrownOut = pic[b].exceptionThrownOut
      /\ C.parseFailed = pic[b].parseFailed /\ C.queue = pic[b].queue /\ ~C.recon
      /\ C.error = (pic[b].error \/ e)
      /\ C.parseDone = (IF e THEN "locked" ELSE pic[b].parseDone)
  <2> DEFINE p == pic[b]
  <2>1. /\ p \in Picture /\ e \in BOOLEAN /\ SoundPicture(p) /\ p.queue = {} /\ ~p.recon
        /\ p.progress \in {parsing, parsed}
    BY <1>1, <1>2
  <2> HIDE DEF p, e
  <2>2. Cleaned(p, e) \in Picture
    BY <2>1, CleanedIs
  <2>3. Cleaned(p, e) = [p EXCEPT !.error = p.error \/ e,
                                  !.parseDone = IF e THEN "locked" ELSE @,
                                  !.reconDone = "unlocked", !.progress = reconstructed]
    <3>1. ~(p.progress < parsing)
      BY <2>1 DEF parsing, parsed
    <3> QED
      BY <3>1, Zenon DEF Cleaned
  <2>4. LET q == Cleaned(p, e)
        IN /\ SameCoded(p, q) /\ q.neededForOutput = p.neededForOutput
           /\ q.skippedDecCount = p.skippedDecCount
           /\ q.exceptionThrownOut = p.exceptionThrownOut
           /\ q.parseFailed = p.parseFailed /\ q.queue = p.queue /\ ~q.recon
           /\ q.error = (p.error \/ e)
           /\ q.parseDone = (IF e THEN "locked" ELSE p.parseDone)
    BY <2>1, <2>3 DEF Picture, SameCoded
  <2> QED
    BY <2>2, <2>4 DEF p
<1> HIDE DEF C
<1>5. P \in [Bufs -> Picture] /\ P[b] = C /\ \A x \in Bufs \ {b} : P[x] = pic[x]
  BY <1>1, <1>4
<1>6. /\ main'.pc \in {"reported_before", "idle", "next"} /\ main'.outPic = NoPic
      /\ main'.done = NoPic /\ main'.outPic = main.outPic
  BY <1>1, <1>3, MainFields DEF MainPcs, EndPc, DecodePc, Idle
<1>7. pic[b].complete /\ pic[b].progress < finished
  BY <1>1, CompleteWhenTaken
<1>8. C.error => pic[b].exceptionThrownOut \/ e \/ Throws(C)
  <2>1. ReportsTell(b)
    BY <1>1 DEF StreamInv, ReportsInv
  <2> QED
    BY <1>2, <1>4, <1>7, <2>1 DEF ReportsTell, Throws
<1>9. e => ~pic[b].exceptionThrownOut
  BY <1>1 DEF StreamInv, ReportsInv
<1>10. /\ \A x \in Bufs : (x \in Waiting)' => x \in Waiting \ {b}
       /\ InHand \subseteq InHand' \cup {b}
  <2>1. parseList' = parseList /\ instances' = instances
    BY <1>3 DEF parserVars
  <2>2. Waiting = ToSet(parseList) \cup {b} /\ b \notin ToSet(parseList)
    BY <1>1 DEF Waiting, IndInv, OwnersApart
  <2>3. Waiting' = ToSet(parseList) /\ InWork' = InWork
    BY <1>6, <2>1 DEF Waiting, InWork
  <2> QED
    BY <1>1, <1>6, <2>2, <2>3 DEF InHand
<1> HIDE DEF P, b, e
<1> QED
  BY <1>1, <1>3, <1>4, <1>5, <1>6, <1>7, <1>8, <1>9, <1>10, FinishStream

LEMMA FinishDoneStream ==
  ASSUME IndInv, StreamInv, FinishDone
  PROVE  StreamInv' /\ FrameStep
<1> DEFINE b == main.done
           next == [main EXCEPT !.pc = IF main.flushing THEN "flushOut" ELSE "output",
                                !.cur = NoPic, !.done = NoPic]
<1>1. /\ main.pc = "finish" /\ TypeOK /\ b \in InList \cup {NoPic}
      /\ pic \in [Bufs -> Picture] /\ (b # NoPic => b \in Bufs)
      /\ UNCHANGED <<setup, nal, list, parserVars, instances, outputVars, faults>>
  BY State DEF IndInv, FinishDone
<1>2. /\ next.pc \in {"flushOut", "output"} /\ next.done = NoPic
      /\ next.outPic = main.outPic
  BY <1>1, MainFields DEF MainTypes
<1>3. Idle.pc = "idle" /\ Idle.outPic = NoPic /\ Idle.done = NoPic
  BY DEF Idle
<1>4. IF b = NoPic
      THEN main' = next /\ UNCHANGED <<pic, reports>>
      ELSE /\ pic' = Finish(pic, b)
           /\ IF FinishThrows(pic[b])
              THEN main' = Idle /\ reports' = Report(b)
              ELSE main' = next /\ UNCHANGED reports
  BY DEF FinishDone
<1> HIDE DEF next
<1>5. /\ main'.pc \in {"flushOut", "output", "idle"} /\ main'.done = NoPic
      /\ main'.outPic \in {main.outPic, NoPic}
      /\ main'.outPic = main.outPic \/ (b # NoPic /\ FinishThrows(pic[b]))
  BY <1>2, <1>3, <1>4
<1>6. /\ parseList' = parseList /\ instances' = instances /\ out' = out
      /\ Waiting = ToSet(parseList) /\ Waiting' = Waiting /\ InWork' = InWork
      /\ InHand \subseteq InHand' \cup {b}
  BY <1>1, <1>5 DEF parserVars, outputVars, Waiting, InWork, InHand
<1>7. CASE b = NoPic
  <2>1. UNCHANGED <<pic, reports>> /\ UNCHANGED <<setup, nal, list, parserVars, outputVars>>
    BY <1>1, <1>4, <1>7
  <2>2. ParserStays
    BY <2>1, SameAgain DEF ParserStays, parserVars
  <2>3. InHand \subseteq InHand'
    BY <1>5, <1>6, <1>7 DEF InHand
  <2>4. NobodyLost'
    BY <1>1, <2>1, <2>2, <2>3, KeptInHand DEF StreamInv, ParserInv
  <2>5. \A x \in InList : ReportsCalm(x)
    BY <1>5, <1>6, <2>1, SameAgain DEF ReportsCalm, Prepared
  <2>6. GoesOnOrThrows
    BY <1>5, <1>7, <2>1 DEF GoesOnOrThrows
  <2> QED
    BY <1>1, <1>5, <1>6, <2>1, <2>2, <2>4, <2>5, <2>6, SameAgain, StreamGoesOn
<1>8. CASE b # NoPic
  <2>1. b \in InList /\ b \in Bufs /\ b \notin Waiting
    <3>1. b \notin Waiting
      BY DEF IndInv, OwnersApart
    <3> QED
      BY <1>1, <1>8, <3>1
  <2>2. ~pic[b].recon /\ pic[b].progress \in {reconstructing, reconstructed}
    BY <1>8 DEF IndInv, OwnersState
  <2>3. pic[b].complete /\ pic[b].progress < finished
    BY <2>1, CompleteWhenTaken
  <2>4. pic[b].error => pic[b].exceptionThrownOut \/ Throws(pic[b])
    BY <2>1, <2>3 DEF StreamInv, ReportsInv, ReportsTell
  <2>5. /\ pic' = Finish(pic, b)
        /\ reports' = IF FALSE \/ FinishThrows(pic[b]) THEN Report(b) ELSE reports
    BY <1>4, <1>8
  <2>6. SameCoded(pic[b], pic[b])
    BY SameAgain
  <2> HIDE DEF b
  <2> QED
    <3>1. /\ ~pic[b].recon /\ FALSE \in BOOLEAN /\ main.pc \notin {"sei", "eof"}
          /\ main'.pc \notin {"sei", "clean", "ext", "eof"}
          /\ \A x \in Bufs : (x \in Waiting)' => x \in Waiting \ {b}
      BY <1>1, <1>5, <1>6, <2>1, <2>2
    <3> QED
      BY <1>1, <1>5, <1>6, <2>1, <2>3, <2>4, <2>5, <2>6, <3>1, FinishStream
<1> QED
  BY <1>7, <1>8

\* What waitForPrevDecompressedPic makes of a picture.
LEMMA WaitedFlags ==
  ASSUME NEW p \in Picture
  PROVE  LET q == AfterWait(p)
         IN /\ SameCoded(p, q) /\ q.neededForOutput = p.neededForOutput
            /\ q.skippedDecCount = p.skippedDecCount
            /\ q.exceptionThrownOut = p.exceptionThrownOut
            /\ q.parseFailed = p.parseFailed /\ q.queue = p.queue /\ q.recon = p.recon
            /\ q.progress = p.progress /\ q.parseDone = p.parseDone
            /\ q.reconDone = p.reconDone
            /\ q.error = (p.error \/ p.reconDone = "error")
<1> DEFINE q == AfterWait(p)
<1>1. q = [p EXCEPT !.error = p.error \/ p.reconDone = "error"]
  BY DEF AfterWait
<1> HIDE DEF q
<1>2. LET r == q
      IN /\ SameCoded(p, r) /\ r.neededForOutput = p.neededForOutput
         /\ r.skippedDecCount = p.skippedDecCount
         /\ r.exceptionThrownOut = p.exceptionThrownOut
         /\ r.parseFailed = p.parseFailed /\ r.queue = p.queue /\ r.recon = p.recon
         /\ r.progress = p.progress /\ r.parseDone = p.parseDone
         /\ r.reconDone = p.reconDone
         /\ r.error = (p.error \/ p.reconDone = "error")
  BY <1>1 DEF Picture, SameCoded
<1> QED
  BY <1>2 DEF q

LEMMA BlockAndFinishStream ==
  ASSUME IndInv, StreamInv, BlockAndFinish
  PROVE  StreamInv' /\ FrameStep
<1> DEFINE i == SelectInSeq(instances, LAMBDA x : x # NoPic)
           b == instances[i]
           I == {k \in 1..Len(instances) : instances[k] # NoPic}
<1>1. /\ main.pc = "block" /\ TypeOK /\ parseList = <<>> /\ main.done = NoPic
      /\ main.outPic = NoPic
      /\ InList \subseteq Bufs /\ NoPic \notin InList /\ pic \in [Bufs -> Picture]
      /\ instances \in [1..Instances -> InList \cup {NoPic}]
      /\ UNCHANGED <<setup, nal, list, parserVars, outputVars, faults>>
  BY State DEF IndInv, BlockAndFinish, CallPlace
<1>2. Len(instances) = Instances /\ Instances \in Nat
  <2>1. instances \in Seq(InList \cup {NoPic}) /\ DOMAIN instances = 1..Instances
        /\ Instances \in Nat
    BY <1>1, Constants, IsASeq
  <2> QED
    BY <2>1, LenProperties
<1>3. i = IF I # {} THEN Min(I) ELSE 0
  BY DEF SelectInSeq
<1>4. i # 0 => i \in I
  <2>1. I \in SUBSET Nat /\ 0 \notin I
    BY <1>2
  <2> HIDE DEF I
  <2> QED
    BY <1>3, <2>1, SelectedFirst
<1>5. IF i = 0
      THEN main' = [main EXCEPT !.pc = "flushLast"] /\ UNCHANGED <<pic, instances, reports>>
      ELSE /\ Waited(b)
           /\ pic' = Finish(WaitedPic(b), b)
           /\ instances' = [instances EXCEPT ![i] = NoPic]
           /\ IF FinishThrows(WaitedPic(b)[b])
              THEN main' = Idle /\ reports' = Report(b)
              ELSE UNCHANGED <<main, reports>>
  BY DEF BlockAndFinish
<1> HIDE DEF i
<1>6. /\ parseList' = parseList /\ out' = out
  BY <1>1 DEF parserVars, outputVars
<1>7. CASE i = 0
  <2>1. main' = [main EXCEPT !.pc = "flushLast"] /\ UNCHANGED <<pic, instances, reports>>
    BY <1>5, <1>7
  <2>2. main'.pc = "flushLast" /\ main'.outPic = main.outPic /\ main'.done = main.done
    BY <1>1, <2>1, MainFields DEF MainPcs, FlushPc
  <2>3. ParserStays
    BY <1>1, <2>1, SameAgain DEF ParserStays, parserVars
  <2>4. Waiting' = Waiting /\ InHand \subseteq InHand'
    BY <1>1, <1>6, <2>1, <2>2 DEF Waiting, InHand, InWork
  <2>5. NobodyLost'
    BY <1>1, <2>1, <2>3, <2>4, KeptInHand DEF StreamInv, ParserInv
  <2>6. \A x \in InList : ReportsCalm(x)
    BY <2>1, <2>2, <2>4, SameAgain DEF ReportsCalm, Prepared
  <2>7. GoesOnOrThrows
    BY <2>1, <2>2 DEF GoesOnOrThrows
  <2> QED
    BY <1>1, <1>6, <2>1, <2>2, <2>3, <2>5, <2>6, <2>7, SameAgain, StreamGoesOn
<1>8. CASE i # 0
  <2>1. /\ i \in 1..Instances /\ b # NoPic /\ b \in InList /\ b \in InWork
        /\ b \notin Waiting /\ b \in Bufs
    BY <1>1, <1>2, <1>4, <1>8, State DEF InWork, IndInv, OwnersApart
  <2>2. /\ Waited(b) /\ pic' = Finish(WaitedPic(b), b)
        /\ instances' = [instances EXCEPT ![i] = NoPic]
        /\ IF FinishThrows(WaitedPic(b)[b])
           THEN main' = Idle /\ reports' = Report(b)
           ELSE UNCHANGED <<main, reports>>
    BY <1>5, <1>8
  <2>3. /\ main'.pc \in {"block", "idle"} /\ main'.done = NoPic
        /\ main'.outPic = main.outPic
    BY <1>1, <2>2 DEF Idle
  <2>4. Waiting' = Waiting
    BY <1>1, <1>6, <2>3 DEF Waiting
  <2>5. InHand \subseteq InHand' \cup {b}
    <3>1. \A k \in (1..Instances) \ {i} : instances'[k] = instances[k]
      BY <1>1, <2>1, <2>2
    <3>2. DOMAIN instances = 1..Instances /\ DOMAIN instances' = 1..Instances
      BY <1>1, <2>2
    <3>3. ASSUME NEW x \in InWork \ {b} PROVE x \in InWork'
      <4>1. PICK k \in 1..Instances : instances[k] = x /\ x # NoPic
        BY <3>2 DEF InWork, ToSet
      <4>2. k # i
        BY <4>1
      <4>3. instances'[k] = x
        BY <3>1, <4>1, <4>2
      <4> QED
        BY <3>2, <4>1, <4>3 DEF InWork, ToSet
    <3> QED
      BY <1>1, <2>3, <2>4, <3>3 DEF InHand
  <2> HIDE DEF b
  <2>6. WaitedPic(b) \in [Bufs -> Picture] /\ FoundAs(WaitedPic(b), b)
    BY <2>1, <2>2, WaitedOver
  <2> DEFINE P == WaitedPic(b)
  <2>7. /\ SameCoded(pic[b], P[b]) /\ P[b].neededForOutput = pic[b].neededForOutput
        /\ P[b].skippedDecCount = pic[b].skippedDecCount
        /\ P[b].exceptionThrownOut = pic[b].exceptionThrownOut
        /\ P[b].parseFailed = pic[b].parseFailed /\ P[b].queue = pic[b].queue
        /\ P[b].parseDone = pic[b].parseDone /\ P[b].reconDone = pic[b].reconDone
        /\ P[b].error = (pic[b].error \/ pic[b].reconDone = "error")
    <3>1. P[b] = AfterWait(pic[b]) /\ pic[b] \in Picture
      BY <1>1, <2>1 DEF WaitedPic
    <3> QED
      BY <3>1, WaitedFlags
  <2>8. pic[b].complete /\ pic[b].progress < finished
    BY <2>1, CompleteWhenTaken
  <2>9. P[b].error => pic[b].exceptionThrownOut \/ Throws(P[b])
    <3>1. pic[b].error => pic[b].exceptionThrownOut \/ Throws(pic[b])
      BY <2>1, <2>8 DEF StreamInv, ReportsInv, ReportsTell
    <3> QED
      BY <2>7, <3>1 DEF Throws
  <2> HIDE DEF P
  <2>10. /\ pic' = Finish(P, b) /\ P \in [Bufs -> Picture]
         /\ \A x \in Bufs \ {b} : P[x] = pic[x]
         /\ ~P[b].recon /\ FALSE \in BOOLEAN
         /\ reports' = IF FALSE \/ FinishThrows(P[b]) THEN Report(b) ELSE reports
         /\ \A x \in Bufs : (x \in Waiting)' => x \in Waiting \ {b}
         /\ main.pc \notin {"sei", "eof"} /\ main'.pc \notin {"sei", "clean", "ext", "eof"}
    BY <1>1, <2>1, <2>2, <2>3, <2>4, <2>6 DEF P, FoundAs
  <2> QED
    BY <1>1, <2>1, <2>3, <2>5, <2>7, <2>8, <2>9, <2>10, FinishStream
<1> QED
  BY <1>7, <1>8
-----------------------------------------------------------------------------
(* reconPicture and decompressPicture.                                      *)

LEMMA HandOverGoesOn ==
  ASSUME IndInv, StreamInv, UNCHANGED <<setup, nal, list, parserVars, outputVars, reports>>,
         main.pc \in ReconPc, main'.pc \in ReconPc, main'.outPic = main.outPic,
         InHand \ {NoPic} \subseteq InHand',
         \A x \in Bufs : /\ SameCoded(pic[x], pic'[x]) /\ SameOutput(pic[x], pic'[x])
                         /\ pic'[x].skippedDecCount = pic[x].skippedDecCount,
         \A x \in InList : ReportsCalm(x) \/ ReportsTell(x)'
  PROVE  StreamInv' /\ FrameStep
<1>1. /\ parseList' = parseList /\ out' = out /\ TypeOK
      /\ main.pc \notin {"sei", "eof"} /\ main'.pc \notin {"sei", "eof", "clean"}
  BY DEF parserVars, outputVars, IndInv, ReconPc
<1>2. ParserStays
  BY DEF ParserStays, parserVars
<1>3. NobodyLost'
  BY <1>1, <1>2, KeptInHand DEF StreamInv, ParserInv, SameOutput
<1>4. GoesOnOrThrows
  BY DEF GoesOnOrThrows
<1> QED
  BY <1>1, <1>2, <1>3, <1>4, StreamGoesOn

\* decompressPicture ends with picture main.cur as q.
LEMMA PreparedGoesOn ==
  ASSUME IndInv, StreamInv, main.pc = "ext", NEW q \in Picture,
         pic' = [pic EXCEPT ![main.cur] = q], main' = [main EXCEPT !.pc = "finish"],
         UNCHANGED <<setup, nal, list, parserVars, instances, outputVars, reports>>,
         LET p == pic[main.cur]
         IN /\ SameCoded(p, q) /\ SameOutput(p, q) /\ q.skippedDecCount = p.skippedDecCount
            /\ q.exceptionThrownOut = p.exceptionThrownOut /\ q.progress = p.progress
            /\ q.parseFailed = p.parseFailed /\ q.queue = p.queue
            /\ p.error /\ Throws(p) => Throws(q)
            /\ q.error => p.error \/ Throws(q)
            /\ q.recon => p.recon \/ q.reconDone = "locked" \/ q.parseFailed
  PROVE  StreamInv' /\ FrameStep
<1>0. PICK c \in Bufs : c = main.cur
  BY Owned
<1> DEFINE p == pic[c]
<1>1. /\ TypeOK /\ c \in InList /\ c \in Bufs /\ c \in InWork /\ c \notin Waiting
      /\ InList \subseteq Bufs /\ pic \in [Bufs -> Picture] /\ p \in Picture
      /\ p.progress \in {reconstructing, reconstructed}
  BY <1>0, Owned, State DEF IndInv, OwnersApart, OwnersState
<1>2. main'.pc = "finish" /\ main'.outPic = main.outPic /\ main'.done = main.done
  BY <1>1, MainFields DEF MainPcs, ReconPc
<1>3. Waiting' = Waiting /\ InHand' = InHand /\ UNCHANGED <<parseList, instances>>
  BY <1>2 DEF Waiting, InHand, InWork, parserVars
<1>4. pic'[c] = q /\ \A x \in Bufs \ {c} : pic'[x] = pic[x]
  BY <1>0, <1>1
<1>5. \A x \in Bufs : /\ SameCoded(pic[x], pic'[x]) /\ SameOutput(pic[x], pic'[x])
                      /\ pic'[x].skippedDecCount = pic[x].skippedDecCount
  BY <1>0, <1>4, SameAgain
<1>6. \A x \in Bufs : ~Prepared(x)'
  BY <1>2 DEF Prepared
<1>7. ReportsTell(c)'
  <2>1. ReportsTell(c) /\ Prepared(c)
    BY <1>0, <1>1 DEF StreamInv, ReportsInv, Prepared
  <2>2. p.progress < finished
    BY <1>1 DEF reconstructing, reconstructed, finished
  <2>3. ~p.recon
    BY <2>1 DEF ReportsTell
  <2>4. Tells(q, reports[p.cts], HashSeen(p.cts), Prepared(c)', (c \in Waiting)')
    BY <1>0, <1>1, <1>3, <1>6, <2>1, <2>2, <2>3 DEF ReportsTell, Tells, SameCoded, finished
  <2> QED
    BY <1>0, <1>1, <1>2, <1>4, <2>4, TellsThen DEF SameCoded
<1>8. \A x \in InList \ {c} : ReportsCalm(x)
  BY <1>1, <1>3, <1>4, <1>6, SameAgain DEF ReportsCalm
<1> QED
  BY <1>2, <1>3, <1>5, <1>7, <1>8, HandOverGoesOn DEF ReconPc

LEMMA NotScheduledStream ==
  ASSUME IndInv, StreamInv, main.pc = "ext", NotScheduled,
         UNCHANGED <<setup, nal, list, parserVars, instances, outputVars, reports>>
  PROVE  StreamInv' /\ FrameStep
<1> DEFINE p == pic[main.cur]
           q == [p EXCEPT !.error = TRUE, !.reconDone = "error"]
<1>1. pic' = [pic EXCEPT ![main.cur] = q] /\ main' = [main EXCEPT !.pc = "finish"]
  BY DEF NotScheduled
<1>2. p \in Picture
  BY Owned, State DEF IndInv
<1>3. /\ q \in Picture /\ SameCoded(p, q) /\ SameOutput(p, q)
      /\ q.skippedDecCount = p.skippedDecCount
      /\ q.exceptionThrownOut = p.exceptionThrownOut /\ q.progress = p.progress
      /\ q.parseFailed = p.parseFailed /\ q.queue = p.queue /\ q.recon = p.recon
      /\ q.reconDone = "error"
  <2> HIDE DEF p
  <2> QED
    BY <1>2, Ranges, ZenonT(30) DEF Picture, SameCoded, SameOutput
<1> HIDE DEF q
<1> QED
  BY <1>1, <1>3, PreparedGoesOn DEF Throws

LEMMA BorderExtFailedStream ==
  ASSUME IndInv, StreamInv, BorderExtFailed
  PROVE  StreamInv' /\ FrameStep
BY NotScheduledStream DEF BorderExtFailed

LEMMA ScheduleStream ==
  ASSUME IndInv, StreamInv, Schedule
  PROVE  StreamInv' /\ FrameStep
<1> DEFINE p == pic[main.cur]  q == Scheduled(p)
<1>1. /\ pic' = [pic EXCEPT ![main.cur] = q] /\ main' = [main EXCEPT !.pc = "finish"]
      /\ main.pc = "ext"
      /\ UNCHANGED <<setup, nal, list, parserVars, instances, outputVars, reports>>
  BY DEF Schedule
<1>2. p \in Picture /\ main.cur \in InList
  BY <1>1, Owned, State DEF IndInv
<1>3. p.reconDone = "locked"
  BY <1>1, <1>2 DEF StreamInv, ReportsInv, ReportsTell, Prepared
<1>4. /\ q \in Picture /\ SameCoded(p, q) /\ SameOutput(p, q)
      /\ q.skippedDecCount = p.skippedDecCount
      /\ q.exceptionThrownOut = p.exceptionThrownOut /\ q.progress = p.progress
      /\ q.parseFailed = p.parseFailed /\ q.queue = p.queue /\ q.parseDone = p.parseDone
      /\ q.error = (p.error \/ p.parseFailed)
      /\ q.reconDone = (IF p.parseFailed THEN "error" ELSE "locked")
  <2> HIDE DEF p
  <2> QED
    BY <1>2, Ranges, ZenonT(40) DEF Scheduled, Picture, SameCoded, SameOutput
<1> HIDE DEF q
<1> QED
  BY <1>1, <1>3, <1>4, PreparedGoesOn DEF Throws

LEMMA BorderExtPicStream ==
  ASSUME IndInv, StreamInv, NEW r \in Bufs, BorderExtPic(r)
  PROVE  StreamInv' /\ FrameStep
<1>1. /\ main.pc = "ext" /\ TypeOK /\ r \in pic[main.cur].refs /\ TasksDone(pic[r])
      /\ UNCHANGED <<setup, nal, list, parserVars, instances, outputVars, reports>>
  BY DEF BorderExtPic, Unextended, IndInv
<1>2. CASE pic[r].progress < parsing
  BY <1>1, <1>2, NotScheduledStream DEF BorderExtPic
<1>3. CASE ~(pic[r].progress < parsing)
  <2> DEFINE p == pic[r]  q == ForReference(p)
  <2>1. pic' = [pic EXCEPT ![r] = q] /\ main' = main
    BY <1>3 DEF BorderExtPic
  <2>2. /\ p \in Picture /\ p.queue = {} /\ ~p.recon /\ SoundPicture(p)
        /\ p.progress \in 0..5 /\ pic \in [Bufs -> Picture] /\ r \in InList
        /\ InList \subseteq Bufs /\ main.cur \in InList
    BY <1>1, State, Owned, Fields DEF IndInv, PicturesSound, TasksDone
  <2>3. /\ SameCoded(p, q) /\ q.neededForOutput = p.neededForOutput
        /\ q.skippedDecCount = p.skippedDecCount
        /\ q.exceptionThrownOut = p.exceptionThrownOut
        /\ q.parseFailed = p.parseFailed /\ q.queue = {} /\ ~q.recon
        /\ \/ /\ q.progress = p.progress /\ q.error = p.error
              /\ q.parseDone = p.parseDone /\ q.reconDone = p.reconDone
           \/ /\ q.progress = reconstructed /\ q.parseDone = "error"
              /\ p.progress < reconstructed
    <3> HIDE DEF p
    <3>1. q = [p EXCEPT !.borderExtStarted = TRUE, !.border = TRUE] \/
          /\ q = [p EXCEPT !.error = TRUE, !.reconDone = "unlocked", !.parseDone = "error",
                           !.progress = reconstructed, !.borderExtStarted = TRUE,
                           !.border = TRUE]
          /\ p.progress < reconstructed
      BY <2>2 DEF ForReference
    <3> HIDE DEF q
    <3>2. CASE q = [p EXCEPT !.borderExtStarted = TRUE, !.border = TRUE]
      BY <2>2, <3>2 DEF Picture, SameCoded
    <3>3. CASE /\ q = [p EXCEPT !.error = TRUE, !.reconDone = "unlocked",
                                !.parseDone = "error", !.progress = reconstructed,
                                !.borderExtStarted = TRUE, !.border = TRUE]
               /\ p.progress < reconstructed
      BY <2>2, <3>3 DEF Picture, SameCoded
    <3> QED
      BY <3>1, <3>2, <3>3
  <2> HIDE DEF q
  <2>4. pic'[r] = q /\ \A x \in Bufs \ {r} : pic'[x] = pic[x]
    BY <2>1, <2>2
  <2>5. /\ \A x \in Bufs : Prepared(x)' = Prepared(x)
        /\ UNCHANGED <<Waiting, InHand, reports>>
    BY <1>1, <2>1 DEF Prepared, Waiting, InHand, InWork, parserVars
  <2>6. r \notin Waiting /\ ~Prepared(r)
    <3>1. main.cur \notin pic[main.cur].refs
      BY <2>2 DEF StreamInv, ParserInv, PicturesInOrder, HoldsCoded
    <3> QED
      BY <1>1, <3>1 DEF IndInv, CodingOrder, Waiting, Prepared
  <2>7. q.progress < finished => p.progress < finished
    BY <2>2, <2>3 DEF reconstructed, finished
  <2>8. ReportsTell(r)'
    <3>1. ReportsTell(r)
      BY <2>2 DEF StreamInv, ReportsInv
    <3>2. q.progress = finished => q.error = p.error /\ p.progress = finished
      BY <2>3 DEF reconstructed, finished
    <3>3. Tells(q, reports[p.cts], HashSeen(p.cts), Prepared(r)', (r \in Waiting)')
      BY <2>2, <2>3, <2>5, <2>6, <2>7, <3>1, <3>2
         DEF ReportsTell, Tells, SameCoded, Throws
    <3> QED
      BY <1>1, <2>1, <2>3, <2>4, <2>5, <3>3, TellsThen DEF SameCoded
  <2>9. \A x \in InList \ {r} : ReportsCalm(x)
    BY <2>2, <2>4, <2>5, SameAgain DEF ReportsCalm
  <2>10. \A x \in Bufs : /\ SameCoded(pic[x], pic'[x]) /\ SameOutput(pic[x], pic'[x])
                         /\ pic'[x].skippedDecCount = pic[x].skippedDecCount
    BY <2>3, <2>4, <2>7, SameAgain DEF SameOutput
  <2> QED
    BY <1>1, <2>1, <2>5, <2>8, <2>9, <2>10, HandOverGoesOn DEF ReconPc
<1> QED
  BY <1>2, <1>3

LEMMA WaitForPrevStream ==
  ASSUME IndInv, StreamInv, WaitForPrev
  PROVE  StreamInv' /\ FrameStep
<1>0. PICK c \in Bufs, prev \in Bufs \cup {NoPic} : c = main.cur /\ prev = instances[1]
  <2>1. /\ main.pc = "recon" /\ TypeOK /\ 1 \in 1..Instances
    BY Constants DEF WaitForPrev, IndInv
  <2>2. main.cur \in Bufs
    BY <2>1, Owned
  <2>3. instances[1] \in Bufs \cup {NoPic}
    BY <2>1, State
  <2> QED
    BY <2>2, <2>3
<1> DEFINE P == IF prev = NoPic THEN pic ELSE WaitedPic(prev)
           p == pic[c]  q == [p EXCEPT !.progress = reconstructing]
<1>1. /\ main.pc = "recon" /\ TypeOK /\ c \in InList /\ c \in Waiting
      /\ c \notin ToSet(parseList) /\ c \notin InWork /\ c # NoPic
      /\ InList \subseteq Bufs /\ NoPic \notin InList /\ pic \in [Bufs -> Picture]
      /\ main.done = NoPic
      /\ instances \in [1..Instances -> InList \cup {NoPic}]
  BY <1>0, Owned, State DEF IndInv, WaitForPrev, CallPlace, OwnersApart
<1>2. /\ pic' = [P EXCEPT ![c] = [P[c] EXCEPT !.progress = reconstructing]]
      /\ main' = [main EXCEPT !.pc = "ext", !.done = prev]
      /\ instances' = Turned(instances, c)
      /\ UNCHANGED <<setup, nal, list, parserVars, outputVars, reports>>
  BY <1>0 DEF WaitForPrev, Turned
<1>3. ToSet(instances') = Behind(instances) \cup {c}
  <2> DEFINE S == InList \cup {NoPic}
  <2>1. instances \in [1..Instances -> S] /\ c \in S
    BY <1>1
  <2> HIDE DEF S
  <2> QED
    BY <1>2, <2>1, RotatedSet
<1>4. /\ ToSet(instances) \subseteq Behind(instances) \cup {prev}
      /\ prev # NoPic => prev \in InWork /\ prev \in InList /\ prev # c /\ prev \notin Waiting
  <2>1. DOMAIN instances = 1..Instances /\ 1 \in 1..Instances
    BY <1>1, Constants
  <2>2. prev \in ToSet(instances)
    BY <1>0, <2>1 DEF ToSet
  <2>3. \A x \in ToSet(instances) : x \in Behind(instances) \cup {prev}
    BY <1>0, <2>1 DEF ToSet, Behind
  <2>4. prev \in InList \cup {NoPic}
    BY <1>0, <1>1, <2>1
  <2>5. Waiting \cap InWork = {}
    BY DEF IndInv, OwnersApart
  <2> QED
    BY <1>1, <2>2, <2>3, <2>4, <2>5 DEF InWork
<1>5. /\ main'.pc = "ext" /\ main'.cur = c /\ main'.done = prev
      /\ main'.outPic = main.outPic
  BY <1>0, <1>1, <1>2, MainFields DEF MainTypes
<1>6. /\ Waiting' = Waiting \ {c} /\ InHand \ {NoPic} \subseteq InHand'
  BY <1>0, <1>1, <1>2, <1>3, <1>4, <1>5 DEF Waiting, InHand, InWork, parserVars
<1>7. /\ P[c] = p /\ DOMAIN P = Bufs /\ \A x \in Bufs \ {prev} : P[x] = pic[x]
      /\ prev # NoPic => P[prev] = AfterWait(pic[prev])
  BY <1>1, <1>4, Constants DEF WaitedPic
<1> HIDE DEF P
<1>8. /\ pic'[c] = q /\ \A x \in Bufs \ {c, prev} : pic'[x] = pic[x]
      /\ prev # NoPic => pic'[prev] = AfterWait(pic[prev])
  BY <1>1, <1>2, <1>4, <1>7
<1>9. /\ p \in Picture /\ p.progress \in {parsing, parsed} /\ p.reconDone = "locked" /\ ~p.recon
      /\ ReportsTell(c)
  BY <1>1 DEF IndInv, OwnersState, StreamInv, ReportsInv
<1>10. /\ SameCoded(p, q) /\ SameOutput(p, q) /\ q.skippedDecCount = p.skippedDecCount
       /\ q.exceptionThrownOut = p.exceptionThrownOut /\ q.error = p.error
       /\ q.parseFailed = p.parseFailed /\ q.queue = p.queue /\ ~q.recon
       /\ q.parseDone = p.parseDone /\ q.reconDone = p.reconDone
       /\ p.progress < finished /\ q.progress < finished /\ q.progress # finished
  <2> HIDE DEF p
  <2> QED
    BY <1>9 DEF Picture, SameCoded, SameOutput, parsing, parsed, reconstructing, finished
<1> HIDE DEF q
<1>11. ReportsTell(c)'
  <2>1. Tells(q, reports[p.cts], HashSeen(p.cts), Prepared(c)', (c \in Waiting)')
    BY <1>6, <1>9, <1>10 DEF ReportsTell, Tells, SameCoded, Throws
  <2> QED
    BY <1>1, <1>2, <1>5, <1>8, <1>10, <2>1, TellsThen, ZenonT(40) DEF SameCoded
<1>12. ASSUME prev # NoPic
       PROVE  /\ ReportsTell(prev)' /\ SameCoded(pic[prev], pic'[prev])
              /\ SameOutput(pic[prev], pic'[prev])
              /\ pic'[prev].skippedDecCount = pic[prev].skippedDecCount
  <2> DEFINE o == pic[prev]  u == AfterWait(o)
  <2>1. /\ o \in Picture /\ ReportsTell(prev) /\ o.progress \in {reconstructing, reconstructed}
    BY <1>1, <1>4, <1>12 DEF IndInv, OwnersState, StreamInv, ReportsInv
  <2> HIDE DEF o
  <2>2. /\ SameCoded(o, u) /\ u.neededForOutput = o.neededForOutput
        /\ u.skippedDecCount = o.skippedDecCount
        /\ u.exceptionThrownOut = o.exceptionThrownOut
        /\ u.parseFailed = o.parseFailed /\ u.queue = o.queue /\ u.recon = o.recon
        /\ u.progress = o.progress /\ u.parseDone = o.parseDone
        /\ u.reconDone = o.reconDone
        /\ u.error = (o.error \/ o.reconDone = "error")
    BY <2>1, WaitedFlags
  <2> HIDE DEF u
  <2>3. ~Prepared(prev)' /\ ~(prev \in Waiting)'
    BY <1>4, <1>5, <1>6, <1>12 DEF Prepared
  <2>4. o.progress < finished /\ o.progress # finished
    BY <2>1 DEF reconstructing, reconstructed, finished
  <2>5. Tells(u, reports[o.cts], HashSeen(o.cts), Prepared(prev)', (prev \in Waiting)')
    BY <2>1, <2>2, <2>3, <2>4 DEF ReportsTell, Tells, SameCoded, Throws, o
  <2>6. pic'[prev] = u
    BY <1>8, <1>12 DEF u, o
  <2>7. ReportsTell(prev)'
    BY <1>1, <1>2, <1>5, <2>2, <2>5, <2>6, TellsThen DEF SameCoded, o
  <2> QED
    BY <2>2, <2>6, <2>7 DEF SameOutput, o
<1>13. \A x \in InList \ {c, prev} : ReportsCalm(x)
  BY <1>0, <1>1, <1>2, <1>5, <1>6, <1>8, SameAgain DEF ReportsCalm, Prepared
<1>14. \A x \in Bufs : /\ SameCoded(pic[x], pic'[x]) /\ SameOutput(pic[x], pic'[x])
                       /\ pic'[x].skippedDecCount = pic[x].skippedDecCount
  BY <1>8, <1>10, <1>12, SameAgain, Constants
<1>15. \A x \in InList : ReportsCalm(x) \/ ReportsTell(x)'
  BY <1>1, <1>11, <1>12, <1>13
<1> QED
  BY <1>1, <1>2, <1>5, <1>6, <1>14, <1>15, HandOverGoesOn DEF ReconPc
-----------------------------------------------------------------------------
(* The suffix SEI and the application.                                      *)

LEMMA DistinctCts ==
  ASSUME TypeOK, ParserInv, NEW x \in InList, NEW y \in InList, pic[x].cts = pic[y].cts
  PROVE  x = y
<1>1. PICK i \in DOMAIN list, j \in DOMAIN list : list[i] = x /\ list[j] = y
  BY DEF InList, ToSet
<1>2. /\ i \in Int /\ j \in Int /\ pic[x].cts \in Int
      /\ ~(pic[x].cts < pic[y].cts) /\ ~(pic[y].cts < pic[x].cts)
  BY <1>1, State, Fields
<1>3. (i < j => pic[x].cts < pic[y].cts) /\ (j < i => pic[y].cts < pic[x].cts)
  BY <1>1 DEF ParserInv, PicturesInOrder
<1> QED
  BY <1>1, <1>2, <1>3

LEMMA WaitForHashStream ==
  ASSUME IndInv, StreamInv, WaitForHash
  PROVE  StreamInv' /\ FrameStep
<1>0. PICK b, c : b = parsePic /\ c = nal[1] - 1
  OBVIOUS
<1>1. /\ main.pc = "sei" /\ main' = Idle /\ TypeOK /\ ParserInv
      /\ UNCHANGED <<setup, nal, pic, list, parserVars, instances, outputVars>>
      /\ reports' \in {reports, Report(b)}
      /\ main.outPic = NoPic /\ main.done = NoPic /\ b \in InList /\ b # NoPic
      /\ InList \subseteq Bufs
  BY <1>0, State DEF WaitForHash, IndInv, StreamInv, CallPlace, ParserPc
<1>2. nal[2] = 1 /\ pic[b].cts = c /\ stream[c].sei /\ ParseFrameDelay = 0
  BY <1>0, <1>1 DEF StreamInv, ReportsInv
<1>3. main'.pc = "idle" /\ main'.outPic = NoPic /\ main'.done = NoPic
  BY <1>1 DEF Idle
<1>4. ParserStays
  BY <1>1, SameAgain DEF ParserStays, parserVars
<1>5. /\ parseList' = parseList /\ out' = out /\ stream' = stream /\ nal' = nal
      /\ ParseFrameDelay' = ParseFrameDelay /\ pic' = pic /\ InList' = InList
      /\ LastBegun' = LastBegun
  BY <1>1, Unmoved DEF parserVars, outputVars
<1>6. Waiting' = Waiting /\ InHand' = InHand
  BY <1>1, <1>3 DEF Waiting, InHand, InWork, parserVars
<1>7. ParserInv'
  <2>1. NobodyLost'
    BY <1>1, <1>4, <1>5, <1>6, KeptInHand DEF ParserInv
  <2> QED
    BY <1>1, <1>4, <2>1, ParserGoesOn
<1>8. OvertakenInv'
  BY <1>1, <1>4, <1>5, OvertakenGoesOn DEF StreamInv
<1>9. OrderInv'
  BY <1>1, <1>3, <1>4, <1>5, SameAgain, OrderGoesOn DEF StreamInv
<1>10. /\ c \in DOMAIN stream /\ c = LastBegun /\ reports[c] \in Nat /\ c \in Int
       /\ LastBegun \in Int /\ nal[1] \in Int
  BY <1>0, <1>1, <1>2, CtsIs, NalIs DEF LastBegun, ParserInv
<1>11. /\ HashSeen(c) = 0 /\ HashSeen(c)' = 1
       /\ \A d \in Int \ {c} : HashSeen(d)' = HashSeen(d)
  <2>1. c < nal[1] /\ c = nal[1] - 1
    BY <1>0, <1>10
  <2> QED
    BY <1>1, <1>2, <1>3, <1>5, <1>10, <2>1 DEF HashSeen
<1>12. /\ \A d \in DOMAIN stream \ {c} : reports'[d] = reports[d]
       /\ reports'[c] \in {reports[c], reports[c] + 1}
  <2>1. CASE reports' = reports
    BY <2>1
  <2>2. CASE reports' = Report(b)
    <3>1. reports \in [DOMAIN stream -> Nat]
      BY <1>1, NatTypes
    <3>2. Report(b) \in {reports, [reports EXCEPT ![c] = @ + 1]}
      BY <1>2 DEF Report
    <3> QED
      BY <1>10, <2>2, <3>1, <3>2
  <2> QED
    BY <1>1, <2>1, <2>2
<1>13. ASSUME NEW x \in InList PROVE ReportsTell(x)'
  <2>0. PICK k, h, n : k = pic[x].cts /\ h = HashSeen(k)' /\ n = reports'[k]
    OBVIOUS
  <2>1. /\ ReportsTell(x) /\ k \in DOMAIN stream /\ reports[k] \in Nat
        /\ HashSeen(k) \in {0, 1} /\ pic[x].slices \in Nat
        /\ pic[x].complete \/ pic[x].cts # c
    <3>1. ReportsTell(x) /\ HoldsCoded(x)
      BY <1>1, <1>13 DEF StreamInv, ReportsInv, ParserInv, PicturesInOrder
    <3> QED
      BY <1>1, <1>2, <2>0, <3>1, CtsIs DEF HoldsCoded
  <2>2. ~Prepared(x)' /\ ((x \in Waiting)' <=> x \in Waiting)
    BY <1>3, <1>6 DEF Prepared
  <2>3. /\ n >= reports[k] /\ h >= HashSeen(k) /\ h \in {0, 1} /\ n \in Nat
        /\ n - reports[k] <= h - HashSeen(k)
        /\ n # reports[k] => pic[x].complete
    <3>1. CASE k = c
      BY <1>10, <1>11, <1>12, <2>0, <2>1, <3>1
    <3>2. CASE k # c
      <4>1. k \in Int /\ k # c
        BY <1>1, <2>1, <3>2, StreamIs
      <4> QED
        BY <1>11, <1>12, <2>0, <2>1, <4>1
    <3> QED
      BY <3>1, <3>2
  <2>4. /\ pic[x].exceptionThrownOut \/ (pic[x].progress = finished /\ pic[x].error) => n >= 1
        /\ ~pic[x].exceptionThrownOut /\ pic[x].progress < finished => n <= h
        /\ ~pic[x].complete => n <= pic[x].slices - 1
    <3>1. /\ pic[x].exceptionThrownOut \/ (pic[x].progress = finished /\ pic[x].error) =>
               reports[k] >= 1
          /\ ~pic[x].exceptionThrownOut /\ pic[x].progress < finished =>
               reports[k] <= HashSeen(k)
          /\ ~pic[x].complete => reports[k] <= pic[x].slices - 1
      BY <2>0, <2>1 DEF ReportsTell
    <3>2. /\ reports[k] >= 1 => n >= 1
          /\ reports[k] <= HashSeen(k) => n <= h
      BY <2>1, <2>3
    <3>3. ~pic[x].complete => n = reports[k]
      BY <2>3
    <3> QED
      BY <3>1, <3>2, <3>3
  <2>5. ReportsTell(x)' <=> Tells(pic[x], n, h, Prepared(x)', (x \in Waiting)')
    BY <1>5, <2>0 DEF ReportsTell, Tells, Throws, HashSeen
  <2> QED
    BY <2>0, <2>1, <2>2, <2>4, <2>5 DEF Tells, ReportsTell
<1>14. \A d \in DOMAIN stream : /\ d > LastBegun => reports'[d] = 0
                                /\ reports'[d] <= MostReports(d)' + HashSeen(d)'
  <2>1. ASSUME NEW d \in DOMAIN stream
        PROVE  /\ d > LastBegun => reports'[d] = 0
               /\ reports'[d] <= MostReports(d)' + HashSeen(d)'
    <3>1. /\ d > LastBegun => reports[d] = 0
          /\ reports[d] <= MostReports(d) + HashSeen(d)
          /\ MostReports(d)' = MostReports(d) /\ d \in Int
      BY <1>1, <1>5, StreamIs DEF StreamInv, ReportsInv, MostReports
    <3>2. MostReports(d) \in Int
      BY <1>1, StreamIs DEF MostReports
    <3>3. CASE d = c
      BY <1>10, <1>11, <1>12, <3>1, <3>2, <3>3
    <3>4. CASE d # c
      BY <1>11, <1>12, <3>1, <3>4
    <3> QED
      BY <3>3, <3>4
  <2> QED
    BY <2>1
<1>15. ReportsInv'
  BY <1>3, <1>5, <1>13, <1>14 DEF ReportsInv
<1>16. FrameStep
  <2>1. Report(b) = [reports EXCEPT ![c] = @ + 1]
    BY <1>1, <1>2, <1>10, CtsIs DEF Report
  <2>2. c \in 1..LastBegun
    BY <1>1, <1>2, CtsIs
  <2>3. reports' = reports \/ reports' = [reports EXCEPT ![c] = @ + 1]
    BY <1>1, <2>1
  <2>4. GoesOnOrThrows
    BY <1>1, <1>3, <2>2, <2>3 DEF GoesOnOrThrows
  <2> QED
    BY <1>1, <1>4, <1>5, <2>4, SameAgain, PendingStays, FramesGoOn DEF StreamInv
<1> QED
  BY <1>7, <1>8, <1>9, <1>15, <1>16 DEF StreamInv

LEMMA ReleaseStream ==
  ASSUME IndInv, StreamInv, NEW b \in Bufs, Release(b)
  PROVE  StreamInv' /\ FrameStep
<1> DEFINE p == pic[b]  q == [p EXCEPT !.lockedByApplication = FALSE]
<1>1. /\ pic \in [Bufs -> Picture] /\ p \in Picture /\ TypeOK
      /\ pic' = [pic EXCEPT ![b] = q] /\ InList \subseteq Bufs
      /\ UNCHANGED <<setup, nal, list, parserVars, instances, out, main, reports>>
      /\ main.pc # "clean"
  BY State DEF IndInv, Release, ReleasePicture
<1>2. SameCoded(p, q) /\ SameFlags(p, q) /\ SameOutput(p, q)
      /\ q.skippedDecCount = p.skippedDecCount
  BY <1>1 DEF Picture, SameCoded, SameFlags, SameOutput
<1> HIDE DEF q
<1>3. \A x \in Bufs : /\ SameCoded(pic[x], pic'[x]) /\ SameFlags(pic[x], pic'[x])
                      /\ SameOutput(pic[x], pic'[x])
                      /\ pic'[x].skippedDecCount = pic[x].skippedDecCount
  BY <1>1, <1>2, SameAgain
<1>4. ParserStays
  BY <1>1, <1>3 DEF ParserStays, parserVars
<1>5. Waiting' = Waiting /\ InHand' = InHand
  BY <1>1 DEF Waiting, InHand, InWork, parserVars
<1>6. NobodyLost'
  BY <1>1, <1>3, <1>4, <1>5, KeptInHand DEF StreamInv, ParserInv, SameOutput
<1>7. \A x \in InList : ReportsCalm(x)
  BY <1>1, <1>3, <1>5 DEF ReportsCalm, Prepared
<1>8. GoesOnOrThrows
  BY <1>1 DEF GoesOnOrThrows
<1> QED
  BY <1>1, <1>3, <1>4, <1>6, <1>7, <1>8, StreamGoesOn DEF parserVars

LEMMA SuffixSeiStream ==
  ASSUME IndInv, StreamInv, SuffixSei
  PROVE  StreamInv' /\ FrameStep
<1>0. PICK k \in Nat : k = nal[1]
  <2>1. nal[1] \in Nat
    BY NatTypes DEF IndInv
  <2> QED
    BY <2>1
<1> DEFINE waits == parsePic # NoPic /\ ParseFrameDelay = 0 /\ ~pic[parsePic].error
<1>1. /\ main.pc = "idle" /\ MoreNals /\ AtSei /\ TypeOK /\ ParserInv /\ AtNal
      /\ UNCHANGED <<setup, pic, list, parserVars, instances, outputVars, reports>>
      /\ main' = [main EXCEPT !.pc = IF waits THEN "sei" ELSE "idle"]
      /\ nal' = NextNal
      /\ main.outPic = NoPic /\ ~main.flushing /\ InList \subseteq Bufs
  BY State DEF SuffixSei, IndInv, StreamInv, ParserInv, CallPlace, ParserPc
<1>2. /\ k \in DOMAIN stream /\ stream[k].slices \in Nat \ {0} /\ nal[2] \in Nat
      /\ nal[2] > stream[k].slices /\ nal[2] <= NalUnits(stream[k])
      /\ k <= Len(stream) /\ Len(stream) \in Nat /\ DOMAIN stream = 1..Len(stream)
  <2>1. k \in DOMAIN stream
    BY <1>0, <1>1 DEF MoreNals
  <2> QED
    BY <1>0, <1>1, <2>1, StreamIs, NalIs DEF AtNal, AtSei
<1>3. /\ stream[k].sei /\ NalUnits(stream[k]) = stream[k].slices + 1
      /\ nal[2] = NalUnits(stream[k])
  BY <1>2 DEF NalUnits
<1>4. nal' = <<k + 1, 1>> /\ nal'[1] = k + 1 /\ nal'[2] = 1
  BY <1>0, <1>1, <1>2, <1>3 DEF NextNal
<1>5. LastBegun = k /\ LastBegun' = k
  BY <1>0, <1>2, <1>4 DEF LastBegun
<1>6. /\ parsePic # NoPic /\ parsePic \in InList /\ pic[parsePic].cts = k
      /\ pic[parsePic].complete
  <2>1. nal[2] > 1
    BY <1>2
  <2>2. parsePic \in InList \cup {NoPic}
    BY <1>1, State
  <2> QED
    BY <1>0, <1>1, <1>2, <2>1, <2>2 DEF AtNal
<1>7. /\ stream' = stream /\ ParseFrameDelay' = ParseFrameDelay /\ InList' = InList
      /\ pic' = pic /\ list' = list /\ dpb' = dpb /\ parsePic' = parsePic
      /\ started' = started /\ parseList' = parseList /\ out' = out /\ segment' = segment
      /\ instances' = instances /\ reports' = reports
  BY <1>1 DEF parserVars, outputVars, stream, ParseFrameDelay, InList
<1>8. /\ main'.pc \in {"sei", "idle"} /\ (main'.pc = "sei" => ParseFrameDelay = 0)
      /\ main'.done = main.done /\ main'.outPic = NoPic
  BY <1>1, MainFields DEF MainPcs, ParserPc
<1>9. Waiting' = Waiting /\ InHand' = InHand
  BY <1>1, <1>7, <1>8 DEF Waiting, InHand, InWork
<1>10. AtNal'
  <2>1. started /\ MoreNals' = (k + 1 \in DOMAIN stream)
    BY <1>1, <1>2, <1>4, <1>5, <1>7 DEF AtNal, MoreNals
  <2>2. MoreNals' => 1 <= NalUnits(stream[k + 1])
    <3>1. ASSUME k + 1 \in DOMAIN stream PROVE 1 <= NalUnits(stream[k + 1])
      <4>1. stream[k + 1].slices \in Nat \ {0}
        BY <1>1, <3>1, StreamIs
      <4> QED
        BY <4>1 DEF NalUnits
    <3> QED
      BY <2>1, <3>1
  <2>3. NalUnits(stream[k + 1])' = NalUnits(stream[k + 1])
    BY <1>0, <1>7 DEF NalUnits
  <2>4. k + 1 \in 1..(Len(stream) + 1)
    BY <1>2
  <2> QED
    BY <1>4, <1>7, <2>1, <2>2, <2>3, <2>4 DEF AtNal
<1>11. PicturesInOrder'
  <2>1. ASSUME NEW b \in InList PROVE HoldsCoded(b)'
    <3>1. HoldsCoded(b) /\ pic[b].complete
      BY <1>1, <1>6 DEF ParserInv, PicturesInOrder, HoldsCoded
    <3> QED
      BY <1>5, <1>7, <3>1 DEF HoldsCoded
  <2> QED
    BY <1>1, <1>5, <1>7, <2>1 DEF ParserInv, PicturesInOrder
<1>12. ParserInv'
  BY <1>1, <1>7, <1>9, <1>10, <1>11 DEF ParserInv, NobodyLost, Unfinished
<1>13. OvertakenInv'
  BY <1>5, <1>7 DEF StreamInv, OvertakenInv, Passed
<1>14. \A d \in DOMAIN stream : HashSeen(d)' >= HashSeen(d) /\ HashSeen(d)' \in {0, 1}
                                /\ HashSeen(d) \in {0, 1}
  <2> SUFFICES ASSUME NEW d \in DOMAIN stream
               PROVE  HashSeen(d)' >= HashSeen(d) /\ HashSeen(d)' \in {0, 1}
                      /\ HashSeen(d) \in {0, 1}
    OBVIOUS
  <2>1. d \in Int
    BY <1>2
  <2> QED
    BY <1>0, <1>1, <1>4, <1>7, <2>1 DEF HashSeen
<1>15. ASSUME NEW x \in InList PROVE ReportsTell(x)'
  <2>0. PICK d, h : d = pic[x].cts /\ h = HashSeen(d)'
    OBVIOUS
  <2>1. /\ ReportsTell(x) /\ d \in DOMAIN stream /\ reports[d] \in Nat
        /\ HashSeen(d) \in {0, 1} /\ h \in {0, 1} /\ HashSeen(d) <= h
    BY <1>1, <1>14, <2>0, CtsIs DEF StreamInv, ReportsInv
  <2>2. ~Prepared(x)' /\ ((x \in Waiting)' <=> x \in Waiting)
    BY <1>8, <1>9 DEF Prepared
  <2>3. reports[d] <= HashSeen(d) => reports[d] <= h
    BY <2>1
  <2>4. ReportsTell(x)' <=> Tells(pic[x], reports[d], h, Prepared(x)', (x \in Waiting)')
    BY <1>7, <2>0 DEF ReportsTell, Tells, Throws, HashSeen
  <2> QED
    BY <2>0, <2>1, <2>2, <2>3, <2>4 DEF Tells, ReportsTell
<1>16. \A d \in DOMAIN stream : /\ d > LastBegun' => reports'[d] = 0
                                /\ reports'[d] <= MostReports(d)' + HashSeen(d)'
  <2> SUFFICES ASSUME NEW d \in DOMAIN stream
               PROVE  /\ d > LastBegun' => reports'[d] = 0
                      /\ reports'[d] <= MostReports(d)' + HashSeen(d)'
    BY <1>7
  <2>1. /\ d > LastBegun => reports[d] = 0
        /\ reports[d] <= MostReports(d) + HashSeen(d)
        /\ MostReports(d)' = MostReports(d) /\ reports[d] \in Nat
    BY <1>1, <1>7, NatTypes DEF StreamInv, ReportsInv, MostReports
  <2>2. MostReports(d) \in Int
    BY <1>1, StreamIs DEF MostReports
  <2> QED
    BY <1>5, <1>7, <1>14, <2>1, <2>2
<1>17. main'.pc = "sei" => stream'[nal'[1] - 1].sei /\ pic'[parsePic'].cts = nal'[1] - 1
  <2>1. nal'[1] - 1 = k
    BY <1>4
  <2> QED
    BY <1>3, <1>6, <1>7, <2>1
<1>18. ReportsInv'
  BY <1>4, <1>7, <1>8, <1>15, <1>16, <1>17 DEF ReportsInv
<1>19. OrderInv'
  <2>1. Pending' = Pending /\ Gone' = Gone
    BY <1>5, <1>7 DEF Pending, Gone
  <2>2. \A p, q : Cvs(p)' = Cvs(p) /\ (Before(p, q)' <=> Before(p, q))
    BY <1>7 DEF Cvs, Before
  <2>3. OutputInOrder'
    BY <1>7, <2>2 DEF StreamInv, OrderInv, OutputInOrder
  <2>4. AllDelivered'
    BY <1>8 DEF AllDelivered
  <2> QED
    BY <1>7, <1>8, <2>1, <2>2, <2>3, <2>4 DEF StreamInv, OrderInv
<1>20. FrameStep
  <2>1. Pending' = Pending
    BY <1>5, <1>7 DEF Pending
  <2>2. GoesOnOrThrows
    BY <1>1, <1>7, <1>8 DEF GoesOnOrThrows
  <2> QED
    BY <1>1, <1>5, <1>7, <2>1, <2>2, FramesGoOn DEF StreamInv
<1> QED
  BY <1>12, <1>13, <1>18, <1>19, <1>20 DEF StreamInv
-----------------------------------------------------------------------------
(* getNextDecodablePicture.                                                 *)

LEMMA PassedFinite ==
  ASSUME TypeOK, AtNal, NEW b \in Bufs
  PROVE  IsFiniteSet(Passed(b)) /\ Cardinality(Passed(b)) \in Nat
<1>1. pic[b].cts \in Int /\ LastBegun \in Int
  BY State, Fields, NalIs
<1>2. IsFiniteSet((pic[b].cts + 1)..LastBegun)
  BY <1>1, FS_Interval
<1>3. IsFiniteSet(Passed(b))
  BY <1>2, FS_Subset DEF Passed
<1> QED
  BY <1>3, FS_CardinalityType

\* One picture of the parse list is taken: those ahead of it are passed by one
\* more, those behind it by none.
LEMMA TakenInv ==
  ASSUME IndInv, ParserInv, OvertakenInv, parseList # <<>>, TakeDecodable(NextDecodable),
         UNCHANGED <<setup, nal, list>>
  PROVE  OvertakenInv'
<1>0. PICK i \in 1..Len(parseList) :
        /\ i = NextDecodable
        /\ i # 1 => pic[parseList[1]].skippedDecCount < MaxOutOfOrderPics
  <2>1. NextDecodable \in 1..Len(parseList)
    BY ChosenPlace
  <2>2. pic[parseList[1]].skippedDecCount >= MaxOutOfOrderPics => NextDecodable = 1
    BY DEF NextDecodable
  <2>3. parseList[1] \in Bufs
    <3>1. Len(parseList) # 0 /\ Len(parseList) \in Nat /\ parseList \in Seq(Bufs)
      BY State DEF IndInv
    <3> QED
      BY <3>1
  <2>4. pic[parseList[1]].skippedDecCount \in Nat /\ MaxOutOfOrderPics \in Nat
    BY <2>3, State, Fields, Constants DEF IndInv
  <2> QED
    BY <2>1, <2>2, <2>4
<1>1. PICK s, n, m : s = parseList /\ n = Len(s) /\ m = MaxOutOfOrderPics
  OBVIOUS
<1>2. /\ TypeOK /\ AtNal /\ s \in Seq(Bufs) /\ n \in Nat /\ DOMAIN s = 1..n /\ i \in 1..n
      /\ pic \in [Bufs -> Picture] /\ LastBegun' = LastBegun /\ LastBegun \in Nat
      /\ \A j, k \in 1..n : s[j] = s[k] => j = k
      /\ \A j \in 1..n : s[j] \in Bufs /\ s[j] \in ToSet(s)
      /\ m \in Nat
  <2>1. TypeOK /\ AtNal /\ IsInjective(s)
    BY <1>1 DEF IndInv, OwnersApart, ParserInv
  <2>2. s \in Seq(Bufs) /\ n \in Nat /\ DOMAIN s = 1..n
    BY <1>1, <2>1, State
  <2>3. \A j, k \in 1..n : s[j] = s[k] => j = k
    BY <2>1, <2>2 DEF IsInjective
  <2>4. \A j \in 1..n : s[j] \in Bufs /\ s[j] \in ToSet(s)
    BY <2>2, InSequence
  <2> QED
    BY <1>1, <2>1, <2>2, <2>3, <2>4, State, Unmoved, NalIs, Constants
<1>3. PICK L : /\ L = parseList' /\ DOMAIN L = 1..(n - 1)
               /\ \A j \in 1..(n - 1) : L[j] = IF j < i THEN s[j] ELSE s[j + 1]
               /\ ToSet(L) = ToSet(s) \ {s[i]}
  <2> DEFINE r == RemoveAt(s, i)
  <2>1. parseList' = r
    BY <1>0, <1>1 DEF TakeDecodable
  <2>2. /\ r \in Seq(Bufs) /\ Len(r) = n - 1
        /\ \A j \in 1..(n - 1) : r[j] = IF j < i THEN s[j] ELSE s[j + 1]
    BY <1>1, <1>2, Removed
  <2>3. DOMAIN r = 1..(n - 1)
    BY <2>2, LenProperties
  <2>4. IsInjective(s)
    BY <1>2 DEF IsInjective
  <2>5. ToSet(r) = ToSet(s) \ {s[i]}
    BY <1>1, <1>2, <2>4, RemovedFrom
  <2> HIDE DEF r
  <2> QED
    BY <2>1, <2>2, <2>3, <2>5
<1>4. \A j \in 1..n :
        /\ pic'[s[j]].cts = pic[s[j]].cts /\ pic[s[j]].cts \in Nat
        /\ pic[s[j]].skippedDecCount \in Nat
        /\ pic'[s[j]].skippedDecCount =
             IF j < i THEN pic[s[j]].skippedDecCount + 1 ELSE pic[s[j]].skippedDecCount
  <2> SUFFICES ASSUME NEW j \in 1..n
               PROVE  /\ pic'[s[j]].cts = pic[s[j]].cts /\ pic[s[j]].cts \in Nat
                      /\ pic[s[j]].skippedDecCount \in Nat
                      /\ pic'[s[j]].skippedDecCount =
                           IF j < i THEN pic[s[j]].skippedDecCount + 1
                           ELSE pic[s[j]].skippedDecCount
    OBVIOUS
  <2> DEFINE p == pic[s[j]]
  <2>1. s[j] \in Bufs /\ p \in Picture
    BY <1>2
  <2>2. pic'[s[j]] = IF \E k \in 1..(i - 1) : s[k] = s[j]
                     THEN [p EXCEPT !.skippedDecCount = @ + 1] ELSE p
    BY <1>0, <1>1, <2>1 DEF TakeDecodable
  <2>3. (\E k \in 1..(i - 1) : s[k] = s[j]) <=> j < i
    BY <1>2
  <2>4. p.cts \in Nat /\ p.skippedDecCount \in Nat
    BY <2>1, Fields
  <2> HIDE DEF p
  <2>5. CASE j < i
    <3>1. pic'[s[j]] = [p EXCEPT !.skippedDecCount = @ + 1]
      BY <2>2, <2>3, <2>5
    <3> QED
      BY <2>1, <2>4, <2>5, <3>1 DEF Picture, p
  <2>6. CASE ~(j < i)
    BY <2>2, <2>3, <2>4, <2>6 DEF p
  <2> QED
    BY <2>5, <2>6
<1>5. /\ \A j, k \in 1..n : j < k =>
           /\ pic[s[j]].cts < pic[s[k]].cts
           /\ pic[s[j]].skippedDecCount >= pic[s[k]].skippedDecCount
      /\ \A j \in 1..n : /\ pic[s[j]].skippedDecCount <= m
                         /\ Cardinality(Passed(s[j])) <= pic[s[j]].skippedDecCount
  <2>1. DOMAIN parseList = 1..n
    BY <1>1, <1>2
  <2> QED
    BY <1>1, <1>2, <2>1 DEF OvertakenInv
<1>6. \A j \in 1..n : j < i => pic[s[j]].skippedDecCount < m
  <2> SUFFICES ASSUME NEW j \in 1..n, j < i PROVE pic[s[j]].skippedDecCount < m
    OBVIOUS
  <2>1. i # 1 /\ 1 \in 1..n /\ pic[s[1]].skippedDecCount < m
    BY <1>0, <1>1, <1>2
  <2>2. j = 1 \/ pic[s[1]].skippedDecCount >= pic[s[j]].skippedDecCount
    BY <1>5, <2>1
  <2> QED
    BY <1>2, <1>4, <2>1, <2>2
<1>7. ASSUME NEW j \in 1..(n - 1), NEW k \in 1..(n - 1), j < k
      PROVE  /\ pic'[L[j]].cts < pic'[L[k]].cts
             /\ pic'[L[j]].skippedDecCount >= pic'[L[k]].skippedDecCount
  <2>1. PICK u, v : u = (IF j < i THEN j ELSE j + 1) /\ v = (IF k < i THEN k ELSE k + 1)
    OBVIOUS
  <2>2. u \in 1..n /\ v \in 1..n /\ u < v /\ L[j] = s[u] /\ L[k] = s[v]
    BY <1>2, <1>3, <1>7, <2>1
  <2>3. v < i => u < i
    BY <1>2, <2>2
  <2> QED
    <3>1. /\ pic[s[u]].cts < pic[s[v]].cts
          /\ pic[s[u]].skippedDecCount >= pic[s[v]].skippedDecCount
      BY <1>5, <2>2
    <3>2. /\ pic'[s[u]].cts = pic[s[u]].cts /\ pic'[s[v]].cts = pic[s[v]].cts
          /\ pic[s[u]].skippedDecCount \in Nat /\ pic[s[v]].skippedDecCount \in Nat
          /\ pic'[s[u]].skippedDecCount = IF u < i THEN pic[s[u]].skippedDecCount + 1
                                          ELSE pic[s[u]].skippedDecCount
          /\ pic'[s[v]].skippedDecCount = IF v < i THEN pic[s[v]].skippedDecCount + 1
                                          ELSE pic[s[v]].skippedDecCount
      BY <1>4, <2>2
    <3>3. /\ pic'[s[u]].cts < pic'[s[v]].cts
          /\ pic'[s[u]].skippedDecCount >= pic'[s[v]].skippedDecCount
      BY <2>3, <3>1, <3>2
    <3> QED
      BY <2>2, <3>3
<1>8. ASSUME NEW b \in ToSet(L)
      PROVE  /\ pic'[b].skippedDecCount <= m
             /\ Cardinality(Passed(b)') <= pic'[b].skippedDecCount
  <2>1. PICK u \in 1..n : u # i /\ b = s[u]
    <3>1. b \in ToSet(s) \ {s[i]}
      BY <1>3, <1>8
    <3> QED
      BY <1>2, <3>1 DEF ToSet
  <2>2. b \in Bufs /\ pic'[b].cts = pic[b].cts
    BY <1>2, <1>4, <2>1
  <2>3. pic'[b].skippedDecCount <= m
    BY <1>2, <1>4, <1>5, <1>6, <2>1
  <2> DEFINE c == pic[s[i]].cts
  <2>4. Passed(b)' = {d \in (pic[b].cts + 1)..LastBegun : ~\E x \in ToSet(L) : pic[x].cts = d}
    <3>1. \A x \in ToSet(L) : pic'[x].cts = pic[x].cts
      <4>1. \A x \in ToSet(s) : pic'[x].cts = pic[x].cts
        BY <1>2, <1>4 DEF ToSet
      <4> QED
        BY <1>3, <4>1
    <3> QED
      BY <1>2, <1>3, <2>2, <3>1, SMTT(30) DEF Passed
  <2>5. Passed(b)' \subseteq Passed(b) \cup {c}
    BY <1>1, <1>2, <1>3, <2>4 DEF Passed
  <2>6. IsFiniteSet(Passed(b)) /\ Cardinality(Passed(b)) \in Nat
    BY <1>2, <2>2, PassedFinite
  <2>7. PICK T : T = Passed(b)'
    OBVIOUS
  <2>8. CASE u < i
    <3>1. /\ IsFiniteSet(Passed(b) \cup {c})
          /\ Cardinality(Passed(b) \cup {c}) \in {Cardinality(Passed(b)), Cardinality(Passed(b)) + 1}
      BY <2>6, FS_AddElement
    <3>2. IsFiniteSet(T) /\ Cardinality(T) <= Cardinality(Passed(b) \cup {c})
      BY <2>5, <2>7, <3>1, FS_Subset
    <3>3. Cardinality(T) \in Nat
      BY <3>2, FS_CardinalityType
    <3>4. /\ Cardinality(Passed(b)) <= pic[b].skippedDecCount
          /\ pic'[b].skippedDecCount = pic[b].skippedDecCount + 1
          /\ pic[b].skippedDecCount \in Nat
      BY <1>4, <1>5, <2>1, <2>8
    <3> QED
      BY <2>3, <2>6, <2>7, <3>1, <3>2, <3>3, <3>4
  <2>9. CASE ~(u < i)
    <3>1. c < pic[b].cts /\ c \in Nat /\ pic[b].cts \in Nat
      BY <1>2, <1>4, <1>5, <2>1, <2>9
    <3>2. c \notin Passed(b)'
      BY <1>2, <2>4, <3>1
    <3>3. T \subseteq Passed(b)
      BY <2>5, <2>7, <3>2
    <3>4. IsFiniteSet(T) /\ Cardinality(T) <= Cardinality(Passed(b))
      BY <2>6, <3>3, FS_Subset
    <3>5. Cardinality(T) \in Nat
      BY <3>4, FS_CardinalityType
    <3>6. /\ Cardinality(Passed(b)) <= pic[b].skippedDecCount
          /\ pic'[b].skippedDecCount = pic[b].skippedDecCount
          /\ pic[b].skippedDecCount \in Nat
      BY <1>4, <1>5, <2>1, <2>9
    <3> QED
      BY <2>3, <2>6, <2>7, <3>4, <3>5, <3>6
  <2> QED
    BY <1>2, <2>1, <2>8, <2>9
<1> QED
  BY <1>1, <1>3, <1>7, <1>8 DEF OvertakenInv

\* Only the place of the main thread changes.
LEMMA CallGoesOn ==
  ASSUME IndInv, StreamInv,
         UNCHANGED <<setup, nal, pic, list, parserVars, instances, out, reports>>,
         main.pc # "sei", main'.pc \notin {"sei", "clean", "ext", "eof"},
         main'.outPic = main.outPic, Waiting' = Waiting,
         InHand \ {NoPic} \subseteq InHand'
  PROVE  StreamInv' /\ FrameStep
<1>1. parseList' = parseList /\ TypeOK
  BY DEF parserVars, IndInv
<1>2. ParserStays
  BY SameAgain DEF ParserStays, parserVars
<1>3. NobodyLost'
  BY <1>1, <1>2, KeptInHand DEF StreamInv, ParserInv
<1>4. \A x \in InList : ReportsCalm(x)
  BY SameAgain DEF ReportsCalm, Prepared
<1>5. GoesOnOrThrows
  BY DEF GoesOnOrThrows
<1> QED
  BY <1>1, <1>2, <1>3, <1>4, <1>5, SameAgain, StreamGoesOn

LEMMA TakeStream ==
  ASSUME IndInv, StreamInv, main.pc \in {"next", "flushNext"}, parseList # <<>>,
         TakeDecodable(NextDecodable), NEW b, b = parseList[NextDecodable],
         main'.cur = b, main'.pc \in {"clean", "recon"}, main'.done = NoPic,
         main'.outPic = main.outPic,
         main'.pc = "clean" => main'.exc = (pic[b].parseDone = "error"),
         UNCHANGED <<setup, nal, list, dpb, parsePic, segment, started, instances, out,
                     reports>>
  PROVE  StreamInv' /\ FrameStep
<1>1. /\ TypeOK /\ pic \in [Bufs -> Picture] /\ InList \subseteq Bufs
      /\ b \in ToSet(parseList) /\ b \in InList
      /\ NextDecodable \in 1..Len(parseList) /\ main.done = NoPic
      /\ IsInjective(parseList) /\ parseList \in Seq(Bufs)
  <2>1. TypeOK
    BY DEF IndInv
  <2>2. NextDecodable \in 1..Len(parseList)
    BY ChosenPlace
  <2> QED
    BY <2>1, <2>2, State DEF IndInv, CallPlace, OwnersApart
<1>2. ToSet(parseList') = ToSet(parseList) \ {b}
  <2> DEFINE i == NextDecodable  s == parseList
  <2>1. parseList' = RemoveAt(s, i)
    BY DEF TakeDecodable
  <2>2. s \in Seq(Bufs) /\ i \in 1..Len(s) /\ IsInjective(s) /\ b = s[i]
    BY <1>1
  <2> HIDE DEF i, s
  <2>3. ToSet(RemoveAt(s, i)) = ToSet(s) \ {s[i]}
    BY <2>2, RemovedFrom
  <2> QED
    BY <2>1, <2>2, <2>3 DEF s
<1>3. Waiting' = Waiting /\ Waiting = ToSet(parseList) /\ InHand' = InHand
  BY <1>1, <1>2 DEF Waiting, InHand, InWork
<1>4. ASSUME NEW x \in Bufs
      PROVE  SameCoded(pic[x], pic'[x]) /\ SameFlags(pic[x], pic'[x])
             /\ SameOutput(pic[x], pic'[x])
  <2>1. pic[x] \in Picture
    BY <1>1
  <2>2. pic'[x] = pic[x] \/ pic'[x] = [pic[x] EXCEPT !.skippedDecCount = @ + 1]
    BY DEF TakeDecodable
  <2>3. CASE pic'[x] = pic[x]
    BY <2>3, SameAgain
  <2>4. CASE pic'[x] = [pic[x] EXCEPT !.skippedDecCount = @ + 1]
    BY <2>1, <2>4 DEF Picture, SameCoded, SameFlags, SameOutput
  <2> QED
    BY <2>2, <2>3, <2>4
<1>5. ParserStays
  BY <1>4 DEF ParserStays
<1>6. ParserInv'
  <2>1. NobodyLost'
    BY <1>1, <1>3, <1>4, <1>5, KeptInHand DEF StreamInv, ParserInv, SameOutput
  <2> QED
    BY <1>1, <1>5, <2>1, ParserGoesOn DEF StreamInv
<1>7. OvertakenInv'
  BY TakenInv DEF StreamInv
<1>8. ReportsInv'
  <2>1. \A x \in InList : ReportsCalm(x)
    BY <1>1, <1>3, <1>4 DEF ReportsCalm, Prepared
  <2>2. main'.pc = "clean" /\ main'.exc => ~pic'[main'.cur].exceptionThrownOut
    <3>1. ReportsTell(b) /\ b \in Waiting /\ SameFlags(pic[b], pic'[b])
      BY <1>1, <1>3, <1>4 DEF StreamInv, ReportsInv
    <3>2. pic[b].parseDone = "error" => ~pic[b].exceptionThrownOut
      BY <3>1 DEF ReportsTell
    <3> QED
      BY <3>1, <3>2 DEF SameFlags
  <2> QED
    BY <1>5, <2>1, <2>2, ReportsGoOn DEF StreamInv
<1>9. OrderInv'
  BY <1>1, <1>4, <1>5, OrderGoesOn DEF StreamInv
<1>10. FrameStep
  <2>1. GoesOnOrThrows
    BY DEF GoesOnOrThrows
  <2> QED
    BY <1>1, <1>4, <1>5, <2>1, PendingStays, FramesGoOn DEF StreamInv
<1> QED
  BY <1>6, <1>7, <1>8, <1>9, <1>10 DEF StreamInv

LEMMA GetNextDecodableStream ==
  ASSUME IndInv, StreamInv, GetNextDecodable
  PROVE  StreamInv' /\ FrameStep
<1>1. /\ main.pc = "next" /\ TypeOK /\ main.done = NoPic
      /\ UNCHANGED <<setup, nal, list, dpb, parsePic, segment, started, instances,
                     outputVars, reports>>
  BY DEF GetNextDecodable, IndInv, CallPlace
<1>2. CASE parseList = <<>>
  <2> DEFINE v == IF main.cur = NoPic THEN "output" ELSE "null"
  <2>1. main' = [main EXCEPT !.pc = v] /\ UNCHANGED <<pic, parseList>>
    BY <1>1, <1>2 DEF GetNextDecodable
  <2>2. /\ main'.pc \in {"output", "null"} /\ main'.outPic = main.outPic
        /\ main'.done = main.done
    <3>1. v \in {"output", "null"} /\ v \in MainPcs
      BY DEF MainPcs, DecodePc, EndPc
    <3> HIDE DEF v
    <3> QED
      BY <1>1, <2>1, <3>1, MainFields
  <2>3. Waiting' = Waiting /\ InHand' = InHand
    BY <1>1, <2>1, <2>2 DEF Waiting, InHand, InWork
  <2> QED
    BY <1>1, <2>1, <2>2, <2>3, CallGoesOn DEF parserVars, outputVars
<1>3. CASE parseList # <<>>
  <2>0. PICK b : b = parseList[NextDecodable]
    OBVIOUS
  <2> DEFINE exc == pic[b].parseDone = "error"
             v == IF pic[b].error \/ pic[b].wasLost \/ exc THEN "clean" ELSE "recon"
  <2>1. /\ TakeDecodable(NextDecodable)
        /\ main' = [main EXCEPT !.cur = b, !.exc = exc, !.pc = v]
    BY <1>3, <2>0 DEF GetNextDecodable
  <2>2. /\ main'.cur = b /\ main'.exc = exc /\ main'.pc \in {"clean", "recon"}
        /\ main'.done = main.done /\ main'.outPic = main.outPic
    BY <1>1, <2>1, MainFields DEF MainTypes
  <2> QED
    BY <1>1, <1>3, <2>0, <2>1, <2>2, TakeStream DEF outputVars
<1> QED
  BY <1>2, <1>3
-----------------------------------------------------------------------------
(* Output.  At most one picture e is chosen, and at most one, d, is handed  *)
(* to the application.                                                      *)

LEMMA ShownIs ==
  ASSUME NEW p \in Picture
  PROVE  /\ SameCoded(p, Shown(p)) /\ SameFlags(p, Shown(p)) /\ ~Shown(p).neededForOutput
         /\ Shown(p).skippedDecCount = p.skippedDecCount
BY DEF Picture, Shown, SameCoded, SameFlags

LEMMA OrderStep ==
  ASSUME IndInv, StreamInv, NEW e \in InList \cup {NoPic}, NEW d \in InList \cup {NoPic},
         ParserStays, \A x \in Bufs \ {e} : pic'[x] = pic[x],
         e # NoPic => /\ ~pic'[e].neededForOutput /\ pic'[e].progress = finished
                      /\ pic[e].neededForOutput
                      /\ \A r \in Pending \ {pic[e].cts} : Before(pic[e].cts, r),
         out' = IF d = NoPic THEN out ELSE Append(out, pic[d].cts),
         d # NoPic => d \in {e, main.outPic} /\ main'.outPic = NoPic,
         main'.outPic \in {e, main.outPic, NoPic},
         main'.pc = "eof" => \A b \in InList : ~pic'[b].neededForOutput
  PROVE  /\ OrderInv' /\ (e # NoPic => pic[e].cts \in Pending)
         /\ Pending' = IF e = NoPic THEN Pending ELSE Pending \ {pic[e].cts}
<1>1. /\ TypeOK /\ ParserInv /\ OrderInv /\ out \in Seq(Nat)
      /\ stream' = stream /\ InList' = InList /\ InList \subseteq Bufs
      /\ LastBegun' = LastBegun /\ LastBegun \in Nat
      /\ \A x \in Bufs : pic'[x].cts = pic[x].cts
      /\ main.outPic \in InList \cup {NoPic} /\ NoPic \notin InList
  BY Unmoved, State, NalIs DEF IndInv, StreamInv, ParserInv, ParserStays, SameCoded, TypeOK
<1>2. \A p, q : Cvs(p)' = Cvs(p) /\ (Before(p, q)' <=> Before(p, q))
  BY <1>1 DEF Cvs, Before
<1>3. \A x \in InList : x # e => pic'[x] = pic[x]
  BY <1>1
<1>4. e # NoPic => /\ e \in InList /\ pic[e].cts \in Pending /\ pic[e].cts <= LastBegun
                   /\ pic[e].cts \in DOMAIN stream
  <2>1. SUFFICES ASSUME e # NoPic
                 PROVE  /\ pic[e].cts \in Pending /\ pic[e].cts <= LastBegun
                        /\ pic[e].cts \in DOMAIN stream
    OBVIOUS
  <2>2. e \in InList /\ pic[e].neededForOutput
    BY <2>1
  <2> QED
    BY <1>1, <2>2, CtsIs DEF OrderInv, Pending
<1>5. Pending' = IF e = NoPic THEN Pending ELSE Pending \ {pic[e].cts}
  <2>1. CASE e = NoPic
    BY <1>1, <1>3, <2>1 DEF Pending
  <2>2. CASE e # NoPic
    <3>1. ASSUME NEW c \in DOMAIN stream, c \in Pending'
          PROVE  c \in Pending /\ c # pic[e].cts
      <4>1. CASE c > LastBegun
        <5>1. c \in Nat /\ pic[e].cts \in Nat
          BY <1>1, <1>4, <2>2, StreamIs
        <5> QED
          BY <1>1, <1>4, <2>2, <3>1, <4>1, <5>1 DEF Pending
      <4>2. CASE \E b \in InList : pic'[b].cts = c /\ pic'[b].neededForOutput
        <5>1. PICK b \in InList : pic'[b].cts = c /\ pic'[b].neededForOutput
          BY <4>2
        <5>2. b # e /\ pic[b].cts = c /\ pic[b].neededForOutput
          BY <1>1, <1>3, <2>2, <5>1
        <5>3. c # pic[e].cts
          BY <1>1, <1>4, <2>2, <5>1, <5>2, DistinctCts
        <5> QED
          BY <1>1, <3>1, <5>2, <5>3 DEF Pending
      <4> QED
        BY <1>1, <3>1, <4>1, <4>2 DEF Pending
    <3>2. ASSUME NEW c \in Pending, c # pic[e].cts PROVE c \in Pending'
      <4>1. CASE c > LastBegun
        BY <1>1, <4>1 DEF Pending
      <4>2. CASE \E b \in InList : pic[b].cts = c /\ pic[b].neededForOutput
        <5>1. PICK b \in InList : pic[b].cts = c /\ pic[b].neededForOutput
          BY <4>2
        <5>2. pic'[b] = pic[b]
          BY <1>3, <3>2, <5>1
        <5> QED
          BY <1>1, <5>1, <5>2 DEF Pending
      <4> QED
        BY <4>1, <4>2 DEF Pending
    <3>3. \A c \in Pending' : c \in DOMAIN stream
      BY <1>1 DEF Pending
    <3> QED
      BY <2>2, <3>1, <3>2, <3>3
  <2> QED
    BY <2>1, <2>2
<1>6. /\ Gone' = IF e = NoPic THEN Gone ELSE Gone \cup {pic[e].cts}
      /\ Gone \subseteq Gone'
  <2>1. e # NoPic => stream[pic[e].cts].output
    BY <1>4 DEF Pending
  <2>2. Gone' = {c \in DOMAIN stream : stream[c].output} \ Pending'
    BY <1>1 DEF Gone
  <2>3. CASE e = NoPic
    BY <1>5, <2>2, <2>3 DEF Gone
  <2>4. CASE e # NoPic
    <3>1. Pending' = Pending \ {pic[e].cts}
      BY <1>5, <2>4
    <3> QED
      BY <1>4, <2>1, <2>2, <2>4, <3>1 DEF Gone
  <2> QED
    BY <2>3, <2>4
<1>7. \A g \in Gone', r \in Pending' : Before(g, r)
  <2> SUFFICES ASSUME NEW g \in Gone', NEW r \in Pending' PROVE Before(g, r)
    OBVIOUS
  <2>1. CASE e = NoPic
    BY <1>1, <1>5, <1>6, <2>1 DEF OrderInv
  <2>2. CASE e # NoPic
    <3>1. r \in Pending \ {pic[e].cts} /\ g \in Gone \cup {pic[e].cts}
      BY <1>5, <1>6, <2>2
    <3>2. g = pic[e].cts \/ g \in Gone
      BY <3>1
    <3> QED
      BY <1>1, <2>2, <3>1, <3>2 DEF OrderInv
  <2> QED
    BY <2>1, <2>2
<1>8. ASSUME NEW b \in InList, b \in {e, main.outPic}
      PROVE  /\ pic[b].cts \in Gone' /\ pic[b].cts \in Nat
             /\ \A i \in DOMAIN out : Before(out[i], pic[b].cts)
  <2>1. CASE b = e
    <3>1. e # NoPic
      BY <1>1, <1>8, <2>1
    <3> QED
      BY <1>1, <1>4, <1>6, <2>1, <3>1, CtsIs DEF OrderInv
  <2>2. CASE b = main.outPic
    <3>1. main.outPic # NoPic
      BY <1>1, <1>8, <2>2
    <3> QED
      BY <1>1, <1>6, <1>8, <2>2, <3>1, CtsIs DEF OrderInv
  <2> QED
    BY <1>8, <2>1, <2>2
<1>9. /\ \A i \in DOMAIN out' : out'[i] \in Gone'
      /\ \A i, j \in DOMAIN out' : i < j => Before(out'[i], out'[j])
  <2>0. /\ \A i \in DOMAIN out : out[i] \in Gone'
        /\ \A i, j \in DOMAIN out : i < j => Before(out[i], out[j])
    BY <1>1, <1>6 DEF OrderInv, OutputInOrder, Before
  <2>1. CASE d = NoPic
    BY <2>0, <2>1
  <2>2. CASE d # NoPic
    <3>1. d \in InList /\ d \in {e, main.outPic}
      BY <2>2
    <3>2. PICK c \in Nat : c = pic[d].cts
      BY <1>8, <3>1
    <3>3. PICK s : s = out
      OBVIOUS
    <3>4. /\ Len(s) \in Nat /\ DOMAIN s = 1..Len(s) /\ DOMAIN out' = 1..(Len(s) + 1)
          /\ \A i \in 1..Len(s) : out'[i] = s[i]
          /\ out'[Len(s) + 1] = c
      <4>1. out' = Append(s, c) /\ s \in Seq(Nat)
        BY <1>1, <2>2, <3>2, <3>3
      <4> QED
        BY <4>1, Appended
    <3>5. PICK n \in Nat : n = Len(s)
      BY <3>4
    <3>6. c \in Gone' /\ \A i \in 1..n : Before(s[i], c)
      BY <1>8, <3>1, <3>2, <3>3, <3>4, <3>5
    <3>7. ASSUME NEW i \in 1..(n + 1) PROVE out'[i] \in Gone'
      <4>1. i \in 1..n \/ i = n + 1
        OBVIOUS
      <4> QED
        BY <2>0, <3>3, <3>4, <3>5, <3>6, <4>1
    <3>8. ASSUME NEW i \in 1..(n + 1), NEW j \in 1..(n + 1), i < j
          PROVE  Before(out'[i], out'[j])
      <4>1. i \in 1..n /\ (j \in 1..n \/ j = n + 1)
        BY <3>8
      <4>2. out'[i] = s[i] /\ (j \in 1..n => out'[j] = s[j])
        BY <3>4, <3>5, <4>1
      <4>3. CASE j \in 1..n
        <5>1. Before(s[i], s[j])
          BY <2>0, <3>3, <3>4, <3>5, <3>8, <4>1, <4>3
        <5> QED
          BY <4>2, <4>3, <5>1
      <4>4. CASE j = n + 1
        <5>1. out'[j] = c
          BY <3>4, <3>5, <4>4
        <5> QED
          BY <3>6, <4>1, <4>2, <5>1
      <4> QED
        BY <4>1, <4>3, <4>4
    <3> QED
      BY <3>4, <3>5, <3>7, <3>8
  <2> QED
    BY <2>1, <2>2
<1>10. OutputInOrder'
  BY <1>1, <1>2, <1>9 DEF OutputInOrder, Before
<1>11. AllDelivered'
  BY <1>1 DEF AllDelivered
<1>12. main'.outPic # NoPic => /\ pic'[main'.outPic].cts \in Gone'
                               /\ \A i \in DOMAIN out' : Before(out'[i], pic'[main'.outPic].cts)
  <2>1. SUFFICES ASSUME main'.outPic # NoPic
                 PROVE  /\ pic'[main'.outPic].cts \in Gone'
                        /\ \A i \in DOMAIN out' : Before(out'[i], pic'[main'.outPic].cts)
    OBVIOUS
  <2>2. PICK b : b = main'.outPic
    OBVIOUS
  <2>3. b \in InList /\ b \in {e, main.outPic} /\ out' = out
    BY <1>1, <2>1, <2>2
  <2>4. pic'[b].cts = pic[b].cts
    BY <1>1, <2>3
  <2>5. pic[b].cts \in Gone' /\ \A i \in DOMAIN out : Before(out[i], pic[b].cts)
    BY <1>8, <2>3
  <2> QED
    BY <2>2, <2>3, <2>4, <2>5
<1>13. \A b \in InList :
        /\ pic'[b].neededForOutput => stream[pic'[b].cts].output
        /\ pic'[b].progress < finished =>
             (pic'[b].neededForOutput <=> stream[pic'[b].cts].output)
  <2> SUFFICES ASSUME NEW b \in InList
               PROVE  /\ pic'[b].neededForOutput => stream[pic'[b].cts].output
                      /\ pic'[b].progress < finished =>
                           (pic'[b].neededForOutput <=> stream[pic'[b].cts].output)
    OBVIOUS
  <2>1. CASE b = e
    <3>1. ~pic'[b].neededForOutput /\ pic'[b].progress = finished
      BY <1>1, <2>1
    <3> QED
      BY <3>1 DEF finished
  <2>2. CASE b # e
    BY <1>1, <1>3, <2>2 DEF OrderInv
  <2> QED
    BY <2>1, <2>2
<1> QED
  <2>1. OrderInv'
    BY <1>1, <1>2, <1>7, <1>9, <1>10, <1>11, <1>12, <1>13 DEF OrderInv
  <2> QED
    BY <1>4, <1>5, <2>1

\* When e or, without it, outPic is the frame o, then o is handed out as d or
\* stays outPic.
HandsOn(e, d) ==
  LET o == IF e = NoPic THEN main.outPic ELSE e
  IN /\ e = NoPic \/ main.outPic = NoPic
     /\ \/ d = o /\ main'.outPic = NoPic
        \/ d = NoPic /\ main'.outPic = o

\* FrameOrder sees it when a frame is handed to the application.
LEMMA FramesOutput ==
  ASSUME TypeOK, ParserInv, OrderInv, NEW e \in InList \cup {NoPic},
         NEW d \in InList \cup {NoPic}, HandsOn(e, d),
         e # NoPic => /\ pic[e].cts \in Pending
                      /\ \A r \in Pending \ {pic[e].cts} : Before(pic[e].cts, r),
         Pending' = IF e = NoPic THEN Pending ELSE Pending \ {pic[e].cts},
         stream' = stream, LastBegun' = LastBegun, reports' = reports,
         \A x \in InList : pic'[x].cts = pic[x].cts,
         out' = IF d = NoPic THEN out ELSE Append(out, pic[d].cts)
  PROVE  FrameStep
<1>0. PICK o : o = IF e = NoPic THEN main.outPic ELSE e
  OBVIOUS
<1>1. /\ main.outPic \in InList \cup {NoPic} /\ NoPic \notin InList
      /\ e = NoPic \/ main.outPic = NoPic
      /\ \/ d = o /\ main'.outPic = NoPic
         \/ d = NoPic /\ main'.outPic = o
  BY <1>0, State DEF HandsOn
<1>2. Due' = Pending' \cup {pic'[b].cts : b \in {main'.outPic} \ {NoPic}}
  BY DEF Due
<1>3. CASE o = NoPic
  <2>1. /\ main.outPic = NoPic /\ main'.outPic = NoPic /\ Pending' = Pending
        /\ out' = out
    BY <1>0, <1>1, <1>3
  <2>2. Due' = Due
    BY <1>2, <2>1 DEF Due
  <2> QED
    BY <2>1, <2>2 DEF FrameStep, Frames!vars
<1>4. ASSUME o # NoPic, NEW p, p = pic[o].cts
      PROVE  FrameStep
  <2>1. o \in InList
    BY <1>0, <1>1, <1>4
  <2>2. /\ Frames!Turn(p) /\ p \in Due /\ Pending' = Due \ {p}
    <3>1. CASE e = NoPic
      <4>1. Frames!Turn(p) /\ Due = Pending \cup {p} /\ p \notin Pending
        BY <1>0, <1>4, <3>1, OutPicNext
      <4> QED
        BY <3>1, <4>1
    <3>2. CASE e # NoPic
      <4>1. Due = Pending /\ p \in Pending /\ o = e
        BY <1>0, <1>1, <1>4, <3>2 DEF Due
      <4>2. p <= LastBegun
        <5>1. p \in 1..LastBegun /\ LastBegun \in Nat
          BY <1>4, <2>1, CtsIs, NalIs DEF ParserInv
        <5> QED
          BY <5>1
      <4>3. \A r \in Pending \ {p} : Before(p, r)
        BY <1>4, <3>2, <4>1
      <4> QED
        BY <1>4, <3>2, <4>1, <4>2, <4>3, FrameBefore DEF Frames!Turn
    <3> QED
      BY <3>1, <3>2
  <2>3. CASE d = NoPic /\ main'.outPic = o
    <3>1. Due' = Pending' \cup {p}
      BY <1>2, <1>4, <2>1, <2>3
    <3>2. Due' = Due /\ out' = out
      BY <2>2, <2>3, <3>1
    <3> QED
      BY <3>2 DEF FrameStep, Frames!vars
  <2>4. CASE d = o /\ main'.outPic = NoPic
    <3>1. Due' = Due \ {p} /\ out' = Append(out, p)
      BY <1>2, <1>4, <2>2, <2>4
    <3>2. Frames!Show
      BY <2>2, <3>1 DEF Frames!Show
    <3> QED
      BY <3>2 DEF FrameStep, Frames!Next
  <2> QED
    BY <1>1, <2>3, <2>4
<1> QED
  BY <1>3, <1>4

LEMMA OutputGoesOn ==
  ASSUME IndInv, StreamInv, NEW e \in InList \cup {NoPic}, NEW d \in InList \cup {NoPic},
         HandsOn(e, d),
         pic' = IF e = NoPic THEN pic ELSE [pic EXCEPT ![e] = Shown(@)],
         e # NoPic => /\ pic[e].progress = finished
                      /\ pic[e].neededForOutput
                      /\ \A r \in Pending \ {pic[e].cts} : Before(pic[e].cts, r),
         Deliver(d),
         UNCHANGED <<setup, nal, list, dpb, parsePic, parseList, segment, instances, reports>>,
         MoreNals => started' = started,
         main.pc \notin {"sei", "clean", "recon", "ext"},
         main'.pc \notin {"sei", "clean", "recon", "ext"}, main'.done = main.done,
         main'.pc = "eof" => \A b \in InList : ~pic'[b].neededForOutput
  PROVE  StreamInv' /\ FrameStep
<1>1. /\ TypeOK /\ ParserInv /\ pic \in [Bufs -> Picture] /\ InList \subseteq Bufs
      /\ NoPic \notin InList /\ ToSet(parseList) \subseteq Bufs
  BY State DEF IndInv, StreamInv
<1>2. \A x \in Bufs \ {e} : pic'[x] = pic[x]
  BY <1>1
<1>3. e # NoPic => /\ pic'[e] = Shown(pic[e]) /\ e \in Bufs /\ pic[e] \in Picture
                   /\ SameCoded(pic[e], pic'[e]) /\ SameFlags(pic[e], pic'[e])
                   /\ ~pic'[e].neededForOutput
                   /\ pic'[e].skippedDecCount = pic[e].skippedDecCount
  BY <1>1, ShownIs
<1>4. \A x \in Bufs : /\ SameCoded(pic[x], pic'[x]) /\ SameFlags(pic[x], pic'[x])
                      /\ pic'[x].skippedDecCount = pic[x].skippedDecCount
  <2>1. NoPic \notin Bufs
    BY Constants
  <2> QED
    BY <1>2, <1>3, <2>1, SameAgain
<1>5. ParserStays
  BY <1>4 DEF ParserStays
<1>6. Waiting' = Waiting /\ InHand' = InHand
  BY DEF Waiting, InHand, InWork
<1>7. ParserInv'
  <2>1. NobodyLost'
    BY <1>1, <1>4, <1>5, <1>6, KeptInHand DEF SameFlags, ParserInv
  <2> QED
    BY <1>1, <1>5, <2>1, ParserGoesOn
<1>8. OvertakenInv'
  BY <1>1, <1>4, <1>5, OvertakenGoesOn DEF StreamInv
<1>9. ReportsInv'
  <2>1. \A x \in InList : ReportsCalm(x)
    BY <1>1, <1>4, <1>6 DEF ReportsCalm, Prepared
  <2> QED
    BY <1>5, <2>1, ReportsGoOn DEF StreamInv
<1>10. OrderInv' /\ FrameStep
  <2>1. out' = IF d = NoPic THEN out ELSE Append(out, pic[d].cts)
    <3>1. d # NoPic => pic[d].cts # 0
      <4>1. d # NoPic => pic[d].cts \in 1..LastBegun
        BY <1>1, CtsIs
      <4> QED
        BY <4>1
    <3> QED
      BY <3>1 DEF Deliver
  <2>2. e # NoPic => pic'[e].progress = finished /\ ~pic'[e].neededForOutput
    BY <1>3 DEF SameFlags
  <2>3. /\ d # NoPic => d \in {e, main.outPic} /\ main'.outPic = NoPic
        /\ main'.outPic \in {e, main.outPic, NoPic}
    BY DEF HandsOn
  <2>4. /\ OrderInv' /\ (e # NoPic => pic[e].cts \in Pending)
        /\ Pending' = IF e = NoPic THEN Pending ELSE Pending \ {pic[e].cts}
    BY <1>2, <1>5, <2>1, <2>2, <2>3, OrderStep
  <2>5. stream' = stream /\ LastBegun' = LastBegun /\ \A x \in InList : pic'[x].cts = pic[x].cts
    BY <1>1, <1>4, Unmoved DEF SameCoded
  <2>6. FrameStep
    BY <1>1, <2>1, <2>4, <2>5, FramesOutput DEF StreamInv
  <2> QED
    BY <2>4, <2>6
<1> QED
  BY <1>7, <1>8, <1>9, <1>10 DEF StreamInv

\* The coded video sequence of a picture: it is the one of a picture in front
\* exactly when there is no IDR picture between the two.
LEMMA CvsIs ==
  ASSUME TypeOK, NEW p \in DOMAIN stream, NEW q \in DOMAIN stream, p <= q
  PROVE  /\ Cvs(p) \in Nat /\ Cvs(q) \in Nat /\ Cvs(p) <= Cvs(q)
         /\ Cvs(p) = Cvs(q) <=> NoIdr(stream, p, q)
<1> DEFINE Idrs(x) == {i \in 1..x : stream[i].idr}
<1>1. p \in Nat /\ q \in Nat
  BY StreamIs
<1>2. Idrs(p) \subseteq Idrs(q)
  BY <1>1
<1>3. IsFiniteSet(Idrs(q))
  <2>1. IsFiniteSet(1..q) /\ Idrs(q) \subseteq 1..q
    BY <1>1, FS_Interval
  <2> HIDE DEF Idrs
  <2> QED
    BY <2>1, FS_Subset
<1>4. Idrs(p) = Idrs(q) <=> NoIdr(stream, p, q)
  BY <1>1 DEF NoIdr
<1>5. Cvs(p) = Cardinality(Idrs(p)) /\ Cvs(q) = Cardinality(Idrs(q))
  BY DEF Cvs
<1> HIDE DEF Idrs
<1>6. IsFiniteSet(Idrs(p)) /\ Cardinality(Idrs(p)) <= Cardinality(Idrs(q))
      /\ (Cardinality(Idrs(p)) = Cardinality(Idrs(q)) => Idrs(p) = Idrs(q))
  BY <1>2, <1>3, FS_Subset
<1>7. Cardinality(Idrs(p)) \in Nat /\ Cardinality(Idrs(q)) \in Nat
  BY <1>3, <1>6, FS_CardinalityType
<1> QED
  BY <1>4, <1>5, <1>6, <1>7

\* The end of the range of getNextOutputPic.
Stops(i) ==
  /\ pic[list[i]].neededForOutput \/ pic[list[i]].progress < reconstructed
  /\ \/ pic[list[i]].progress < finished
     \/ pic[list[i]].idr /\ \E j \in 1..(i - 1) : pic[list[j]].neededForOutput

LEMMA OutputEndIs ==
  ASSUME TypeOK
  PROVE  /\ OutputEnd(pic, list) \in 1..(Len(list) + 1)
         /\ OutputEnd(pic, list) \in DOMAIN list => Stops(OutputEnd(pic, list))
         /\ \A i \in 1..(OutputEnd(pic, list) - 1) : i \in DOMAIN list /\ ~Stops(i)
<1> DEFINE T == {i \in 1..Len(list) : Stops(i)} \cup {Len(list) + 1}
           IsEnd(e) == (e \in DOMAIN list => Stops(e)) /\ \A i \in 1..(e - 1) : ~Stops(i)
<1>1. Len(list) \in Nat /\ DOMAIN list = 1..Len(list)
  BY State, InSequence
<1>2. \E e \in 1..(Len(list) + 1) : IsEnd(e)
  <2>1. T \in SUBSET Nat /\ T # {}
    BY <1>1
  <2>2. PICK e \in T : \A n \in T : e <= n
    <3> HIDE DEF T
    <3> QED
      BY <2>1, Least
  <2>3. e \in 1..(Len(list) + 1) /\ (e \in DOMAIN list => Stops(e))
    BY <1>1, <2>2
  <2>4. \A i \in 1..(e - 1) : ~Stops(i)
    BY <1>1, <2>2
  <2> QED
    BY <2>3, <2>4
<1>3. OutputEnd(pic, list) = CHOOSE e \in 1..(Len(list) + 1) : IsEnd(e)
  BY DEF OutputEnd, Stops
<1> HIDE DEF IsEnd
<1>4. OutputEnd(pic, list) \in 1..(Len(list) + 1) /\ IsEnd(OutputEnd(pic, list))
  BY <1>2, <1>3
<1> QED
  BY <1>1, <1>4 DEF IsEnd

LEMMA BehindRange ==
  ASSUME TypeOK, ParserInv, NEW r \in Pending, NEW e, e = OutputEnd(pic, list),
         \A b \in OutputRange(pic, list) : pic[b].cts # r
  PROVE  /\ r \in DOMAIN stream /\ stream[r].output
         /\ \A i \in 1..(e - 1) : pic[list[i]].cts < r
         /\ e \in DOMAIN list => pic[list[e]].cts <= r
         /\ e \notin DOMAIN list => r > LastBegun
<1>1. r \in DOMAIN stream /\ stream[r].output /\ r \in Nat
  BY StreamIs DEF Pending
<1>2. /\ e \in 1..(Len(list) + 1) /\ Len(list) \in Nat /\ DOMAIN list = 1..Len(list)
      /\ \A i \in 1..(e - 1) : i \in DOMAIN list
      /\ \A i \in DOMAIN list : list[i] \in InList
  BY OutputEndIs, State, InSequence DEF InList
<1>3. \A i \in DOMAIN list : pic[list[i]].cts \in Nat /\ pic[list[i]].cts <= LastBegun
  BY <1>2, CtsIs
<1>4. CASE r > LastBegun
  <2>1. LastBegun \in Nat
    BY NalIs DEF ParserInv
  <2> QED
    BY <1>1, <1>2, <1>3, <1>4, <2>1
<1>5. CASE ~(r > LastBegun)
  <2>1. PICK b \in InList : pic[b].cts = r /\ pic[b].neededForOutput
    BY <1>5 DEF Pending
  <2>2. PICK k \in DOMAIN list : list[k] = b
    BY DEF InList, ToSet
  <2>3. ~(k < e)
    <3>1. ASSUME k < e PROVE FALSE
      <4>1. k \in 1..(e - 1)
        BY <1>2, <3>1
      <4>2. b \in OutputRange(pic, list)
        BY <2>1, <2>2, <4>1 DEF OutputRange
      <4> QED
        BY <2>1, <4>2
    <3> QED
      BY <3>1
  <2>4. \A i, j \in DOMAIN list : i < j => pic[list[i]].cts < pic[list[j]].cts
    BY DEF ParserInv, PicturesInOrder
  <2>5. \A i \in 1..(e - 1) : pic[list[i]].cts < r
    <3> SUFFICES ASSUME NEW i \in 1..(e - 1) PROVE pic[list[i]].cts < r
      OBVIOUS
    <3>1. i \in DOMAIN list /\ i < k
      BY <1>2, <2>3
    <3> QED
      BY <2>1, <2>2, <2>4, <3>1
  <2>6. e \in DOMAIN list
    BY <1>2, <2>3
  <2>7. pic[list[e]].cts <= r
    <3>1. CASE e = k
      BY <1>1, <2>1, <2>2, <3>1
    <3>2. CASE e # k
      <4>1. e < k
        BY <1>2, <2>3, <3>2
      <4>2. pic[list[e]].cts < r
        BY <2>1, <2>2, <2>4, <2>6, <4>1
      <4> QED
        BY <1>1, <1>3, <2>6, <4>2
    <3> QED
      BY <3>1, <3>2
  <2> QED
    BY <1>1, <2>5, <2>6, <2>7
<1> QED
  BY <1>4, <1>5

\* Behind a picture that waits, no IDR picture is in the range: it would end
\* it, and it was not chosen before the one that waits.
LEMMA SameSequence ==
  ASSUME IndInv, StreamInv, Conforming,
         NEW i \in 1..(OutputEnd(pic, list) - 1), pic[list[i]].neededForOutput,
         NEW k \in 1..(OutputEnd(pic, list) - 1), i < k
  PROVE  /\ pic[list[i]].cts < pic[list[k]].cts
         /\ NoIdr(stream, pic[list[i]].cts, pic[list[k]].cts)
<1>1. /\ TypeOK /\ ParserInv /\ OrderInv /\ ConformingStream(stream)
      /\ DOMAIN list = 1..Len(list) /\ Len(list) \in Nat
      /\ \A j \in DOMAIN list : list[j] \in InList
      /\ OutputEnd(pic, list) \in 1..(Len(list) + 1)
      /\ \A j \in 1..(OutputEnd(pic, list) - 1) : j \in DOMAIN list /\ ~Stops(j)
  BY OutputEndIs, State, InSequence DEF IndInv, StreamInv, Conforming, InList
<1>2. i \in DOMAIN list /\ k \in DOMAIN list /\ list[i] \in InList /\ list[k] \in InList
  BY <1>1
<1>3. PICK c, d : c = pic[list[i]].cts /\ d = pic[list[k]].cts
  OBVIOUS
<1>4. c \in DOMAIN stream /\ d \in DOMAIN stream /\ c < d /\ d <= LastBegun
      /\ c \in Nat /\ d \in Nat /\ LastBegun \in Nat
  <2>1. c < d
    BY <1>1, <1>2, <1>3 DEF ParserInv, PicturesInOrder
  <2>2. LastBegun \in Nat
    BY <1>1, NalIs DEF ParserInv
  <2>3. d \in 1..LastBegun
    BY <1>1, <1>2, <1>3, CtsIs
  <2> QED
    BY <1>1, <1>2, <1>3, <2>1, <2>2, <2>3, CtsIs
<1>5. c \in Pending
  BY <1>1, <1>2, <1>3, <1>4 DEF OrderInv, Pending
<1>6. ASSUME NEW x \in (c + 1)..d, stream[x].idr PROVE FALSE
  <2>1. x \in DOMAIN stream /\ x <= LastBegun /\ c < x /\ x <= d /\ x \in Nat
    BY <1>1, <1>4, StreamIs
  <2>2. stream[x].output
    BY <1>1, <1>6, <2>1 DEF ConformingStream
  <2>3. CASE x \in Pending
    <3>1. PICK b \in InList : pic[b].cts = x /\ pic[b].neededForOutput
      BY <1>4, <2>1, <2>3 DEF Pending
    <3>2. PICK m \in DOMAIN list : list[m] = b
      BY DEF InList, ToSet
    <3>3. \A j, l \in DOMAIN list : j < l => pic[list[j]].cts < pic[list[l]].cts
      BY <1>1 DEF ParserInv, PicturesInOrder
    <3>4. i < m /\ m <= k
      <4>1. m = i \/ m < i => ~(c < x)
        BY <1>2, <1>3, <1>4, <2>1, <3>1, <3>2, <3>3
      <4>2. k < m => ~(x <= d)
        BY <1>2, <1>3, <1>4, <2>1, <3>1, <3>2, <3>3
      <4> QED
        BY <1>1, <2>1, <4>1, <4>2
    <3>5. m \in 1..(OutputEnd(pic, list) - 1) /\ i \in 1..(m - 1)
      BY <1>1, <3>4
    <3>6. pic[b].idr
      BY <1>1, <1>6, <3>1 DEF ParserInv, PicturesInOrder, HoldsCoded
    <3>7. ~(pic[list[m]].progress < finished)
      BY <1>1, <3>1, <3>2, <3>5 DEF Stops
    <3> QED
      BY <1>1, <3>1, <3>2, <3>5, <3>6 DEF Stops
  <2>4. CASE x \notin Pending
    <3>1. x \in Gone
      BY <2>1, <2>2, <2>4 DEF Gone
    <3>2. Before(x, c)
      BY <1>1, <1>5, <3>1 DEF OrderInv
    <3>3. Cvs(x) <= Cvs(c)
      <4>1. Cvs(x) \in Nat /\ Cvs(c) \in Nat
        BY <1>1, <1>4, <2>1, CvsIs
      <4> QED
        BY <3>2, <4>1 DEF Before
    <3>4. Cvs(c) = Cvs(x)
      BY <1>1, <1>4, <2>1, <3>3, CvsIs
    <3>5. NoIdr(stream, c, x)
      BY <1>1, <1>4, <2>1, <3>4, CvsIs
    <3> QED
      BY <1>6, <2>1, <3>5 DEF NoIdr
  <2> QED
    BY <2>3, <2>4
<1> QED
  BY <1>3, <1>4, <1>6 DEF NoIdr

\* Every picture of the range is reordered with a picture behind the range that
\* is shown before it.
LEMMA FewReordered ==
  ASSUME IndInv, StreamInv, Conforming,
         NEW i \in 1..(OutputEnd(pic, list) - 1), pic[list[i]].neededForOutput,
         \A o \in OutputRange(pic, list) : pic[list[i]].poc <= pic[o].poc,
         NEW r \in Pending, \A b \in OutputRange(pic, list) : pic[b].cts # r,
         NoIdr(stream, pic[list[i]].cts, r), stream[r].poc < pic[list[i]].poc
  PROVE  Cardinality(OutputRange(pic, list)) <= NumReorder
<1> DEFINE R == OutputRange(pic, list)
           Q == Reordered(stream, r)
           f == [b \in R |-> pic[b].cts]
<1>1. PICK e : e = OutputEnd(pic, list)
  OBVIOUS
<1>2. /\ TypeOK /\ ParserInv /\ OrderInv /\ ConformingStream(stream)
      /\ DOMAIN list = 1..Len(list) /\ Len(list) \in Nat
      /\ \A j \in DOMAIN list : list[j] \in InList
      /\ e \in 1..(Len(list) + 1)
      /\ \A j \in 1..(e - 1) : j \in DOMAIN list
  BY <1>1, OutputEndIs, State, InSequence DEF IndInv, StreamInv, Conforming, InList
<1>3. /\ r \in DOMAIN stream /\ stream[r].output /\ r \in Nat /\ stream[r].poc \in Int
      /\ \A j \in 1..(e - 1) : pic[list[j]].cts < r
  BY <1>1, <1>2, BehindRange, StreamIs
<1>4. ASSUME NEW b \in R
      PROVE  /\ b \in InList /\ pic[b].cts \in Nat
             /\ pic[b].cts \in Q
  <2>1. PICK j \in 1..(e - 1) : pic[list[j]].neededForOutput /\ b = list[j]
    BY <1>1 DEF OutputRange
  <2>2. /\ b \in InList /\ i \in DOMAIN list /\ list[i] \in InList /\ i \in Int /\ j \in Int
    BY <1>1, <1>2, <2>1
  <2>3. PICK c, d : c = pic[list[i]].cts /\ d = pic[b].cts
    OBVIOUS
  <2>4. /\ c \in Nat /\ d \in Nat /\ d >= 1 /\ c < r /\ d < r
        /\ d \in DOMAIN stream /\ stream[d].output
        /\ pic[b].poc = stream[d].poc /\ stream[d].poc \in Int /\ pic[list[i]].poc \in Int
    <3>1. d \in 1..LastBegun /\ d \in DOMAIN stream /\ d \in Nat /\ c \in Nat
      BY <1>2, <2>2, <2>3, CtsIs
    <3>2. c < r /\ d < r
      BY <1>1, <1>3, <2>1, <2>3
    <3>3. stream[d].output
      BY <1>2, <2>1, <2>2, <2>3 DEF OrderInv
    <3>4. pic[b].poc = stream[d].poc
      BY <1>2, <2>2, <2>3 DEF ParserInv, PicturesInOrder, HoldsCoded
    <3>5. stream[d].poc \in Int /\ pic[list[i]].poc \in Int
      <4>1. list[i] \in Bufs
        BY <1>2, <2>2, State
      <4> QED
        BY <1>2, <3>1, <4>1, StreamIs, State, Fields
    <3> QED
      BY <3>1, <3>2, <3>3, <3>4, <3>5
  <2>5. stream[d].poc > stream[r].poc
    <3>1. pic[list[i]].poc <= pic[b].poc
      BY <1>4
    <3> QED
      BY <1>3, <2>4, <3>1
  <2>6. NoIdr(stream, d, r)
    <3>1. CASE j = i
      BY <2>1, <2>3, <3>1
    <3>2. CASE i < j
      <4>1. c < d
        BY <1>1, <2>1, <2>3, <3>2, SameSequence
      <4> QED
        BY <1>3, <2>3, <2>4, <4>1 DEF NoIdr
    <3>3. CASE j < i
      <4>1. d < c /\ NoIdr(stream, d, c)
        BY <1>1, <2>1, <2>3, <3>3, SameSequence
      <4>2. NoIdr(stream, c, r)
        BY <2>3
      <4>3. ASSUME NEW x \in (d + 1)..r PROVE ~stream[x].idr
        <5>1. x \in (d + 1)..c \/ x \in (c + 1)..r
          BY <1>3, <2>4, <4>1
        <5> QED
          BY <4>1, <4>2, <5>1 DEF NoIdr
      <4> QED
        BY <4>3 DEF NoIdr
    <3> QED
      BY <2>2, <3>1, <3>2, <3>3
  <2>7. d \in 1..(r - 1)
    BY <1>3, <2>4
  <2>8. d \in Q
    BY <2>4, <2>5, <2>6, <2>7 DEF Reordered
  <2> QED
    BY <2>2, <2>3, <2>4, <2>8
<1>5. IsFiniteSet(Q) /\ Cardinality(Q) <= NumReorder
  <2>0. IsFiniteSet(1..(r - 1))
    BY <1>3, FS_Interval
  <2>1. Q \subseteq 1..(r - 1)
    BY DEF Reordered
  <2>2. Cardinality(Q) <= NumReorder
    BY <1>2, <1>3 DEF ConformingStream
  <2> HIDE DEF Q
  <2> QED
    BY <2>0, <2>1, <2>2, FS_Subset
<1>6. \A x, y \in R : pic[x].cts = pic[y].cts => x = y
  BY <1>2, <1>4, DistinctCts
<1> HIDE DEF R, Q
<1>7. f \in Injection(R, Q)
  BY <1>4, <1>6 DEF Injection, IsInjective
<1>8. IsFiniteSet(R) /\ Cardinality(R) <= Cardinality(Q)
  BY <1>5, <1>7, FS_Injection
<1>9. Cardinality(R) \in Nat /\ Cardinality(Q) \in Nat /\ NumReorder \in Nat
  BY <1>5, <1>8, FS_CardinalityType, Constants
<1> QED
  BY <1>5, <1>8, <1>9 DEF R

\* What getNextOutputPic chooses is shown before all that waits.  flush is only
\* given when all pictures are finished.
LEMMA ChosenIsNext ==
  ASSUME IndInv, StreamInv, Conforming, NEW flush \in BOOLEAN, NEW t \in Nat,
         flush => ~MoreNals /\ Unfinished = {}
  PROVE  LET o == GetNextOutputPic(pic, list, flush, NumReorder, NumReorder + Instances + 1,
                                   MaxOutOfOrderPics, first, t)
         IN /\ o.out # NoPic =>
                 /\ o.out \in InList
                 /\ pic[o.out].neededForOutput /\ pic[o.out].progress = finished
                 /\ \A r \in Pending \ {pic[o.out].cts} : Before(pic[o.out].cts, r)
            /\ flush /\ o.out = NoPic => \A b \in InList : ~pic[b].neededForOutput
<1> DEFINE range == OutputRange(pic, list)
           e == OutputEnd(pic, list)
           atIdr == e \in DOMAIN list /\ pic[list[e]].idr
           many == Cardinality(range) > NumReorder + (IF first THEN MaxOutOfOrderPics ELSE 0)
           bump == flush \/ atIdr \/ many
           lowest == CHOOSE b \in range : \A x \in range : pic[b].poc <= pic[x].poc
           o == GetNextOutputPic(pic, list, flush, NumReorder, NumReorder + Instances + 1,
                                 MaxOutOfOrderPics, first, t)
<1>1. /\ TypeOK /\ ParserInv /\ OrderInv /\ ConformingStream(stream)
      /\ DOMAIN list = 1..Len(list) /\ Len(list) \in Nat
      /\ \A j \in DOMAIN list : list[j] \in InList
      /\ pic \in [Bufs -> Picture] /\ InList \subseteq Bufs /\ NoPic \notin InList
  BY State, InSequence DEF IndInv, StreamInv, Conforming, InList
<1>2. /\ e \in 1..(Len(list) + 1) /\ (e \in DOMAIN list => Stops(e))
      /\ \A j \in 1..(e - 1) : j \in DOMAIN list
  BY <1>1, OutputEndIs
<1>3. \A b \in range : b \in InList /\ pic[b].progress = finished
  BY <1>1, InOutputRange
<1>4. \A b \in range : \E i \in 1..(e - 1) : b = list[i] /\ pic[list[i]].neededForOutput
  BY DEF OutputRange
<1>5. range # {} => lowest \in range /\ \A x \in range : pic[lowest].poc <= pic[x].poc
  <2>1. range \in SUBSET Bufs
    BY <1>1, <1>3
  <2> HIDE DEF range
  <2> QED
    BY <1>1, <2>1, LowestPoc
<1>6. \/ o.out = NoPic /\ (flush => range = {})
      \/ o.out = lowest /\ range # {} /\ bump
  BY DEF GetNextOutputPic
<1>7. flush => \A b \in InList : pic[b].progress = finished
  <2> SUFFICES ASSUME flush, NEW b \in InList PROVE pic[b].progress = finished
    OBVIOUS
  <2>1. pic[b].cts # 0 /\ pic[b].progress \in 0..5
    <3>1. b \in Bufs /\ pic[b] \in Picture /\ pic[b].cts \in 1..LastBegun
      BY <1>1, CtsIs
    <3> QED
      BY <3>1, Fields
  <2>2. ~(pic[b].progress < finished)
    BY <2>1 DEF Unfinished
  <2> QED
    BY <2>1, <2>2 DEF finished
<1>8. flush /\ e \in DOMAIN list => atIdr
  <2> SUFFICES ASSUME flush, e \in DOMAIN list PROVE pic[list[e]].idr
    OBVIOUS
  <2>1. pic[list[e]].progress = finished
    BY <1>1, <1>7
  <2> QED
    BY <1>2, <2>1 DEF Stops, finished
<1> HIDE DEF range, e, atIdr, many, lowest, o
<1>9. flush => LastBegun = Len(stream)
  <2>1. flush => ~MoreNals /\ nal[2] = 1
    BY <1>1 DEF ParserInv, AtNal
  <2>2. /\ nal[1] \in Nat /\ Len(stream) \in Nat /\ nal[1] \in 1..(Len(stream) + 1)
        /\ MoreNals <=> nal[1] <= Len(stream)
    BY <1>1, NalIs DEF ParserInv, AtNal
  <2> QED
    BY <2>1, <2>2 DEF LastBegun
<1>10. ASSUME o.out # NoPic
       PROVE  /\ o.out \in InList
              /\ pic[o.out].neededForOutput /\ pic[o.out].progress = finished
              /\ \A r \in Pending \ {pic[o.out].cts} : Before(pic[o.out].cts, r)
  <2>1. o.out = lowest /\ lowest \in range /\ bump
    BY <1>5, <1>6, <1>10
  <2>2. PICK i \in 1..(e - 1) : lowest = list[i] /\ pic[list[i]].neededForOutput
    BY <1>4, <2>1
  <2>3. PICK c : c = pic[list[i]].cts
    OBVIOUS
  <2>4. /\ list[i] \in InList /\ pic[list[i]].progress = finished /\ c \in Nat
        /\ c \in DOMAIN stream /\ pic[list[i]].poc = stream[c].poc /\ stream[c].poc \in Int
        /\ \A x \in range : pic[list[i]].poc <= pic[x].poc
    <3>1. /\ list[i] \in InList /\ pic[list[i]].progress = finished
          /\ \A x \in range : pic[list[i]].poc <= pic[x].poc
      BY <1>3, <1>5, <2>1, <2>2
    <3>2. c \in Nat /\ c \in DOMAIN stream
      BY <1>1, <2>3, <3>1, CtsIs
    <3>3. pic[list[i]].poc = stream[c].poc
      BY <1>1, <2>3, <3>1 DEF ParserInv, PicturesInOrder, HoldsCoded
    <3> QED
      BY <1>1, <3>1, <3>2, <3>3, StreamIs
  <2>5. ASSUME NEW r \in Pending, r # c PROVE Before(c, r)
    <3>1. r \in DOMAIN stream /\ r \in Nat /\ stream[r].poc \in Int
      BY <1>1, StreamIs DEF Pending
    <3>2. CASE \E b \in range : pic[b].cts = r
      <4>1. PICK b \in range : pic[b].cts = r
        BY <3>2
      <4>2. PICK j \in 1..(e - 1) : b = list[j] /\ pic[list[j]].neededForOutput
        BY <1>4
      <4>3. b \in InList /\ pic[b].poc = stream[r].poc
        BY <1>1, <1>3, <4>1 DEF ParserInv, PicturesInOrder, HoldsCoded
      <4>4. stream[c].poc <= stream[r].poc
        BY <2>4, <4>1, <4>3
      <4>5. CASE i < j
        <5>1. c < r /\ NoIdr(stream, c, r)
          BY <2>2, <2>3, <4>1, <4>2, <4>5, SameSequence DEF e
        <5>2. Cvs(c) = Cvs(r)
          BY <1>1, <2>4, <3>1, <5>1, CvsIs
        <5>3. c \in 1..(r - 1)
          BY <2>4, <3>1, <5>1, StreamIs, <1>1
        <5>4. stream[c].poc # stream[r].poc
          BY <1>1, <3>1, <5>1, <5>3 DEF ConformingStream
        <5> QED
          BY <2>4, <3>1, <4>4, <5>2, <5>4 DEF Before
      <4>6. CASE j < i
        <5>1. r < c /\ NoIdr(stream, r, c)
          BY <2>2, <2>3, <4>1, <4>2, <4>6, SameSequence DEF e
        <5>2. Cvs(c) = Cvs(r)
          BY <1>1, <2>4, <3>1, <5>1, CvsIs
        <5>3. r \in 1..(c - 1)
          BY <2>4, <3>1, <5>1, StreamIs, <1>1
        <5>4. stream[c].poc # stream[r].poc
          BY <1>1, <2>4, <5>1, <5>3 DEF ConformingStream
        <5> QED
          BY <2>4, <3>1, <4>4, <5>2, <5>4 DEF Before
      <4>7. i # j
        BY <2>3, <2>5, <4>1, <4>2
      <4> QED
        BY <1>2, <4>5, <4>6, <4>7
    <3>3. CASE ~\E b \in range : pic[b].cts = r
      <4>1. /\ \A j \in 1..(e - 1) : pic[list[j]].cts < r
            /\ e \in DOMAIN list => pic[list[e]].cts <= r
            /\ e \notin DOMAIN list => r > LastBegun
        BY <1>1, <3>3, BehindRange DEF e, range
      <4>2. c < r
        BY <2>3, <4>1
      <4>3. Cvs(c) \in Nat /\ Cvs(r) \in Nat /\ Cvs(c) <= Cvs(r)
            /\ (Cvs(c) = Cvs(r) <=> NoIdr(stream, c, r))
        BY <1>1, <2>4, <3>1, <4>2, CvsIs
      <4>4. CASE Cvs(c) # Cvs(r)
        BY <4>3, <4>4 DEF Before
      <4>5. CASE Cvs(c) = Cvs(r)
        <5>1. NoIdr(stream, c, r)
          BY <4>3, <4>5
        <5>2. stream[c].poc # stream[r].poc
          <6>1. c \in 1..(r - 1)
            BY <1>1, <2>4, <3>1, <4>2, StreamIs
          <6> QED
            BY <1>1, <3>1, <5>1, <6>1 DEF ConformingStream
        <5>3. ~atIdr
          <6> SUFFICES ASSUME atIdr PROVE FALSE
            OBVIOUS
          <6>1. e \in DOMAIN list /\ list[e] \in InList /\ pic[list[e]].idr
            BY <1>1 DEF atIdr
          <6>2. PICK x : x = pic[list[e]].cts
            OBVIOUS
          <6>3. x \in Nat /\ stream[x].idr /\ x <= r
            BY <1>1, <4>1, <6>1, <6>2, CtsIs DEF ParserInv, PicturesInOrder, HoldsCoded
          <6>4. c < x
            <7>1. i < e /\ i \in DOMAIN list
              BY <1>2
            <7> QED
              BY <1>1, <2>3, <6>1, <6>2, <7>1 DEF ParserInv, PicturesInOrder
          <6>5. x \in (c + 1)..r
            BY <2>4, <3>1, <6>3, <6>4
          <6> QED
            BY <5>1, <6>3, <6>5 DEF NoIdr
        <5>4. ~flush
          <6> SUFFICES ASSUME flush PROVE FALSE
            OBVIOUS
          <6>1. r > Len(stream)
            BY <1>8, <1>9, <4>1, <5>3
          <6> QED
            BY <1>1, <3>1, <6>1, StreamIs
        <5>5. many
          BY <2>1, <5>3, <5>4
        <5>6. stream[c].poc < stream[r].poc
          <6> SUFFICES ASSUME stream[r].poc < stream[c].poc PROVE FALSE
            BY <2>4, <3>1, <5>2
          <6>1. Cardinality(range) <= NumReorder
            BY <1>1, <2>2, <2>3, <2>4, <3>3, <5>1, FewReordered DEF e, range
          <6>2. Cardinality(range) \in Nat
            <7>1. IsFiniteSet(Bufs)
              BY FS_Interval, Constants DEF Bufs
            <7>2. range \subseteq Bufs
              BY <1>1, <1>3
            <7> QED
              BY <7>1, <7>2, FS_Subset, FS_CardinalityType
          <6> QED
            BY <5>5, <6>1, <6>2, Constants DEF many
        <5> QED
          BY <4>5, <5>6 DEF Before
      <4> QED
        BY <4>4, <4>5
    <3> QED
      BY <3>2, <3>3
  <2> QED
    BY <2>1, <2>2, <2>3, <2>4, <2>5
<1>11. ASSUME flush, o.out = NoPic, NEW b \in InList, pic[b].neededForOutput PROVE FALSE
  <2>0. ~(o.out = lowest /\ range # {})
    BY <1>1, <1>3, <1>5, <1>11
  <2>1. range = {}
    BY <1>6, <1>11, <2>0
  <2>2. PICK r : r = pic[b].cts
    OBVIOUS
  <2>3. r \in Pending /\ r \in DOMAIN stream /\ r <= LastBegun
    <3>1. r \in 1..LastBegun /\ r \in DOMAIN stream /\ r \in Nat
      BY <1>1, <2>2, CtsIs
    <3>2. stream[r].output
      BY <1>1, <1>11, <2>2 DEF OrderInv
    <3>3. LastBegun \in Nat
      BY <1>1, NalIs DEF ParserInv
    <3> QED
      BY <1>11, <2>2, <3>1, <3>2, <3>3 DEF Pending
  <2>4. e \in DOMAIN list
    <3>1. e \notin DOMAIN list => r > LastBegun
      BY <1>1, <2>1, <2>3, BehindRange DEF e, range
    <3> QED
      BY <2>3, <3>1, <1>1, NalIs, StreamIs DEF ParserInv
  <2>5. pic[list[e]].progress = finished
    BY <1>1, <1>7, <1>11, <2>4
  <2>6. pic[list[e]].idr /\ \E j \in 1..(e - 1) : pic[list[j]].neededForOutput
    BY <1>2, <2>4, <2>5 DEF Stops, finished
  <2>7. PICK j \in 1..(e - 1) : pic[list[j]].neededForOutput
    BY <2>6
  <2>8. list[j] \in range
    BY <2>7 DEF OutputRange, range, e
  <2> QED
    BY <2>1, <2>8
<1> QED
  BY <1>10, <1>11 DEF o

LEMMA NextOutputNext ==
  ASSUME IndInv, StreamInv, Conforming
  PROVE  LET o == NextOutput(FALSE)
         IN /\ o.tuneIn \in Nat /\ o.out \in InList \cup {NoPic}
            /\ o.pic = IF o.out = NoPic THEN pic ELSE [pic EXCEPT ![o.out] = Shown(@)]
            /\ o.out # NoPic =>
                 /\ pic[o.out].progress = finished /\ pic[o.out].neededForOutput
                 /\ \A r \in Pending \ {pic[o.out].cts} : Before(pic[o.out].cts, r)
<1>1. tuneIn \in Nat
  BY DEF IndInv, TypeOK
<1>2. FALSE \in BOOLEAN /\ (FALSE => ~MoreNals /\ Unfinished = {})
  OBVIOUS
<1> DEFINE o == NextOutput(FALSE)
<1>3. o.out # NoPic =>
        /\ pic[o.out].progress = finished /\ pic[o.out].neededForOutput
        /\ \A r \in Pending \ {pic[o.out].cts} : Before(pic[o.out].cts, r)
  BY <1>1, <1>2, ChosenIsNext DEF NextOutput
<1>4. /\ o.tuneIn \in Nat /\ o.out \in InList \cup {NoPic}
      /\ o.pic = IF o.out = NoPic THEN pic ELSE [pic EXCEPT ![o.out] = Shown(@)]
  BY NextOutputIs
<1> QED
  BY <1>3, <1>4

LEMMA OutputStream ==
  ASSUME IndInv, StreamInv, Conforming, Output
  PROVE  StreamInv' /\ FrameStep
<1> DEFINE o == NextOutput(FALSE)
<1>1. /\ main.pc = "output" /\ main.outPic = NoPic /\ main.done = NoPic /\ TypeOK
  BY State DEF IndInv, Output, CallPlace, DecodePc
<1>2. /\ Chosen(o) /\ Deliver(o.out) /\ main' = Idle
      /\ UNCHANGED <<setup, nal, list, parserVars, instances, reports, faults>>
  BY DEF Output
<1>3. /\ o.out \in InList \cup {NoPic}
      /\ o.pic = IF o.out = NoPic THEN pic ELSE [pic EXCEPT ![o.out] = Shown(@)]
      /\ o.out # NoPic =>
           /\ pic[o.out].progress = finished /\ pic[o.out].neededForOutput
           /\ \A r \in Pending \ {pic[o.out].cts} : Before(pic[o.out].cts, r)
  BY NextOutputNext
<1> HIDE DEF o
<1>4. main'.pc = "idle" /\ main'.done = NoPic /\ main'.outPic = NoPic
  BY <1>2 DEF Idle
<1>5. pic' = o.pic /\ UNCHANGED <<dpb, parsePic, parseList, segment, started>>
  BY <1>2 DEF Chosen, parserVars
<1>6. PICK b : b = o.out
  OBVIOUS
<1>7. /\ b \in InList \cup {NoPic} /\ Deliver(b)
      /\ pic' = IF b = NoPic THEN pic ELSE [pic EXCEPT ![b] = Shown(@)]
      /\ b # NoPic =>
           /\ pic[b].progress = finished /\ pic[b].neededForOutput
           /\ \A r \in Pending \ {pic[b].cts} : Before(pic[b].cts, r)
  BY <1>1, <1>2, <1>3, <1>5, <1>6
<1>8. HandsOn(b, b)
  BY <1>1, <1>4 DEF HandsOn
<1> QED
  BY <1>1, <1>2, <1>4, <1>5, <1>7, <1>8, OutputGoesOn

LEMMA FlushStream ==
  ASSUME IndInv, StreamInv, Conforming, Flush
  PROVE  StreamInv' /\ FrameStep
<1> DEFINE o == NextOutput(FALSE)
<1>1. /\ main.pc = "idle" /\ main.outPic = NoPic /\ main.done = NoPic /\ TypeOK
  BY State DEF IndInv, Flush, CallPlace, ParserPc
<1>2. /\ Chosen(o)
      /\ main' = [Idle EXCEPT !.pc = "flushNext", !.outPic = o.out, !.flushing = TRUE]
      /\ UNCHANGED <<setup, nal, list, parserVars, instances, held, out, reports, faults>>
  BY DEF Flush
<1>3. /\ o.out \in InList \cup {NoPic}
      /\ o.pic = IF o.out = NoPic THEN pic ELSE [pic EXCEPT ![o.out] = Shown(@)]
      /\ o.out # NoPic =>
           /\ pic[o.out].progress = finished /\ pic[o.out].neededForOutput
           /\ \A r \in Pending \ {pic[o.out].cts} : Before(pic[o.out].cts, r)
  BY NextOutputNext
<1> HIDE DEF o
<1>4. main'.pc = "flushNext" /\ main'.done = NoPic /\ main'.outPic = o.out
  BY <1>2 DEF Idle
<1>5. pic' = o.pic /\ UNCHANGED <<dpb, parsePic, parseList, segment, started>>
  BY <1>2 DEF Chosen, parserVars
<1>6. PICK b : b = o.out
  OBVIOUS
<1>7. /\ b \in InList \cup {NoPic} /\ Deliver(NoPic) /\ main'.outPic = b
      /\ pic' = IF b = NoPic THEN pic ELSE [pic EXCEPT ![b] = Shown(@)]
      /\ b # NoPic =>
           /\ pic[b].progress = finished /\ pic[b].neededForOutput
           /\ \A r \in Pending \ {pic[b].cts} : Before(pic[b].cts, r)
  BY <1>1, <1>2, <1>3, <1>4, <1>5, <1>6 DEF Deliver
<1>8. NoPic \in InList \cup {NoPic} /\ HandsOn(b, NoPic)
  BY <1>1, <1>7 DEF HandsOn
<1> QED
  BY <1>1, <1>2, <1>4, <1>5, <1>7, <1>8, OutputGoesOn

LEMMA FlushOutStream ==
  ASSUME IndInv, StreamInv, Conforming, FlushOut
  PROVE  StreamInv' /\ FrameStep
<1> DEFINE n == NextOutput(FALSE)
           o == IF main.outPic = NoPic THEN n
                ELSE [pic |-> pic, tuneIn |-> tuneIn, out |-> main.outPic]
<1>1. /\ main.pc = "flushOut" /\ main.outPic \in InList \cup {NoPic} /\ main.done = NoPic
      /\ TypeOK
  BY State DEF IndInv, FlushOut, CallPlace
<1>2. /\ Chosen(o) /\ Deliver(o.out)
      /\ main' = IF o.out = NoPic THEN [main EXCEPT !.pc = "flushNext"] ELSE Idle
      /\ UNCHANGED <<setup, nal, list, parserVars, instances, reports, faults>>
  BY DEF FlushOut
<1>3. /\ n.out \in InList \cup {NoPic}
      /\ n.pic = IF n.out = NoPic THEN pic ELSE [pic EXCEPT ![n.out] = Shown(@)]
      /\ n.out # NoPic =>
           /\ pic[n.out].progress = finished /\ pic[n.out].neededForOutput
           /\ \A r \in Pending \ {pic[n.out].cts} : Before(pic[n.out].cts, r)
  BY NextOutputNext
<1> HIDE DEF n
<1>4. PICK b, d : b = (IF main.outPic = NoPic THEN n.out ELSE NoPic) /\ d = o.out
  OBVIOUS
<1>5. /\ d \in InList \cup {NoPic} /\ b \in InList \cup {NoPic}
      /\ o.pic = IF b = NoPic THEN pic ELSE [pic EXCEPT ![b] = Shown(@)]
      /\ b # NoPic =>
           /\ pic[b].progress = finished /\ pic[b].neededForOutput
           /\ \A r \in Pending \ {pic[b].cts} : Before(pic[b].cts, r)
      /\ d = NoPic => main.outPic = NoPic
      /\ b = NoPic \/ main.outPic = NoPic
      /\ d = IF b = NoPic THEN main.outPic ELSE b
  BY <1>1, <1>3, <1>4
<1>6. Chosen(o) /\ Deliver(d) /\ main' = IF d = NoPic THEN [main EXCEPT !.pc = "flushNext"] ELSE Idle
  BY <1>2, <1>4
<1> HIDE DEF o
<1>7. /\ main'.done = NoPic /\ main'.pc \in {"flushNext", "idle"}
      /\ main'.outPic = NoPic
  <2>1. CASE d = NoPic
    BY <1>1, <1>5, <1>6, <2>1, MainFields DEF MainPcs, FlushPc
  <2>2. CASE d # NoPic
    BY <1>6, <2>2 DEF Idle
  <2> QED
    BY <2>1, <2>2
<1>8. pic' = o.pic /\ UNCHANGED <<dpb, parsePic, parseList, segment, started>>
  BY <1>2, <1>6 DEF Chosen, parserVars
<1>9. pic' = IF b = NoPic THEN pic ELSE [pic EXCEPT ![b] = Shown(@)]
  BY <1>5, <1>8
<1>10. main.pc \notin {"sei", "clean", "recon", "ext"} /\ main'.pc \notin {"sei", "clean", "recon", "ext", "eof"}
  BY <1>1, <1>7
<1>11. HandsOn(b, d)
  BY <1>5, <1>7 DEF HandsOn
<1> QED
  BY <1>1, <1>2, <1>5, <1>6, <1>7, <1>8, <1>9, <1>10, <1>11, OutputGoesOn

LEMMA FlushNextStream ==
  ASSUME IndInv, StreamInv, Conforming, FlushNext
  PROVE  StreamInv' /\ FrameStep
<1>1. /\ main.pc = "flushNext" /\ TypeOK /\ main.done = NoPic /\ main.outPic \in InList \cup {NoPic}
      /\ UNCHANGED <<setup, nal, list, dpb, parsePic, segment, started, instances, reports>>
  BY State DEF FlushNext, IndInv, CallPlace
<1>2. CASE parseList = <<>>
  <2>1. /\ Deliver(main.outPic) /\ UNCHANGED <<pic, parseList>>
        /\ main' = IF main.outPic = NoPic THEN [main EXCEPT !.pc = "block"] ELSE Idle
    BY <1>2 DEF FlushNext
  <2>2. /\ main'.done = NoPic /\ main'.pc \in {"block", "idle"} /\ main'.outPic = NoPic
    <3>1. CASE main.outPic = NoPic
      BY <1>1, <2>1, <3>1, MainFields DEF MainPcs, FlushPc
    <3>2. CASE main.outPic # NoPic
      BY <2>1, <3>2 DEF Idle
    <3> QED
      BY <3>1, <3>2
  <2>3. PICK d, e : d = main.outPic /\ e = NoPic
    OBVIOUS
  <2>4. /\ d \in InList \cup {NoPic} /\ e \in InList \cup {NoPic} /\ Deliver(d)
        /\ pic' = IF e = NoPic THEN pic ELSE [pic EXCEPT ![e] = Shown(@)]
        /\ HandsOn(e, d)
    BY <1>1, <2>1, <2>2, <2>3 DEF HandsOn
  <2>5. main'.pc \notin {"sei", "clean", "recon", "ext", "eof"} /\ main'.done = main.done
    BY <1>1, <2>2
  <2> QED
    BY <1>1, <2>1, <2>2, <2>3, <2>4, <2>5, OutputGoesOn
<1>3. CASE parseList # <<>>
  <2>0. PICK b : b = parseList[NextDecodable]
    OBVIOUS
  <2>1. /\ TakeDecodable(NextDecodable) /\ UNCHANGED <<held, out>>
        /\ main' = [main EXCEPT !.cur = b, !.pc = "recon"]
    BY <1>3, <2>0 DEF FlushNext
  <2>2. /\ main'.cur = b /\ main'.pc = "recon" /\ main'.done = NoPic
        /\ main'.outPic = main.outPic
    BY <1>1, <2>1, MainFields DEF MainTypes
  <2> QED
    BY <1>1, <1>3, <2>0, <2>1, <2>2, TakeStream
<1> QED
  BY <1>2, <1>3

LEMMA FlushLastStream ==
  ASSUME IndInv, StreamInv, Conforming, FlushLast
  PROVE  StreamInv' /\ FrameStep
<1> DEFINE o == NextOutput(FALSE)
           g == GetNextOutputPic(o.pic, list, TRUE, NumReorder, NumReorder + Instances + 1,
                                 MaxOutOfOrderPics, first, o.tuneIn)
           l == IF o.out = NoPic THEN g ELSE o
<1>1. /\ main.pc = "flushLast" /\ ~MoreNals /\ main.done = NoPic /\ main.outPic \in InList \cup {NoPic}
      /\ TypeOK /\ pic \in [Bufs -> Picture] /\ parseList = <<>> /\ ToSet(instances) = {NoPic}
      /\ main.flushing /\ NoPic \notin InList /\ main.outPic = NoPic
  BY State DEF IndInv, FlushLast, CallPlace, FlushPc
<1>2. /\ pic' = l.pic /\ Deliver(l.out)
      /\ IF l.out = NoPic
         THEN /\ first' = TRUE /\ tuneIn' = 0 /\ started' = FALSE
              /\ main' = [Idle EXCEPT !.pc = "eof"]
         ELSE /\ first' = FALSE /\ tuneIn' = l.tuneIn
              /\ main' = Idle
              /\ UNCHANGED started
      /\ UNCHANGED <<setup, nal, list, dpb, parsePic, parseList, segment, instances,
                     reports, faults>>
  BY DEF FlushLast
<1>3. /\ o.tuneIn \in Nat /\ o.out \in InList \cup {NoPic}
      /\ o.pic = IF o.out = NoPic THEN pic ELSE [pic EXCEPT ![o.out] = Shown(@)]
      /\ o.out # NoPic =>
           /\ pic[o.out].progress = finished /\ pic[o.out].neededForOutput
           /\ \A r \in Pending \ {pic[o.out].cts} : Before(pic[o.out].cts, r)
  BY NextOutputNext
<1> HIDE DEF o
<1>4. Unfinished = {}
  <2>1. Waiting = {} /\ InHand \subseteq {NoPic}
    BY <1>1, State DEF Waiting, InHand, InWork
  <2> QED
    BY <1>1, <2>1 DEF StreamInv, ParserInv, NobodyLost, Unfinished
<1>5. o.out = NoPic =>
        /\ GivesOutput(g, pic)
        /\ g.out # NoPic =>
             /\ g.out \in InList
             /\ pic[g.out].neededForOutput /\ pic[g.out].progress = finished
             /\ \A r \in Pending \ {pic[g.out].cts} : Before(pic[g.out].cts, r)
        /\ g.out = NoPic => \A b \in InList : ~pic[b].neededForOutput
  <2> SUFFICES ASSUME o.out = NoPic
               PROVE  /\ GivesOutput(g, pic)
                      /\ g.out # NoPic =>
                           /\ g.out \in InList
                           /\ pic[g.out].neededForOutput /\ pic[g.out].progress = finished
                           /\ \A r \in Pending \ {pic[g.out].cts} : Before(pic[g.out].cts, r)
                      /\ g.out = NoPic => \A b \in InList : ~pic[b].neededForOutput
    OBVIOUS
  <2>1. o.pic = pic
    BY <1>3
  <2>2. TRUE \in BOOLEAN /\ (TRUE => ~MoreNals /\ Unfinished = {})
    BY <1>1, <1>4
  <2>3. PICK t \in Nat : t = o.tuneIn
    BY <1>3
  <2> DEFINE h == GetNextOutputPic(pic, list, TRUE, NumReorder, NumReorder + Instances + 1,
                                   MaxOutOfOrderPics, first, t)
  <2>4. g = h
    BY <2>1, <2>3
  <2>5. GivesOutput(h, pic)
    BY <1>1, OutputIs
  <2>6. /\ h.out # NoPic =>
             /\ h.out \in InList
             /\ pic[h.out].neededForOutput /\ pic[h.out].progress = finished
             /\ \A r \in Pending \ {pic[h.out].cts} : Before(pic[h.out].cts, r)
        /\ h.out = NoPic => \A b \in InList : ~pic[b].neededForOutput
    BY <2>2, ChosenIsNext
  <2> HIDE DEF g, h
  <2> QED
    BY <2>4, <2>5, <2>6
<1> HIDE DEF g
<1>6. PICK b : b = l.out
  OBVIOUS
<1>7. /\ b \in InList \cup {NoPic}
      /\ l.pic = IF b = NoPic THEN pic ELSE [pic EXCEPT ![b] = Shown(@)]
      /\ b # NoPic =>
           /\ pic[b].progress = finished /\ pic[b].neededForOutput
           /\ \A r \in Pending \ {pic[b].cts} : Before(pic[b].cts, r)
      /\ b = NoPic => \A x \in InList : ~pic[x].neededForOutput
  <2>1. CASE o.out = NoPic
    <3>1. l = g
      BY <2>1
    <3> HIDE DEF l
    <3> QED
      BY <1>5, <1>6, <2>1, <3>1 DEF GivesOutput
  <2>2. CASE o.out # NoPic
    <3>1. l = o
      BY <2>2
    <3> HIDE DEF l
    <3> QED
      BY <1>3, <1>6, <2>2, <3>1
  <2> QED
    BY <2>1, <2>2
<1> HIDE DEF l
<1>8. /\ pic' = IF b = NoPic THEN pic ELSE [pic EXCEPT ![b] = Shown(@)]
      /\ Deliver(b)
      /\ main' = IF b = NoPic THEN [Idle EXCEPT !.pc = "eof"] ELSE Idle
  BY <1>2, <1>6, <1>7
<1>9. /\ main'.done = NoPic /\ main'.outPic = NoPic
      /\ main'.pc = IF b = NoPic THEN "eof" ELSE "idle"
  <2>1. CASE b = NoPic
    BY <1>8, <2>1 DEF Idle
  <2>2. CASE b # NoPic
    BY <1>8, <2>2 DEF Idle
  <2> QED
    BY <2>1, <2>2
<1>10. main'.pc = "eof" => \A x \in InList : ~pic'[x].neededForOutput
  <2>1. b # NoPic => main'.pc = "idle"
    BY <1>9
  <2>2. b = NoPic => pic' = pic /\ \A x \in InList : ~pic[x].neededForOutput
    BY <1>7, <1>8
  <2> QED
    BY <2>1, <2>2
<1>11. /\ b # NoPic => /\ pic[b].progress = finished /\ pic[b].neededForOutput
                       /\ \A r \in Pending \ {pic[b].cts} : Before(pic[b].cts, r)
       /\ HandsOn(b, b)
  BY <1>1, <1>7, <1>9 DEF HandsOn
<1>12. /\ main.pc \notin {"sei", "clean", "recon", "ext"} /\ main'.done = main.done
       /\ main'.pc \notin {"sei", "clean", "recon", "ext"}
       /\ MoreNals => started' = started
       /\ UNCHANGED <<setup, nal, list, dpb, parsePic, parseList, segment, instances, reports>>
       /\ b \in InList \cup {NoPic} /\ Deliver(b)
       /\ pic' = IF b = NoPic THEN pic ELSE [pic EXCEPT ![b] = Shown(@)]
  BY <1>1, <1>2, <1>7, <1>8, <1>9
<1> QED
  BY <1>10, <1>11, <1>12, OutputGoesOn
-----------------------------------------------------------------------------
(* The parser: no slice of a conforming stream is refused.                   *)

\* Every reference of the picture that comes next is in the DPB.
LEMMA HasReferences ==
  ASSUME TypeOK, ParserInv, Conforming, MoreNals, ~stream[nal[1]].idr,
         NEW r \in stream[nal[1]].rpl
  PROVE  \E b \in dpb, q \in 1..(nal[1] - 1) :
           /\ pic[b].cts = q /\ pic[b].poc = r /\ pic[b].dpbReferenceMark
           /\ stream[q].poc = r /\ StaysRef(stream, q, nal[1])
<1>0. PICK p : p = nal[1]
  OBVIOUS
<1>1. /\ p \in DOMAIN stream /\ p \in Nat /\ LastBegun \in Nat /\ LastBegun <= p
      /\ p - 1 <= LastBegun
  BY <1>0, NalIs DEF MoreNals, ParserInv, LastBegun
<1>2. PICK q \in 1..(p - 1) : stream[q].poc = r /\ StaysRef(stream, q, p)
  BY <1>0, <1>1 DEF Conforming, ConformingStream
<1>3. StaysRef(stream, q, LastBegun) /\ q \in 1..LastBegun
  BY <1>1, <1>2 DEF StaysRef
<1>4. PICK b \in dpb : pic[b].cts = q /\ pic[b].dpbReferenceMark
  BY <1>3 DEF ParserInv, PicturesInOrder
<1>5. pic[b].poc = r
  BY <1>2, <1>4, State DEF ParserInv, PicturesInOrder, HoldsCoded
<1> QED
  BY <1>0, <1>2, <1>4, <1>5

LEMMA NothingMissing ==
  ASSUME TypeOK, ParserInv, Conforming, MoreNals
  PROVE  Missing(stream[nal[1]]) = {}
<1>1. SUFFICES ASSUME NEW r \in stream[nal[1]].active, ~stream[nal[1]].idr
               PROVE  Available(Dpb, r)
  BY DEF Missing
<1>2. r \in stream[nal[1]].rpl
  BY <1>1 DEF Conforming, ConformingStream, MoreNals
<1> QED
  BY <1>1, <1>2, HasReferences DEF Available, Dpb

LEMMA NothingFails ==
  ASSUME TypeOK, Conforming
  PROVE  ~Fails("header") /\ ~Fails("contents") /\ ~Fails("lost")
BY DEF Conforming, Accepted, Fails

LEMMA NothingRejected ==
  ASSUME TypeOK, ParserInv, Conforming, AtSlice
  PROVE  /\ started \/ stream[nal[1]].idr
         /\ ~NoPicture
         /\ nal[2] > 1 => /\ started /\ ParsePic = parsePic /\ parsePic \in InList
                          /\ pic[parsePic].cts = nal[1] /\ ~pic[parsePic].complete
                          /\ pic[parsePic].slices = nal[2] - 1
                          /\ Segment = nal[2] - 1
<1>1. /\ MoreNals /\ nal[1] \in DOMAIN stream /\ nal[1] \in Nat /\ nal[2] \in Nat
      /\ nal[1] >= 1 /\ nal[2] >= 1 /\ nal[2] <= stream[nal[1]].slices
      /\ stream[nal[1]].slices \in Nat
  BY NalIs, StreamIs DEF AtSlice, AtSei, MoreNals, ParserInv
<1>2. started \/ stream[nal[1]].idr
  <2>1. CASE LastBegun > 0
    BY <1>1, <2>1 DEF ParserInv, AtNal
  <2>2. CASE ~(LastBegun > 0)
    <3>1. nal[1] = 1
      BY <1>1, <2>2 DEF LastBegun
    <3> QED
      BY <1>1, <3>1 DEF Conforming, ConformingStream
  <2> QED
    BY <2>1, <2>2
<1>3. ASSUME nal[2] > 1
      PROVE  /\ started /\ ParsePic = parsePic /\ parsePic \in InList
             /\ pic[parsePic].cts = nal[1] /\ ~pic[parsePic].complete
             /\ pic[parsePic].slices = nal[2] - 1 /\ Segment = nal[2] - 1 /\ parsePic # NoPic
  <2>1. LastBegun > 0
    BY <1>1, <1>3 DEF LastBegun
  <2>2. /\ started /\ parsePic # NoPic /\ pic[parsePic].cts = nal[1]
        /\ segment = pic[parsePic].slices - 1 /\ pic[parsePic].slices = nal[2] - 1
        /\ ~pic[parsePic].complete
    BY <1>1, <1>3, <2>1 DEF ParserInv, AtNal
  <2>3. parsePic \in InList
    BY <2>2, State
  <2> QED
    BY <1>1, <1>3, <2>2, <2>3 DEF ParsePic, Segment
<1>4. ~NoPicture
  BY <1>1, <1>3 DEF NoPicture
<1> QED
  BY <1>2, <1>3, <1>4

LEMMA NothingLost ==
  ASSUME IndInv, StreamInv, Conforming
  PROVE  ~LoseNal /\ ~RejectSlice /\ ~FillMissing
<1>1. TypeOK /\ ParserInv
  BY DEF IndInv, StreamInv
<1>2. ~LoseNal
  BY <1>1, NothingFails DEF LoseNal
<1>3. ~RejectSlice
  BY <1>1, NothingFails, NothingRejected DEF RejectSlice
<1>4. ~FillMissing
  BY <1>1, NothingMissing DEF FillMissing, AtSlice
<1> QED
  BY <1>2, <1>3, <1>4
-----------------------------------------------------------------------------
(* What parsing a slice makes of the pictures.                               *)

\* What is left as it is of the other pictures.
LeftAlone(p, q) ==
  /\ q.cts = p.cts /\ q.poc = p.poc /\ q.idr = p.idr /\ q.wasLost = p.wasLost
  /\ q.refs = p.refs /\ q.slices = p.slices /\ q.complete = p.complete
  /\ SameFlags(p, q) /\ q.neededForOutput = p.neededForOutput
  /\ q.skippedDecCount = p.skippedDecCount

\* The references of the picture c, as long as they are in the DPB.
KeptBy(c) == {x \in dpb : /\ ~c.idr /\ pic[x].dpbReferenceMark
                          /\ pic[x].poc \in c.rpl \cup {c.poc}}

LEMMA MarkedStream ==
  ASSUME IndInv, NEW c
  PROVE  LET M == MarkReferences(Dpb, c)
         IN /\ M.dpb = KeptBy(c) /\ M.list = list /\ M.pic \in [Bufs -> Picture]
            /\ \A x \in Bufs : LeftAlone(pic[x], M.pic[x])
            /\ \A x \in KeptBy(c) : M.pic[x] = pic[x]
<1> DEFINE M == MarkReferences(Dpb, c)
           keeps(b) == /\ ~c.idr /\ pic[b].dpbReferenceMark
                       /\ pic[b].poc \in c.rpl \cup {c.poc}
           Q == [b \in Bufs |-> IF b \in dpb /\ ~keeps(b)
                                THEN [pic[b] EXCEPT !.dpbReferenceMark = FALSE]
                                ELSE pic[b]]
<1>1. M.dpb = {x \in dpb : keeps(x)} /\ M.list = list /\ M.pic = Q
  BY DEF MarkReferences, Dpb
<1>2. {x \in dpb : keeps(x)} = KeptBy(c)
  BY DEF KeptBy
<1>3. ASSUME NEW x \in Bufs
      PROVE  /\ Q[x] \in {pic[x], [pic[x] EXCEPT !.dpbReferenceMark = FALSE]}
             /\ x \in dpb /\ keeps(x) => Q[x] = pic[x]
  OBVIOUS
<1>4. ASSUME NEW x \in Bufs
      PROVE  /\ LeftAlone(pic[x], Q[x]) /\ Q[x] \in Picture
             /\ x \in dpb /\ keeps(x) => Q[x] = pic[x]
  <2> HIDE DEF keeps, Q
  <2>1. pic[x] \in Picture
    BY State DEF IndInv
  <2>2. [pic[x] EXCEPT !.dpbReferenceMark = FALSE] \in Picture
    BY <2>1, ZenonT(30) DEF Picture
  <2>3. LeftAlone(pic[x], pic[x]) /\ LeftAlone(pic[x], [pic[x] EXCEPT !.dpbReferenceMark = FALSE])
    BY <2>1 DEF LeftAlone, SameFlags, Picture
  <2> QED
    BY <1>3, <2>1, <2>2, <2>3
<1>5. Q \in [Bufs -> Picture]
  BY <1>4
<1>6. KeptBy(c) \subseteq Bufs
  BY State DEF KeptBy, IndInv
<1> HIDE DEF keeps, Q, M
<1> QED
  BY <1>1, <1>2, <1>4, <1>5, <1>6 DEF M

\* xActivateParameterSets: the new picture.
IsNew(z, c, p) ==
  /\ z \in Picture /\ z.poc = c.poc /\ z.cts = p /\ z.idr = c.idr
  /\ z.dpbReferenceMark = c.isRef /\ (z.complete <=> c.slices = 1)
  /\ z.error = FALSE /\ z.exceptionThrownOut = FALSE /\ z.skippedDecCount = 0

LEMMA NewPictureIs ==
  ASSUME NEW o \in Picture, NEW c \in CodedPicture, NEW p \in Nat
  PROVE  IsNew(NewPicture(ResetForUse(o), c, p), c, p)
<1> DEFINE r == ResetForUse(o)
<1>1. /\ r \in Picture /\ r.error = FALSE /\ r.exceptionThrownOut = FALSE
      /\ r.skippedDecCount = 0
  <2>1. r \in Picture
    BY Reset
  <2> QED
    BY <2>1 DEF ResetForUse, FreshPicture
<1>2. /\ c.poc \in Int /\ c.isRef \in BOOLEAN /\ c.idr \in BOOLEAN
      /\ (c.slices = 1) \in BOOLEAN
  BY DEF CodedPicture
<1> DEFINE z == NewPicture(r, c, p)
<1> HIDE DEF r
<1>3. \A v \in BOOLEAN :
        [r EXCEPT !.poc = c.poc, !.cts = p, !.idr = c.idr,
                  !.dpbReferenceMark = c.isRef, !.stillReferenced = c.isRef,
                  !.slices = 1, !.complete = v] \in Picture
  BY <1>1, <1>2, ZenonT(30) DEF Picture
<1>4. z = [r EXCEPT !.poc = c.poc, !.cts = p, !.idr = c.idr,
                    !.dpbReferenceMark = c.isRef, !.stillReferenced = c.isRef,
                    !.slices = 1, !.complete = (c.slices = 1)]
  BY DEF NewPicture
<1> HIDE DEF z
<1>5. z \in Picture
  BY <1>2, <1>3, <1>4, Zenon
<1>6. /\ z.poc = c.poc /\ z.cts = p /\ z.idr = c.idr /\ z.dpbReferenceMark = c.isRef
      /\ (z.complete <=> c.slices = 1) /\ z.error = r.error
      /\ z.exceptionThrownOut = r.exceptionThrownOut
      /\ z.skippedDecCount = r.skippedDecCount
  BY <1>1, <1>4 DEF Picture
<1> QED
  BY <1>1, <1>5, <1>6 DEF IsNew, z, r

\* xDecodeSliceMain: the picture of the slice, and its references.
LEMMA SetUpStream ==
  ASSUME NEW D, NEW b \in Bufs, NEW c \in CodedPicture, NEW p \in Nat,
         D.pic \in [Bufs -> Picture], D.dpb \subseteq Bufs
  PROVE  LET S == SetUpSlice(D, b, c, p)  q == S[b]  o == D.pic[b]
         IN /\ \A x \in Bufs \ {b} : /\ LeftAlone(D.pic[x], S[x])
                                     /\ S[x].dpbReferenceMark = D.pic[x].dpbReferenceMark
            /\ q.poc = c.poc /\ q.cts = p /\ q.idr = o.idr
            /\ q.dpbReferenceMark = c.isRef /\ q.neededForOutput = c.output
            /\ q.error = o.error /\ q.exceptionThrownOut = o.exceptionThrownOut
            /\ q.skippedDecCount = o.skippedDecCount
            /\ q.complete = o.complete /\ q.slices = o.slices
            /\ q.parseFailed = o.parseFailed /\ q.recon = o.recon
            /\ q.queue = o.queue /\ q.progress = o.progress /\ q.wasLost = o.wasLost
            /\ q.parseDone = o.parseDone /\ q.reconDone = o.reconDone
            /\ q \in Picture
<1> DEFINE Q == D.pic
           w == WithSlice(Q[b], c, p)
           E == BeginSlice(D, b, c, p)
           found == IF c.idr \/ DuplicatePoc(E) THEN {} ELSE RefPics(E, c.rpl)
           R == found \cap RefPics(E, c.active)
           P == [x \in Bufs |-> IF x \in found THEN [E.pic[x] EXCEPT !.stillReferenced = TRUE]
                                               ELSE E.pic[x]]
           z == [P[b] EXCEPT !.refs = @ \cup R]
           S == SetUpSlice(D, b, c, p)
<1>1. S = [P EXCEPT ![b] = z] /\ E.pic = [Q EXCEPT ![b] = w] /\ E.dpb = D.dpb
  BY DEF SetUpSlice, BeginSlice
<1>2. R \subseteq Bufs
  BY <1>1 DEF RefPics
<1> HIDE DEF E
<1>3. /\ DOMAIN P = Bufs
      /\ \A x \in Bufs : P[x] \in {E.pic[x], [E.pic[x] EXCEPT !.stillReferenced = TRUE]}
  OBVIOUS
<1> HIDE DEF found, R, P, S
<1>4. w = [Q[b] EXCEPT !.poc = c.poc, !.cts = p,
                       !.dpbReferenceMark = c.isRef, !.stillReferenced = c.isRef,
                       !.neededForOutput = c.output]
  BY DEF WithSlice
<1>5. /\ c.poc \in Int /\ c.isRef \in BOOLEAN /\ c.output \in BOOLEAN
      /\ Q \in [Bufs -> Picture] /\ Q[b] \in Picture
  BY DEF CodedPicture
<1> HIDE DEF Q, w
<1>6. w \in Picture
  <2> DEFINE o == Q[b]
  <2>1. o \in Picture /\ w = WithSlice(o, c, p)
    BY <1>5 DEF w
  <2> HIDE DEF o
  <2> QED
    BY <1>5, <2>1, Zenon DEF WithSlice, Picture
<1>7. /\ w.poc = c.poc /\ w.cts = p /\ w.idr = Q[b].idr
      /\ w.dpbReferenceMark = c.isRef /\ w.neededForOutput = c.output
      /\ w.error = Q[b].error /\ w.exceptionThrownOut = Q[b].exceptionThrownOut
      /\ w.skippedDecCount = Q[b].skippedDecCount
      /\ w.complete = Q[b].complete /\ w.slices = Q[b].slices
      /\ w.parseFailed = Q[b].parseFailed /\ w.recon = Q[b].recon
      /\ w.queue = Q[b].queue /\ w.progress = Q[b].progress /\ w.wasLost = Q[b].wasLost
      /\ w.parseDone = Q[b].parseDone /\ w.reconDone = Q[b].reconDone
  BY <1>4, <1>5 DEF Picture
<1>8. E.pic[b] = w /\ \A x \in Bufs \ {b} : E.pic[x] = Q[x]
  BY <1>1, <1>5
<1>9. P[b] \in Picture /\ P[b] \in {w, [w EXCEPT !.stillReferenced = TRUE]}
  <2>1. P[b] \in {w, [w EXCEPT !.stillReferenced = TRUE]}
    BY <1>3, <1>8
  <2>2. [w EXCEPT !.stillReferenced = TRUE] \in Picture
    BY <1>6, ZenonT(30) DEF Picture
  <2> QED
    BY <1>6, <2>1, <2>2
<1>10. /\ P[b].poc = w.poc /\ P[b].cts = w.cts /\ P[b].idr = w.idr
       /\ P[b].dpbReferenceMark = w.dpbReferenceMark
       /\ P[b].neededForOutput = w.neededForOutput
       /\ P[b].error = w.error /\ P[b].exceptionThrownOut = w.exceptionThrownOut
       /\ P[b].skippedDecCount = w.skippedDecCount
       /\ P[b].complete = w.complete /\ P[b].slices = w.slices
       /\ P[b].parseFailed = w.parseFailed /\ P[b].recon = w.recon
       /\ P[b].queue = w.queue /\ P[b].progress = w.progress /\ P[b].wasLost = w.wasLost
       /\ P[b].parseDone = w.parseDone /\ P[b].reconDone = w.reconDone
  BY <1>6, <1>9 DEF Picture
<1> DEFINE o == P[b]  t == o.refs \cup R
<1>11. o \in Picture /\ t \in SUBSET Bufs
  BY <1>2, <1>9, Fields
<1>12. z = [o EXCEPT !.refs = t]
  OBVIOUS
<1> HIDE DEF z, o, t
<1>13. z \in Picture
  BY <1>11, <1>12, Zenon DEF Picture
<1>14. /\ z.poc = o.poc /\ z.cts = o.cts /\ z.idr = o.idr
       /\ z.dpbReferenceMark = o.dpbReferenceMark
       /\ z.neededForOutput = o.neededForOutput
       /\ z.error = o.error /\ z.exceptionThrownOut = o.exceptionThrownOut
       /\ z.skippedDecCount = o.skippedDecCount
       /\ z.complete = o.complete /\ z.slices = o.slices
       /\ z.parseFailed = o.parseFailed /\ z.recon = o.recon
       /\ z.queue = o.queue /\ z.progress = o.progress /\ z.wasLost = o.wasLost
       /\ z.parseDone = o.parseDone /\ z.reconDone = o.reconDone
  BY <1>11, <1>12 DEF Picture
<1>15. S[b] = z /\ \A x \in Bufs \ {b} : S[x] = P[x]
  BY <1>1, <1>3
<1>16. ASSUME NEW x \in Bufs \ {b}
       PROVE  LeftAlone(Q[x], S[x]) /\ S[x].dpbReferenceMark = Q[x].dpbReferenceMark
  <2>1. Q[x] \in Picture /\ S[x] \in {Q[x], [Q[x] EXCEPT !.stillReferenced = TRUE]}
    BY <1>3, <1>5, <1>8, <1>15
  <2> QED
    BY <2>1 DEF LeftAlone, SameFlags, Picture
<1>17. /\ S[b].poc = c.poc /\ S[b].cts = p /\ S[b].idr = Q[b].idr
       /\ S[b].dpbReferenceMark = c.isRef /\ S[b].neededForOutput = c.output
       /\ S[b].error = Q[b].error /\ S[b].exceptionThrownOut = Q[b].exceptionThrownOut
       /\ S[b].skippedDecCount = Q[b].skippedDecCount
       /\ S[b].complete = Q[b].complete /\ S[b].slices = Q[b].slices
       /\ S[b].parseFailed = Q[b].parseFailed /\ S[b].recon = Q[b].recon
       /\ S[b].queue = Q[b].queue /\ S[b].progress = Q[b].progress
       /\ S[b].wasLost = Q[b].wasLost /\ S[b].parseDone = Q[b].parseDone
       /\ S[b].reconDone = Q[b].reconDone /\ S[b] \in Picture
  BY <1>7, <1>10, <1>13, <1>14, <1>15 DEF o
<1> QED
  BY <1>16, <1>17 DEF S, Q

\* The parse task of the slice, or the exception in its place.
LEMMA TaskStream ==
  ASSUME NEW q \in Picture, NEW s \in Nat
  PROVE  LET z == AddParseTask(q, s)  y == StartParsing(q)
         IN /\ z.poc = q.poc /\ z.idr = q.idr /\ z.neededForOutput = q.neededForOutput
            /\ z.error = q.error /\ z.skippedDecCount = q.skippedDecCount
            /\ y.poc = q.poc /\ y.idr = q.idr /\ y.neededForOutput = q.neededForOutput
            /\ y.error = q.error /\ y.skippedDecCount = q.skippedDecCount
<1> DEFINE z == AddParseTask(q, s)  y == StartParsing(q)
<1>1. z = [y EXCEPT !.queue = y.queue \cup {s}] /\ y \in Picture
  BY TaskAdded DEF AddParseTask
<1>2. /\ y.poc = q.poc /\ y.idr = q.idr /\ y.neededForOutput = q.neededForOutput
      /\ y.error = q.error /\ y.skippedDecCount = q.skippedDecCount
  BY DEF StartParsing, Picture
<1> HIDE DEF y, z
<1>3. /\ z.poc = y.poc /\ z.idr = y.idr /\ z.neededForOutput = y.neededForOutput
      /\ z.error = y.error /\ z.skippedDecCount = y.skippedDecCount
  BY <1>1 DEF Picture
<1> QED
  BY <1>2, <1>3 DEF y, z

\* getNewPicBuffer puts the buffer behind the others and leaves their order.
AtTheEnd(L, b) ==
  \A i, j \in DOMAIN L : i < j =>
    /\ L[i] \in InList \ {b}
    /\ \/ L[j] = b
       \/ \E k, l \in DOMAIN list : k < l /\ L[i] = list[k] /\ L[j] = list[l]

LEMMA BufferAtTheEnd ==
  ASSUME TypeOK, NEW P, NEW room, GetNewPicBuffer(P, list, room).buf \in Bufs
  PROVE  AtTheEnd(GetNewPicBuffer(P, list, room).list, GetNewPicBuffer(P, list, room).buf)
<1> DEFINE L == list
           I == {i \in 1..Len(L) : Reusable(P[L[i]])}
           at == SelectInSeq(L, LAMBDA b : Reusable(P[b]))
           n == GetNewPicBuffer(P, L, room)
<1>0. /\ L \in Seq(Bufs) /\ IsInjective(L) /\ ToSet(L) = 1..Len(L) /\ InList = ToSet(L)
      /\ n.buf \in Bufs
  BY State DEF InList
<1>1. /\ Len(L) \in Nat /\ DOMAIN L = 1..Len(L)
      /\ \A i \in DOMAIN L : L[i] \in Bufs /\ L[i] \in ToSet(L)
  BY <1>0, InSequence
<1>2. at = IF I # {} THEN Min(I) ELSE 0
  BY DEF SelectInSeq
<1>3. I \in SUBSET Nat /\ 0 \notin I
  BY <1>1
<1>4. at = 0 \/ at \in 1..Len(L)
  <2>1. at = 0 \/ at \in I
    <3> HIDE DEF I
    <3> QED
      BY <1>2, <1>3, SelectedFirst
  <2> QED
    BY <2>1
<1>7. \/ n.buf = Len(L) + 1 /\ n.list = Append(L, Len(L) + 1)
      \/ at # 0 /\ n.buf = L[at] /\ n.list = Append(RemoveAt(L, at), L[at])
  BY DEF GetNewPicBuffer
<1> HIDE DEF at, n, I, L
<1> SUFFICES ASSUME NEW i \in DOMAIN n.list, NEW j \in DOMAIN n.list, i < j
             PROVE  /\ n.list[i] \in ToSet(L) \ {n.buf}
                    /\ \/ n.list[j] = n.buf
                       \/ \E k, l \in DOMAIN L : k < l /\ n.list[i] = L[k] /\ n.list[j] = L[l]
  BY <1>0 DEF AtTheEnd, n, L
<1>5. CASE n.buf = Len(L) + 1 /\ n.list = Append(L, Len(L) + 1)
  <2>1. /\ DOMAIN n.list = 1..(Len(L) + 1) /\ n.list[Len(L) + 1] = n.buf
        /\ \A k \in 1..Len(L) : n.list[k] = L[k]
    BY <1>0, <1>5, Appended
  <2>2. i \in DOMAIN L /\ n.list[i] = L[i] /\ L[i] \in ToSet(L) /\ n.buf \notin ToSet(L)
    BY <1>0, <1>1, <1>5, <2>1
  <2>3. j = Len(L) + 1 \/ j \in DOMAIN L
    BY <1>1, <2>1
  <2> QED
    BY <1>1, <2>1, <2>2, <2>3
<1>6. CASE at \in 1..Len(L) /\ n.buf = L[at] /\ n.list = Append(RemoveAt(L, at), L[at])
  <2> DEFINE r == RemoveAt(L, at)  m == Len(L) - 1
  <2>1. /\ r \in Seq(Bufs) /\ Len(r) = m /\ L[at] \in Bufs
        /\ \A k \in 1..m : r[k] = IF k < at THEN L[k] ELSE L[k + 1]
        /\ ToSet(r) = ToSet(L) \ {L[at]}
    BY <1>0, <1>1, <1>6, Removed, RemovedFrom, Zenon
  <2>2. n.list = Append(r, L[at])
    BY <1>6
  <2> HIDE DEF r
  <2>3. /\ DOMAIN n.list = 1..(m + 1) /\ n.list[m + 1] = L[at]
        /\ \A k \in 1..m : n.list[k] = r[k]
    BY <2>1, <2>2, Appended
  <2>4. i \in 1..m /\ n.list[i] = r[i] /\ (j = m + 1 \/ (j \in 1..m /\ n.list[j] = r[j]))
    BY <1>1, <2>3
  <2>5. r[i] \in ToSet(r)
    BY <2>1, <2>4, InSequence
  <2>6. ASSUME j \in 1..m
        PROVE  \E k, l \in DOMAIN L : k < l /\ n.list[i] = L[k] /\ n.list[j] = L[l]
    <3> DEFINE k == IF i < at THEN i ELSE i + 1
               l == IF j < at THEN j ELSE j + 1
    <3>1. k \in 1..Len(L) /\ l \in 1..Len(L) /\ k < l
      BY <1>1, <1>6, <2>4, <2>6
    <3>2. n.list[i] = L[k] /\ n.list[j] = L[l]
      BY <2>1, <2>3, <2>4, <2>6
    <3> QED
      BY <1>1, <3>1, <3>2
  <2> QED
    BY <1>6, <2>1, <2>3, <2>4, <2>5, <2>6, SMTT(30)
<1> QED
  BY <1>4, <1>5, <1>6, <1>7

\* xActivateParameterSets behind the marking of the references.
LEMMA ActivatedStream ==
  ASSUME IndInv, NEW c \in CodedPicture, NEW p \in Nat \ {0},
         Activate(Dpb, c, p).buf \in Bufs
  PROVE  LET A == Activate(Dpb, c, p)  b == A.buf  q == A.pic[b]
         IN /\ A.dpb = KeptBy(c) \cup {b} /\ b \notin KeptBy(c)
            /\ A.pic \in [Bufs -> Picture]
            /\ \A x \in Bufs \ {b} : LeftAlone(pic[x], A.pic[x])
            /\ \A x \in KeptBy(c) : A.pic[x] = pic[x]
            /\ q.poc = c.poc /\ q.cts = p /\ q.idr = c.idr
            /\ q.dpbReferenceMark = c.isRef /\ (q.complete <=> c.slices = 1)
            /\ q.error = FALSE /\ q.exceptionThrownOut = FALSE
            /\ q.skippedDecCount = 0
            /\ AtTheEnd(A.list, b)
<1> DEFINE M == MarkReferences(Dpb, c)  T == TakeBuffer(M)
           A == Activate(Dpb, c, p)  b == T.buf
           z == NewPicture(T.pic[b], c, p)
           n == GetNewPicBuffer(M.pic, list, MaxRefPicNum + ParseFrameDelay)
<1>1. /\ M.dpb = KeptBy(c) /\ M.list = list /\ M.pic \in [Bufs -> Picture]
      /\ \A x \in Bufs : LeftAlone(pic[x], M.pic[x])
      /\ \A x \in KeptBy(c) : M.pic[x] = pic[x]
      /\ M = [pic |-> M.pic, list |-> list, dpb |-> M.dpb]
      /\ M.dpb \in SUBSET dpb /\ TypeOK
  BY MarkedStream, Marked, SMTT(30) DEF IndInv
<1>2. /\ A.buf = b /\ A.list = T.list /\ A.dpb = T.dpb /\ A.ok = T.ok
      /\ A.pic = [T.pic EXCEPT ![b] = z]
  BY Zenon DEF Activate, TakeBuffer
<1>3. /\ b \in Bufs /\ A.ok
  BY <1>2, ReusedNotInDpb
<1> DEFINE Q == M.pic  d == M.dpb
<1>4. T = TakeBuffer([pic |-> Q, list |-> list, dpb |-> d])
  BY <1>1
<1>5. T.buf = n.buf /\ T.list = n.list
  BY <1>1 DEF TakeBuffer
<1> HIDE DEF M, T, A, Q, d, n
<1>6. Q \in [Bufs -> Picture] /\ d \in SUBSET dpb
  BY <1>1 DEF Q, d
<1>7. /\ T.dpb = d \cup {b} /\ T.ok = (b \notin d)
      /\ T.pic \in [Bufs -> Picture] /\ T.pic[b] = ResetForUse(Q[b])
      /\ \A x \in Bufs \ {b} : T.pic[x] = Q[x]
  <2> DEFINE W == TakeBuffer([pic |-> Q, list |-> list, dpb |-> d])
  <2>1. /\ W.buf \in Bufs =>
             /\ W.pic \in [Bufs -> Picture] /\ W.pic[W.buf] = ResetForUse(Q[W.buf])
             /\ \A x \in Bufs \ {W.buf} : W.pic[x] = Q[x]
        /\ W.dpb = d \cup {W.buf} /\ W.ok = (W.buf \notin d)
    BY <1>1, <1>6, Taken, SMTT(30)
  <2>2. T = W
    BY <1>4
  <2> HIDE DEF W
  <2> QED
    BY <1>3, <2>1, <2>2
<1>8. /\ z \in Picture /\ z.poc = c.poc /\ z.cts = p /\ z.idr = c.idr
      /\ z.dpbReferenceMark = c.isRef /\ (z.complete <=> c.slices = 1)
      /\ z.error = FALSE /\ z.exceptionThrownOut = FALSE /\ z.skippedDecCount = 0
  <2>1. Q[b] \in Picture /\ z = NewPicture(ResetForUse(Q[b]), c, p) /\ p \in Nat
    BY <1>3, <1>6, <1>7
  <2> HIDE DEF z
  <2>2. IsNew(NewPicture(ResetForUse(Q[b]), c, p), c, p)
    BY <2>1, NewPictureIs
  <2> QED
    BY <2>1, <2>2 DEF IsNew
<1> HIDE DEF z
<1>9. /\ A.pic \in [Bufs -> Picture] /\ A.pic[b] = z
      /\ \A x \in Bufs \ {b} : A.pic[x] = Q[x]
  BY <1>2, <1>3, <1>7, <1>8
<1>10. A.dpb = KeptBy(c) \cup {b} /\ b \notin KeptBy(c)
  BY <1>1, <1>2, <1>3, <1>7 DEF d
<1>11. AtTheEnd(n.list, n.buf)
  BY <1>1, <1>3, <1>5, BufferAtTheEnd DEF n
<1>12. KeptBy(c) \subseteq Bufs
  BY <1>1, State DEF KeptBy
<1> QED
  <2>1. \A x \in Bufs \ {b} : LeftAlone(pic[x], A.pic[x])
    BY <1>1, <1>9 DEF Q
  <2>2. \A x \in KeptBy(c) : A.pic[x] = pic[x]
    BY <1>1, <1>9, <1>10, <1>12 DEF Q
  <2> QED
    BY <1>2, <1>3, <1>5, <1>8, <1>9, <1>10, <1>11, <2>1, <2>2 DEF A

\* In a coded video sequence the picture order counts differ.
LEMMA PocsDiffer ==
  ASSUME TypeOK, Conforming, NEW p \in DOMAIN stream, NEW q \in 1..(p - 1),
         NoIdr(stream, q, p)
  PROVE  stream[q].poc # stream[p].poc
BY DEF Conforming, ConformingStream

\* No slice of a conforming stream fails on its reference picture lists.
LEMMA ListsHold ==
  ASSUME TypeOK, ParserInv, Conforming, MoreNals, NEW D, NEW b \in Bufs,
         D.pic \in [Bufs -> Picture],
         \A x \in D.dpb \ {b} :
           /\ x \in dpb /\ D.pic[x].poc = pic[x].poc /\ pic[x].cts < nal[1]
           /\ NoIdr(stream, pic[x].cts, nal[1]),
         ~stream[nal[1]].idr =>
           \A x \in dpb : /\ pic[x].poc \in stream[nal[1]].rpl /\ pic[x].cts < nal[1]
                          /\ pic[x].dpbReferenceMark
                          => x \in D.dpb \ {b} /\ D.pic[x].dpbReferenceMark
                             /\ D.pic[x].poc = pic[x].poc
  PROVE  RplHolds(D, b, stream[nal[1]], nal[1])
<1> DEFINE p == nal[1]  c == stream[p]  E == BeginSlice(D, b, c, p)
<1>1. /\ p \in DOMAIN stream /\ p \in Nat /\ LastBegun \in Nat
      /\ c \in CodedPicture /\ dpb \subseteq InList /\ InList \subseteq Bufs
      /\ DOMAIN stream = 1..Len(stream) /\ Len(stream) \in Nat
  BY NalIs, StreamIs, State DEF MoreNals, ParserInv
<1>2. /\ E.dpb = D.dpb /\ E.pic = [D.pic EXCEPT ![b] = WithSlice(@, c, p)]
  BY DEF BeginSlice
<1>3. /\ E.pic[b] = WithSlice(D.pic[b], c, p) /\ D.pic[b] \in Picture
      /\ \A x \in Bufs \ {b} : E.pic[x] = D.pic[x]
  BY <1>2
<1> HIDE DEF E
<1>4. E.pic[b].poc = c.poc
  BY <1>3 DEF WithSlice, Picture
<1>5. ASSUME NEW x \in D.dpb \ {b}
      PROVE  /\ x \in InList /\ pic[x].cts \in 1..(p - 1) /\ pic[x].cts \in Nat
             /\ pic[x].cts \in DOMAIN stream
             /\ E.pic[x].poc = stream[pic[x].cts].poc /\ NoIdr(stream, pic[x].cts, p)
  <2>1. x \in InList /\ pic[x].cts \in 1..LastBegun /\ pic[x].poc = stream[pic[x].cts].poc
    BY <1>1, <1>5 DEF ParserInv, PicturesInOrder, HoldsCoded
  <2>2. pic[x].cts < p /\ E.pic[x].poc = pic[x].poc /\ NoIdr(stream, pic[x].cts, p)
    BY <1>1, <1>3, <1>5
  <2> QED
    BY <1>1, <2>1, <2>2
<1>6. ~DuplicatePoc(E)
  <2>1. SUFFICES ASSUME NEW x \in D.dpb, NEW y \in D.dpb, x # y,
                        E.pic[x].poc = E.pic[y].poc
                 PROVE  FALSE
    BY <1>2 DEF DuplicatePoc
  <2>2. CASE x = b
    BY <1>1, <1>4, <1>5, <2>1, <2>2, PocsDiffer
  <2>3. CASE y = b
    BY <1>1, <1>4, <1>5, <2>1, <2>3, PocsDiffer
  <2>4. CASE x # b /\ y # b
    <3> PICK i \in DOMAIN stream, j \in DOMAIN stream : i = pic[x].cts /\ j = pic[y].cts
      BY <1>5, <2>1, <2>4
    <3>1. /\ i \in 1..(p - 1) /\ j \in 1..(p - 1) /\ x \in InList /\ y \in InList
          /\ stream[i].poc = stream[j].poc /\ NoIdr(stream, i, p) /\ NoIdr(stream, j, p)
      BY <1>5, <2>1, <2>4
    <3>2. i # j
      BY <2>1, <3>1, DistinctCts
    <3>3. NoIdr(stream, i, j) /\ NoIdr(stream, j, i)
      BY <1>1, <3>1 DEF NoIdr
    <3>4. CASE i < j
      BY <1>1, <3>1, <3>3, <3>4, PocsDiffer
    <3>5. CASE j < i
      BY <1>1, <3>1, <3>3, <3>5, PocsDiffer
    <3> QED
      BY <1>1, <3>1, <3>2, <3>4, <3>5
  <2> QED
    BY <2>2, <2>3, <2>4
<1>7. ASSUME ~c.idr, NEW r \in c.rpl PROVE Available(E, r) /\ r # c.poc
  <2>1. PICK x \in dpb, q \in 1..(p - 1) :
          /\ pic[x].cts = q /\ pic[x].poc = r /\ pic[x].dpbReferenceMark
          /\ stream[q].poc = r /\ StaysRef(stream, q, p)
    BY <1>7, HasReferences
  <2>2. /\ x \in D.dpb \ {b} /\ D.pic[x].dpbReferenceMark /\ D.pic[x].poc = r
        /\ x \in Bufs
    BY <1>1, <1>7, <2>1
  <2>3. NoIdr(stream, q, p)
    BY <2>1 DEF StaysRef, NoIdr
  <2>4. stream[q].poc # c.poc
    BY <1>1, <2>3, PocsDiffer
  <2> QED
    BY <1>2, <1>3, <2>1, <2>2, <2>4 DEF Available
<1>8. c.active \subseteq c.rpl
  BY <1>1 DEF Conforming, ConformingStream
<1> QED
  BY <1>6, <1>7, <1>8 DEF RplHolds, E
-----------------------------------------------------------------------------
(* The first slice of a picture.                                             *)

\* What it does in buffer b.
Begun(b) ==
  LET c == stream[nal[1]]  q == pic'[b]
  IN /\ AtSlice /\ nal[2] = 1 /\ b \in Bufs /\ Free(b) /\ b \notin ToSet(parseList)
     /\ list' \in Seq(Bufs) /\ ToSet(list') = InList \cup {b} /\ AtTheEnd(list', b)
     /\ dpb' = KeptBy(c) \cup {b} /\ b \notin KeptBy(c) /\ parsePic' = b
     /\ parseList' = Append(parseList, b) /\ started' = TRUE /\ segment' = 0
     /\ nal' = NextNal /\ main' = AfterSlice(q.complete, parseList')
     /\ UNCHANGED <<setup, instances, first, tuneIn, held, out, reports>>
     /\ \A x \in Bufs \ {b} : LeftAlone(pic[x], pic'[x])
     /\ \A x \in KeptBy(c) : pic'[x].dpbReferenceMark
     /\ q.poc = c.poc /\ q.cts = nal[1] /\ q.idr = c.idr
     /\ q.dpbReferenceMark = c.isRef /\ q.neededForOutput = c.output
     /\ (q.complete <=> c.slices = 1) /\ q.slices = 1 /\ b \notin q.refs /\ ~q.wasLost
     /\ ~q.error /\ ~q.exceptionThrownOut /\ q.skippedDecCount = 0
     /\ ~q.parseFailed /\ ~q.recon /\ q.progress = parsing
     /\ q.parseDone = "locked" /\ q.reconDone = "locked"

LEMMA FirstSliceIs ==
  ASSUME IndInv, StreamInv, Conforming, FirstSlice
  PROVE  \E b \in Bufs : Begun(b)
<1> DEFINE c == stream[nal[1]]  p == nal[1]
           A == Activate(Dpb, c, p)  b == A.buf  S == SetUpSlice(A, b, c, p)
           holds == A.ok /\ RplHolds(A, b, c, p)
<1>1. /\ AtSlice /\ nal[2] = 1 /\ b \in Bufs
      /\ list' = A.list /\ dpb' = A.dpb /\ parsePic' = b /\ started' = TRUE
      /\ nal' = NextNal /\ segment' = Segment
      /\ UNCHANGED <<setup, instances, outputVars>>
      /\ \/ A.ok /\ Fails("contents")
         \/ ~holds
         \/ /\ holds
            /\ pic' = [S EXCEPT ![b] = AddParseTask(@, 1)]
            /\ parseList' = Append(parseList, b)
            /\ main' = AfterSlice(A.pic[b].complete, parseList')
            /\ UNCHANGED <<reports, faults>>
  BY DEF FirstSlice
<1>2. /\ TypeOK /\ MoreNals /\ c \in CodedPicture /\ p \in Nat \ {0} /\ ParserInv
      /\ StreamInv /\ p \in DOMAIN stream
  BY <1>1, AtSliceState, Constants DEF TypeOK, StreamInv, MoreNals
<1>3. /\ A.list \in Seq(Bufs) /\ ToSet(A.list) = InList \cup {b} /\ A.ok
      /\ Free(b) /\ OthersKept(A.pic, b) /\ A.dpb \subseteq InList \cup {b}
      /\ A.pic[b].refs = {} /\ A.pic[b].queue = {}
      /\ A.pic[b].slices = 1 /\ A.pic[b].progress = init /\ A.pic[b].recon = FALSE
      /\ A.pic[b].parseDone = "locked" /\ A.pic[b].reconDone = "locked"
      /\ ~A.pic[b].wasLost /\ b \notin ToSet(parseList)
      /\ A.pic[b].parseFailed = FALSE
  <2>1. c \in CodedPicture /\ p \in Nat \ {0} /\ Activate(Dpb, c, p).buf \in Bufs
    BY <1>1, <1>2
  <2> HIDE DEF c, p
  <2> QED
    BY <2>1, Activated, ZenonT(30)
<1>4. /\ A.dpb = KeptBy(c) \cup {b} /\ b \notin KeptBy(c)
      /\ A.pic \in [Bufs -> Picture]
      /\ \A x \in Bufs \ {b} : LeftAlone(pic[x], A.pic[x])
      /\ \A x \in KeptBy(c) : A.pic[x] = pic[x]
      /\ A.pic[b].poc = c.poc /\ A.pic[b].cts = p /\ A.pic[b].idr = c.idr
      /\ A.pic[b].dpbReferenceMark = c.isRef /\ (A.pic[b].complete <=> c.slices = 1)
      /\ A.pic[b].error = FALSE /\ A.pic[b].exceptionThrownOut = FALSE
      /\ A.pic[b].skippedDecCount = 0 /\ AtTheEnd(A.list, b)
  <2>1. c \in CodedPicture /\ p \in Nat \ {0} /\ Activate(Dpb, c, p).buf \in Bufs
    BY <1>1, <1>2
  <2> HIDE DEF c, p
  <2> QED
    BY <2>1, ActivatedStream, ZenonT(30)
<1>5. LastBegun = p - 1 /\ Segment = 0
  BY <1>1 DEF LastBegun, Segment
<1> HIDE DEF A, b
<1>6. RplHolds(A, b, c, p)
  <2>1. ASSUME NEW x \in A.dpb \ {b}
        PROVE  /\ x \in dpb /\ A.pic[x].poc = pic[x].poc /\ pic[x].cts < nal[1]
               /\ NoIdr(stream, pic[x].cts, nal[1])
    <3>1. x \in KeptBy(c) /\ x \in dpb /\ ~c.idr /\ x \in InList /\ pic[x].cts \in 1..LastBegun
      BY <1>2, <1>4, State DEF KeptBy, ParserInv, PicturesInOrder, HoldsCoded
    <3>2. NoIdr(stream, pic[x].cts, p - 1)
      BY <1>2, <1>5, <3>1 DEF ParserInv, PicturesInOrder
    <3>3. pic[x].cts \in Nat /\ pic[x].cts < p
      BY <1>2, <1>5, <3>1
    <3>4. NoIdr(stream, pic[x].cts, p)
      BY <1>2, <3>1, <3>2, <3>3 DEF NoIdr
    <3> QED
      BY <1>4, <3>1, <3>3, <3>4
  <2>2. ASSUME ~c.idr, NEW x \in dpb, pic[x].poc \in c.rpl, pic[x].dpbReferenceMark
        PROVE  /\ x \in A.dpb \ {b} /\ A.pic[x].dpbReferenceMark
               /\ A.pic[x].poc = pic[x].poc
    BY <1>4, <2>2 DEF KeptBy
  <2> QED
    BY <1>1, <1>2, <1>4, <2>1, <2>2, ListsHold
<1>7. ~Fails("contents")
  BY <1>2, NothingFails
<1>8. /\ pic' = [S EXCEPT ![b] = AddParseTask(@, 1)]
      /\ parseList' = Append(parseList, b)
      /\ main' = AfterSlice(A.pic[b].complete, parseList')
      /\ reports' = reports
  BY <1>1, <1>3, <1>6, <1>7
<1> HIDE DEF c, p
<1>9. /\ \A x \in Bufs \ {b} : /\ LeftAlone(A.pic[x], S[x])
                               /\ S[x].dpbReferenceMark = A.pic[x].dpbReferenceMark
      /\ S[b].poc = c.poc /\ S[b].cts = p /\ S[b].idr = A.pic[b].idr
      /\ S[b].dpbReferenceMark = c.isRef /\ S[b].neededForOutput = c.output
      /\ S[b].error = A.pic[b].error
      /\ S[b].exceptionThrownOut = A.pic[b].exceptionThrownOut
      /\ S[b].skippedDecCount = A.pic[b].skippedDecCount
      /\ S[b].complete = A.pic[b].complete /\ S[b].slices = A.pic[b].slices
      /\ S[b].parseFailed = A.pic[b].parseFailed /\ S[b].recon = A.pic[b].recon
      /\ S[b].queue = A.pic[b].queue /\ S[b].progress = A.pic[b].progress
      /\ S[b].wasLost = A.pic[b].wasLost
      /\ S[b].parseDone = A.pic[b].parseDone /\ S[b].reconDone = A.pic[b].reconDone
      /\ S[b] \in Picture
  <2>1. /\ A.pic \in [Bufs -> Picture] /\ A.dpb \subseteq Bufs /\ b \in Bufs
        /\ p \in Nat /\ c \in CodedPicture
    BY <1>1, <1>2, <1>3, <1>4, State
  <2> HIDE DEF S
  <2> QED
    BY <2>1, SetUpStream DEF S
<1>10. /\ S \in [Bufs -> Picture]
       /\ b \in S[b].refs => ~c.idr /\ c.poc \in c.active
  <2>1. /\ b \in Bufs /\ p \in Nat /\ c \in CodedPicture /\ OthersKept(A.pic, b)
        /\ A.dpb \subseteq InList \cup {b} /\ A.pic[b].refs = {}
    BY <1>1, <1>2, <1>3
  <2>2. OthersKept(S, b) /\ (b \in S[b].refs => b \in A.pic[b].refs \/ (~c.idr /\ c.poc \in c.active))
    BY <2>1, SliceSetUp
  <2> QED
    BY <2>1, <2>2 DEF OthersKept
<1>11. b \notin S[b].refs
  BY <1>6, <1>10 DEF RplHolds
<1> HIDE DEF S
<1>12. /\ pic'[b] = AddParseTask(S[b], 1)
       /\ \A x \in Bufs \ {b} : pic'[x] = S[x]
  BY <1>1, <1>8, <1>10
<1>13. /\ pic'[b].poc = S[b].poc /\ pic'[b].idr = S[b].idr
       /\ pic'[b].neededForOutput = S[b].neededForOutput
       /\ pic'[b].error = S[b].error /\ pic'[b].skippedDecCount = S[b].skippedDecCount
       /\ pic'[b].refs = S[b].refs /\ pic'[b].cts = S[b].cts
       /\ pic'[b].wasLost = S[b].wasLost /\ pic'[b].slices = S[b].slices
       /\ pic'[b].complete = S[b].complete /\ pic'[b].recon = S[b].recon
       /\ pic'[b].reconDone = S[b].reconDone /\ pic'[b].parseDone = S[b].parseDone
       /\ pic'[b].dpbReferenceMark = S[b].dpbReferenceMark
       /\ pic'[b].parseFailed = S[b].parseFailed
       /\ pic'[b].exceptionThrownOut = S[b].exceptionThrownOut
       /\ pic'[b].progress = IF S[b].progress = init THEN parsing ELSE S[b].progress
  BY <1>9, <1>12, TaskAdded, TaskStream
<1>14. \A x \in Bufs \ {b} : LeftAlone(pic[x], pic'[x])
  BY <1>4, <1>9, <1>12 DEF LeftAlone, SameFlags
<1>15. KeptBy(c) \subseteq Bufs \ {b} /\ \A x \in KeptBy(c) : pic[x].dpbReferenceMark
  BY <1>2, <1>4, State DEF KeptBy
<1>16. \A x \in KeptBy(c) : pic'[x].dpbReferenceMark
  BY <1>4, <1>9, <1>12, <1>15
<1>17. pic'[b].complete = A.pic[b].complete
  BY <1>9, <1>13
<1> QED
  <2>1. Begun(b)
    BY <1>1, <1>3, <1>4, <1>5, <1>8, <1>9, <1>11, <1>13, <1>14, <1>16, <1>17
       DEF Begun, outputVars, c, p
  <2> QED
    BY <1>1, <2>1

\* Where the parser was, and where it is now.
LEMMA BegunPlace ==
  ASSUME IndInv, ParserInv, NEW b \in Bufs, Begun(b), NEW p, p = nal[1]
  PROVE  /\ TypeOK /\ p \in DOMAIN stream /\ p \in Nat \ {0} /\ stream[p].slices \in Nat \ {0}
         /\ LastBegun = p - 1 /\ LastBegun' = p /\ p <= Len(stream)
         /\ DOMAIN stream = 1..Len(stream) /\ Len(stream) \in Nat
         /\ stream' = stream /\ ParseFrameDelay' = ParseFrameDelay
         /\ InList' = InList \cup {b} /\ InList \subseteq Bufs
         /\ nal' = IF 1 < NalUnits(stream[p]) THEN <<p, 2>> ELSE <<p + 1, 1>>
         /\ main.pc \in {"idle", "fill"} /\ main'.pc \in {"idle", "next"}
         /\ main'.outPic = NoPic /\ main'.done = NoPic /\ main'.cur = NoPic
         /\ main.done = NoPic
         /\ \A x \in InList : /\ pic[x].cts \in 1..(p - 1) /\ pic[x].complete
                              /\ HoldsCoded(x)
         /\ b \notin dpb \/ ~pic[b].dpbReferenceMark
<1>1. /\ TypeOK /\ MoreNals /\ AtSlice /\ nal[2] = 1 /\ p \in DOMAIN stream /\ p \in Nat \ {0}
      /\ setup' = setup /\ stream[p].slices \in Nat \ {0}
  BY NalTypes, StreamIs DEF Begun, AtSlice, IndInv, MoreNals
<1>2. /\ DOMAIN stream = 1..Len(stream) /\ Len(stream) \in Nat /\ p <= Len(stream)
      /\ stream' = stream /\ ParseFrameDelay' = ParseFrameDelay
  BY <1>1, StreamIs DEF stream, ParseFrameDelay
<1>3. InList' = InList \cup {b} /\ InList \subseteq Bufs /\ dpb \subseteq InList
  BY <1>1, State DEF Begun, InList
<1>4. nal' = IF 1 < NalUnits(stream[p]) THEN <<p, 2>> ELSE <<p + 1, 1>>
  BY <1>1 DEF Begun, NextNal
<1>5. LastBegun = p - 1 /\ LastBegun' = p
  BY <1>1, <1>4 DEF LastBegun
<1>6. /\ main.pc \in {"idle", "fill"} /\ main'.pc \in {"idle", "next"}
      /\ main'.outPic = NoPic /\ main'.done = NoPic /\ main'.cur = NoPic
      /\ main.done = NoPic
  <2>1. PICK v \in {"idle", "next"} : main' = [main EXCEPT !.pc = v]
    BY DEF Begun, AfterSlice
  <2>2. main' = [pc |-> v, cur |-> NoPic, exc |-> main.exc,
                 done |-> NoPic, outPic |-> NoPic, flushing |-> FALSE]
    BY <1>1, <2>1, AtSliceState
  <2>3. main.pc \in {"idle", "fill"} /\ main.done = NoPic
    BY <1>1 DEF AtSlice, IndInv, CallPlace
  <2> QED
    BY <2>2, <2>3
<1>7. \A x \in InList : /\ pic[x].cts \in 1..(p - 1) /\ pic[x].complete /\ HoldsCoded(x)
  BY <1>1, <1>5 DEF ParserInv, PicturesInOrder, HoldsCoded
<1>8. b \notin dpb \/ ~pic[b].dpbReferenceMark
  BY <1>3, NobodyHasFree DEF Begun
<1> QED
  BY <1>1, <1>2, <1>3, <1>4, <1>5, <1>6, <1>7, <1>8

LEMMA BegunParser ==
  ASSUME IndInv, StreamInv, Conforming, NEW b \in Bufs, Begun(b)
  PROVE  ParserInv'
<1>0. PICK p : p = nal[1]
  OBVIOUS
<1> DEFINE c == stream[p]
<1>1. /\ TypeOK /\ p \in DOMAIN stream /\ p \in Nat \ {0} /\ c.slices \in Nat \ {0}
      /\ LastBegun = p - 1 /\ LastBegun' = p /\ p <= Len(stream)
      /\ DOMAIN stream = 1..Len(stream) /\ Len(stream) \in Nat /\ stream' = stream
      /\ InList' = InList \cup {b} /\ InList \subseteq Bufs
      /\ nal' = (IF 1 < NalUnits(c) THEN <<p, 2>> ELSE <<p + 1, 1>>)
      /\ main'.pc \in {"idle", "next"} /\ main'.done = NoPic /\ main.done = NoPic
      /\ \A x \in InList : /\ pic[x].cts \in 1..(p - 1) /\ pic[x].complete
                           /\ HoldsCoded(x)
      /\ b \notin dpb \/ ~pic[b].dpbReferenceMark
      /\ ParserInv /\ dpb \subseteq InList /\ list \in Seq(Bufs)
      /\ parseList \in Seq(Bufs) /\ b \in Bufs /\ NoPic \notin Bufs /\ nal[2] = 1
  BY <1>0, BegunPlace, State, Constants, SMTT(30) DEF StreamInv, Begun
<1>2. /\ KeptBy(c) \subseteq dpb \ {b} /\ dpb' = KeptBy(c) \cup {b}
      /\ \A x \in KeptBy(c) : pic'[x].dpbReferenceMark
      /\ \A x \in Bufs \ {b} : LeftAlone(pic[x], pic'[x])
      /\ parsePic' = b /\ segment' = 0 /\ started' = TRUE /\ setup' = setup
      /\ parseList' = Append(parseList, b) /\ instances' = instances
      /\ AtTheEnd(list', b) /\ DOMAIN list' \subseteq Int
  <2>1. /\ list' \in Seq(Bufs)
        /\ KeptBy(c) \subseteq dpb \ {b} /\ dpb' = KeptBy(c) \cup {b}
        /\ \A x \in KeptBy(c) : pic'[x].dpbReferenceMark
        /\ \A x \in Bufs \ {b} : LeftAlone(pic[x], pic'[x])
        /\ parsePic' = b /\ segment' = 0 /\ started' = TRUE /\ setup' = setup
        /\ parseList' = Append(parseList, b) /\ instances' = instances
        /\ AtTheEnd(list', b)
    BY <1>0 DEF Begun, KeptBy
  <2>2. DOMAIN list' = 1..Len(list') /\ Len(list') \in Nat
    BY <2>1, InSequence
  <2> QED
    BY <2>1, <2>2
<1>3. /\ pic'[b].poc = c.poc /\ pic'[b].cts = p /\ pic'[b].idr = c.idr
      /\ pic'[b].dpbReferenceMark = c.isRef /\ (pic'[b].complete <=> c.slices = 1)
      /\ pic'[b].slices = 1 /\ b \notin pic'[b].refs /\ ~pic'[b].wasLost
  BY <1>0 DEF Begun
<1>4. NalUnits(c) \in Nat /\ NalUnits(c) >= c.slices /\ NalUnits(c) <= c.slices + 1
  BY <1>1, StreamIs DEF NalUnits
<1>5. AtNal'
  <2>1. CASE nal' = <<p, 2>> /\ 1 < NalUnits(c)
    <3>1. MoreNals' /\ nal'[1] = p /\ nal'[2] = 2 /\ NalUnits(c)' = NalUnits(c)
      BY <1>0, <1>1, <2>1 DEF MoreNals, NalUnits
    <3>2. 2 <= c.slices => ~pic'[b].complete
      BY <1>1, <1>3
    <3>3. 2 > c.slices => pic'[b].slices = c.slices /\ pic'[b].complete
      BY <1>1, <1>3
    <3> QED
      BY <1>1, <1>2, <1>3, <1>4, <2>1, <3>1, <3>2, <3>3 DEF AtNal
  <2>2. CASE nal' = <<p + 1, 1>>
    <3>1. nal'[1] = p + 1 /\ nal'[2] = 1 /\ nal'[1] \in 1..(Len(stream) + 1)
      BY <1>1, <2>2
    <3>2. MoreNals' => NalUnits(stream[p + 1])' = NalUnits(stream[p + 1])
                       /\ 1 <= NalUnits(stream[p + 1])
      <4>1. ASSUME p + 1 \in DOMAIN stream PROVE 1 <= NalUnits(stream[p + 1])
        <5>1. stream[p + 1].slices \in Nat \ {0}
          BY <1>1, <4>1, StreamIs
        <5> QED
          BY <5>1 DEF NalUnits
      <4>2. NalUnits(stream[p + 1])' = NalUnits(stream[p + 1])
        BY <1>0, <1>1 DEF NalUnits
      <4>3. MoreNals' => p + 1 \in DOMAIN stream
        BY <1>1, <3>1 DEF MoreNals
      <4> QED
        BY <4>1, <4>2, <4>3
    <3> QED
      BY <1>1, <1>2, <3>1, <3>2 DEF AtNal
  <2> QED
    BY <1>1, <2>1, <2>2
<1>6. \A x \in InList' : HoldsCoded(x)'
  <2>1. HoldsCoded(b)'
    <3>1. pic'[b].complete \/ nal'[2] > 1
      BY <1>1, <1>3, <1>4
    <3> QED
      BY <1>1, <1>2, <1>3, <3>1 DEF HoldsCoded
  <2>2. ASSUME NEW x \in InList \ {b} PROVE HoldsCoded(x)'
    <3>1. HoldsCoded(x) /\ LeftAlone(pic[x], pic'[x]) /\ pic[x].cts \in 1..(p - 1) /\ pic[x].complete
      BY <1>1, <1>2
    <3>2. pic[x].cts \in 1..p
      BY <1>1, <3>1
    <3> QED
      BY <1>1, <3>1, <3>2 DEF HoldsCoded, LeftAlone
  <2> QED
    BY <1>1, <2>1, <2>2
<1>7. \A x \in InList \ {b} : pic'[x].cts = pic[x].cts /\ pic'[x].cts < p
  BY <1>1, <1>2 DEF LeftAlone
<1>8. \A i, j \in DOMAIN list' : i < j => pic'[list'[i]].cts < pic'[list'[j]].cts
  <2> SUFFICES ASSUME NEW i \in DOMAIN list', NEW j \in DOMAIN list', i < j
               PROVE  pic'[list'[i]].cts < pic'[list'[j]].cts
    OBVIOUS
  <2>1. list'[i] \in InList \ {b}
    BY <1>2 DEF AtTheEnd
  <2>2. CASE list'[j] = b
    BY <1>3, <1>7, <2>1, <2>2
  <2>3. CASE list'[j] # b
    <3>1. PICK k \in DOMAIN list, l \in DOMAIN list :
            k < l /\ list'[i] = list[k] /\ list'[j] = list[l]
      BY <1>2, <2>3 DEF AtTheEnd
    <3>2. list[l] \in InList \ {b}
      BY <1>1, <2>3, <3>1, InSequence DEF InList
    <3>3. pic[list[k]].cts < pic[list[l]].cts
      BY <1>1, <3>1 DEF ParserInv, PicturesInOrder
    <3> QED
      BY <1>7, <2>1, <3>1, <3>2, <3>3
  <2> QED
    BY <2>2, <2>3
<1>9. \A x \in dpb' : NoIdr(stream, pic'[x].cts, p)
  <2>1. NoIdr(stream, pic'[b].cts, p)
    BY <1>1, <1>3 DEF NoIdr
  <2>2. ASSUME NEW x \in KeptBy(c) PROVE NoIdr(stream, pic'[x].cts, p)
    <3>1. /\ ~c.idr /\ x \in InList \ {b} /\ NoIdr(stream, pic[x].cts, p - 1)
          /\ pic[x].cts \in 1..(p - 1)
      BY <1>1, <1>2, <2>2 DEF KeptBy, ParserInv, PicturesInOrder
    <3>2. NoIdr(stream, pic[x].cts, p)
      BY <1>1, <3>1 DEF NoIdr
    <3> QED
      BY <1>7, <3>1, <3>2
  <2> QED
    BY <1>2, <2>1, <2>2
<1>10. ASSUME NEW q \in 1..p, StaysRef(stream, q, p)
       PROVE  \E x \in dpb' : pic'[x].cts = q /\ pic'[x].dpbReferenceMark
  <2>1. CASE q = p
    BY <1>2, <1>3, <1>10, <2>1 DEF StaysRef
  <2>2. CASE q # p
    <3>1. q \in 1..(p - 1) /\ StaysRef(stream, q, p - 1)
      BY <1>1, <1>10, <2>2 DEF StaysRef
    <3>2. ~c.idr /\ stream[q].poc \in c.rpl
      BY <1>1, <1>10, <2>2 DEF StaysRef
    <3>3. PICK x \in dpb : pic[x].cts = q /\ pic[x].dpbReferenceMark
      BY <1>1, <3>1 DEF ParserInv, PicturesInOrder
    <3>4. x \in InList /\ pic[x].poc = stream[q].poc
      BY <1>1, <3>3 DEF HoldsCoded
    <3>5. x \in KeptBy(c)
      BY <3>2, <3>3, <3>4 DEF KeptBy
    <3> QED
      BY <1>2, <1>7, <3>3, <3>4, <3>5
  <2> QED
    BY <2>1, <2>2
<1>11. PicturesInOrder'
  BY <1>1, <1>6, <1>8, <1>9, <1>10 DEF PicturesInOrder
<1>12. NobodyLost'
  <2>1. ToSet(parseList') = ToSet(parseList) \cup {b}
    BY <1>1, <1>2, Appended
  <2>2. InHand \ {NoPic} \subseteq InHand'
    <3>1. main.pc \notin {"clean", "recon"}
      BY <1>0, BegunPlace DEF StreamInv
    <3> QED
      BY <1>1, <1>2, <2>1, <3>1 DEF InHand, Waiting, InWork
  <2>3. ASSUME NEW x \in Unfinished' PROVE x \in InHand'
    <3>1. CASE x = b
      BY <2>1, <3>1 DEF InHand, Waiting
    <3>2. CASE x # b
      <4>1. x \in Unfinished
        BY <1>1, <1>2, <2>3, <3>2 DEF Unfinished, LeftAlone, SameFlags
      <4> QED
        BY <1>1, <2>2, <4>1 DEF ParserInv, NobodyLost, Unfinished
    <3> QED
      BY <3>1, <3>2
  <2> QED
    BY <2>3 DEF NobodyLost
<1> QED
  BY <1>5, <1>11, <1>12 DEF ParserInv

LEMMA BegunOvertaken ==
  ASSUME IndInv, StreamInv, NEW b \in Bufs, Begun(b)
  PROVE  OvertakenInv'
<1>0. PICK p : p = nal[1]
  OBVIOUS
<1>1. /\ TypeOK /\ p \in Nat \ {0} /\ LastBegun = p - 1 /\ LastBegun' = p
      /\ \A x \in InList : pic[x].cts \in 1..(p - 1)
      /\ ToSet(parseList) \subseteq InList /\ parseList \in Seq(Bufs) /\ InList \subseteq Bufs
      /\ parseList' = Append(parseList, b) /\ b \notin ToSet(parseList)
      /\ pic'[b].cts = p /\ pic'[b].skippedDecCount = 0
      /\ \A x \in Bufs \ {b} : LeftAlone(pic[x], pic'[x])
      /\ OvertakenInv /\ MaxOutOfOrderPics \in Nat
  BY <1>0, BegunPlace, State, Constants DEF Begun, StreamInv
<1>2. \A x \in ToSet(parseList) :
        /\ x \in Bufs \ {b} /\ pic'[x].cts = pic[x].cts /\ pic[x].cts \in 1..(p - 1)
        /\ pic'[x].skippedDecCount = pic[x].skippedDecCount
        /\ pic[x].skippedDecCount \in Nat
  BY <1>1, State, Fields DEF LeftAlone
<1>3. /\ Len(parseList) \in Nat /\ DOMAIN parseList = 1..Len(parseList)
      /\ DOMAIN parseList' = 1..(Len(parseList) + 1)
      /\ \A i \in 1..Len(parseList) : parseList'[i] = parseList[i]
                                      /\ parseList[i] \in ToSet(parseList)
      /\ parseList'[Len(parseList) + 1] = b
      /\ ToSet(parseList') = ToSet(parseList) \cup {b}
  BY <1>1, Appended, InSequence
<1>4. ASSUME NEW i \in DOMAIN parseList', NEW j \in DOMAIN parseList', i < j
      PROVE  /\ pic'[parseList'[i]].cts < pic'[parseList'[j]].cts
             /\ pic'[parseList'[i]].skippedDecCount >= pic'[parseList'[j]].skippedDecCount
  <2>1. i \in 1..Len(parseList)
    BY <1>3, <1>4
  <2>2. CASE j \in 1..Len(parseList)
    BY <1>1, <1>2, <1>3, <1>4, <2>1, <2>2 DEF OvertakenInv
  <2>3. CASE j = Len(parseList) + 1
    BY <1>1, <1>2, <1>3, <2>1, <2>3
  <2> QED
    BY <1>3, <2>2, <2>3
<1>5. ASSUME NEW x \in ToSet(parseList')
      PROVE  /\ pic'[x].skippedDecCount <= MaxOutOfOrderPics
             /\ Cardinality(Passed(x)') <= pic'[x].skippedDecCount
  <2>1. CASE x = b
    <3>1. Passed(x)' = {}
      BY <1>1, <2>1 DEF Passed
    <3> QED
      BY <1>1, <2>1, <3>1, FS_EmptySet
  <2>2. CASE x # b
    <3>1. x \in ToSet(parseList) /\ pic'[x].cts = pic[x].cts /\ pic[x].cts \in 1..(p - 1)
      BY <1>2, <1>3, <2>2
    <3>2. Passed(x)' \subseteq Passed(x)
      <4> SUFFICES ASSUME NEW k \in Passed(x)' PROVE k \in Passed(x)
        OBVIOUS
      <4>1. /\ k \in (pic[x].cts + 1)..p
            /\ \A y \in ToSet(parseList') : pic'[y].cts # k
        BY <1>1, <3>1 DEF Passed
      <4>2. k # p /\ \A y \in ToSet(parseList) : pic[y].cts # k
        BY <1>1, <1>2, <1>3, <4>1
      <4> QED
        BY <1>1, <3>1, <4>1, <4>2 DEF Passed
    <3>3. Passed(x) \subseteq Passed(x)'
      <4> SUFFICES ASSUME NEW k \in Passed(x) PROVE k \in Passed(x)'
        OBVIOUS
      <4>1. /\ k \in (pic[x].cts + 1)..(p - 1)
            /\ \A y \in ToSet(parseList) : pic[y].cts # k
        BY <1>1 DEF Passed
      <4>2. k \in (pic'[x].cts + 1)..p /\ k # p
        BY <1>1, <3>1, <4>1
      <4>3. \A y \in ToSet(parseList') : pic'[y].cts # k
        BY <1>1, <1>2, <1>3, <4>1, <4>2
      <4> QED
        BY <1>1, <4>2, <4>3 DEF Passed
    <3>4. Passed(x)' = Passed(x)
      BY <3>2, <3>3
    <3> QED
      BY <1>1, <1>2, <3>1, <3>4 DEF OvertakenInv
  <2> QED
    BY <2>1, <2>2
<1> QED
  BY <1>4, <1>5 DEF OvertakenInv

LEMMA BegunReports ==
  ASSUME IndInv, StreamInv, NEW b \in Bufs, Begun(b)
  PROVE  ReportsInv'
<1>0. PICK p : p = nal[1]
  OBVIOUS
<1> DEFINE c == stream[p]
<1>1. /\ TypeOK /\ p \in DOMAIN stream /\ p \in Nat \ {0} /\ c.slices \in Nat \ {0}
      /\ LastBegun = p - 1 /\ LastBegun' = p
      /\ DOMAIN stream = 1..Len(stream) /\ Len(stream) \in Nat
      /\ stream' = stream /\ ParseFrameDelay' = ParseFrameDelay
      /\ InList' = InList \cup {b} /\ InList \subseteq Bufs
      /\ nal' = (IF 1 < NalUnits(c) THEN <<p, 2>> ELSE <<p + 1, 1>>)
      /\ main.pc \in {"idle", "fill"} /\ main'.pc \in {"idle", "next"}
      /\ \A x \in InList : pic[x].cts \in 1..(p - 1)
      /\ ReportsInv /\ ParserInv
  BY <1>0, BegunPlace DEF StreamInv
<1>2. /\ reports' = reports /\ instances' = instances
      /\ parseList' = Append(parseList, b) /\ parseList \in Seq(Bufs)
      /\ \A x \in Bufs \ {b} : LeftAlone(pic[x], pic'[x])
      /\ b \notin InWork /\ nal[1] = p
      /\ reports \in [DOMAIN stream -> Nat]
  BY <1>0, <1>1, NobodyHasFree, State, NatTypes DEF Begun, OnlyParsers
<1>3. ASSUME NEW d \in DOMAIN stream PROVE HashSeen(d)' = HashSeen(d)
  <2>0. d \in Int /\ main.pc # "sei" /\ main'.pc # "sei"
    BY <1>1
  <2>1. CASE nal' = <<p, 2>>
    BY <1>1, <1>2, <2>0, <2>1 DEF HashSeen
  <2>2. CASE nal' = <<p + 1, 1>> /\ ~(1 < NalUnits(c))
    <3>1. ~c.sei
      BY <1>1, <2>2, StreamIs DEF NalUnits
    <3>2. nal'[1] = p + 1
      BY <2>2
    <3> QED
      BY <1>1, <1>2, <2>0, <3>1, <3>2 DEF HashSeen
  <2> QED
    BY <1>1, <2>1, <2>2
<1>4. \A d \in DOMAIN stream : d > p - 1 => reports[d] = 0
  BY <1>1 DEF ReportsInv
<1>5. /\ ToSet(parseList') = ToSet(parseList) \cup {b}
      /\ main'.pc \notin {"clean", "recon", "ext", "sei"}
  BY <1>1, <1>2, Appended
<1>6. ReportsTell(b)'
  <2>1. /\ pic'[b].cts = p /\ pic'[b].slices = 1 /\ ~pic'[b].error
        /\ ~pic'[b].exceptionThrownOut
        /\ ~pic'[b].parseFailed /\ ~pic'[b].recon /\ pic'[b].progress = parsing
    BY <1>0 DEF Begun
  <2>2. reports'[p] = 0 /\ HashSeen(p)' \in {0, 1}
    BY <1>1, <1>2, <1>4 DEF HashSeen
  <2>3. ~Prepared(b)'
    BY <1>5 DEF Prepared
  <2> QED
    BY <2>1, <2>2, <2>3 DEF ReportsTell, parsing, finished
<1>7. ASSUME NEW x \in InList \ {b} PROVE ReportsTell(x)'
  <2>0. PICK d \in DOMAIN stream : d = pic[x].cts
    BY <1>1
  <2>1. /\ ReportsTell(x) /\ LeftAlone(pic[x], pic'[x]) /\ pic'[x].cts = d
    BY <1>1, <1>2, <2>0 DEF ReportsInv, LeftAlone
  <2>2. ~Prepared(x)' /\ ((x \in Waiting)' => x \in Waiting)
    BY <1>5 DEF Prepared, Waiting
  <2>3. reports'[d] = reports[d] /\ HashSeen(d)' = HashSeen(d)
    BY <1>2, <1>3
  <2>4. ReportsTell(x)' <=> Tells(pic'[x], reports[d], HashSeen(d), Prepared(x)', (x \in Waiting)')
    BY <2>1, <2>3 DEF ReportsTell, Tells, Throws
  <2> QED
    BY <2>0, <2>1, <2>2, <2>4 DEF Tells, ReportsTell, LeftAlone, SameFlags, Throws
<1>8. \A d \in DOMAIN stream : /\ d > LastBegun' => reports'[d] = 0
                               /\ reports'[d] <= MostReports(d)' + HashSeen(d)'
  <2> SUFFICES ASSUME NEW d \in DOMAIN stream
               PROVE  /\ d > LastBegun' => reports'[d] = 0
                      /\ reports'[d] <= MostReports(d)' + HashSeen(d)'
    BY <1>1
  <2>1. /\ MostReports(d)' = MostReports(d) /\ d \in Int
        /\ reports[d] <= MostReports(d) + HashSeen(d)
    BY <1>1 DEF MostReports, ReportsInv
  <2> QED
    BY <1>1, <1>2, <1>3, <1>4, <2>1
<1> QED
  BY <1>1, <1>5, <1>6, <1>7, <1>8 DEF ReportsInv

LEMMA BegunOrder ==
  ASSUME IndInv, StreamInv, NEW b \in Bufs, Begun(b)
  PROVE  OrderInv' /\ Pending' = Pending
<1>0. PICK p : p = nal[1]
  OBVIOUS
<1> DEFINE c == stream[p]
<1>1. /\ TypeOK /\ p \in DOMAIN stream /\ p \in Nat \ {0}
      /\ LastBegun = p - 1 /\ LastBegun' = p
      /\ DOMAIN stream = 1..Len(stream) /\ Len(stream) \in Nat
      /\ stream' = stream /\ InList' = InList \cup {b} /\ InList \subseteq Bufs
      /\ main'.pc \in {"idle", "next"} /\ main'.outPic = NoPic
      /\ \A x \in InList : pic[x].cts \in 1..(p - 1)
      /\ OrderInv /\ out' = out
      /\ \A x \in Bufs \ {b} : LeftAlone(pic[x], pic'[x])
      /\ b \in InList => ~pic[b].neededForOutput
      /\ pic'[b].cts = p /\ pic'[b].neededForOutput = c.output
  BY <1>0, BegunPlace DEF StreamInv, Begun, Free
<1>2. \A x \in InList \ {b} : /\ pic'[x].cts = pic[x].cts
                              /\ pic'[x].neededForOutput = pic[x].neededForOutput
                              /\ pic'[x].progress = pic[x].progress
  BY <1>1 DEF LeftAlone, SameFlags
<1>3. Pending' = Pending
  <2> DEFINE L(d) == d > p - 1 \/ \E x \in InList : pic[x].cts = d /\ pic[x].neededForOutput
             R(d) == d > p \/ \E x \in InList \cup {b} : pic'[x].cts = d /\ pic'[x].neededForOutput
  <2>1. ASSUME NEW d \in DOMAIN stream, stream[d].output PROVE L(d) <=> R(d)
    <3>1. CASE d = p
      BY <1>1, <2>1, <3>1
    <3>2. CASE d # p
      <4>1. d > p - 1 <=> d > p
        BY <1>1, <3>2
      <4>2. (\E x \in InList : pic[x].cts = d /\ pic[x].neededForOutput)
             <=> \E x \in InList \cup {b} : pic'[x].cts = d /\ pic'[x].neededForOutput
        BY <1>1, <1>2, <3>2
      <4> QED
        BY <4>1, <4>2
    <3> QED
      BY <3>1, <3>2
  <2>2. Pending = {d \in DOMAIN stream : stream[d].output /\ L(d)}
    BY <1>1 DEF Pending
  <2>3. Pending' = {d \in DOMAIN stream : stream[d].output /\ R(d)}
    BY <1>1 DEF Pending
  <2> HIDE DEF L, R
  <2> QED
    BY <2>1, <2>2, <2>3
<1>4. Gone' = Gone
  BY <1>1, <1>3 DEF Gone
<1>5. \A i, j : Cvs(i)' = Cvs(i) /\ (Before(i, j)' <=> Before(i, j))
  BY <1>1 DEF Cvs, Before
<1>6. OutputInOrder'
  BY <1>1, <1>5 DEF OrderInv, OutputInOrder
<1>7. AllDelivered'
  BY <1>1 DEF AllDelivered
<1>8. \A x \in InList' :
        /\ pic'[x].neededForOutput => stream[pic'[x].cts].output
        /\ pic'[x].progress < finished =>
             (pic'[x].neededForOutput <=> stream[pic'[x].cts].output)
  <2>1. \A x \in InList \ {b} :
          /\ pic'[x].neededForOutput => stream[pic'[x].cts].output
          /\ pic'[x].progress < finished =>
               (pic'[x].neededForOutput <=> stream[pic'[x].cts].output)
    BY <1>1, <1>2 DEF OrderInv
  <2> QED
    BY <1>1, <2>1
<1> QED
  BY <1>1, <1>3, <1>4, <1>5, <1>6, <1>7, <1>8 DEF OrderInv

LEMMA FirstSliceStream ==
  ASSUME IndInv, StreamInv, Conforming, FirstSlice
  PROVE  StreamInv' /\ FrameStep
<1>1. PICK b \in Bufs : Begun(b)
  BY FirstSliceIs
<1>2. ParserInv' /\ OvertakenInv' /\ ReportsInv' /\ OrderInv' /\ Pending' = Pending
  BY <1>1, BegunParser, BegunOvertaken, BegunReports, BegunOrder DEF StreamInv
<1>3. PICK p : p = nal[1]
  OBVIOUS
<1>4. /\ p \in Nat \ {0} /\ Len(stream) \in Nat /\ LastBegun = p - 1 /\ LastBegun' = p
      /\ p <= Len(stream) /\ stream' = stream /\ main'.outPic = NoPic
  BY <1>1, <1>3, BegunPlace DEF StreamInv
<1>5. out' = out /\ reports' = reports /\ main.outPic = NoPic
  <2>1. AtSlice
    BY <1>1 DEF Begun
  <2> QED
    BY <1>1, <2>1, AtSliceState DEF Begun
<1>6. Due' = Due
  BY <1>2, <1>4, <1>5 DEF Due
<1>7. Frames!HandIn
  BY <1>4, <1>5, <1>6 DEF Frames!HandIn
<1> QED
  BY <1>2, <1>7 DEF StreamInv, FrameStep, Frames!Next
-----------------------------------------------------------------------------
(* The slices that follow.                                                   *)

LEMMA ThrownStream ==
  ASSUME NEW P \in [Bufs -> Picture], NEW b \in Bufs
  PROVE  LET q == Thrown(P, b)[b]  p == P[b]
         IN /\ q.poc = p.poc /\ q.idr = p.idr /\ q.neededForOutput = p.neededForOutput
            /\ q.skippedDecCount = p.skippedDecCount /\ q.error = TRUE
<1> DEFINE p == P[b]
           z == [p EXCEPT !.error = TRUE, !.exceptionThrownOut = TRUE,
                          !.parseDone = IF @ = "error" THEN "locked" ELSE @]
<1>1. p \in Picture /\ b # NoPic
  BY Constants
<1>2. Thrown(P, b)[b] = z
  BY <1>1 DEF Thrown
<1> HIDE DEF p
<1>3. /\ z.poc = p.poc /\ z.idr = p.idr /\ z.neededForOutput = p.neededForOutput
      /\ z.skippedDecCount = p.skippedDecCount /\ z.error = TRUE
  BY <1>1 DEF Picture
<1> QED
  BY <1>2, <1>3 DEF p

\* What the slice does to the picture, and what it leaves alone.
SlicesOn(p, q, s, last) ==
  /\ q.cts = p.cts /\ q.poc = p.poc /\ q.idr = p.idr /\ ~q.wasLost
  /\ q.slices = s /\ (q.complete <=> last)
  /\ q.skippedDecCount = p.skippedDecCount /\ q.recon = p.recon
  /\ q.reconDone = p.reconDone /\ q.parseFailed = p.parseFailed
  /\ q.progress \in {p.progress, parsing}

Continued(b) ==
  LET c == stream[nal[1]]  p == pic[b]  q == pic'[b]
  IN /\ AtSlice /\ nal[2] > 1 /\ b = parsePic /\ b \in InList /\ started
     /\ p.cts = nal[1] /\ ~p.complete /\ p.slices = nal[2] - 1 /\ p.progress <= parsed
     /\ parsePic' = b /\ segment' = nal[2] - 1 /\ nal' = NextNal
     /\ UNCHANGED <<setup, list, dpb, parseList, started, instances,
                    first, tuneIn, held, out>>
     /\ \A x \in Bufs \ {b} : /\ LeftAlone(pic[x], pic'[x])
                              /\ pic'[x].dpbReferenceMark = pic[x].dpbReferenceMark
     /\ SlicesOn(p, q, nal[2], nal[2] = c.slices) /\ b \notin q.refs
     /\ q.dpbReferenceMark = c.isRef /\ q.neededForOutput = c.output
     /\ \/ /\ ~p.parseFailed
           /\ q.error = p.error /\ q.exceptionThrownOut = p.exceptionThrownOut
           /\ q.parseDone = p.parseDone /\ reports' = reports
           /\ main' = AfterSlice(q.complete, parseList)
        \/ /\ p.parseFailed /\ q.queue = p.queue
           /\ q.error /\ q.exceptionThrownOut /\ q.parseDone # "error"
           /\ reports' = [reports EXCEPT ![nal[1]] = @ + 1] /\ main' = Idle

LEMMA NextSliceIs ==
  ASSUME IndInv, StreamInv, Conforming, NextSlice
  PROVE  \E b \in Bufs : Continued(b)
<1> DEFINE c == stream[nal[1]]  p == nal[1]  b == ParsePic
           s == pic[b].slices + 1
           z == AllocateSlice(pic[b], s, nal[2] = c.slices)
           D == [ pic  |-> [pic EXCEPT ![b] = AllocateSlice(@, s, nal[2] = c.slices)],
                  list |-> list, dpb |-> dpb ]
           S == SetUpSlice(D, b, c, p)
           holds == RplHolds(D, b, c, p)
           added == holds /\ ~S[b].parseFailed
<1>1. /\ AtSlice /\ nal[2] > 1 /\ started
      /\ parsePic' = b /\ nal' = NextNal /\ segment' = Segment
      /\ UNCHANGED <<setup, list, dpb, parseList, started, instances, outputVars>>
      /\ \/ Fails("contents")
         \/ /\ ~added
            /\ pic' = Thrown(IF holds THEN [S EXCEPT ![b] = StartParsing(@)] ELSE S, b)
            /\ reports' = Report(b) /\ main' = Idle
         \/ /\ added
            /\ pic' = [S EXCEPT ![b] = AddParseTask(@, s)]
            /\ main' = AfterSlice(nal[2] = c.slices, parseList)
            /\ reports' = reports
  BY DEF NextSlice
<1>2. /\ TypeOK /\ MoreNals /\ c \in CodedPicture /\ p \in Nat \ {0} /\ ParserInv
      /\ StreamInv /\ p \in DOMAIN stream /\ nal[2] \in Nat
      /\ pic \in [Bufs -> Picture] /\ dpb \subseteq InList /\ InList \subseteq Bufs
      /\ NoPic \notin Bufs
  BY <1>1, AtSliceState, NalTypes, State, Constants DEF TypeOK, StreamInv, MoreNals
<1>3. /\ b = parsePic /\ b \in InList /\ b \in Bufs /\ pic[b].cts = p /\ ~pic[b].complete
      /\ pic[b].slices = nal[2] - 1 /\ s = nal[2] /\ Segment = nal[2] - 1 /\ b # NoPic
  BY <1>1, <1>2, NothingRejected
<1>4. LastBegun = p
  BY <1>1 DEF LastBegun
<1>5. /\ pic[b].progress <= parsed /\ pic[b].refs \subseteq InList /\ b \notin pic[b].refs
      /\ pic[b].poc = c.poc /\ pic[b].idr = c.idr /\ ~pic[b].wasLost
      /\ pic[b] \in Picture
  <2>1. HoldsCoded(b)
    BY <1>2, <1>3 DEF ParserInv, PicturesInOrder
  <2>2. pic[b].progress <= parsed /\ pic[b].refs \subseteq InList
    BY <1>2, <1>3 DEF IndInv, ParsedLast, PicturesSound
  <2> QED
    BY <1>2, <1>3, <2>1, <2>2 DEF HoldsCoded
<1>6. \A r \in pic[b].refs \ {b} : pic[r].stillReferenced
  <2>1. pic[b].progress < reconstructed
    <3>1. pic[b].progress \in Int
      BY <1>5, Fields
    <3> QED
      BY <1>5, <3>1 DEF parsed, reconstructed
  <2>2. ReferencesKept
    BY DEF IndInv
  <2> QED
    BY <1>3, <2>1, <2>2 DEF ReferencesKept
<1> HIDE DEF b, c, p, holds
<1>7. /\ z \in Picture /\ z.slices = s /\ (z.complete <=> nal[2] = c.slices)
      /\ z.refs = pic[b].refs /\ z.cts = pic[b].cts /\ z.wasLost = pic[b].wasLost
      /\ z.poc = pic[b].poc /\ z.idr = pic[b].idr /\ z.error = pic[b].error
      /\ z.skippedDecCount = pic[b].skippedDecCount
      /\ z.recon = pic[b].recon /\ z.exceptionThrownOut = pic[b].exceptionThrownOut
      /\ z.reconDone = pic[b].reconDone /\ z.queue = pic[b].queue
      /\ z.parseFailed = pic[b].parseFailed /\ z.progress = pic[b].progress
      /\ z.parseDone = pic[b].parseDone
  <2> DEFINE o == pic[b]  t == s
  <2>1. o \in Picture /\ t \in Nat
    BY <1>2, <1>3, <1>5
  <2>2. \A v \in BOOLEAN : [o EXCEPT !.slices = t, !.complete = v] \in Picture
    <3> HIDE DEF o, t
    <3> QED
      BY <2>1, Zenon DEF Picture
  <2>3. (nal[2] = c.slices) \in BOOLEAN
    OBVIOUS
  <2>4. z = [o EXCEPT !.slices = t, !.complete = (nal[2] = c.slices)]
    BY DEF AllocateSlice
  <2> HIDE DEF z, o, t
  <2>5. z \in Picture
    BY <2>2, <2>3, <2>4, Zenon
  <2>6. /\ z.slices = t /\ (z.complete <=> nal[2] = c.slices)
        /\ z.refs = o.refs /\ z.cts = o.cts /\ z.wasLost = o.wasLost
        /\ z.poc = o.poc /\ z.idr = o.idr /\ z.error = o.error
        /\ z.skippedDecCount = o.skippedDecCount
        /\ z.recon = o.recon /\ z.exceptionThrownOut = o.exceptionThrownOut
        /\ z.reconDone = o.reconDone /\ z.queue = o.queue
        /\ z.parseFailed = o.parseFailed /\ z.progress = o.progress
        /\ z.parseDone = o.parseDone
    BY <2>1, <2>4 DEF Picture
  <2> QED
    BY <2>5, <2>6 DEF o, t
<1>8. /\ D.dpb = dpb /\ D.pic = [pic EXCEPT ![b] = z]
  OBVIOUS
<1> HIDE DEF D, z
<1>9. /\ D.pic \in [Bufs -> Picture] /\ D.pic[b] = z
      /\ \A x \in Bufs \ {b} : D.pic[x] = pic[x]
  BY <1>2, <1>3, <1>7, <1>8
<1>10. OthersKept(D.pic, b)
  <2>1. ASSUME NEW x \in Bufs \ {b} PROVE Keeps(pic[x], D.pic[x])
    BY <1>9 DEF Keeps, IndInv, PicturesSound, SoundPicture
  <2> QED
    BY <1>9, <2>1 DEF OthersKept
<1>11. holds
  <2>1. ASSUME NEW x \in D.dpb \ {b}
        PROVE  /\ x \in dpb /\ D.pic[x].poc = pic[x].poc /\ pic[x].cts < nal[1]
               /\ NoIdr(stream, pic[x].cts, nal[1])
    <3>1. x \in dpb /\ x \in InList /\ x # b /\ NoIdr(stream, pic[x].cts, p)
      BY <1>2, <1>4, <1>8 DEF ParserInv, PicturesInOrder
    <3>2. pic[x].cts \in 1..p
      BY <1>2, <1>4, <3>1 DEF ParserInv, PicturesInOrder, HoldsCoded
    <3>3. pic[x].cts # p
      BY <1>2, <1>3, <3>1, DistinctCts
    <3> QED
      BY <1>2, <1>9, <3>1, <3>2, <3>3 DEF p
  <2>2. ASSUME NEW x \in dpb, pic[x].cts < nal[1], pic[x].dpbReferenceMark
        PROVE  x \in D.dpb \ {b} /\ D.pic[x].dpbReferenceMark /\ D.pic[x].poc = pic[x].poc
    <3>1. x # b
      BY <1>2, <1>3, <2>2 DEF p
    <3> QED
      BY <1>2, <1>8, <1>9, <2>2, <3>1
  <2> QED
    BY <1>2, <1>3, <1>9, <2>1, <2>2, ListsHold DEF holds, c, p
<1>12. /\ \A x \in Bufs \ {b} : /\ LeftAlone(D.pic[x], S[x])
                                /\ S[x].dpbReferenceMark = D.pic[x].dpbReferenceMark
       /\ S[b].poc = c.poc /\ S[b].cts = p /\ S[b].idr = z.idr
       /\ S[b].dpbReferenceMark = c.isRef /\ S[b].neededForOutput = c.output
       /\ S[b].error = z.error /\ S[b].exceptionThrownOut = z.exceptionThrownOut
       /\ S[b].skippedDecCount = z.skippedDecCount
       /\ S[b].complete = z.complete /\ S[b].slices = z.slices
       /\ S[b].parseFailed = z.parseFailed /\ S[b].recon = z.recon
       /\ S[b].queue = z.queue /\ S[b].progress = z.progress /\ S[b].wasLost = z.wasLost
       /\ S[b].parseDone = z.parseDone /\ S[b].reconDone = z.reconDone
       /\ S[b] \in Picture
  <2>1. D.dpb \subseteq Bufs /\ p \in Nat /\ c \in CodedPicture /\ D.pic \in [Bufs -> Picture]
        /\ b \in Bufs
    BY <1>2, <1>3, <1>8, <1>9
  <2> HIDE DEF S
  <2> QED
    BY <1>9, <2>1, SetUpStream DEF S
<1>13. S \in [Bufs -> Picture] /\ b \notin S[b].refs
  <2>1. /\ D.dpb \subseteq InList \cup {b} /\ D.pic[b].refs \subseteq InList
        /\ \A r \in D.pic[b].refs \ {b} : D.pic[r].stillReferenced
        /\ b \in Bufs /\ p \in Nat /\ c \in CodedPicture /\ b \notin D.pic[b].refs
    BY <1>2, <1>3, <1>5, <1>6, <1>7, <1>8, <1>9
  <2>2. OthersKept(S, b) /\ (b \in S[b].refs => b \in D.pic[b].refs \/ (~c.idr /\ c.poc \in c.active))
    BY <1>10, <2>1, SliceSetUp
  <2> QED
    BY <1>11, <2>1, <2>2 DEF OthersKept, RplHolds, holds
<1>14. ~Fails("contents")
  BY <1>2, NothingFails
<1> HIDE DEF S
<1> DEFINE o == pic[b]
<1>15. /\ \A x \in Bufs \ {b} : /\ LeftAlone(o, o) => LeftAlone(pic[x], S[x])
                                /\ S[x].dpbReferenceMark = pic[x].dpbReferenceMark
       /\ S[b].cts = o.cts /\ S[b].poc = o.poc /\ S[b].idr = o.idr /\ ~S[b].wasLost
       /\ S[b].slices = nal[2] /\ (S[b].complete <=> nal[2] = c.slices)
       /\ S[b].skippedDecCount = o.skippedDecCount /\ S[b].recon = o.recon
       /\ S[b].reconDone = o.reconDone /\ S[b].parseFailed = o.parseFailed
       /\ S[b].progress = o.progress /\ S[b].error = o.error
       /\ S[b].exceptionThrownOut = o.exceptionThrownOut /\ S[b].queue = o.queue
       /\ S[b].parseDone = o.parseDone
  BY <1>3, <1>5, <1>7, <1>9, <1>12
<1>16. \A x \in Bufs \ {b} : LeftAlone(pic[x], S[x])
  BY <1>15 DEF LeftAlone, SameFlags
<1>17. CASE /\ S[b].parseFailed /\ pic' = Thrown([S EXCEPT ![b] = StartParsing(@)], b)
            /\ reports' = Report(b) /\ main' = Idle
  <2> DEFINE y == StartParsing(S[b])  Y == [S EXCEPT ![b] = y]
  <2>1. /\ y \in Picture /\ y.poc = S[b].poc /\ y.idr = S[b].idr
        /\ y.progress = (IF S[b].progress = init THEN parsing ELSE S[b].progress)
        /\ y.neededForOutput = S[b].neededForOutput
        /\ y.skippedDecCount = S[b].skippedDecCount
        /\ y.refs = S[b].refs /\ y.cts = S[b].cts /\ y.wasLost = S[b].wasLost
        /\ y.slices = S[b].slices /\ y.complete = S[b].complete /\ y.recon = S[b].recon
        /\ y.reconDone = S[b].reconDone /\ y.queue = S[b].queue
        /\ y.dpbReferenceMark = S[b].dpbReferenceMark
        /\ y.parseFailed = S[b].parseFailed /\ y.parseDone = S[b].parseDone
    BY <1>12, TaskAdded, TaskStream
  <2> HIDE DEF y
  <2>2. Y \in [Bufs -> Picture] /\ Y[b] = y /\ \A x \in Bufs \ {b} : Y[x] = S[x]
    BY <1>3, <1>13, <2>1
  <2>3. pic' = Thrown(Y, b)
    BY <1>17 DEF y
  <2> HIDE DEF Y
  <2>4. /\ \A x \in Bufs \ {b} : pic'[x] = S[x]
        /\ pic'[b].refs = y.refs /\ pic'[b].cts = y.cts /\ pic'[b].wasLost = y.wasLost
        /\ pic'[b].slices = y.slices /\ pic'[b].complete = y.complete
        /\ pic'[b].dpbReferenceMark = y.dpbReferenceMark /\ pic'[b].recon = y.recon
        /\ pic'[b].exceptionThrownOut = TRUE /\ pic'[b].reconDone = y.reconDone
        /\ pic'[b].queue = y.queue /\ pic'[b].parseFailed = y.parseFailed
        /\ pic'[b].progress = y.progress
        /\ pic'[b].parseDone = (IF y.parseDone = "error" THEN "locked" ELSE y.parseDone)
    <3> DEFINE T == Thrown(Y, b)
    <3>1. Y \in [Bufs -> Picture] /\ b \in Bufs
      BY <1>3, <2>2
    <3>2. /\ \A x \in Bufs \ {b} : T[x] = Y[x]
          /\ T[b].refs = Y[b].refs /\ T[b].cts = Y[b].cts /\ T[b].wasLost = Y[b].wasLost
          /\ T[b].slices = Y[b].slices /\ T[b].complete = Y[b].complete
          /\ T[b].dpbReferenceMark = Y[b].dpbReferenceMark /\ T[b].recon = Y[b].recon
          /\ T[b].exceptionThrownOut = TRUE /\ T[b].reconDone = Y[b].reconDone
          /\ T[b].queue = Y[b].queue /\ T[b].parseFailed = Y[b].parseFailed
          /\ T[b].progress = Y[b].progress
          /\ T[b].parseDone = (IF Y[b].parseDone = "error" THEN "locked" ELSE Y[b].parseDone)
      BY <3>1, ThrownOut
    <3> HIDE DEF T
    <3>3. pic' = T
      BY <2>3 DEF T
    <3> QED
      BY <2>2, <3>2, <3>3
  <2>5. /\ pic'[b].poc = y.poc /\ pic'[b].idr = y.idr
        /\ pic'[b].neededForOutput = y.neededForOutput
        /\ pic'[b].skippedDecCount = y.skippedDecCount /\ pic'[b].error = TRUE
    BY <1>3, <2>2, <2>3, ThrownStream
  <2>6. SlicesOn(o, pic'[b], nal[2], nal[2] = c.slices)
    BY <1>15, <2>1, <2>4, <2>5 DEF SlicesOn
  <2>7. reports' = [reports EXCEPT ![p] = @ + 1]
    BY <1>2, <1>3, <1>17 DEF Report
  <2>8. /\ o.parseFailed /\ pic'[b].queue = o.queue
        /\ pic'[b].error /\ pic'[b].exceptionThrownOut /\ pic'[b].parseDone # "error"
    BY <1>15, <1>17, <2>1, <2>4, <2>5
  <2>9. /\ \A x \in Bufs \ {b} : /\ LeftAlone(pic[x], pic'[x])
                                 /\ pic'[x].dpbReferenceMark = pic[x].dpbReferenceMark
        /\ b \notin pic'[b].refs /\ pic'[b].dpbReferenceMark = c.isRef
        /\ pic'[b].neededForOutput = c.output
    BY <1>12, <1>13, <1>15, <1>16, <2>1, <2>4, <2>5
  <2>10. Continued(b)
    BY <1>1, <1>3, <1>5, <1>17, <2>6, <2>7, <2>8, <2>9
       DEF Continued, outputVars, c, p
  <2> QED
    BY <1>3, <2>10
<1>18. CASE /\ ~S[b].parseFailed /\ pic' = [S EXCEPT ![b] = AddParseTask(@, s)]
            /\ main' = AfterSlice(nal[2] = c.slices, parseList) /\ reports' = reports
  <2>1. s \in Nat
    BY <1>2, <1>3
  <2>2. /\ pic'[b] = AddParseTask(S[b], s)
        /\ \A x \in Bufs \ {b} : pic'[x] = S[x]
    BY <1>3, <1>13, <1>18
  <2>3. /\ pic'[b].poc = S[b].poc /\ pic'[b].idr = S[b].idr
        /\ pic'[b].neededForOutput = S[b].neededForOutput
        /\ pic'[b].error = S[b].error /\ pic'[b].skippedDecCount = S[b].skippedDecCount
        /\ pic'[b].refs = S[b].refs /\ pic'[b].cts = S[b].cts
        /\ pic'[b].wasLost = S[b].wasLost /\ pic'[b].slices = S[b].slices
        /\ pic'[b].complete = S[b].complete /\ pic'[b].recon = S[b].recon
        /\ pic'[b].reconDone = S[b].reconDone /\ pic'[b].parseDone = S[b].parseDone
        /\ pic'[b].dpbReferenceMark = S[b].dpbReferenceMark
        /\ pic'[b].parseFailed = S[b].parseFailed
        /\ pic'[b].exceptionThrownOut = S[b].exceptionThrownOut
        /\ pic'[b].progress = IF S[b].progress = init THEN parsing ELSE S[b].progress
    BY <1>12, <2>1, <2>2, TaskAdded, TaskStream
  <2>4. SlicesOn(o, pic'[b], nal[2], nal[2] = c.slices)
    BY <1>15, <2>3 DEF SlicesOn
  <2>5. main' = AfterSlice(pic'[b].complete, parseList)
    BY <1>15, <1>18, <2>3 DEF AfterSlice
  <2>6. Continued(b)
    BY <1>1, <1>3, <1>5, <1>12, <1>13, <1>15, <1>16, <1>18, <2>2, <2>3, <2>4, <2>5
       DEF Continued, outputVars, c, p
  <2> QED
    BY <1>3, <2>6
<1> QED
  BY <1>1, <1>11, <1>14, <1>17, <1>18

LEMMA ContinuedPlace ==
  ASSUME IndInv, StreamInv, NEW b \in Bufs, Continued(b), NEW p, p = nal[1],
         NEW k, k = nal[2]
  PROVE  /\ TypeOK /\ p \in DOMAIN stream /\ p \in Nat \ {0} /\ stream[p].slices \in Nat \ {0}
         /\ k \in Nat /\ k > 1 /\ k <= stream[p].slices /\ k <= NalUnits(stream[p])
         /\ LastBegun = p /\ LastBegun' = p
         /\ DOMAIN stream = 1..Len(stream) /\ Len(stream) \in Nat
         /\ stream' = stream /\ ParseFrameDelay' = ParseFrameDelay
         /\ InList' = InList /\ InList \subseteq Bufs /\ b \in InList
         /\ nal' = IF k < NalUnits(stream[p]) THEN <<p, k + 1>> ELSE <<p + 1, 1>>
         /\ NalUnits(stream[p]) = stream[p].slices + (IF stream[p].sei THEN 1 ELSE 0)
         /\ main.pc \in {"idle", "fill"} /\ main'.pc \in {"idle", "next"}
         /\ main'.outPic = NoPic /\ main'.done = NoPic /\ main.done = NoPic
         /\ \A x \in InList : HoldsCoded(x) /\ pic[x].cts \in 1..p
         /\ \A x \in InList \ {b} : pic[x].complete
<1>1. /\ TypeOK /\ MoreNals /\ AtSlice /\ k > 1 /\ p \in DOMAIN stream /\ p \in Nat \ {0}
      /\ setup' = setup /\ stream[p].slices \in Nat \ {0} /\ list' = list /\ k \in Nat
      /\ ParserInv /\ b = parsePic /\ b \in InList
  BY NalTypes, StreamIs DEF Continued, AtSlice, IndInv, MoreNals, StreamInv
<1>2. /\ DOMAIN stream = 1..Len(stream) /\ Len(stream) \in Nat
      /\ stream' = stream /\ ParseFrameDelay' = ParseFrameDelay
  BY <1>1, StreamIs DEF stream, ParseFrameDelay
<1>3. InList' = InList /\ InList \subseteq Bufs
  BY <1>1, State DEF InList
<1>4. /\ k <= stream[p].slices
      /\ NalUnits(stream[p]) = stream[p].slices + (IF stream[p].sei THEN 1 ELSE 0)
      /\ k <= NalUnits(stream[p])
  BY <1>1 DEF AtSlice, AtSei, NalUnits
<1>5. nal' = IF k < NalUnits(stream[p]) THEN <<p, k + 1>> ELSE <<p + 1, 1>>
  BY <1>1 DEF Continued, NextNal
<1>6. LastBegun = p /\ LastBegun' = p
  BY <1>1, <1>5 DEF LastBegun
<1>7. /\ main.pc \in {"idle", "fill"} /\ main'.pc \in {"idle", "next"}
      /\ main'.outPic = NoPic /\ main'.done = NoPic /\ main.done = NoPic
  <2>1. main' = Idle \/ \E v \in {"idle", "next"} : main' = [main EXCEPT !.pc = v]
    BY DEF Continued, AfterSlice
  <2>2. ASSUME NEW v \in {"idle", "next"}, main' = [main EXCEPT !.pc = v]
        PROVE  main' = [pc |-> v, cur |-> NoPic, exc |-> main.exc,
                        done |-> NoPic, outPic |-> NoPic, flushing |-> FALSE]
    BY <1>1, <2>2, AtSliceState
  <2>3. main.pc \in {"idle", "fill"} /\ main.done = NoPic
    BY <1>1 DEF AtSlice, IndInv, CallPlace
  <2> QED
    BY <2>1, <2>2, <2>3 DEF Idle
<1>8. /\ \A x \in InList : HoldsCoded(x) /\ pic[x].cts \in 1..p
      /\ \A x \in InList \ {b} : pic[x].complete
  BY <1>1, <1>6 DEF ParserInv, PicturesInOrder, HoldsCoded
<1> QED
  BY <1>1, <1>2, <1>3, <1>4, <1>5, <1>6, <1>7, <1>8

\* The buffers after the slice.
LEMMA ContinuedPictures ==
  ASSUME IndInv, StreamInv, NEW b \in Bufs, Continued(b)
  PROVE  /\ \A x \in InList : /\ pic'[x].cts = pic[x].cts /\ pic'[x].poc = pic[x].poc
                              /\ pic'[x].skippedDecCount = pic[x].skippedDecCount
                              /\ pic'[x].progress < finished <=> pic[x].progress < finished
                              /\ pic'[x].idr = pic[x].idr
                              /\ ~pic'[x].wasLost /\ x \notin pic'[x].refs
         /\ pic[b].progress \in Int /\ pic'[b].progress \in Int
         /\ pic[b].progress < finished /\ pic'[b].progress < finished
<1>1. /\ TypeOK /\ b \in InList /\ InList \subseteq Bufs
      /\ \A x \in InList : HoldsCoded(x)
  BY ContinuedPlace
<1>2. /\ pic[b].progress \in Int /\ pic'[b].progress \in Int
      /\ pic[b].progress < finished /\ pic'[b].progress < finished
  <2>1. /\ pic[b].progress <= parsed /\ pic[b].progress \in Int
        /\ pic'[b].progress \in {pic[b].progress, parsing}
    BY <1>1, State, Fields DEF Continued, SlicesOn
  <2> QED
    BY <2>1 DEF parsed, parsing, finished
<1>3. ASSUME NEW x \in InList \ {b}
      PROVE  /\ pic'[x].cts = pic[x].cts /\ pic'[x].poc = pic[x].poc
             /\ pic'[x].skippedDecCount = pic[x].skippedDecCount
             /\ pic'[x].progress = pic[x].progress
             /\ pic'[x].idr = pic[x].idr
             /\ ~pic'[x].wasLost /\ x \notin pic'[x].refs
  <2>1. LeftAlone(pic[x], pic'[x]) /\ HoldsCoded(x)
    BY <1>1 DEF Continued
  <2> QED
    BY <2>1 DEF LeftAlone, SameFlags, HoldsCoded
<1>4. /\ pic'[b].cts = pic[b].cts /\ pic'[b].poc = pic[b].poc
      /\ pic'[b].skippedDecCount = pic[b].skippedDecCount
      /\ pic'[b].idr = pic[b].idr /\ ~pic'[b].wasLost /\ b \notin pic'[b].refs
  BY DEF Continued, SlicesOn
<1> QED
  BY <1>1, <1>2, <1>3, <1>4

LEMMA ContinuedParser ==
  ASSUME IndInv, StreamInv, NEW b \in Bufs, Continued(b)
  PROVE  ParserInv'
<1>0. PICK p, k : p = nal[1] /\ k = nal[2]
  OBVIOUS
<1> DEFINE c == stream[p]
<1>1. /\ TypeOK /\ p \in DOMAIN stream /\ p \in Nat \ {0} /\ c.slices \in Nat \ {0}
      /\ k \in Nat /\ k > 1 /\ k <= c.slices /\ k <= NalUnits(c)
      /\ LastBegun = p /\ LastBegun' = p
      /\ DOMAIN stream = 1..Len(stream) /\ Len(stream) \in Nat /\ stream' = stream
      /\ InList' = InList /\ InList \subseteq Bufs /\ b \in InList
      /\ nal' = (IF k < NalUnits(c) THEN <<p, k + 1>> ELSE <<p + 1, 1>>)
      /\ NalUnits(c) = c.slices + (IF c.sei THEN 1 ELSE 0)
      /\ main'.pc \in {"idle", "next"} /\ main'.done = NoPic /\ main.done = NoPic
      /\ main.pc \in {"idle", "fill"}
      /\ \A x \in InList : HoldsCoded(x) /\ pic[x].cts \in 1..p
      /\ \A x \in InList \ {b} : pic[x].complete
  BY <1>0, ContinuedPlace
<1>2. /\ ParserInv /\ dpb \subseteq InList /\ list \in Seq(Bufs) /\ NoPic \notin Bufs
      /\ parseList \in Seq(Bufs) /\ parsePic' = b /\ segment' = k - 1 /\ started' = TRUE
      /\ parsePic = b /\ pic[b].cts = p
      /\ UNCHANGED <<setup, list, dpb, parseList, instances>>
      /\ b # NoPic
  BY <1>0, <1>1, State, Constants DEF StreamInv, Continued
<1>3. /\ pic'[b].cts = p /\ pic'[b].slices = k /\ (pic'[b].complete <=> k = c.slices)
      /\ pic'[b].dpbReferenceMark = c.isRef
      /\ \A x \in Bufs \ {b} : /\ LeftAlone(pic[x], pic'[x])
                               /\ pic'[x].dpbReferenceMark = pic[x].dpbReferenceMark
  BY <1>0 DEF Continued, SlicesOn
<1>4. \A x \in InList : /\ pic'[x].cts = pic[x].cts /\ pic'[x].poc = pic[x].poc
                        /\ pic'[x].progress < finished <=> pic[x].progress < finished
                        /\ pic'[x].idr = pic[x].idr
                        /\ ~pic'[x].wasLost /\ x \notin pic'[x].refs
  BY ContinuedPictures
<1>5. AtNal'
  <2>1. CASE nal' = <<p, k + 1>> /\ k < NalUnits(c)
    <3>1. MoreNals' /\ nal'[1] = p /\ nal'[2] = k + 1 /\ NalUnits(c)' = NalUnits(c)
      BY <1>0, <1>1, <2>1 DEF MoreNals, NalUnits
    <3>2. k + 1 <= c.slices => ~pic'[b].complete
      BY <1>1, <1>3
    <3>3. k + 1 > c.slices => pic'[b].slices = c.slices /\ pic'[b].complete
      BY <1>1, <1>3
    <3> HIDE DEF c
    <3>4. stream[nal[1]]' = c
      BY <1>1, <3>1 DEF c
    <3>5. k + 1 <= NalUnits(c) /\ k + 1 > 1 /\ k + 1 # 1
      BY <1>1, <2>1, <1>2
    <3> QED
      BY <1>1, <1>2, <1>3, <3>1, <3>2, <3>3, <3>4, <3>5 DEF AtNal, c
  <2>2. CASE nal' = <<p + 1, 1>>
    <3>1. nal'[1] = p + 1 /\ nal'[2] = 1 /\ nal'[1] \in 1..(Len(stream) + 1)
      BY <1>1, <2>2
    <3>2. MoreNals' => NalUnits(stream[p + 1])' = NalUnits(stream[p + 1])
                       /\ 1 <= NalUnits(stream[p + 1])
      <4>1. ASSUME p + 1 \in DOMAIN stream PROVE 1 <= NalUnits(stream[p + 1])
        <5>1. stream[p + 1].slices \in Nat \ {0}
          BY <1>1, <4>1, StreamIs
        <5> QED
          BY <5>1 DEF NalUnits
      <4>2. NalUnits(stream[p + 1])' = NalUnits(stream[p + 1])
        BY <1>0, <1>1 DEF NalUnits
      <4>3. MoreNals' => p + 1 \in DOMAIN stream
        BY <1>1, <3>1 DEF MoreNals
      <4> QED
        BY <4>1, <4>2, <4>3
    <3> QED
      BY <1>1, <1>2, <3>1, <3>2 DEF AtNal
  <2> QED
    BY <1>1, <2>1, <2>2
<1>6. ASSUME NEW x \in InList' PROVE HoldsCoded(x)'
  <2>1. HoldsCoded(x) /\ x \in InList
    BY <1>1, <1>6
  <2>2. pic'[x].complete \/ (x = parsePic' /\ nal'[2] > 1)
    <3>1. CASE x = b
      <4>1. CASE k < NalUnits(c)
        BY <1>1, <1>2, <3>1, <4>1
      <4>2. CASE ~(k < NalUnits(c))
        <5>1. k = c.slices
          BY <1>1, <4>2
        <5> QED
          BY <1>3, <3>1, <5>1
      <4> QED
        BY <4>1, <4>2
    <3>2. CASE x # b
      <4>1. pic[x].complete /\ LeftAlone(pic[x], pic'[x])
        BY <1>1, <1>3, <2>1, <3>2
      <4> QED
        BY <4>1 DEF LeftAlone
    <3> QED
      BY <3>1, <3>2
  <2> QED
    BY <1>1, <1>4, <2>1, <2>2 DEF HoldsCoded
<1>7. \A i, j \in DOMAIN list' : i < j => pic'[list'[i]].cts < pic'[list'[j]].cts
  <2>1. \A i \in DOMAIN list : list[i] \in InList
    BY <1>2, InSequence DEF InList
  <2> QED
    BY <1>2, <1>4, <2>1 DEF ParserInv, PicturesInOrder
<1>8. \A x \in dpb' : NoIdr(stream, pic'[x].cts, p)
  BY <1>1, <1>2, <1>4 DEF ParserInv, PicturesInOrder
<1>9. ASSUME NEW q \in 1..p, StaysRef(stream, q, p)
      PROVE  \E x \in dpb' : pic'[x].cts = q /\ pic'[x].dpbReferenceMark
  <2>1. PICK x \in dpb : pic[x].cts = q /\ pic[x].dpbReferenceMark
    BY <1>1, <1>2, <1>9 DEF ParserInv, PicturesInOrder
  <2>2. CASE x = b
    BY <1>2, <1>3, <1>9, <2>1, <2>2 DEF StaysRef
  <2>3. CASE x # b
    BY <1>1, <1>2, <1>3, <1>4, <2>1, <2>3
  <2> QED
    BY <2>2, <2>3
<1>10. PicturesInOrder'
  BY <1>1, <1>6, <1>7, <1>8, <1>9 DEF PicturesInOrder
<1>11. NobodyLost'
  <2>1. InHand \subseteq InHand'
    BY <1>1, <1>2 DEF InHand, Waiting, InWork
  <2>2. Unfinished' \subseteq Unfinished
    BY <1>1, <1>4 DEF Unfinished
  <2> QED
    BY <1>2, <2>1, <2>2 DEF ParserInv, NobodyLost
<1> QED
  BY <1>5, <1>10, <1>11 DEF ParserInv

LEMMA ContinuedOvertaken ==
  ASSUME IndInv, StreamInv, NEW b \in Bufs, Continued(b)
  PROVE  OvertakenInv'
<1>0. PICK p, k : p = nal[1] /\ k = nal[2]
  OBVIOUS
<1>1. /\ TypeOK /\ LastBegun = p /\ LastBegun' = p /\ parseList' = parseList
      /\ \A x \in InList : /\ pic'[x].cts = pic[x].cts
                           /\ pic'[x].skippedDecCount = pic[x].skippedDecCount
      /\ ToSet(parseList) \subseteq InList /\ parseList \in Seq(Bufs)
      /\ OvertakenInv
  BY <1>0, ContinuedPlace, ContinuedPictures, State DEF StreamInv, Continued
<1>2. \A i \in DOMAIN parseList : parseList[i] \in InList
  BY <1>1, InSequence
<1>3. \A x \in ToSet(parseList) : Passed(x)' = Passed(x)
  BY <1>1 DEF Passed
<1> QED
  BY <1>1, <1>2, <1>3 DEF OvertakenInv

LEMMA ContinuedReports ==
  ASSUME IndInv, StreamInv, NEW b \in Bufs, Continued(b)
  PROVE  ReportsInv'
<1>0. PICK p, k : p = nal[1] /\ k = nal[2]
  OBVIOUS
<1> DEFINE c == stream[p]
<1>1. /\ TypeOK /\ p \in DOMAIN stream /\ p \in Nat \ {0} /\ c.slices \in Nat \ {0}
      /\ k \in Nat /\ k > 1 /\ k <= c.slices
      /\ LastBegun = p /\ LastBegun' = p
      /\ DOMAIN stream = 1..Len(stream) /\ Len(stream) \in Nat /\ stream' = stream
      /\ ParseFrameDelay' = ParseFrameDelay
      /\ InList' = InList /\ InList \subseteq Bufs /\ b \in InList
      /\ nal' = (IF k < NalUnits(c) THEN <<p, k + 1>> ELSE <<p + 1, 1>>)
      /\ NalUnits(c) = c.slices + (IF c.sei THEN 1 ELSE 0)
      /\ main'.pc \in {"idle", "next"} /\ main.pc \in {"idle", "fill"}
      /\ \A x \in InList : pic[x].cts \in 1..p
  BY <1>0, ContinuedPlace
<1>2. /\ ReportsInv /\ ParserInv /\ nal[1] = p /\ parseList' = parseList
      /\ reports \in [DOMAIN stream -> Nat] /\ pic[b].cts = p /\ pic'[b].cts = p
      /\ \A x \in Bufs \ {b} : LeftAlone(pic[x], pic'[x])
      /\ pic[b].progress \in Int /\ pic'[b].progress \in Int
      /\ pic[b].progress < finished /\ pic'[b].progress < finished
      /\ pic[b].slices = k - 1 /\ ~pic[b].complete
      /\ pic'[b].slices = k
      /\ pic'[b].recon = pic[b].recon /\ pic'[b].reconDone = pic[b].reconDone
      /\ pic'[b].parseFailed = pic[b].parseFailed
      /\ \/ reports' = reports
         \/ reports' = [reports EXCEPT ![p] = @ + 1]
  BY <1>0, <1>1, NatTypes, ContinuedPictures DEF StreamInv, Continued, SlicesOn
<1>3. ASSUME NEW d \in DOMAIN stream PROVE HashSeen(d)' = HashSeen(d) /\ HashSeen(d) \in {0, 1}
  <2>0. d \in Int /\ main.pc # "sei" /\ main'.pc # "sei"
    BY <1>1
  <2>1. CASE nal' = <<p, k + 1>>
    BY <1>1, <1>2, <2>0, <2>1 DEF HashSeen
  <2>2. CASE nal' = <<p + 1, 1>> /\ ~(k < NalUnits(c))
    <3>1. ~c.sei
      BY <1>1, <2>2
    <3>2. nal'[1] = p + 1
      BY <2>2
    <3> QED
      BY <1>1, <1>2, <2>0, <3>1, <3>2 DEF HashSeen
  <2> QED
    BY <1>1, <2>1, <2>2
<1>4. /\ reports[p] \in Nat /\ reports[p] <= k - 2 /\ reports'[p] \in Nat
      /\ reports'[p] <= k - 1 /\ ReportsTell(b)
  <2>1. ReportsTell(b) /\ reports[p] \in Nat
    BY <1>1, <1>2 DEF ReportsInv
  <2>2. reports[p] <= k - 1 - 1
    BY <1>2, <2>1 DEF ReportsTell
  <2>3. reports'[p] = reports[p] \/ reports'[p] = reports[p] + 1
    BY <1>1, <1>2
  <2> QED
    BY <1>1, <2>1, <2>2, <2>3
<1>5. ReportsTell(b)'
  <2>0. ~Prepared(b)' /\ ((b \in Waiting)' => b \in Waiting)
    BY <1>1, <1>2 DEF Prepared, Waiting
  <2>1. ReportsTell(b)' <=> Tells(pic'[b], reports'[p], HashSeen(p), Prepared(b)', (b \in Waiting)')
    BY <1>1, <1>2, <1>3 DEF ReportsTell, Tells, Throws
  <2>2. Tells(pic[b], reports[p], HashSeen(p), Prepared(b), b \in Waiting)
    BY <1>2, <1>4, TellsNow
  <2>3. CASE /\ ~pic[b].parseFailed /\ pic'[b].error = pic[b].error
             /\ pic'[b].exceptionThrownOut = pic[b].exceptionThrownOut
             /\ pic'[b].parseDone = pic[b].parseDone /\ reports' = reports
    BY <1>1, <1>2, <1>4, <2>0, <2>1, <2>2, <2>3 DEF Tells, Throws
  <2>4. CASE /\ pic[b].parseFailed /\ pic'[b].queue = pic[b].queue
             /\ pic'[b].error /\ pic'[b].exceptionThrownOut /\ pic'[b].parseDone # "error"
             /\ reports' = [reports EXCEPT ![p] = @ + 1]
    <3>1. reports'[p] >= 1
      BY <1>2, <1>4, <1>1, <2>4
    <3> QED
      BY <1>1, <1>2, <1>4, <2>0, <2>1, <2>2, <2>4, <3>1 DEF Tells, Throws
  <2> QED
    BY <1>0, <2>3, <2>4 DEF Continued
<1>6. ASSUME NEW x \in InList \ {b} PROVE ReportsTell(x)'
  <2>0. PICK d \in DOMAIN stream : d = pic[x].cts
    BY <1>1
  <2>1. /\ ReportsTell(x) /\ LeftAlone(pic[x], pic'[x]) /\ pic'[x].cts = d
    BY <1>1, <1>2, <2>0 DEF ReportsInv, LeftAlone
  <2>2. ~Prepared(x)' /\ ((x \in Waiting)' => x \in Waiting)
    BY <1>1, <1>2 DEF Prepared, Waiting
  <2>3. d # p
    BY <1>1, <1>2, <2>0, DistinctCts
  <2>4. reports'[d] = reports[d] /\ HashSeen(d)' = HashSeen(d)
    BY <1>2, <1>3, <2>3
  <2>5. ReportsTell(x)' <=> Tells(pic'[x], reports[d], HashSeen(d), Prepared(x)', (x \in Waiting)')
    BY <2>1, <2>4 DEF ReportsTell, Tells, Throws
  <2> QED
    BY <2>0, <2>1, <2>2, <2>5 DEF Tells, ReportsTell, LeftAlone, SameFlags, Throws
<1>7. ASSUME NEW d \in DOMAIN stream
      PROVE  /\ d > LastBegun' => reports'[d] = 0
             /\ reports'[d] <= MostReports(d)' + HashSeen(d)'
  <2>1. /\ MostReports(d)' = MostReports(d) /\ d \in Int
        /\ reports[d] <= MostReports(d) + HashSeen(d) /\ (d > p => reports[d] = 0)
    BY <1>1, <1>2 DEF MostReports, ReportsInv
  <2>2. CASE d = p
    <3>1. k - 1 <= MostReports(p) /\ MostReports(p) \in Int
      BY <1>1 DEF MostReports
    <3> QED
      BY <1>1, <1>3, <1>4, <2>1, <2>2, <3>1
  <2>3. CASE d # p
    <3>1. reports'[d] = reports[d]
      BY <1>2, <2>3
    <3> QED
      BY <1>1, <1>3, <2>1, <3>1
  <2> QED
    BY <2>2, <2>3
<1> QED
  BY <1>1, <1>5, <1>6, <1>7 DEF ReportsInv

LEMMA ContinuedOrder ==
  ASSUME IndInv, StreamInv, NEW b \in Bufs, Continued(b)
  PROVE  OrderInv' /\ Pending' = Pending
<1>0. PICK p, k : p = nal[1] /\ k = nal[2]
  OBVIOUS
<1> DEFINE c == stream[p]
<1>1. /\ TypeOK /\ p \in DOMAIN stream /\ LastBegun = p /\ LastBegun' = p
      /\ stream' = stream /\ InList' = InList /\ InList \subseteq Bufs /\ b \in InList
      /\ main'.pc \in {"idle", "next"} /\ main'.outPic = NoPic
      /\ \A x \in InList : pic[x].cts \in 1..p
  BY <1>0, ContinuedPlace
<1>2. /\ OrderInv /\ out' = out /\ pic[b].cts = p
      /\ \A x \in Bufs \ {b} : LeftAlone(pic[x], pic'[x])
      /\ pic[b].progress < finished /\ pic'[b].neededForOutput = c.output
      /\ \A x \in InList : pic'[x].cts = pic[x].cts
  BY <1>0, <1>1, ContinuedPictures DEF StreamInv, Continued
<1>3. \A x \in InList :
        /\ pic'[x].cts = pic[x].cts
        /\ pic'[x].neededForOutput <=> pic[x].neededForOutput
        /\ pic'[x].progress < finished <=> pic[x].progress < finished
  <2>1. pic'[b].neededForOutput <=> pic[b].neededForOutput
    BY <1>1, <1>2 DEF OrderInv
  <2>2. ASSUME NEW x \in InList \ {b}
        PROVE  pic'[x].neededForOutput <=> pic[x].neededForOutput
    <3>1. LeftAlone(pic[x], pic'[x])
      BY <1>1, <1>2
    <3> QED
      BY <3>1 DEF LeftAlone
  <2> QED
    BY <1>2, <2>1, <2>2, ContinuedPictures
<1>4. Pending' = Pending
  BY <1>1, <1>3 DEF Pending
<1>5. Gone' = Gone
  BY <1>1, <1>4 DEF Gone
<1>6. \A i, j : Cvs(i)' = Cvs(i) /\ (Before(i, j)' <=> Before(i, j))
  BY <1>1 DEF Cvs, Before
<1>7. OutputInOrder'
  BY <1>1, <1>2, <1>6 DEF OrderInv, OutputInOrder
<1>8. AllDelivered'
  BY <1>1 DEF AllDelivered
<1>9. \A x \in InList' :
        /\ pic'[x].neededForOutput => stream[pic'[x].cts].output
        /\ pic'[x].progress < finished =>
             (pic'[x].neededForOutput <=> stream[pic'[x].cts].output)
  BY <1>1, <1>2, <1>3 DEF OrderInv
<1> QED
  BY <1>1, <1>2, <1>4, <1>5, <1>6, <1>7, <1>8, <1>9 DEF OrderInv

LEMMA NextSliceStream ==
  ASSUME IndInv, StreamInv, Conforming, NextSlice
  PROVE  StreamInv' /\ FrameStep
<1>1. PICK b \in Bufs : Continued(b)
  BY NextSliceIs
<1>2. ParserInv' /\ OvertakenInv' /\ ReportsInv' /\ OrderInv' /\ Pending' = Pending
  BY <1>1, ContinuedParser, ContinuedOvertaken, ContinuedReports, ContinuedOrder
     DEF StreamInv
<1>3. PICK p, k : p = nal[1] /\ k = nal[2]
  OBVIOUS
<1>4. /\ TypeOK /\ ParserInv /\ OrderInv /\ p \in 1..LastBegun /\ LastBegun' = LastBegun
      /\ stream' = stream /\ main'.outPic = NoPic
  BY <1>1, <1>3, ContinuedPlace DEF StreamInv
<1>5. /\ out' = out /\ main.outPic = NoPic
      /\ reports' = reports \/ reports' = [reports EXCEPT ![p] = @ + 1]
  <2>1. AtSlice
    BY <1>1 DEF Continued
  <2> QED
    BY <1>1, <1>3, <2>1, AtSliceState DEF Continued
<1>6. GoesOnOrThrows
  BY <1>4, <1>5 DEF GoesOnOrThrows
<1>7. \A x \in InList : pic'[x].cts = pic[x].cts
  BY <1>1, ContinuedPictures
<1>8. FrameStep
  BY <1>2, <1>4, <1>5, <1>6, <1>7, FramesGoOn
<1> QED
  BY <1>2, <1>8 DEF StreamInv
-----------------------------------------------------------------------------
(* Every step.                                                               *)

LEMMA StutterStream ==
  ASSUME IndInv, StreamInv, UNCHANGED vars
  PROVE  StreamInv' /\ FrameStep
<1>1. /\ UNCHANGED <<setup, nal, pic, list, parserVars, instances, outputVars, main,
                     reports, faults>>
      /\ UNCHANGED <<dpb, parsePic, parseList, segment, started, first, tuneIn, held, out>>
  BY DEF vars, parserVars, outputVars
<1>2. ParserStays
  BY <1>1 DEF ParserStays, SameCoded
<1>3. NobodyLost'
  <2>1. Unfinished' = Unfinished /\ InHand' = InHand
    BY <1>1 DEF Unfinished, InList, InHand, Waiting, InWork
  <2> QED
    BY <2>1 DEF StreamInv, ParserInv, NobodyLost
<1>4. \A x \in Bufs : /\ pic'[x].skippedDecCount = pic[x].skippedDecCount
                      /\ SameOutput(pic[x], pic'[x])
  BY <1>1 DEF SameOutput
<1>5. \A x \in InList : ReportsCalm(x)
  BY <1>1 DEF ReportsCalm, SameFlags, Waiting, Prepared
<1>6. main'.pc = "clean" /\ main'.exc => ~pic'[main'.cur].exceptionThrownOut
  BY <1>1 DEF StreamInv, ReportsInv
<1>7. GoesOnOrThrows
  BY <1>1 DEF GoesOnOrThrows
<1> QED
  BY <1>1, <1>2, <1>3, <1>4, <1>5, <1>6, <1>7, StreamGoesOn

\* Nothing is parsed yet.
LEMMA InitStream ==
  ASSUME Init
  PROVE  StreamInv
<1>0. IndInv /\ TypeOK
  BY InitInv DEF IndInv
<1>1. /\ nal = <<1, 1>> /\ list = <<>> /\ dpb = {} /\ parseList = <<>> /\ out = <<>>
      /\ reports = [c \in DOMAIN stream |-> 0] /\ main = Idle
      /\ Len(stream) \in Nat /\ DOMAIN stream = 1..Len(stream)
      /\ \A p \in DOMAIN stream : stream[p].slices \in Nat \ {0}
  BY <1>0, StreamIs DEF Init
<1>2. /\ LastBegun = 0 /\ InList = {} /\ ToSet(parseList) = {} /\ DOMAIN list = {}
      /\ DOMAIN parseList = {} /\ DOMAIN out = {} /\ nal[1] = 1 /\ nal[2] = 1
  BY <1>1 DEF LastBegun, InList, ToSet
<1>3. ParserInv
  <2>1. MoreNals => 1 <= NalUnits(stream[1])
    BY <1>1, <1>2 DEF MoreNals, NalUnits
  <2>2. AtNal
    BY <1>1, <1>2, <2>1 DEF AtNal
  <2>3. PicturesInOrder
    BY <1>1, <1>2 DEF PicturesInOrder
  <2> QED
    BY <1>2, <2>2, <2>3 DEF ParserInv, NobodyLost, Unfinished
<1>4. OvertakenInv
  BY <1>2 DEF OvertakenInv
<1>5. main.pc = "idle" /\ main.outPic = NoPic
  BY <1>1 DEF Idle
<1>6. ReportsInv
  <2>1. ASSUME NEW c \in DOMAIN stream
        PROVE  reports[c] = 0 /\ MostReports(c) >= 1 /\ HashSeen(c) \in {0, 1}
               /\ MostReports(c) \in Int
    BY <1>1, <2>1 DEF MostReports, HashSeen
  <2> QED
    BY <1>2, <1>5, <2>1 DEF ReportsInv
<1>7. OrderInv
  <2>1. Pending = {c \in DOMAIN stream : stream[c].output}
    BY <1>1, <1>2 DEF Pending
  <2>2. Gone = {}
    BY <2>1 DEF Gone
  <2> QED
    BY <1>2, <1>5, <2>2 DEF OrderInv, OutputInOrder, AllDelivered
<1> QED
  BY <1>3, <1>4, <1>6, <1>7 DEF StreamInv

LEMMA MainStream ==
  ASSUME IndInv, StreamInv, Conforming, Main
  PROVE  StreamInv' /\ FrameStep
<1>1. ~FillMissing /\ ~RejectSlice
  BY NothingLost
<1>2. CASE FirstSlice
  BY <1>2, FirstSliceStream
<1>3. CASE NextSlice
  BY <1>3, NextSliceStream
<1>4. CASE SuffixSei
  BY <1>4, SuffixSeiStream
<1>5. CASE WaitForHash
  BY <1>5, WaitForHashStream
<1>6. CASE GetNextDecodable
  BY <1>6, GetNextDecodableStream
<1>7. CASE CleanUp
  BY <1>7, CleanUpStream
<1>8. CASE WaitForPrev
  BY <1>8, WaitForPrevStream
<1>9. ASSUME NEW r \in Bufs, BorderExtPic(r)
      PROVE  StreamInv' /\ FrameStep
  BY <1>9, BorderExtPicStream
<1>10. CASE BorderExtFailed
  BY <1>10, BorderExtFailedStream
<1>11. CASE Schedule
  BY <1>11, ScheduleStream
<1>12. CASE FinishDone
  BY <1>12, FinishDoneStream
<1>13. CASE Output
  BY <1>13, OutputStream
<1>14. CASE Flush
  BY <1>14, FlushStream
<1>15. CASE FlushNext
  BY <1>15, FlushNextStream
<1>16. CASE FlushOut
  BY <1>16, FlushOutStream
<1>17. CASE BlockAndFinish
  BY <1>17, BlockAndFinishStream
<1>18. CASE FlushLast
  BY <1>18, FlushLastStream
<1> QED
  BY <1>1, <1>2, <1>3, <1>4, <1>5, <1>6, <1>7, <1>8, <1>9, <1>10, <1>11, <1>12,
     <1>13, <1>14, <1>15, <1>16, <1>17, <1>18 DEF Main

LEMMA SetupStays ==
  ASSUME [Next]_vars
  PROVE  UNCHANGED setup
<1>1. CASE Main
  <2>1. CASE FillMissing
    BY <2>1, Zenon DEF FillMissing
  <2>2. CASE FirstSlice \/ NextSlice
    BY <2>2, Zenon DEF FirstSlice, NextSlice
  <2>3. CASE RejectSlice \/ SuffixSei \/ WaitForHash
    BY <2>3 DEF RejectSlice, SuffixSei, WaitForHash
  <2>4. CASE GetNextDecodable \/ CleanUp \/ WaitForPrev
    BY <2>4 DEF GetNextDecodable, CleanUp, WaitForPrev
  <2>5. ASSUME NEW r \in Bufs, BorderExtPic(r) PROVE setup' = setup
    BY <2>5 DEF BorderExtPic
  <2>6. CASE BorderExtFailed \/ Schedule \/ FinishDone
    BY <2>6 DEF BorderExtFailed, Schedule, FinishDone
  <2>7. CASE Output \/ Flush \/ FlushNext \/ FlushOut
    BY <2>7 DEF Output, Flush, FlushNext, FlushOut
  <2>8. CASE BlockAndFinish \/ FlushLast
    BY <2>8 DEF BlockAndFinish, FlushLast
  <2> QED
    BY <1>1, <2>1, <2>2, <2>3, <2>4, <2>5, <2>6, <2>7, <2>8 DEF Main
<1>2. CASE LoseNal
  BY <1>2 DEF LoseNal
<1>3. ASSUME NEW b \in Bufs, Release(b) PROVE setup' = setup
  BY <1>3 DEF Release
<1>4. CASE Workers
  BY <1>4 DEF Workers, ParseSlice, Reconstruct, ExtendBorder, WorkerFrame
<1>5. CASE UNCHANGED vars
  BY <1>5 DEF vars
<1> QED
  BY <1>1, <1>2, <1>3, <1>4, <1>5 DEF Next, Terminated

LEMMA ConformingStays ==
  ASSUME [Next]_vars
  PROVE  Conforming' <=> Conforming
BY SetupStays DEF Conforming, Accepted, stream

LEMMA StreamStep ==
  ASSUME IndInv, Conforming => StreamInv, [Next]_vars
  PROVE  /\ Conforming' => StreamInv'
         /\ Conforming => FrameStep
<1> SUFFICES ASSUME Conforming PROVE StreamInv' /\ FrameStep
  BY ConformingStays
<1>1. CASE Main
  BY <1>1, MainStream
<1>2. ~LoseNal
  BY NothingLost
<1>3. ASSUME NEW b \in Bufs, Release(b) PROVE StreamInv' /\ FrameStep
  BY <1>3, ReleaseStream
<1>4. ASSUME NEW b \in Bufs, NEW s \in pic[b].queue, ParseSlice(b, s)
      PROVE  StreamInv' /\ FrameStep
  BY <1>4, ParseSliceStream
<1>5. ASSUME NEW b \in Bufs, Reconstruct(b) PROVE StreamInv' /\ FrameStep
  BY <1>5, ReconstructStream
<1>6. ASSUME NEW b \in Bufs, ExtendBorder(b) PROVE StreamInv' /\ FrameStep
  BY <1>6, ExtendBorderStream
<1>7. CASE UNCHANGED vars
  BY <1>7, StutterStream
<1> QED
  BY <1>1, <1>2, <1>3, <1>4, <1>5, <1>6, <1>7 DEF Next, Workers, Terminated
-----------------------------------------------------------------------------
(* The end of the stream.                                                    *)

LEMMA MainEof ==
  ASSUME IndInv, Main
  PROVE  main.pc # "eof" /\ (main'.pc = "eof" => FlushLast)
<1>1. /\ main' = Idle => main'.pc = "idle"
      /\ \A v : main' = [main EXCEPT !.pc = v] => main'.pc = v
      /\ \A v : main' = [Idle EXCEPT !.pc = v] => main'.pc = v
      /\ \A v, w : main' = [main EXCEPT !.cur = w, !.pc = v] => main'.pc = v
      /\ \A v, w : main' = [main EXCEPT !.pc = v, !.done = w] => main'.pc = v
      /\ \A v, w : main' = [main EXCEPT !.pc = v, !.outPic = w] => main'.pc = v
      /\ \A v, w, x : main' = [main EXCEPT !.cur = w, !.exc = x, !.pc = v] => main'.pc = v
      /\ \A v, w, x : main' = [main EXCEPT !.pc = v, !.cur = w, !.done = x] => main'.pc = v
      /\ \A v, w, x : main' = [Idle EXCEPT !.pc = v, !.outPic = w, !.flushing = x]
                         => main'.pc = v
  <2>1. main \in [pc : MainPcs, cur : InList \cup {NoPic}, exc : BOOLEAN,
                  done : InList \cup {NoPic}, outPic : InList \cup {NoPic},
                  flushing : BOOLEAN]
    BY DEF IndInv, TypeOK, MainPcs
  <2>2. Idle \in [pc : {"idle"}, cur : {NoPic}, exc : {FALSE}, done : {NoPic},
                  outPic : {NoPic}, flushing : {FALSE}]
    BY DEF Idle
  <2>3. \A v : main' = [main EXCEPT !.pc = v] => main'.pc = v
    BY <2>1
  <2>4. \A v : main' = [Idle EXCEPT !.pc = v] => main'.pc = v
    BY <2>2
  <2>5. \A v, w : main' = [main EXCEPT !.cur = w, !.pc = v] => main'.pc = v
    BY <2>1
  <2>6. \A v, w : main' = [main EXCEPT !.pc = v, !.done = w] => main'.pc = v
    BY <2>1
  <2>7. \A v, w : main' = [main EXCEPT !.pc = v, !.outPic = w] => main'.pc = v
    BY <2>1
  <2>8. \A v, w, x : main' = [main EXCEPT !.cur = w, !.exc = x, !.pc = v] => main'.pc = v
    BY <2>1
  <2>9. \A v, w, x : main' = [main EXCEPT !.pc = v, !.cur = w, !.done = x] => main'.pc = v
    BY <2>1
  <2>10. \A v, w, x : main' = [Idle EXCEPT !.pc = v, !.outPic = w, !.flushing = x]
                       => main'.pc = v
    BY <2>2
  <2> QED
    BY <2>2, <2>3, <2>4, <2>5, <2>6, <2>7, <2>8, <2>9, <2>10
<1>2. CASE FillMissing
  <2>1. main' = [main EXCEPT !.pc = "fill"] \/ main' = Idle
    BY <1>2 DEF FillMissing
  <2>2. main.pc \in {"idle", "fill"}
    BY <1>2 DEF FillMissing, AtSlice
  <2> QED
    BY <1>1, <2>1, <2>2, Zenon
<1>3. CASE FirstSlice
  <2>1. main' = Idle \/ \E v \in {"next", "idle"} : main' = [main EXCEPT !.pc = v]
    BY <1>3 DEF FirstSlice, AfterSlice
  <2>2. main.pc \in {"idle", "fill"}
    BY <1>3 DEF FirstSlice, AtSlice
  <2> QED
    BY <1>1, <2>1, <2>2, Zenon
<1>4. CASE NextSlice
  <2>1. main' = Idle \/ \E v \in {"next", "idle"} : main' = [main EXCEPT !.pc = v]
    BY <1>4 DEF NextSlice, AfterSlice
  <2>2. main.pc \in {"idle", "fill"}
    BY <1>4 DEF NextSlice, AtSlice
  <2> QED
    BY <1>1, <2>1, <2>2, Zenon
<1>5. CASE RejectSlice
  BY <1>1, <1>5 DEF RejectSlice, AtSlice
<1>6. CASE SuffixSei
  BY <1>1, <1>6 DEF SuffixSei
<1>7. CASE WaitForHash
  BY <1>1, <1>7 DEF WaitForHash
<1>8. CASE GetNextDecodable
  <2>1. CASE parseList = <<>>
    <3>1. PICK v : v = IF main.pc = "next" /\ main.cur = NoPic THEN "output" ELSE "null"
      OBVIOUS
    <3>2. main' = [main EXCEPT !.pc = v]
      BY <1>8, <2>1, <3>1 DEF GetNextDecodable
    <3>3. main'.pc = v
      BY <1>1, <3>2, Zenon
    <3> QED
      BY <1>8, <3>1, <3>3 DEF GetNextDecodable
  <2>2. CASE parseList # <<>>
    <3> DEFINE b == parseList[NextDecodable]
               exc == pic[b].parseDone = "error"
               broken == pic[b].error \/ pic[b].wasLost \/ exc
    <3>0. main' = [main EXCEPT !.cur = b, !.exc = exc,
                               !.pc = IF broken THEN "clean" ELSE "recon"]
      BY <1>8, <2>2, Zenon DEF GetNextDecodable
    <3>1. main'.pc = IF broken THEN "clean" ELSE "recon"
      <4> HIDE DEF b, exc, broken
      <4> QED
        BY <1>1, <3>0, Zenon
    <3> QED
      BY <1>8, <3>1 DEF GetNextDecodable
  <2> QED
    BY <2>1, <2>2
<1>9. CASE CleanUp
  <2>1. \/ main' = Idle \/ main' = [main EXCEPT !.pc = "next"]
        \/ main' = [main EXCEPT !.pc = "reported_before"]
    BY <1>9 DEF CleanUp
  <2>2. main.pc = "clean"
    BY <1>9 DEF CleanUp
  <2> QED
    BY <1>1, <2>1, <2>2, Zenon
<1>10. CASE WaitForPrev
  BY <1>1, <1>10 DEF WaitForPrev
<1>11. ASSUME NEW r \in Bufs, BorderExtPic(r)
       PROVE  main.pc # "eof" /\ main'.pc # "eof"
  <2>1. main' = main \/ main' = [main EXCEPT !.pc = "finish"]
    BY <1>11 DEF BorderExtPic, NotScheduled
  <2>2. main.pc = "ext"
    BY <1>11 DEF BorderExtPic
  <2> QED
    BY <1>1, <2>1, <2>2, Zenon
<1>12. CASE BorderExtFailed
  BY <1>1, <1>12 DEF BorderExtFailed, NotScheduled
<1>13. CASE Schedule
  BY <1>1, <1>13 DEF Schedule
<1>14. CASE FinishDone
  <2>1. \/ main' = Idle
        \/ \E v \in {"flushOut", "output"} :
             main' = [main EXCEPT !.pc = v, !.cur = NoPic, !.done = NoPic]
    BY <1>14 DEF FinishDone
  <2>2. main.pc = "finish"
    BY <1>14 DEF FinishDone
  <2>3. ASSUME NEW v \in {"flushOut", "output"},
               main' = [main EXCEPT !.pc = v, !.cur = NoPic, !.done = NoPic]
        PROVE  main'.pc = v
    BY <1>1, <2>3, Zenon
  <2>4. main'.pc # "eof"
    BY <1>1, <2>1, <2>3
  <2> QED
    BY <2>2, <2>4
<1>15. CASE Output
  BY <1>1, <1>15 DEF Output
<1>16. CASE Flush
  BY <1>1, <1>16 DEF Flush
<1>17. CASE FlushNext
  <2>1. \/ main' = Idle \/ main' = [main EXCEPT !.pc = "block"]
        \/ \E v : main' = [main EXCEPT !.cur = v, !.pc = "recon"]
    BY <1>17 DEF FlushNext
  <2>2. main.pc = "flushNext"
    BY <1>17 DEF FlushNext
  <2> QED
    BY <1>1, <2>1, <2>2, Zenon
<1>18. CASE FlushOut
  BY <1>1, <1>18 DEF FlushOut
<1>19. CASE BlockAndFinish
  <2>1. main' = Idle \/ main' = [main EXCEPT !.pc = "flushLast"] \/ main' = main
    BY <1>19 DEF BlockAndFinish
  <2>2. main.pc = "block"
    BY <1>19 DEF BlockAndFinish
  <2> QED
    BY <1>1, <2>1, <2>2, Zenon
<1>20. CASE FlushLast
  BY <1>1, <1>20 DEF FlushLast
<1> QED
  BY <1>2, <1>3, <1>4, <1>5, <1>6, <1>7, <1>8, <1>9, <1>10, <1>11, <1>12, <1>13,
     <1>14, <1>15, <1>16, <1>17, <1>18, <1>19, <1>20 DEF Main

LEMMA EofStep ==
  ASSUME IndInv, EofEmpty, [Next]_vars
  PROVE  EofEmpty'
<1>1. CASE Main
  <2>1. CASE FlushLast
    <3>1. parseList = <<>> /\ ToSet(instances) = {NoPic}
      BY <2>1 DEF IndInv, FlushLast, CallPlace
    <3>2. ToSet(parseList) = {}
      BY <3>1 DEF ToSet
    <3>3. UNCHANGED <<parseList, instances>>
      BY <2>1 DEF FlushLast
    <3> QED
      BY <3>1, <3>2, <3>3 DEF EofEmpty
  <2>2. CASE ~FlushLast
    BY <1>1, <2>2, MainEof DEF EofEmpty
  <2> QED
    BY <2>1, <2>2
<1>2. CASE LoseNal
  BY <1>2 DEF LoseNal, EofEmpty
<1>3. ASSUME NEW b \in Bufs, Release(b) PROVE EofEmpty'
  BY <1>3 DEF Release, EofEmpty, parserVars
<1>4. CASE Workers
  <2>1. UNCHANGED <<main, parseList, instances>>
    BY <1>4 DEF Workers, ParseSlice, Reconstruct, ExtendBorder, WorkerFrame, parserVars
  <2> QED
    BY <2>1 DEF EofEmpty
<1>5. CASE UNCHANGED vars
  BY <1>5 DEF vars, parserVars, EofEmpty
<1> QED
  BY <1>1, <1>2, <1>3, <1>4, <1>5 DEF Next, Terminated

\* The invariant of the front end in conforming streams in which only tasks of
\* the workers fail: DecLibParser, the parse list, DecLibRecon's instances and
\* the output keep the coding order, the counts and the order of the frames.
THEOREM FrontEndKept == Spec => []FrontEndInv
<1>1. Init => FrontEndInv
  <2>1. Init => IndInv /\ StreamInv
    BY InitInv, InitStream
  <2>2. Init => EofEmpty
    BY DEF Init, Idle, EofEmpty
  <2> QED
    BY <2>1, <2>2 DEF FrontEndInv
<1>2. FrontEndInv /\ [Next]_vars => FrontEndInv'
  <2> SUFFICES ASSUME FrontEndInv, [Next]_vars PROVE FrontEndInv'
    OBVIOUS
  <2>1. IndInv' /\ EofEmpty'
    BY NextStep, EofStep DEF FrontEndInv
  <2>2. Conforming' => StreamInv'
    BY StreamStep DEF FrontEndInv
  <2> QED
    BY <2>1, <2>2 DEF FrontEndInv
<1> QED
  BY <1>1, <1>2, PTL DEF Spec

\* getNextDecodablePicture() takes pictures out of coding order, but no picture
\* waits in m_parseFrameList while more than MAX_OUT_OF_ORDER_PICS behind it go
\* ahead.
THEOREM OvertakenBounded == Spec => [](Conforming => OvertakenAtMost)
<1>1. ASSUME IndInv, StreamInv, NEW b \in ToSet(parseList)
      PROVE  Cardinality(Overtaking(b)) <= MaxOutOfOrderPics
  <2>1. /\ TypeOK /\ AtNal /\ b \in Bufs /\ MaxOutOfOrderPics \in Nat
        /\ nal[1] \in Nat /\ LastBegun \in Nat /\ nal[1] - 1 <= LastBegun
        /\ pic[b].cts \in Int /\ pic[b].skippedDecCount \in Nat
    <3>1. TypeOK /\ AtNal
      BY <1>1 DEF IndInv, StreamInv, ParserInv
    <3>2. nal[1] \in Nat
      BY <3>1, NalIs
    <3>3. LastBegun \in Nat /\ nal[1] - 1 <= LastBegun
      BY <3>1, <3>2, NalIs DEF LastBegun
    <3> QED
      BY <1>1, <3>1, <3>2, <3>3, State, Fields, Constants
  <2>2. Overtaking(b) \subseteq Passed(b)
    BY <2>1 DEF Overtaking, Passed
  <2>3. IsFiniteSet(Passed(b)) /\ Cardinality(Passed(b)) \in Nat
    BY <2>1, PassedFinite
  <2>4. /\ Cardinality(Overtaking(b)) <= Cardinality(Passed(b))
        /\ Cardinality(Overtaking(b)) \in Nat
    BY <2>2, <2>3, FS_Subset, FS_CardinalityType
  <2>5. /\ pic[b].skippedDecCount <= MaxOutOfOrderPics
        /\ Cardinality(Passed(b)) <= pic[b].skippedDecCount
    BY <1>1 DEF StreamInv, OvertakenInv
  <2> QED
    BY <2>1, <2>3, <2>4, <2>5
<1>2. FrontEndInv => (Conforming => OvertakenAtMost)
  BY <1>1 DEF FrontEndInv, OvertakenAtMost
<1> QED
  BY <1>2, FrontEndKept, PTL

\* getNextOutputPic() shows the frames of a coded video sequence in the order of
\* their picture order counts, and the sequences one behind the other, although
\* the pictures are parsed, reconstructed and finished in other orders and some
\* of them fail.
THEOREM ShownInDisplayOrder == Spec => [](Conforming => OutputInOrder)
<1>1. FrontEndInv => (Conforming => OutputInOrder)
  BY DEF FrontEndInv, StreamInv, OrderInv
<1> QED
  BY <1>1, FrontEndKept, PTL

\* When flush() has reported the end of the stream, every picture that is to be
\* shown was given to the application.
THEOREM EverythingShown == Spec => [](Conforming => AllDelivered)
<1>1. FrontEndInv => (Conforming => AllDelivered)
  BY DEF FrontEndInv, StreamInv, OrderInv
<1> QED
  BY <1>1, FrontEndKept, PTL

\* The exception of a failed task leaves decode() and flush() once, but for the
\* slices that come in behind it and the wait for a picture hash.
THEOREM ReportedOnce == Spec => [](Conforming => ReportedAtMostOnce)
<1>1. ASSUME IndInv, StreamInv, NEW c \in DOMAIN reports
      PROVE  reports[c] <= (IF stream[c].slices > 2 THEN stream[c].slices - 1 ELSE 1)
                           + (IF stream[c].sei /\ ParseFrameDelay = 0 THEN 1 ELSE 0)
  <2>1. /\ TypeOK /\ c \in DOMAIN stream /\ stream[c].slices \in Nat \ {0}
        /\ reports[c] \in Nat
    BY <1>1, StreamIs, NatTypes DEF IndInv
  <2>2. reports[c] <= MostReports(c) + HashSeen(c)
    BY <1>1, <2>1 DEF StreamInv, ReportsInv
  <2>3. HashSeen(c) <= IF stream[c].sei /\ ParseFrameDelay = 0 THEN 1 ELSE 0
    BY DEF HashSeen
  <2>4. HashSeen(c) \in {0, 1} /\ MostReports(c) \in Int
    BY <2>1 DEF HashSeen, MostReports
  <2> QED
    BY <2>1, <2>2, <2>3, <2>4 DEF MostReports
<1>2. FrontEndInv => (Conforming => ReportedAtMostOnce)
  BY <1>1 DEF FrontEndInv, ReportedAtMostOnce
<1> QED
  BY <1>2, FrontEndKept, PTL

\* No failure is swallowed: at the end of the stream the exception of every
\* picture with an error was thrown out of decode() or flush().
THEOREM EveryFailureReported == Spec => [](Conforming => FailuresReported)
<1>1. ASSUME IndInv, EofEmpty, StreamInv, main.pc = "eof", NEW b \in InList,
             pic[b].error, pic[b].cts # 0
      PROVE  reports[pic[b].cts] >= 1
  <2>1. /\ TypeOK /\ b \in Bufs /\ b # NoPic /\ pic[b].progress \in 0..5 /\ ReportsTell(b)
    BY <1>1, State, Fields, Constants DEF IndInv, StreamInv, ReportsInv
  <2>2. b \notin InHand
    BY <1>1, <2>1 DEF EofEmpty, InHand, Waiting, InWork, IndInv, CallPlace
  <2>3. pic[b].progress = finished
    BY <1>1, <2>1, <2>2 DEF StreamInv, ParserInv, NobodyLost, Unfinished, finished
  <2> QED
    BY <1>1, <2>1, <2>3 DEF ReportsTell
<1>2. FrontEndInv => (Conforming => FailuresReported)
  BY <1>1 DEF FrontEndInv, FailuresReported
<1> QED
  BY <1>2, FrontEndKept, PTL

\* The decoder shows the frames of a conforming stream as FrameOrder says: in
\* display order, every one once, none before DecLib was given its picture, and
\* a frame is missing only where executePicDecoding() threw an exception out of
\* the flushPic() call that had chosen it.
THEOREM ShowsFramesSafely == Spec => (Conforming => ShowsFrames)
<1>1. Init => Frames!Init
  <2> SUFFICES ASSUME Init PROVE Frames!Init
    OBVIOUS
  <2>1. /\ nal = <<1, 1>> /\ list = <<>> /\ out = <<>> /\ main = Idle
        /\ reports = [c \in DOMAIN stream |-> 0]
    BY DEF Init
  <2>2. LastBegun = 0 /\ InList = {} /\ main.outPic = NoPic
    BY <2>1 DEF LastBegun, InList, ToSet, Idle
  <2>3. DOMAIN stream \subseteq Nat \ {0}
    BY InitInv, StreamIs DEF IndInv
  <2>4. Due = {c \in DOMAIN stream : stream[c].output}
    BY <2>2, <2>3 DEF Due, Pending
  <2> QED
    BY <2>1, <2>2, <2>4 DEF Frames!Init
<1>2. FrontEndInv /\ Conforming /\ [Next]_vars => [Frames!Next]_(Frames!vars)
  BY StreamStep DEF FrontEndInv, FrameStep
<1>3. [Next]_vars /\ Conforming => Conforming'
  BY ConformingStays
<1>4. Spec => []FrontEndInv
  BY FrontEndKept
<1>5. Spec => (Conforming => Frames!Spec)
  BY <1>1, <1>2, <1>3, <1>4, PTL DEF Spec, Frames!Spec
<1> QED
  BY <1>5 DEF ShowsFrames
=============================================================================
