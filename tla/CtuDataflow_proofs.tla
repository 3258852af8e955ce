------------------------- MODULE CtuDataflow_proofs -------------------------
(***************************************************************************)
(* The task schedule of CtuTasks implements the data flow of CtuDataflow,  *)
(* for pictures of any size and any number of threads: the conditions on   *)
(* the states of whole tasks imply what the kernels need CTU by CTU.       *)
(***************************************************************************)
EXTENDS CtuTasks_proofs

-----------------------------------------------------------------------------
(* CTU columns and the tasks they are in.                                  *)

LEMMA Division ==
  ASSUME NEW n \in Nat \ {0}, NEW c \in Nat
  PROVE  /\ c \div n \in Nat /\ c % n \in Nat /\ c % n < n
         /\ c = n * (c \div n) + (c % n)
BY SMTT(30)

LEMMA ProductGap ==
  ASSUME NEW n \in Nat \ {0}, NEW p \in Nat, NEW q \in Nat, p < q
  PROVE  n * p \in Nat /\ n * q \in Nat /\ n * p + n <= n * q
<1>1. (p + 1) * n <= q * n /\ p + 1 \in Nat /\ p + 1 <= q
  BY ProductMonotone
<1>2. (p + 1) * n = n * p + n /\ q * n = n * q
  OBVIOUS
<1>3. n * p \in Nat /\ n * q \in Nat
  OBVIOUS
<1> QED
  BY <1>1, <1>2, <1>3

LEMMA DivisionUnique ==
  ASSUME NEW n \in Nat \ {0}, NEW q \in Nat, NEW r \in Nat, r < n, NEW c \in Nat, c = n * q + r
  PROVE  c \div n = q /\ c % n = r
<1> DEFINE p == c \div n
           s == c % n
<1>1. /\ p \in Nat /\ s \in Nat /\ s < n
      /\ c = n * p + s
  BY Division
<1> HIDE DEF p, s
<1>2. n * p \in Nat /\ n * q \in Nat
  BY <1>1
<1>3. ~(p < q)
  <2> SUFFICES ASSUME p < q PROVE FALSE
    OBVIOUS
  <2>1. n * p + n <= n * q
    BY <1>1, ProductGap
  <2> QED
    BY <1>1, <1>2, <2>1
<1>4. ~(q < p)
  <2> SUFFICES ASSUME q < p PROVE FALSE
    OBVIOUS
  <2>1. n * q + n <= n * p
    BY <1>1, ProductGap
  <2> QED
    BY <1>1, <1>2, <2>1
<1>5. p = q
  BY <1>1, <1>3, <1>4
<1>6. s = r
  BY <1>1, <1>2, <1>5
<1> QED
  BY <1>5, <1>6 DEF p, s

\* The columns of the picture.
Columns == 0 .. WidthInCtus - 1
Col(c) == c \div numColPerTask
Pos(c) == c % numColPerTask

\* The position of a CTU in its task is inside the task's loop, also in the last
\* task of a line, which may be short.
LEMMA ColumnTask ==
  ASSUME NEW c \in Columns, NEW l \in Lines
  PROVE  /\ Col(c) \in Cols /\ Pos(c) \in Nat
         /\ Pos(c) < numCtus(<<l, Col(c)>>)
<1> DEFINE n == numColPerTask
           t == Col(c)
           k == Pos(c)
           q == WidthInCtus \div n
           r == WidthInCtus % n
<1>1. n \in Nat \ {0} /\ c \in Nat /\ c < WidthInCtus /\ WidthInCtus \in Nat
  BY ColPerTask, SizeAssumption DEF Columns
<1>2. t \in Nat /\ k \in Nat /\ k < n /\ c = n * t + k
  BY <1>1, Division DEF Col, Pos
<1>3. /\ q \in Nat /\ r \in Nat /\ r < n /\ WidthInCtus = n * q + r
      /\ numTasksPerLine = q + (IF r = 0 THEN 0 ELSE 1)
  BY <1>1, Division DEF numTasksPerLine
<1>4. ctuStart(<<l, t>>) = t * n
  BY DEF ctuStart
<1> HIDE DEF n, t, k, q, r
<1>5. n * t \in Nat /\ n * q \in Nat /\ t * n = n * t
  BY <1>1, <1>2, <1>3
<1>6. t < numTasksPerLine
  <2>1. CASE t < q
    BY <1>2, <1>3, <2>1
  <2>2. CASE t = q
    <3>1. r # 0
      BY <1>1, <1>2, <1>3, <1>5, <2>2
    <3> QED
      BY <1>2, <1>3, <2>2, <3>1
  <2>3. CASE q < t
    <3>1. n * q + n <= n * t
      BY <1>1, <1>2, <1>3, <2>3, ProductGap
    <3> QED
      BY <1>1, <1>2, <1>3, <1>5, <3>1
  <2> QED
    BY <1>2, <1>3, <2>1, <2>2, <2>3
<1>7. t \in Cols
  BY <1>2, <1>6, TaskGrid DEF Cols
<1>8. k < ctuEnd(<<l, t>>) - ctuStart(<<l, t>>)
  <2>1. ctuEnd(<<l, t>>) = AtMost(t * n + n, WidthInCtus)
    BY <1>4 DEF ctuEnd, n
  <2> QED
    BY <1>1, <1>2, <1>4, <1>5, <2>1 DEF AtMost
<1> QED
  BY <1>2, <1>7, <1>8 DEF numCtus, t, k

\* The next column is in the same task, or the first of the next one.
LEMMA NextColumn ==
  ASSUME NEW c \in Columns, c + 1 \in Columns
  PROVE  \/ Col(c + 1) = Col(c) /\ Pos(c + 1) = Pos(c) + 1
         \/ Col(c + 1) = Col(c) + 1 /\ Pos(c + 1) = 0
<1> DEFINE n == numColPerTask
           t == Col(c)
           k == Pos(c)
<1>1. n \in Nat \ {0} /\ c \in Nat
  BY ColPerTask, SizeAssumption DEF Columns
<1>2. t \in Nat /\ k \in Nat /\ k < n /\ c = n * t + k
  BY <1>1, Division DEF Col, Pos
<1> HIDE DEF n, t, k
<1>3. n * t \in Nat /\ n * (t + 1) = n * t + n
  BY <1>1, <1>2
<1>4. CASE k + 1 < n
  <2>1. c + 1 = n * t + (k + 1) /\ k + 1 \in Nat /\ c + 1 \in Nat
    BY <1>2, <1>3
  <2>2. (c + 1) \div n = t /\ (c + 1) % n = k + 1
    <3> DEFINE d == c + 1
               e == k + 1
    <3>1. d \in Nat /\ e \in Nat /\ e < n /\ d = n * t + e
      BY <1>4, <2>1
    <3> HIDE DEF d, e
    <3>2. d \div n = t /\ d % n = e
      BY <1>1, <1>2, <3>1, DivisionUnique
    <3> QED
      BY <3>2 DEF d, e
  <2> QED
    BY <2>2 DEF Col, Pos, n, t, k
<1>5. CASE k + 1 = n
  <2>1. c + 1 = n * (t + 1) + 0 /\ t + 1 \in Nat /\ c + 1 \in Nat
    BY <1>1, <1>2, <1>3, <1>5
  <2>2. (c + 1) \div n = t + 1 /\ (c + 1) % n = 0
    <3> DEFINE d == c + 1
               u == t + 1
    <3>1. d \in Nat /\ u \in Nat /\ 0 \in Nat /\ 0 < n /\ d = n * u + 0
      BY <1>1, <2>1
    <3> HIDE DEF d, u
    <3>2. d \div n = u /\ d % n = 0
      BY <1>1, <3>1, DivisionUnique
    <3> QED
      BY <3>2 DEF d, u
  <2> QED
    BY <2>2 DEF Col, Pos, n, t, k
<1> QED
  BY <1>1, <1>2, <1>4, <1>5

\* A line ends in its last task.
LEMMA LastColumn == WidthInCtus - 1 \in Columns /\ Col(WidthInCtus - 1) = LastCol
<1> DEFINE n == numColPerTask
           q == WidthInCtus \div n
           r == WidthInCtus % n
<1>1. n \in Nat \ {0} /\ WidthInCtus \in Nat \ {0} /\ WidthInCtus - 1 \in Nat
  BY ColPerTask, SizeAssumption
<1>2. /\ q \in Nat /\ r \in Nat /\ r < n /\ WidthInCtus = n * q + r
      /\ numTasksPerLine = q + (IF r = 0 THEN 0 ELSE 1)
  BY <1>1, Division DEF numTasksPerLine
<1> HIDE DEF n, q, r
<1>3. CASE r > 0
  <2>1. WidthInCtus - 1 = n * q + (r - 1) /\ r - 1 \in Nat /\ r - 1 < n
    BY <1>1, <1>2, <1>3
  <2>2. (WidthInCtus - 1) \div n = q
    <3> DEFINE d == WidthInCtus - 1
               e == r - 1
    <3>1. d \in Nat /\ e \in Nat /\ e < n /\ d = n * q + e
      BY <1>1, <2>1
    <3> HIDE DEF d, e
    <3>2. d \div n = q
      BY <1>1, <1>2, <3>1, DivisionUnique
    <3> QED
      BY <3>2 DEF d
  <2> QED
    BY <1>1, <1>2, <1>3, <2>2 DEF Col, n, LastCol, Columns
<1>4. CASE r = 0
  <2>1. q # 0
    <3>1. n * 0 = 0
      BY <1>1
    <3> QED
      BY <1>1, <1>2, <1>4, <3>1
  <2>2. q - 1 \in Nat /\ n - 1 \in Nat /\ n * q = n * (q - 1) + n /\ n * (q - 1) \in Nat
    BY <1>1, <1>2, <2>1
  <2>3. WidthInCtus - 1 = n * (q - 1) + (n - 1) /\ n - 1 < n
    BY <1>1, <1>2, <1>4, <2>2
  <2>4. (WidthInCtus - 1) \div n = q - 1
    <3> DEFINE d == WidthInCtus - 1
               e == n - 1
               f == q - 1
    <3>1. d \in Nat /\ e \in Nat /\ f \in Nat /\ e < n /\ d = n * f + e
      BY <1>1, <2>2, <2>3
    <3> HIDE DEF d, e, f
    <3>2. d \div n = f
      BY <1>1, <3>1, DivisionUnique
    <3> QED
      BY <3>2 DEF d, f
  <2> QED
    BY <1>1, <1>2, <1>4, <2>4 DEF Col, n, LastCol, Columns
<1> QED
  BY <1>2, <1>3, <1>4
-----------------------------------------------------------------------------
(* Jobs, and where their tasks are.                                        *)

LEMMA JobShape ==
  /\ Dataflow!Jobs = DfJobs!Jobs
  /\ \A j \in DfJobs!Jobs :
       /\ j[1] \in DfJobs!Kernels /\ j[2] \in Lines /\ j[3] \in Columns
       /\ j[1] = "presao" => j[3] = WidthInCtus - 1
       /\ j[1] \in {"alfPrep", "alf"} => DoALF
BY DEF Dataflow!Jobs, DfJobs!Jobs, Dataflow!Kernels, DfJobs!Kernels, Lines, Columns

\* The job of a CTU.
LEMMA JobTask ==
  ASSUME NEW j \in DfJobs!Jobs
  PROVE  /\ TaskOf(j) = <<j[2], Col(j[3])>> /\ TaskOf(j) \in Tasks
         /\ Pos(j[3]) \in Nat /\ Pos(j[3]) < numCtus(TaskOf(j))
         /\ numCtus(TaskOf(j)) \in Nat
         /\ IterationOf(j) \in Nat
         /\ j[1] \notin {"presao", "alfPrep"} => IterationOf(j) = Pos(j[3])
         /\ j[1] = "presao" => IterationOf(j) = 0 /\ Col(j[3]) = LastCol
         /\ j[1] = "alfPrep" => IterationOf(j) = numCtus(TaskOf(j)) + Pos(j[3])
<1>1. j[2] \in Lines /\ j[3] \in Columns /\ (j[1] = "presao" => j[3] = WidthInCtus - 1)
  BY JobShape
<1>2. TaskOf(j) = <<j[2], Col(j[3])>>
  BY DEF TaskOf, Col
<1>3. Col(j[3]) \in Cols /\ Pos(j[3]) \in Nat /\ Pos(j[3]) < numCtus(<<j[2], Col(j[3])>>)
  BY <1>1, ColumnTask
<1>4. TaskOf(j) \in Tasks
  BY <1>1, <1>2, <1>3 DEF Tasks
<1>5. numCtus(TaskOf(j)) \in Nat
  BY <1>4, TaskSize
<1> QED
  BY <1>1, <1>2, <1>3, <1>4, <1>5, LastColumn DEF IterationOf, Pos

\* The states of a task in which it works on a kernel.
First(k) == FirstState[k]
Last(k) == LastState[k]
LEMMA States ==
  /\ First("mider") = 0   /\ Last("mider") = 1
  /\ First("lfInit") = 2  /\ Last("lfInit") = 2
  /\ First("inter") = 3   /\ Last("inter") = 3
  /\ First("intra") = 4   /\ Last("intra") = 5
  /\ First("rsp") = 6     /\ Last("rsp") = 6
  /\ First("lfVer") = 7   /\ Last("lfVer") = 8
  /\ First("lfHor") = 9   /\ Last("lfHor") = 9
  /\ First("presao") = 10 /\ Last("presao") = 10
  /\ First("sao") = 11    /\ Last("sao") = 12
  /\ First("alfPrep") = 11 /\ Last("alfPrep") = 12
  /\ First("alf") = 13    /\ Last("alf") = 13
BY DEF First, Last, FirstState, LastState, MIDER, MIDER_cont, LF_INIT, INTER, INTRA, INTRA_cont,
       RSP, LF_V, LF_V_cont, LF_H, PRESAO, SAO, SAO_cont, ALF, DONE

LEMMA KernelRange ==
  \A k \in DfJobs!Kernels : First(k) \in Nat /\ Last(k) \in Nat /\ First(k) <= Last(k)
BY States DEF DfJobs!Kernels

LEMMA StatusOf ==
  ASSUME TypeOK, NEW j \in DfJobs!Jobs
  PROVE  /\ JobStatus(j) \in {"idle", "running", "done"}
         /\ JobStatus(j) = "done" <=> JobOver(j)
         /\ JobStatus(j) = "running" <=> JobInWork(j)
<1> DEFINE s == ctuState[TaskOf(j)]
           i == ctu[TaskOf(j)]
           m == IterationOf(j)
           a == First(j[1])
           b == Last(j[1])
<1>1. a \in Nat /\ b \in Nat /\ a <= b
  BY KernelRange, JobShape
<1>2. s \in Int /\ i \in Nat /\ m \in Nat
  BY JobTask, TaskStates DEF TypeOK
<1>3. JobOver(j) <=> s > b \/ (s >= a /\ i > m)
  BY DEF JobOver, First, Last
<1>4. JobInWork(j) <=> s >= a /\ s <= b /\ i = m /\ phase[TaskOf(j)] = "kernel"
  BY DEF JobInWork, First, Last
<1> HIDE DEF s, i, m, a, b
<1>5. ~(JobOver(j) /\ JobInWork(j))
  BY <1>1, <1>2, <1>3, <1>4
<1> QED
  BY <1>5 DEF JobStatus
-----------------------------------------------------------------------------
(* What the conditions say about the states of a task's neighbours.        *)

\* What a task has passed it was ready for, and still is.
LEMMA ReadyBelow ==
  ASSUME IndInv, NEW x \in Tasks, NEW s \in TaskType,
         ctuState[x] > s \/ (ctuState[x] = s /\ phase[x] = "kernel")
  PROVE  StageReady(s, x)
BY DEF IndInv, GuardsPersist, StageOf

LEMMA ReadyFor ==
  ASSUME IndInv, NEW x \in Tasks
  PROVE  LET in == phase[x] = "kernel"  s == ctuState[x] IN
         /\ s \in Int
         /\ s > 0 \/ in => MiderReady(x)
         /\ s > 4 \/ (s = 4 /\ in) => IntraReady(x)
         /\ s > 6 \/ (s = 6 /\ in) => RspReady(x)
         /\ s > 7 \/ (s = 7 /\ in) => LfVReady(x)
         /\ s > 9 \/ (s = 9 /\ in) => LfHReady(x)
         /\ s > 10 \/ (s = 10 /\ in) => PresaoReady(x)
         /\ s > 13 \/ (s = 13 /\ in) => AlfReady(x)
<1> USE DEF MIDER, INTER, INTRA, RSP, LF_V, LF_H, PRESAO, ALF
<1>1. ctuState[x] \in Int /\ ctuState[x] >= 0
  BY TaskStates DEF IndInv, TaskType
<1>2. \A s \in {0, 3, 4, 6, 7, 9, 10, 13} : s \in TaskType
  BY DEF TaskType, DONE
<1>3. /\ StageReady(0, x) <=> MiderReady(x)
      /\ StageReady(4, x) <=> IntraReady(x)
      /\ StageReady(6, x) <=> RspReady(x)
      /\ StageReady(7, x) <=> LfVReady(x)
      /\ StageReady(9, x) <=> LfHReady(x)
      /\ StageReady(10, x) <=> PresaoReady(x)
      /\ StageReady(13, x) <=> AlfReady(x)
  BY DEF StageReady
<1>4. \A s \in {0, 3, 4, 6, 7, 9, 10, 13} :
        ctuState[x] > s \/ (ctuState[x] = s /\ phase[x] = "kernel") => StageReady(s, x)
  BY <1>2, ReadyBelow
<1> QED
  BY <1>1, <1>3, <1>4

\* The three tasks above: the one to the right is named by the condition, it has
\* waited for the others.
LEMMA MiderAbove ==
  ASSUME IndInv, NEW x \in Tasks, MiderReady(x), NotTop(x)
  PROVE  /\ St(x[1] - 1, x[2]) > 1
         /\ NotLeft(x) => St(x[1] - 1, x[2] - 1) > 1
         /\ NotRight(x) => St(x[1] - 1, x[2] + 1) > 0
<1> DEFINE u == <<x[1] - 1, x[2]>>
           r == <<x[1] - 1, x[2] + 1>>
<1> USE DEF MIDER, MIDER_cont
<1>1. u \in Tasks /\ (NotRight(x) => r \in Tasks)
  BY Grid DEF Tasks
<1>2. x[2] \in Nat
  BY Grid DEF Cols
<1>3. NotRight(x) => MiderReady(r) /\ NotLeft(r)
  BY <1>1, <1>2, ReadyFor DEF MiderReady, St, NotLeft
<1>4. ctuState[u] > 1
  BY <1>2, <1>3 DEF MiderReady, St
<1>5. MiderReady(u)
  BY <1>1, <1>4, ReadyFor
<1> QED
  BY <1>4, <1>5 DEF MiderReady, St, NotLeft

LEMMA IntraAbove ==
  ASSUME IndInv, NEW x \in Tasks, IntraReady(x), NotTop(x)
  PROVE  /\ St(x[1] - 1, x[2]) > 5
         /\ NotLeft(x) => St(x[1] - 1, x[2] - 1) > 5
         /\ NotRight(x) => St(x[1] - 1, x[2] + 1) > 4
<1> DEFINE u == <<x[1] - 1, x[2]>>
           r == <<x[1] - 1, x[2] + 1>>
<1> USE DEF INTRA, INTRA_cont
<1>1. u \in Tasks /\ (NotRight(x) => r \in Tasks)
  BY Grid DEF Tasks
<1>2. x[2] \in Nat
  BY Grid DEF Cols
<1>3. NotRight(x) => IntraReady(r) /\ NotLeft(r)
  BY <1>1, <1>2, ReadyFor DEF IntraReady, St, NotLeft
<1>4. ctuState[u] > 5
  BY <1>2, <1>3 DEF IntraReady, St
<1>5. IntraReady(u)
  BY <1>1, <1>4, ReadyFor
<1> QED
  BY <1>4, <1>5 DEF IntraReady, St, NotLeft

\* The three tasks below one that may map its samples.
LEMMA RspBelow ==
  ASSUME IndInv, NEW x \in Tasks, RspReady(x), NotBottom(x)
  PROVE  /\ St(x[1] + 1, x[2]) > 5
         /\ NotLeft(x) => St(x[1] + 1, x[2] - 1) > 5
         /\ NotRight(x) => St(x[1] + 1, x[2] + 1) > 4
<1> DEFINE u == <<x[1] + 1, x[2]>>
<1> USE DEF INTRA, INTRA_cont, RSP
<1>1. u \in Tasks /\ (NotRight(x) => <<x[1] + 1, x[2] + 1>> \in Tasks)
  BY Grid DEF Tasks
<1>2. ctuState[u] >= 6 /\ ctuState[u] \in Int
  BY <1>1, ReadyFor DEF RspReady, St
<1>3. IntraReady(u)
  BY <1>1, <1>2, ReadyFor
<1>4. NotRight(x) => ctuState[<<x[1] + 1, x[2] + 1>>] \in Int
  BY <1>1, ReadyFor
<1> QED
  BY <1>2, <1>3, <1>4 DEF IntraReady, RspReady, St, NotLeft

\* The line of a task that is past PRESAO, and the one above, are prepared.
LEMMA PresaoPassed ==
  ASSUME IndInv, NEW x \in Tasks, ctuState[x] > 10
  PROVE  /\ St(x[1], LastCol) > 10
         /\ NotTop(x) => St(x[1] - 1, LastCol) > 10
<1> DEFINE y == <<x[1], LastCol>>
<1> USE DEF PRESAO
<1>1. y \in Tasks /\ y[1] = x[1] /\ y[2] = LastCol /\ x = <<x[1], x[2]>>
  BY Grid DEF Tasks
<1>2. ctuState[y] > 10
  <2>1. CASE x[2] = LastCol
    BY <1>1, <2>1
  <2>2. CASE x[2] # LastCol
    BY <2>2, ReadyFor DEF PresaoReady, St
  <2> QED
    BY <2>1, <2>2
<1>3. PresaoReady(y)
  BY <1>1, <1>2, ReadyFor
<1> QED
  BY <1>1, <1>2, <1>3 DEF PresaoReady, St, NotTop
-----------------------------------------------------------------------------
(* From tasks to CTUs.                                                     *)

\* The state of the task of a job.
JobSt(j) == St(j[2], Col(j[3]))

LEMMA JobStIs ==
  ASSUME IndInv, NEW j \in DfJobs!Jobs
  PROVE  /\ JobSt(j) = ctuState[TaskOf(j)] /\ JobSt(j) \in Int
         /\ ctu[TaskOf(j)] \in Nat
BY JobTask, TaskStates DEF JobSt, St, IndInv, TypeOK

\* A job is over when its task is past the kernel, ...
LEMMA PastKernel ==
  ASSUME IndInv, NEW p \in DfJobs!Jobs, JobSt(p) > Last(p[1]) PROVE JobOver(p)
BY JobStIs DEF JobOver, Last

\* ... the first one of a task when its _cont state is published, ...
LEMMA FirstOver ==
  ASSUME IndInv, NEW p \in DfJobs!Jobs, Pos(p[3]) = 0,
         p[1] \in {"mider", "intra", "lfVer", "sao", "alfPrep"}, JobSt(p) >= Last(p[1])
  PROVE  JobOver(p)
<1> USE DEF MIDER_cont, INTRA_cont, LF_V_cont, SAO_cont
<1>1. TaskOf(p) \in Tasks /\ JobSt(p) = ctuState[TaskOf(p)] /\ JobSt(p) \in Int
  BY JobTask, JobStIs
<1>2. CASE JobSt(p) > Last(p[1])
  BY <1>2, PastKernel
<1>3. CASE JobSt(p) = Last(p[1])
  <2>1. JobSt(p) >= First(p[1])
    BY <1>1, <1>3, States
  <2>2. ctu[TaskOf(p)] > IterationOf(p)
    <3>1. p[1] \in {"mider", "intra", "lfVer"} => ctu[TaskOf(p)] > 0 /\ IterationOf(p) = 0
      BY <1>1, <1>3, States, JobTask DEF IndInv, ContBegun
    <3>2. p[1] \in {"sao", "alfPrep"} =>
            ctu[TaskOf(p)] > numCtus(TaskOf(p)) /\ IterationOf(p) <= numCtus(TaskOf(p))
      <4> SUFFICES ASSUME p[1] \in {"sao", "alfPrep"}
                   PROVE  ctu[TaskOf(p)] > numCtus(TaskOf(p)) /\ IterationOf(p) <= numCtus(TaskOf(p))
        OBVIOUS
      <4>1. ctuState[TaskOf(p)] = 12
        BY <1>1, <1>3, States
      <4>2. ctu[TaskOf(p)] > numCtus(TaskOf(p))
        BY <1>1, <4>1 DEF IndInv, ContBegun
      <4>3. numCtus(TaskOf(p)) \in Nat /\ (IterationOf(p) = 0 \/ IterationOf(p) = numCtus(TaskOf(p)) + 0)
        BY JobTask
      <4> QED
        BY <4>2, <4>3
    <3>3. ctu[TaskOf(p)] \in Nat /\ IterationOf(p) \in Nat /\ numCtus(TaskOf(p)) \in Nat
      BY JobTask, JobStIs
    <3>4. CASE p[1] \in {"mider", "intra", "lfVer"}
      BY <3>1, <3>4
    <3>5. CASE p[1] \in {"sao", "alfPrep"}
      BY <3>2, <3>3, <3>5
    <3> QED
      BY <3>4, <3>5
  <2> QED
    BY <1>1, <2>1, <2>2 DEF JobOver, First
<1> QED
  BY <1>1, <1>2, <1>3, KernelRange, JobShape

\* ... and one to the left in the same task, when the task works on this one.
LEMMA LeftOver ==
  ASSUME IndInv, NEW p \in DfJobs!Jobs, NEW j \in DfJobs!Jobs, JobInWork(j),
         p[1] = j[1], p[1] \in {"mider", "intra"}, TaskOf(p) = TaskOf(j), Pos(p[3]) < Pos(j[3])
  PROVE  JobOver(p)
<1>1. IterationOf(p) = Pos(p[3]) /\ IterationOf(j) = Pos(j[3])
  BY JobTask
<1> QED
  BY <1>1 DEF JobInWork, JobOver

\* The columns of a job and of its task are numbers.
LEMMA JobColumns ==
  ASSUME NEW j \in DfJobs!Jobs
  PROVE  /\ j[2] \in Lines /\ j[2] \in Int /\ j[3] \in Columns /\ j[3] \in Int
         /\ Col(j[3]) \in Nat /\ Col(j[3]) < numTasksPerLine /\ numTasksPerLine \in Nat
         /\ Pos(j[3]) \in Nat
<1>1. j[2] \in Lines /\ j[3] \in Columns
  BY JobShape
<1>2. Col(j[3]) \in Cols /\ Pos(j[3]) \in Nat
  BY <1>1, ColumnTask
<1> QED
  BY <1>1, <1>2, TaskGrid, SizeAssumption DEF Lines, Columns, Cols

\* The columns of two neighbours.
LEMMA LeftTask ==
  ASSUME NEW p \in DfJobs!Jobs, NEW j \in DfJobs!Jobs, p[3] = j[3] - 1
  PROVE  \/ Col(p[3]) = Col(j[3]) /\ Pos(j[3]) = Pos(p[3]) + 1 /\ Pos(p[3]) < Pos(j[3])
         \/ Col(p[3]) = Col(j[3]) - 1 /\ Col(j[3]) > 0 /\ Pos(j[3]) = 0
<1>1. p[3] \in Columns /\ j[3] \in Columns /\ j[3] = p[3] + 1
  BY JobShape DEF Columns
<1>2. Col(p[3]) \in Nat /\ Pos(p[3]) \in Nat
  BY JobColumns
<1>3. Col(j[3]) \in Nat
  BY JobColumns
<1> QED
  BY <1>1, <1>2, <1>3, NextColumn

LEMMA NeighbourTask ==
  ASSUME NEW p \in DfJobs!Jobs, NEW j \in DfJobs!Jobs, p[3] \in {j[3] - 1, j[3], j[3] + 1}
  PROVE  \/ Col(p[3]) = Col(j[3])
         \/ Col(p[3]) = Col(j[3]) - 1
         \/ Col(p[3]) = Col(j[3]) + 1 /\ Pos(p[3]) = 0
<1>1. p[3] = j[3] + 1 => j[3] = p[3] - 1
  BY JobColumns
<1>2. Col(j[3]) = Col(p[3]) - 1 => Col(p[3]) = Col(j[3]) + 1
  BY JobColumns
<1> QED
  BY <1>1, <1>2, LeftTask

\* The state of a running job's task, and what its task is ready for.
LEMMA Working ==
  ASSUME IndInv, NEW j \in DfJobs!Jobs, JobInWork(j)
  PROVE  LET x == TaskOf(j) IN
         /\ x \in Tasks /\ x[1] = j[2] /\ x[2] = Col(j[3])
         /\ JobSt(j) >= First(j[1]) /\ JobSt(j) <= Last(j[1]) /\ JobSt(j) \in Int
         /\ ctuState[x] = JobSt(j) /\ phase[x] = "kernel" /\ ctu[x] = IterationOf(j)
BY JobTask, JobStIs DEF JobInWork, First, Last
-----------------------------------------------------------------------------
(* Every input of a running job is over, kernel by kernel.                 *)

\* The positions that two jobs can have to each other.
LEMMA CausalIs ==
  ASSUME NEW p \in DfJobs!Jobs, NEW j \in DfJobs!Jobs, Dataflow!Causal(p, j)
  PROVE  \/ p[2] = j[2] /\ p[3] = j[3] - 1
         \/ p[2] = j[2] - 1 /\ p[3] \in {j[3] - 1, j[3], j[3] + 1}
<1>1. j[2] \in Int /\ j[3] \in Int /\ p[3] \in Int
  BY JobColumns
<1>2. CASE Dataflow!At(p, j, 0, -1)
  BY <1>1, <1>2 DEF Dataflow!At
<1>3. CASE p[2] = j[2] - 1 /\ p[3] \in (j[3] - 1) .. (j[3] + 1)
  BY <1>1, <1>3
<1> QED
  BY <1>2, <1>3 DEF Dataflow!Causal

LEMMA MiderCausal ==
  ASSUME IndInv, NEW j \in DfJobs!Jobs, NEW p \in DfJobs!Jobs,
         JobInWork(j), j[1] = "mider", Dataflow!MiderAfter(p, j)
  PROVE  JobOver(p)
<1> DEFINE x == TaskOf(j)
<1> USE DEF MIDER_cont
<1>1. /\ x \in Tasks /\ x[1] = j[2] /\ x[2] = Col(j[3]) /\ MiderReady(x)
  BY Working, ReadyFor, States
<1>2. /\ p[1] = "mider" /\ p[2] \in Lines /\ j[2] \in Lines
      /\ Col(p[3]) \in Nat /\ Col(j[3]) \in Nat /\ Col(p[3]) < numTasksPerLine
      /\ \/ p[2] = j[2] /\ p[3] = j[3] - 1
         \/ p[2] = j[2] - 1 /\ p[3] \in {j[3] - 1, j[3], j[3] + 1}
  BY JobColumns, CausalIs DEF Dataflow!MiderAfter
<1>3. CASE p[2] = j[2] /\ p[3] = j[3] - 1
  <2>1. CASE Col(p[3]) = Col(j[3]) /\ Pos(p[3]) < Pos(j[3])
    BY <1>2, <1>3, <2>1, JobTask, LeftOver
  <2>2. CASE Col(p[3]) = Col(j[3]) - 1 /\ Col(j[3]) > 0
    <3>1. JobSt(p) > 1
      BY <1>1, <1>3, <2>2 DEF MiderReady, NotLeft, JobSt
    <3> QED
      BY <1>2, <3>1, PastKernel, States
  <2> QED
    BY <1>3, <2>1, <2>2, LeftTask
<1>4. CASE p[2] = j[2] - 1
  <2>1. NotTop(x)
    BY <1>1, <1>2, <1>4 DEF NotTop, Lines
  <2>2. /\ St(x[1] - 1, x[2]) > 1
        /\ NotLeft(x) => St(x[1] - 1, x[2] - 1) > 1
        /\ NotRight(x) => St(x[1] - 1, x[2] + 1) > 0
    BY <1>1, <2>1, MiderAbove
  <2>3. CASE Col(p[3]) = Col(j[3])
    BY <1>1, <1>2, <1>4, <2>2, <2>3, PastKernel, States DEF JobSt
  <2>4. CASE Col(p[3]) = Col(j[3]) - 1
    BY <1>1, <1>2, <1>4, <2>2, <2>4, PastKernel, States DEF JobSt, NotLeft
  <2>5. CASE Col(p[3]) = Col(j[3]) + 1 /\ Pos(p[3]) = 0
    <3>1. JobSt(p) > 0 /\ JobSt(p) \in Int
      BY <1>1, <1>2, <1>4, <2>2, <2>5, JobStIs DEF JobSt, NotRight
    <3> QED
      BY <1>2, <2>5, <3>1, FirstOver, States
  <2> QED
    BY <1>2, <1>4, <2>3, <2>4, <2>5, NeighbourTask, JobColumns
<1> QED
  BY <1>2, <1>3, <1>4

LEMMA LfInitCausal ==
  ASSUME IndInv, NEW j \in DfJobs!Jobs, NEW p \in DfJobs!Jobs,
         JobInWork(j), j[1] = "lfInit", Dataflow!LfInitAfter(p, j)
  PROVE  JobOver(p)
<1> DEFINE x == TaskOf(j)
<1> USE DEF MIDER_cont
<1>1. /\ x \in Tasks /\ x[1] = j[2] /\ x[2] = Col(j[3]) /\ MiderReady(x) /\ JobSt(j) > 1
  BY Working, ReadyFor, States
<1>2. /\ p[1] = "mider" /\ p[2] \in Int /\ j[2] \in Int /\ p[3] \in Int /\ j[3] \in Int
      /\ p[2] \in Lines /\ j[2] \in Lines
  BY JobColumns DEF Dataflow!LfInitAfter
<1>3. \/ p[2] = j[2] /\ p[3] = j[3]
      \/ p[2] = j[2] /\ p[3] = j[3] - 1
      \/ p[2] = j[2] - 1 /\ p[3] = j[3]
  BY <1>2 DEF Dataflow!LfInitAfter, Dataflow!SameCtu, Dataflow!At
<1>4. CASE p[2] = j[2] /\ Col(p[3]) = Col(j[3])
  BY <1>1, <1>2, <1>4, PastKernel, States DEF JobSt
<1>5. CASE p[2] = j[2] /\ p[3] = j[3] - 1 /\ Col(p[3]) = Col(j[3]) - 1 /\ Col(j[3]) > 0
  <2>1. JobSt(p) > 1
    BY <1>1, <1>5 DEF MiderReady, NotLeft, JobSt
  <2> QED
    BY <1>2, <2>1, PastKernel, States
<1>6. CASE p[2] = j[2] - 1 /\ p[3] = j[3]
  <2>1. NotTop(x)
    BY <1>1, <1>2, <1>6 DEF NotTop, Lines
  <2>2. JobSt(p) > 1
    BY <1>1, <1>6, <2>1, MiderAbove DEF JobSt
  <2> QED
    BY <1>2, <2>2, PastKernel, States
<1> QED
  BY <1>3, <1>4, <1>5, <1>6, LeftTask

LEMMA InterCausal ==
  ASSUME IndInv, NEW j \in DfJobs!Jobs, NEW p \in DfJobs!Jobs,
         JobInWork(j), j[1] = "inter", Dataflow!InterAfter(p, j)
  PROVE  JobOver(p)
<1>1. p[1] = "lfInit" /\ p[2] = j[2] /\ p[3] = j[3]
  BY JobColumns DEF Dataflow!InterAfter, Dataflow!SameCtu, Dataflow!At
<1>2. JobSt(p) > 2
  BY <1>1, Working, States DEF JobSt
<1> QED
  BY <1>1, <1>2, PastKernel, States

LEMMA IntraCausal ==
  ASSUME IndInv, NEW j \in DfJobs!Jobs, NEW p \in DfJobs!Jobs,
         JobInWork(j), j[1] = "intra", Dataflow!IntraAfter(p, j)
  PROVE  JobOver(p)
<1> DEFINE x == TaskOf(j)
<1> USE DEF INTRA_cont
<1>1. /\ x \in Tasks /\ x[1] = j[2] /\ x[2] = Col(j[3]) /\ IntraReady(x) /\ JobSt(j) > 3
  BY Working, ReadyFor, States
<1>2. CASE p[1] = "inter" /\ Dataflow!SameCtu(p, j)
  <2>1. p[2] = j[2] /\ p[3] = j[3]
    BY <1>2, JobColumns DEF Dataflow!SameCtu, Dataflow!At
  <2>2. JobSt(p) > 3
    BY <1>1, <2>1 DEF JobSt
  <2> QED
    BY <1>2, <2>2, PastKernel, States
<1>3. CASE p[1] = "intra" /\ Dataflow!Causal(p, j)
  <2>1. /\ p[1] = "intra" /\ p[2] \in Lines /\ j[2] \in Lines
        /\ Col(p[3]) \in Nat /\ Col(j[3]) \in Nat /\ Col(p[3]) < numTasksPerLine
        /\ \/ p[2] = j[2] /\ p[3] = j[3] - 1
           \/ p[2] = j[2] - 1 /\ p[3] \in {j[3] - 1, j[3], j[3] + 1}
    BY <1>3, JobColumns, CausalIs
  <2>2. CASE p[2] = j[2] /\ p[3] = j[3] - 1
    <3>1. CASE Col(p[3]) = Col(j[3]) /\ Pos(p[3]) < Pos(j[3])
      BY <2>1, <2>2, <3>1, JobTask, LeftOver
    <3>2. CASE Col(p[3]) = Col(j[3]) - 1 /\ Col(j[3]) > 0
      <4>1. JobSt(p) > 5
        BY <1>1, <2>2, <3>2 DEF IntraReady, NotLeft, JobSt
      <4> QED
        BY <2>1, <4>1, PastKernel, States
    <3> QED
      BY <2>2, <3>1, <3>2, LeftTask
  <2>3. CASE p[2] = j[2] - 1
    <3>1. NotTop(x)
      BY <1>1, <2>1, <2>3 DEF NotTop, Lines
    <3>2. /\ St(x[1] - 1, x[2]) > 5
          /\ NotLeft(x) => St(x[1] - 1, x[2] - 1) > 5
          /\ NotRight(x) => St(x[1] - 1, x[2] + 1) > 4
      BY <1>1, <3>1, IntraAbove
    <3>3. CASE Col(p[3]) = Col(j[3])
      BY <1>1, <2>1, <2>3, <3>2, <3>3, PastKernel, States DEF JobSt
    <3>4. CASE Col(p[3]) = Col(j[3]) - 1
      BY <1>1, <2>1, <2>3, <3>2, <3>4, PastKernel, States DEF JobSt, NotLeft
    <3>5. CASE Col(p[3]) = Col(j[3]) + 1 /\ Pos(p[3]) = 0
      <4>1. JobSt(p) > 4 /\ JobSt(p) \in Int
        BY <1>1, <2>1, <2>3, <3>2, <3>5, JobStIs DEF JobSt, NotRight
      <4> QED
        BY <2>1, <3>5, <4>1, FirstOver, States
    <3> QED
      BY <2>1, <2>3, <3>3, <3>4, <3>5, NeighbourTask, JobColumns
  <2> QED
    BY <2>1, <2>2, <2>3
<1> QED
  BY <1>2, <1>3 DEF Dataflow!IntraAfter

LEMMA RspCausal ==
  ASSUME IndInv, NEW j \in DfJobs!Jobs, NEW p \in DfJobs!Jobs,
         JobInWork(j), j[1] = "rsp", Dataflow!RspAfter(p, j)
  PROVE  JobOver(p)
<1> DEFINE x == TaskOf(j)
<1> USE DEF INTRA_cont
<1>1. /\ x \in Tasks /\ x[1] = j[2] /\ x[2] = Col(j[3]) /\ RspReady(x) /\ JobSt(j) > 5
  BY Working, ReadyFor, States
<1>2. /\ p[1] = "intra" /\ p[2] \in Lines /\ j[2] \in Lines /\ p[2] \in Int /\ j[2] \in Int
      /\ Col(p[3]) \in Nat /\ Col(j[3]) \in Nat /\ Col(p[3]) < numTasksPerLine
  BY JobColumns DEF Dataflow!RspAfter
<1>3. \/ p[2] = j[2] /\ p[3] \in {j[3], j[3] + 1}
      \/ p[2] = j[2] + 1 /\ p[3] \in {j[3] - 1, j[3], j[3] + 1}
  <2>1. CASE Dataflow!SameCtu(p, j)
    BY <2>1, JobColumns DEF Dataflow!SameCtu, Dataflow!At
  <2>2. CASE Dataflow!Causal(j, p)
    BY <2>2, CausalIs, JobColumns
  <2> QED
    BY <2>1, <2>2 DEF Dataflow!RspAfter
<1>4. CASE p[2] = j[2] /\ Col(p[3]) = Col(j[3])
  BY <1>1, <1>2, <1>4, PastKernel, States DEF JobSt
<1>5. CASE p[2] = j[2] /\ p[3] = j[3] + 1 /\ Col(p[3]) = Col(j[3]) + 1 /\ Pos(p[3]) = 0
  <2>1. JobSt(p) >= 5
    BY <1>1, <1>2, <1>5 DEF RspReady, NotRight, JobSt
  <2> QED
    BY <1>2, <1>5, <2>1, FirstOver, States
<1>6. CASE p[2] = j[2] + 1 /\ p[3] \in {j[3] - 1, j[3], j[3] + 1}
  <2>1. NotBottom(x)
    BY <1>1, <1>2, <1>6, SizeAssumption DEF NotBottom, Lines
  <2>2. /\ St(x[1] + 1, x[2]) > 5
        /\ NotLeft(x) => St(x[1] + 1, x[2] - 1) > 5
        /\ NotRight(x) => St(x[1] + 1, x[2] + 1) > 4
    BY <1>1, <2>1, RspBelow
  <2>3. CASE Col(p[3]) = Col(j[3])
    BY <1>1, <1>2, <1>6, <2>2, <2>3, PastKernel, States DEF JobSt
  <2>4. CASE Col(p[3]) = Col(j[3]) - 1
    BY <1>1, <1>2, <1>6, <2>2, <2>4, PastKernel, States DEF JobSt, NotLeft
  <2>5. CASE Col(p[3]) = Col(j[3]) + 1 /\ Pos(p[3]) = 0
    <3>1. JobSt(p) > 4 /\ JobSt(p) \in Int
      BY <1>1, <1>2, <1>6, <2>2, <2>5, JobStIs DEF JobSt, NotRight
    <3> QED
      BY <1>2, <2>5, <3>1, FirstOver, States
  <2> QED
    BY <1>6, <2>3, <2>4, <2>5, NeighbourTask
<1>7. p[3] = j[3] + 1 => j[3] = p[3] - 1
  BY JobColumns
<1>8. Col(j[3]) = Col(p[3]) - 1 => Col(p[3]) = Col(j[3]) + 1
  BY <1>2
<1> QED
  BY <1>3, <1>4, <1>5, <1>6, <1>7, <1>8, LeftTask

LEMMA LfVerCausal ==
  ASSUME IndInv, NEW j \in DfJobs!Jobs, NEW p \in DfJobs!Jobs,
         JobInWork(j), j[1] = "lfVer", Dataflow!LfVerAfter(p, j)
  PROVE  JobOver(p)
<1> DEFINE x == TaskOf(j)
<1>1. /\ x \in Tasks /\ x[1] = j[2] /\ x[2] = Col(j[3]) /\ LfVReady(x) /\ JobSt(j) > 6
  BY Working, ReadyFor, States
<1>2. /\ p[1] = "rsp" /\ p[2] = j[2]
      /\ p[3] = j[3] \/ p[3] = j[3] - 1
  BY JobColumns DEF Dataflow!LfVerAfter, Dataflow!SameCtu, Dataflow!At
<1>3. CASE Col(p[3]) = Col(j[3])
  BY <1>1, <1>2, <1>3, PastKernel, States DEF JobSt
<1>4. CASE Col(p[3]) = Col(j[3]) - 1 /\ Col(j[3]) > 0
  <2>1. JobSt(p) >= 7 /\ JobSt(p) \in Int
    BY <1>1, <1>2, <1>4, JobStIs DEF LfVReady, NotLeft, JobSt, LF_V
  <2> QED
    BY <1>2, <2>1, PastKernel, States
<1> QED
  BY <1>2, <1>3, <1>4, LeftTask

LEMMA LfHorCausal ==
  ASSUME IndInv, NEW j \in DfJobs!Jobs, NEW p \in DfJobs!Jobs,
         JobInWork(j), j[1] = "lfHor", Dataflow!LfHorAfter(p, j)
  PROVE  JobOver(p)
<1> DEFINE x == TaskOf(j)
<1> USE DEF LF_H, LF_V_cont
<1>1. /\ x \in Tasks /\ x[1] = j[2] /\ x[2] = Col(j[3]) /\ LfHReady(x) /\ JobSt(j) > 8
  BY Working, ReadyFor, States
<1>2. /\ p[1] = "lfVer" /\ p[2] \in Lines /\ j[2] \in Lines
      /\ Col(p[3]) \in Nat /\ Col(j[3]) \in Nat /\ Col(p[3]) < numTasksPerLine
      /\ JobSt(p) \in Int
  BY JobColumns, JobStIs DEF Dataflow!LfHorAfter
<1>3. p[2] \in {j[2] - 1, j[2]} /\ p[3] \in {j[3], j[3] + 1}
  BY JobColumns DEF Dataflow!LfHorAfter
<1>4. CASE Col(p[3]) = Col(j[3])
  <2>1. CASE p[2] = j[2]
    BY <1>1, <1>2, <1>4, <2>1, PastKernel, States DEF JobSt
  <2>2. CASE p[2] = j[2] - 1
    <3>1. JobSt(p) >= 9
      BY <1>1, <1>2, <1>4, <2>2 DEF LfHReady, NotTop, JobSt, Lines
    <3> QED
      BY <1>2, <3>1, PastKernel, States
  <2> QED
    BY <1>3, <2>1, <2>2
<1>5. CASE Col(p[3]) = Col(j[3]) + 1 /\ Pos(p[3]) = 0
  <2>1. NotRight(x)
    BY <1>1, <1>2, <1>5 DEF NotRight
  <2>2. JobSt(p) >= 8
    <3>1. CASE p[2] = j[2]
      BY <1>1, <1>2, <1>5, <2>1, <3>1 DEF LfHReady, JobSt
    <3>2. CASE p[2] = j[2] - 1
      BY <1>1, <1>2, <1>5, <2>1, <3>2 DEF LfHReady, NotTop, JobSt, Lines
    <3> QED
      BY <1>3, <3>1, <3>2
  <2> QED
    BY <1>2, <1>5, <2>2, FirstOver, States
<1>6. p[3] = j[3] + 1 => j[3] = p[3] - 1
  BY JobColumns
<1>7. Col(j[3]) = Col(p[3]) - 1 => Col(p[3]) = Col(j[3]) + 1
  BY <1>2
<1> QED
  BY <1>3, <1>4, <1>5, <1>6, <1>7, LeftTask

LEMMA PresaoCausal ==
  ASSUME IndInv, NEW j \in DfJobs!Jobs, NEW p \in DfJobs!Jobs,
         JobInWork(j), j[1] = "presao", Dataflow!PreSaoAfter(p, j)
  PROVE  JobOver(p)
<1> DEFINE x == TaskOf(j)
<1> USE DEF PRESAO
<1>1. /\ x \in Tasks /\ x[1] = j[2] /\ x[2] = LastCol /\ PresaoReady(x)
  BY Working, ReadyFor, States, JobTask
<1>2. /\ p[2] \in Lines /\ j[2] \in Lines /\ p[2] \in Int /\ j[2] \in Int
      /\ Col(p[3]) \in Cols /\ JobSt(p) \in Int
  BY JobColumns, JobStIs, JobShape, ColumnTask
<1>3. CASE p[1] = "lfHor" /\ p[2] \in j[2] .. (j[2] + 1)
  <2>1. p[2] = j[2] \/ (p[2] = j[2] + 1 /\ NotBottom(x))
    BY <1>1, <1>2, <1>3, SizeAssumption DEF NotBottom, Lines
  <2>2. JobSt(p) >= 10
    BY <1>1, <1>2, <2>1 DEF PresaoReady, JobSt
  <2> QED
    BY <1>2, <1>3, <2>2, PastKernel, States
<1>4. CASE p[1] = "presao" /\ p[2] = j[2] - 1
  <2>1. NotTop(x) /\ Col(p[3]) = LastCol
    BY <1>1, <1>2, <1>4, JobTask DEF NotTop, Lines
  <2>2. JobSt(p) > 10
    BY <1>1, <1>4, <2>1 DEF PresaoReady, JobSt
  <2> QED
    BY <1>4, <2>2, PastKernel, States
<1> QED
  BY <1>3, <1>4 DEF Dataflow!PreSaoAfter

LEMMA SaoCausal ==
  ASSUME IndInv, NEW j \in DfJobs!Jobs, NEW p \in DfJobs!Jobs,
         JobInWork(j), j[1] = "sao", Dataflow!SaoAfter(p, j)
  PROVE  JobOver(p)
<1> DEFINE x == TaskOf(j)
<1>1. /\ x \in Tasks /\ x[1] = j[2] /\ ctuState[x] > 10
  BY Working, States
<1>2. p[1] = "presao" /\ p[2] \in {j[2] - 1, j[2]} /\ p[2] \in Lines /\ j[2] \in Lines
  BY JobColumns DEF Dataflow!SaoAfter
<1>3. Col(p[3]) = LastCol /\ (p[2] = j[2] - 1 => NotTop(x))
  BY <1>1, <1>2, JobTask DEF NotTop, Lines
<1>4. JobSt(p) > 10
  BY <1>1, <1>2, <1>3, PresaoPassed DEF JobSt
<1> QED
  BY <1>2, <1>4, PastKernel, States

LEMMA AlfPrepCausal ==
  ASSUME IndInv, NEW j \in DfJobs!Jobs, NEW p \in DfJobs!Jobs,
         JobInWork(j), j[1] = "alfPrep", Dataflow!AlfPrepAfter(p, j)
  PROVE  JobOver(p)
<1>1. p[1] = "sao" /\ p[2] = j[2] /\ p[3] = j[3]
  BY JobColumns DEF Dataflow!AlfPrepAfter, Dataflow!SameCtu, Dataflow!At
<1>2. TaskOf(p) = TaskOf(j) /\ JobSt(j) >= 11 /\ JobSt(j) = ctuState[TaskOf(j)]
      /\ ctu[TaskOf(j)] = IterationOf(j)
  BY <1>1, Working, States DEF TaskOf
<1>3. ctu[TaskOf(p)] > IterationOf(p)
  <2>1. /\ IterationOf(p) = Pos(j[3]) /\ Pos(j[3]) \in Nat
        /\ numCtus(TaskOf(j)) \in Nat /\ Pos(j[3]) < numCtus(TaskOf(j))
        /\ IterationOf(j) = numCtus(TaskOf(j)) + Pos(j[3])
    BY <1>1, JobTask
  <2> QED
    BY <1>2, <2>1
<1>4. First(p[1]) = 11
  BY <1>1, States
<1> QED
  BY <1>2, <1>3, <1>4 DEF JobOver, First

LEMMA AlfCausal ==
  ASSUME IndInv, NEW j \in DfJobs!Jobs, NEW p \in DfJobs!Jobs,
         JobInWork(j), j[1] = "alf", Dataflow!AlfAfter(p, j)
  PROVE  JobOver(p)
<1> DEFINE x == TaskOf(j)
<1> USE DEF ALF, SAO_cont
<1>1. /\ x \in Tasks /\ x[1] = j[2] /\ x[2] = Col(j[3]) /\ AlfReady(x) /\ JobSt(j) > 12
      /\ DoALF
  BY Working, ReadyFor, States, JobShape
<1>2. /\ p[1] \in {"sao", "alfPrep"} /\ p[2] \in Lines /\ j[2] \in Lines
      /\ p[2] \in Int /\ j[2] \in Int
      /\ Col(p[3]) \in Nat /\ Col(j[3]) \in Nat /\ Col(p[3]) < numTasksPerLine
      /\ JobSt(p) \in Int
  BY JobColumns, JobStIs DEF Dataflow!AlfAfter
<1>3. p[2] \in {j[2] - 1, j[2], j[2] + 1} /\ p[3] \in {j[3] - 1, j[3], j[3] + 1}
  BY JobColumns DEF Dataflow!AlfAfter, Dataflow!Window
<1>4. /\ p[2] = j[2] - 1 => NotTop(x)
      /\ p[2] = j[2] + 1 => NotBottom(x)
      /\ Col(p[3]) = Col(j[3]) - 1 => NotLeft(x)
      /\ Col(p[3]) = Col(j[3]) + 1 => NotRight(x)
  BY <1>1, <1>2, SizeAssumption DEF NotTop, NotBottom, NotLeft, NotRight, Lines
<1>5. Last(p[1]) = 12
  BY <1>2, States
<1>6. CASE Col(p[3]) = Col(j[3]) \/ Col(p[3]) = Col(j[3]) - 1
  <2>1. JobSt(p) >= 13
    <3>1. CASE p[2] = j[2] /\ Col(p[3]) = Col(j[3])
      BY <1>1, <1>2, <3>1 DEF JobSt
    <3>2. CASE p[2] # j[2] /\ Col(p[3]) = Col(j[3])
      BY <1>1, <1>3, <1>4, <3>2 DEF AlfReady, JobSt
    <3>3. CASE Col(p[3]) = Col(j[3]) - 1
      BY <1>1, <1>3, <1>4, <3>3 DEF AlfReady, JobSt
    <3> QED
      BY <1>6, <3>1, <3>2, <3>3
  <2> QED
    BY <1>2, <1>5, <2>1, PastKernel
<1>7. CASE Col(p[3]) = Col(j[3]) + 1 /\ Pos(p[3]) = 0
  <2>1. JobSt(p) >= 12
    BY <1>1, <1>3, <1>4, <1>7 DEF AlfReady, JobSt
  <2> QED
    BY <1>2, <1>5, <1>7, <2>1, FirstOver
<1> QED
  BY <1>3, <1>6, <1>7, NeighbourTask

RunningInputsDone ==
  \A j, p \in DfJobs!Jobs : JobInWork(j) /\ Dataflow!Before(p, j) => JobOver(p)

LEMMA InputsOver == IndInv => RunningInputsDone
<1> SUFFICES ASSUME IndInv, NEW j \in DfJobs!Jobs, NEW p \in DfJobs!Jobs,
                    JobInWork(j), Dataflow!Before(p, j)
             PROVE  JobOver(p)
  BY DEF RunningInputsDone
<1> QED
  BY MiderCausal, LfInitCausal, InterCausal, IntraCausal, RspCausal, LfVerCausal,
     LfHorCausal, PresaoCausal, SaoCausal, AlfPrepCausal, AlfCausal DEF Dataflow!Before
-----------------------------------------------------------------------------
(* Every step of the tasks is a step of the data flow.                     *)

\* A stage's loop has an iteration for each of its jobs.
LEMMA JobInLoop ==
  ASSUME IndInv, NEW j \in DfJobs!Jobs, JobSt(j) >= First(j[1]), JobSt(j) <= Last(j[1])
  PROVE  IterationOf(j) < Iterations(TaskOf(j))
<1> DEFINE x == TaskOf(j)
           n == numCtus(x)
           k == Pos(j[3])
           s == ctuState[x]
<1> USE DEF PRESAO, SAO, SAO_cont, ALF
<1>1. JobSt(j) = s /\ s \in Int /\ n \in Nat /\ k \in Nat /\ k < n
  BY JobStIs, JobTask
<1>2. CASE j[1] \notin {"presao", "sao", "alfPrep", "alf"}
  <2>1. s \notin {10, 11, 12, 13} /\ IterationOf(j) = k
    BY <1>1, <1>2, States, JobShape, JobTask DEF DfJobs!Kernels
  <2> QED
    BY <1>1, <2>1 DEF Iterations
<1>3. CASE j[1] = "presao"
  <2>1. s = 10 /\ IterationOf(j) = 0 /\ x[2] = LastCol
    BY <1>1, <1>3, States, JobTask
  <2> QED
    BY <2>1 DEF Iterations
<1>4. CASE j[1] = "sao"
  <2>1. s \in {11, 12} /\ IterationOf(j) = k
    BY <1>1, <1>4, States, JobTask
  <2>2. Iterations(x) = 2 * n \/ Iterations(x) = n
    BY <2>1 DEF Iterations
  <2> QED
    BY <1>1, <2>1, <2>2
<1>5. CASE j[1] = "alfPrep"
  <2>1. s \in {11, 12} /\ IterationOf(j) = n + k /\ DoALF
    BY <1>1, <1>5, States, JobTask, JobShape
  <2>2. Iterations(x) = 2 * n
    BY <2>1 DEF Iterations
  <2> QED
    BY <1>1, <2>1, <2>2
<1>6. CASE j[1] = "alf"
  <2>1. s = 13 /\ IterationOf(j) = k /\ DoALF
    BY <1>1, <1>6, States, JobTask, JobShape
  <2>2. Iterations(x) = n
    BY <2>1 DEF Iterations
  <2> QED
    BY <1>1, <2>1, <2>2
<1> QED
  BY <1>2, <1>3, <1>4, <1>5, <1>6

\* A task stays in a kernel's states through its loop, and leaves them with the
\* stage.
LEMMA StagesOfKernels ==
  ASSUME NEW k \in DfJobs!Kernels, NEW s \in TaskType, NEW i, NEW x
  PROVE  LET c == ContState(s, i, x)  n == NextState(s) IN
         /\ c < First(k) <=> s < First(k)
         /\ c > Last(k) <=> s > Last(k)
         /\ s < First(k) => n <= First(k)
         /\ s >= First(k) /\ s # DONE => n > Last(k) \/ s > Last(k)
         /\ s > Last(k) => n > Last(k)
BY States DEF DfJobs!Kernels, ContState, NextState, TaskType, MIDER, MIDER_cont, LF_INIT,
   INTER, INTRA, INTRA_cont, RSP, LF_V, LF_V_cont, LF_H, PRESAO, SAO, SAO_cont, ALF, DONE

\* A job that is over stays so, and only one that is running can become so.
LEMMA JobMoves ==
  ASSUME IndInv, [Next]_vars, NEW j \in DfJobs!Jobs
  PROVE  /\ JobOver(j) => JobOver(j)'
         /\ ~JobOver(j) /\ ~JobInWork(j) => ~JobOver(j)'
<1> DEFINE x == TaskOf(j)
           m == IterationOf(j)
           a == First(j[1])
           b == Last(j[1])
           s == ctuState[x]
           i == ctu[x]
           t == ctuState'[x]
           u == ctu'[x]
<1>1. /\ x \in Tasks /\ TypeOK /\ TypeOK' /\ j[1] \in DfJobs!Kernels
      /\ a \in Nat /\ b \in Nat /\ a <= b
      /\ s \in TaskType /\ s \in Int /\ i \in Nat /\ m \in Nat
  BY JobTask, JobShape, KernelRange, TaskStates, NextTypeOK DEF IndInv, TypeOK
<1>2. /\ JobOver(j) <=> s > b \/ (s >= a /\ i > m)
      /\ JobOver(j)' <=> t > b \/ (t >= a /\ u > m)
      /\ JobInWork(j) <=> s >= a /\ s <= b /\ i = m /\ phase[x] = "kernel"
  BY DEF JobOver, JobInWork, First, Last, TaskOf, IterationOf, numCtus, ctuEnd, ctuStart
<1>3. CASE CtuDone(x)
  <2>1. /\ t = ContState(s, i, x) /\ u = i + 1 /\ phase[x] = "kernel"
        /\ t \in TaskType /\ t \in Int
    BY <1>1, <1>3, ContinuesStage DEF CtuDone, TypeOK, TaskType, MIDER, DONE
  <2>2. (t < a <=> s < a) /\ (t > b <=> s > b)
    BY <1>1, <2>1, StagesOfKernels
  <2> HIDE DEF x, m, a, b, s, i, t, u
  <2> QED
    BY <1>1, <1>2, <2>1, <2>2
<1>4. CASE StageDone(x)
  <2>1. /\ t = NextState(s) /\ u = 0 /\ i = Iterations(x) /\ phase[x] = "kernel"
        /\ t \in TaskType /\ t \in Int
    BY <1>1, <1>4, NextStateType DEF StageDone, TypeOK, TaskType, MIDER, DONE
  <2>2. s # DONE
    BY <1>1, <2>1 DEF IndInv, Accounted
  <2>3. /\ s < a => t <= a
        /\ s >= a => t > b \/ s > b
        /\ s > b => t > b
    BY <1>1, <2>1, <2>2, StagesOfKernels
  <2>4. s >= a /\ s <= b => i > m
    <3>1. s >= a /\ s <= b => m < Iterations(x)
      BY JobInLoop, JobStIs
    <3>2. Iterations(x) \in Nat
      BY <1>1, IterationsNat
    <3> QED
      BY <1>1, <2>1, <3>1, <3>2
  <2> HIDE DEF x, m, a, b, s, i, t, u
  <2> QED
    BY <1>1, <1>2, <2>1, <2>3, <2>4
<1>5. CASE UNCHANGED <<ctuState[x], ctu[x]>>
  BY <1>2, <1>5
<1> QED
  BY <1>1, <1>3, <1>4, <1>5, LoopMoves

\* The kernels' progress, which the data flow is about.
Progress == [j \in DfJobs!Jobs |-> JobStatus(j)]

LEMMA InitDataflow == Init => Dataflow!DfInit
<1> SUFFICES ASSUME Init PROVE Dataflow!DfInit
  OBVIOUS
<1>1. ASSUME NEW j \in DfJobs!Jobs PROVE JobStatus(j) = "idle"
  <2>1. /\ TaskOf(j) \in Tasks /\ IterationOf(j) \in Nat
        /\ First(j[1]) \in Nat /\ Last(j[1]) \in Nat
    BY JobTask, JobShape, KernelRange
  <2>2. ctuState[TaskOf(j)] = 0 /\ ctu[TaskOf(j)] = 0 /\ phase[TaskOf(j)] = "new"
    BY <2>1 DEF Init, MIDER
  <2>3. ~JobOver(j) /\ ~JobInWork(j)
    BY <2>1, <2>2 DEF JobOver, JobInWork, First, Last
  <2> QED
    BY <2>3 DEF JobStatus
<1> QED
  BY <1>1, JobShape DEF Dataflow!DfInit

LEMMA StepDataflow ==
  ASSUME IndInv, [Next]_vars
  PROVE  Dataflow!DfNext
<1>1. IndInv' /\ RunningInputsDone'
  <2>1. IndInv'
    BY NextIndInv
  <2>2. (IndInv => RunningInputsDone)'
    BY InputsOver, PTL
  <2> QED
    BY <2>1, <2>2
<1> SUFFICES ASSUME NEW j \in DfJobs!Jobs
             PROVE  \/ JobStatus(j)' = JobStatus(j)
                    \/ JobStatus(j) = "running" /\ JobStatus(j)' \in {"done", "idle"}
                    \/ /\ JobStatus(j) = "idle" /\ JobStatus(j)' = "running"
                       /\ \A p \in Dataflow!Inputs[j] : JobStatus(p)' = "done"
  BY JobShape DEF Dataflow!DfNext, Dataflow!Inputs
<1>2. CASE JobInWork(j)
  <2>1. JobStatus(j) = "running"
    BY <1>2, StatusOf DEF IndInv
  <2> QED
    BY <2>1 DEF JobStatus
<1>3. CASE JobOver(j)
  BY <1>3, JobMoves DEF JobStatus
<1>4. CASE ~JobOver(j) /\ ~JobInWork(j)
  <2>1. ~JobOver(j)' /\ JobStatus(j) = "idle"
    BY <1>4, JobMoves DEF JobStatus
  <2>2. CASE JobInWork(j)'
    <3>1. ASSUME NEW p \in Dataflow!Inputs[j] PROVE JobStatus(p)' = "done"
      <4>1. p \in DfJobs!Jobs /\ Dataflow!Before(p, j)
        BY JobShape DEF Dataflow!Inputs
      <4>2. JobOver(p)'
        BY <1>1, <2>2, <4>1 DEF RunningInputsDone
      <4> QED
        BY <4>2 DEF JobStatus
    <3> QED
      BY <2>1, <2>2, <3>1 DEF JobStatus
  <2>3. CASE ~JobInWork(j)'
    BY <2>1, <2>3 DEF JobStatus
  <2> QED
    BY <2>2, <2>3
<1> QED
  BY <1>2, <1>3, <1>4

\* However the threads interleave the tasks, every kernel starts on final inputs,
\* overwrites nothing that is still to be read, and runs once: the conditions that
\* ctuTask tests on whole tasks implement the data flow of the picture's CTUs.
THEOREM Refines == Spec => ImplementsDataflow
<1>1. IndInv /\ [Next]_vars => [Dataflow!DfNext]_Progress
  BY StepDataflow
<1>2. Init => Dataflow!DfInit
  BY InitDataflow
<1> QED
  BY <1>1, <1>2, Inductive, PTL DEF Spec, ImplementsDataflow, Dataflow!DfSpec, Progress
=============================================================================
