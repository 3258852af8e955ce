---------------------------- MODULE FrameOrder ----------------------------
(***************************************************************************)
(* What the decoder promises to the application: the frames of the coded   *)
(* pictures that are meant for output come out in display order (coded     *)
(* video sequence by coded video sequence, and by picture order count in   *)
(* each), every one once, and none before its picture was handed in.  A    *)
(* frame stays away only when the call throws an exception in its place.   *)
(***************************************************************************)
EXTENDS Integers, Sequences, FiniteSets

VARIABLES
  stream,   \* the coded pictures, in coding order
  coded,    \* how many of them were handed in
  due,      \* the pictures whose frames are still to come
  out,      \* the frames that came out, as positions in stream
  reports   \* how often an exception of each picture was thrown out

vars == <<stream, coded, due, out, reports>>

\* The coded video sequence that a picture belongs to.
Cvs(p) == Cardinality({i \in 1..p : stream[i].idr})

Before(p, q) == \/ Cvs(p) < Cvs(q)
                \/ Cvs(p) = Cvs(q) /\ stream[p].poc < stream[q].poc

\* The frame that comes next.
Turn(p) ==
  /\ p \in due /\ p <= coded
  /\ \A q \in due \ {p} : Before(p, q)

Init ==
  /\ coded = 0 /\ out = <<>>
  /\ due = {p \in DOMAIN stream : stream[p].output}
  /\ reports = [p \in DOMAIN stream |-> 0]

HandIn ==
  /\ coded < Len(stream)
  /\ coded' = coded + 1
  /\ UNCHANGED <<stream, due, out, reports>>

Show ==
  /\ \E p \in due : Turn(p) /\ due' = due \ {p} /\ out' = Append(out, p)
  /\ UNCHANGED <<stream, coded, reports>>

\* An exception of a picture that was handed in; the frame that the call was to
\* return may be lost with it.
Throw ==
  /\ \E c \in 1..coded : reports' = [reports EXCEPT ![c] = @ + 1]
  /\ due' = due \/ \E p \in due : Turn(p) /\ due' = due \ {p}
  /\ UNCHANGED <<stream, coded, out>>

Next == HandIn \/ Show \/ Throw

Spec == Init /\ [][Next]_vars
=============================================================================
