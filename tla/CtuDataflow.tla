---------------------------- MODULE CtuDataflow ----------------------------
(***************************************************************************)
(* What the reconstruction of one picture promises, CTU by CTU, whatever   *)
(* the schedule: a kernel (one reconstruction step on one CTU) starts only *)
(* when every sample, motion vector and parameter it reads is final, and   *)
(* nothing it still has to read has been overwritten.                      *)
(*                                                                         *)
(* There is no thread and no task here.  The order constraints are read    *)
(* off the kernels' accesses to the shared buffers of the picture:         *)
(*   - the motion field and the per-line motion history,                   *)
(*   - the reconstruction buffer, which RSP, the deblocking and SAO modify *)
(*     in place,                                                           *)
(*   - m_fltBuf of DecLibRecon, which holds the SAO input first and the    *)
(*     ALF output later (DecLibRecon hands the same buffer to both).       *)
(***************************************************************************)
EXTENDS Integers

CONSTANTS
  WidthInCtus,   \* cs.pcv->widthInCtus
  HeightInCtus,  \* cs.pcv->heightInCtus
  DoALF          \* CommonTaskParam::doALF

VARIABLE
  status         \* of every job: "idle", "running" on some thread, or "done"

-----------------------------------------------------------------------------
Kernels == {"mider", "lfInit", "inter", "intra", "rsp", "lfVer", "lfHor",
            "presao", "sao", "alfPrep", "alf"}

\* A job is a kernel on the CTU of line j[2] and column j[3]; "presao" works
\* on a whole line and is booked on the line's last CTU.
Jobs == {j \in Kernels \X (0 .. HeightInCtus - 1) \X (0 .. WidthInCtus - 1) :
            /\ j[1] = "presao" => j[3] = WidthInCtus - 1
            /\ j[1] \in {"alfPrep", "alf"} => DoALF}

At(p, j, dl, dc) == p[2] = j[2] + dl /\ p[3] = j[3] + dc

\* The CTUs whose samples and motion the CTU of j may refer to: left,
\* above-left, above and above-right.
Causal(p, j)  == \/ At(p, j, 0, -1)
                 \/ p[2] = j[2] - 1 /\ p[3] \in (j[3] - 1) .. (j[3] + 1)
SameCtu(p, j) == At(p, j, 0, 0)
Window(p, j)  == /\ p[2] \in (j[2] - 1) .. (j[2] + 1)
                 /\ p[3] \in (j[3] - 1) .. (j[3] + 1)

\* Motion derivation reads the motion of the causal neighbours and carries the
\* history of the line from left to right.
MiderAfter(p, j) == p[1] = "mider" /\ Causal(p, j)

\* Filter strengths compare the motion on both sides of the left and the top edge.
LfInitAfter(p, j) == p[1] = "mider" /\ (SameCtu(p, j) \/ At(p, j, 0, -1) \/ At(p, j, -1, 0))

\* DMVR rewrites the CTU's motion once its filter strengths are known.
InterAfter(p, j) == p[1] = "lfInit" /\ SameCtu(p, j)

\* Intra prediction reads the unfiltered samples of the causal neighbours.
IntraAfter(p, j) == \/ p[1] = "inter" /\ SameCtu(p, j)
                    \/ p[1] = "intra" /\ Causal(p, j)

\* Inverse luma mapping overwrites samples the causal successors predict from.
RspAfter(p, j) == p[1] = "intra" /\ (SameCtu(p, j) \/ Causal(j, p))

\* Vertical-edge deblocking modifies both sides of the left CTU edge.
LfVerAfter(p, j) == p[1] = "rsp" /\ (SameCtu(p, j) \/ At(p, j, 0, -1))

\* Horizontal-edge deblocking runs on samples no vertical edge will change.
LfHorAfter(p, j) == /\ p[1] = "lfVer"
                    /\ p[2] \in (j[2] - 1) .. j[2]
                    /\ p[3] \in j[3] .. (j[3] + 1)

\* The SAO input of a line is copied with the first rows of the next line,
\* and SAO parameters are merged from the line above.
PreSaoAfter(p, j) == \/ p[1] = "lfHor" /\ p[2] \in j[2] .. (j[2] + 1)
                     \/ p[1] = "presao" /\ p[2] = j[2] - 1

\* SAO reads the copies of its own and of the previous line.
SaoAfter(p, j) == p[1] = "presao" /\ p[2] \in (j[2] - 1) .. j[2]

AlfPrepAfter(p, j) == p[1] = "sao" /\ SameCtu(p, j)

\* ALF reads the final SAO output around the CTU and overwrites the SAO input
\* its neighbours would still read.
AlfAfter(p, j) == p[1] \in {"sao", "alfPrep"} /\ Window(p, j)

\* p has to return before j may start.
Before(p, j) ==
  \/ j[1] = "mider"   /\ MiderAfter(p, j)
  \/ j[1] = "lfInit"  /\ LfInitAfter(p, j)
  \/ j[1] = "inter"   /\ InterAfter(p, j)
  \/ j[1] = "intra"   /\ IntraAfter(p, j)
  \/ j[1] = "rsp"     /\ RspAfter(p, j)
  \/ j[1] = "lfVer"   /\ LfVerAfter(p, j)
  \/ j[1] = "lfHor"   /\ LfHorAfter(p, j)
  \/ j[1] = "presao"  /\ PreSaoAfter(p, j)
  \/ j[1] = "sao"     /\ SaoAfter(p, j)
  \/ j[1] = "alfPrep" /\ AlfPrepAfter(p, j)
  \/ j[1] = "alf"     /\ AlfAfter(p, j)

Inputs == [j \in Jobs |-> {p \in Jobs : Before(p, j)}]
-----------------------------------------------------------------------------
DfInit == status = [j \in Jobs |-> "idle"]

\* Some running jobs return or are aborted by an exception, and some idle ones
\* start.
DfNext ==
  \A j \in Jobs :
    \/ status'[j] = status[j]
    \/ status[j] = "running" /\ status'[j] \in {"done", "idle"}
    \/ /\ status[j] = "idle" /\ status'[j] = "running"
       /\ \A p \in Inputs[j] : status'[p] = "done"

DfSpec == DfInit /\ [][DfNext]_status
=============================================================================
