----------------------------- MODULE MCVVDecApi -----------------------------
(* Instances of VVDecApi for TLC: error handling on and off, without faults *)
(* and with all that may go wrong.  The algorithms behind decode() are     *)
(* checked along with it.                                                  *)
EXTENDS VVDecApi, MCAlgorithms

NoFaults == [tryContinue : {FALSE}, faults : {{}}]
AllSetups ==
  NoFaults \cup [tryContinue : BOOLEAN, faults : {FaultKind \ {"add"}}]
           \cup [tryContinue : {TRUE}, faults : {{"recoverable", "add"}}]
=============================================================================
