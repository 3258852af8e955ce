--------------------------- MODULE MCWaitCounter ---------------------------
(* Instances of WaitCounter for TLC.                                       *)
EXTENDS WaitCounter
=============================================================================
