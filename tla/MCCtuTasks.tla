----------------------------- MODULE MCCtuTasks -----------------------------
(* Model checking of CtuTasks: the sizes of the picture are in the .cfg files. *)
EXTENDS CtuTasks
=============================================================================
