--------------------------- MODULE MCThreadPool ---------------------------
(* Instances of ThreadPool for TLC.                                        *)
EXTENDS ThreadPool

\* The second task waits for the first.
ChainDeps == [t \in 1 .. NumTasks |-> IF t = 2 THEN {1} ELSE {}]
=============================================================================
