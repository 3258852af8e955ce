\* A new stream behind a flushed one, no faults.
SPECIFICATION Spec
CONSTANTS
  MaxPics = 2
  MaxNals = 1
  Setups <- NoFaults
INVARIANTS FreedByUnref
CHECK_DEADLOCK FALSE
