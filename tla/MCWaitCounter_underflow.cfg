\* One task throws, the last one succeeds.
SPECIFICATION Spec
CONSTANTS
  Tasks = {t1, t2}
  MayThrow = TRUE
  CountMax = 7
INVARIANTS DecrementedOnce
CHECK_DEADLOCK FALSE
