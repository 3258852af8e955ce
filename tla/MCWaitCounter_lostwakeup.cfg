\* One task that throws while the main thread waits.
SPECIFICATION Spec
CONSTANTS
  Tasks = {t1}
  MayThrow = TRUE
  CountMax = 7
PROPERTIES WaitEnds
CHECK_DEADLOCK FALSE
