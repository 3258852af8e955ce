\* Tasks may throw; the main thread is in wait_nothrow() or in wait(), which rethrows.
SPECIFICATION Spec
CONSTANTS
  Tasks = {t1, t2, t3}
  MayThrow = TRUE
  CountMax = 7
INVARIANTS CountCovers WaitCoversTasks FollowerAfterAll
PROPERTIES WaitEndsUnlessThrown
CHECK_DEADLOCK FALSE
