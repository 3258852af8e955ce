SPECIFICATION Spec
CONSTANTS
  Setups <- MCSafety
  MaxBufs = 10
  MaxRefPicNum = 3
  Instances = 2
  NumReorder = 1
  MaxOutOfOrderPics = 1
INVARIANTS FrontEndInv AssertionsHold ReferencesComplete OneOwner GrainInPlaceSafe OvertakenAtMost OutputInOrder AllFinished
PROPERTIES ReuseOnlyUnused LocksLostByThrow
CHECK_DEADLOCK FALSE
