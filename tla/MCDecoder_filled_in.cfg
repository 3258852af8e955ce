SPECIFICATION Spec
CONSTANTS
  Setups <- MCFilledIn
  MaxBufs = 8
  MaxRefPicNum = 3
  Instances = 2
  NumReorder = 1
  MaxOutOfOrderPics = 3
INVARIANTS StillReferencedInUse
