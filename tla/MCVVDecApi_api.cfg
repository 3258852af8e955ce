\* Three pictures, all faults, both ways to handle errors.
SPECIFICATION Spec
CONSTANTS
  MaxPics = 3
  MaxNals = 2
  Setups <- AllSetups
INVARIANTS ApiInv ShownInOrder HeldStayValid LocksAccounted EofMeansDrained NoStaleFrame
PROPERTIES ApiReturns
CHECK_DEADLOCK FALSE
