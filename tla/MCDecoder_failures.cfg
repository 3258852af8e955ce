SPECIFICATION FairSpec
CONSTANTS
  Setups <- MCFailures
  MaxBufs = 7
  MaxRefPicNum = 3
  Instances = 2
  NumReorder = 1
  MaxOutOfOrderPics = 3
INVARIANTS ReportedAtMostOnce FailuresReported AllDelivered
PROPERTIES ShowsFrames CallsReturn
