\* Exceptions in parsing, in kernels and in a reference picture.
SPECIFICATION Spec
CONSTANTS
  WidthInCtus = 3
  HeightInCtus = 2
  NumThreads = 2
  IsIntra = FALSE
  DoALF = TRUE
  RefPics = {ref}
  MayFail = TRUE
INVARIANTS IndInv LineHistoryExclusive GuardsPersist ReleasedWhenQuiet PublishedComplete
PROPERTIES TasksEnd
