\* Three lines of a wide and a narrow task: all neighbours exist, tasks hold 2 and 1 CTUs.
SPECIFICATION Spec
CONSTANTS
  WidthInCtus = 3
  HeightInCtus = 3
  NumThreads = 2
  IsIntra = FALSE
  DoALF = TRUE
  RefPics = {}
  MayFail = FALSE
PROPERTIES ImplementsDataflow PictureEnds
