\* Frames of a header alone, of one byte more and of the whole buffer.
CONSTANTS
  Header = 2
  Cap = 4
  Sizes = {2, 3, 4}
  Claims = {0, 1, 5}
  None = None
  MaxFrames = 3
  MaxGarbage = 6
  MaxViewers = 2
SPECIFICATION FairSpec
INVARIANT TypeOK
PROPERTY HandlesStream
PROPERTY HandledInTime
CHECK_DEADLOCK FALSE
