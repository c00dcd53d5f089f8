CONSTANTS
  NL = NL
  Other = Other
  NUL = NUL
  MaxLength = 3
  Chunk = 2
  Calls <- OnlyReadline
  ReadSizes <- Sizes
  NegativeSizes = FALSE
  Offsets <- None
  Careful = FALSE
  SameProcess = FALSE
  ReadMayFail = FALSE
SPECIFICATION FairSpec
PROPERTIES RoomForRead
