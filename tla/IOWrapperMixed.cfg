CONSTANTS
  NL = NL
  Other = Other
  NUL = NUL
  MaxLength = 4
  Chunk = 2
  Calls <- LineCalls
  ReadSizes <- Sizes
  NegativeSizes = FALSE
  Offsets <- Anywhere
  Careful = TRUE
  SameProcess = FALSE
  ReadMayFail = FALSE
SPECIFICATION Spec
INVARIANTS InOrder
PROPERTIES StopMeansEnd ImplementsFileObject
