CONSTANTS
  NL = NL
  Other = Other
  NUL = NUL
  MaxLength = 3
  Chunk = 2
  Calls <- LineCalls
  ReadSizes <- Sizes
  NegativeSizes = TRUE
  Offsets <- Anywhere
  Careful = FALSE
  SameProcess = FALSE
  ReadMayFail = TRUE
SPECIFICATION FairSpec
INVARIANTS TypeOK
PROPERTIES CallReturns
