CONSTANTS
  o1 = o1
  o2 = o2
  f1 = f1
  f2 = f2
  Object <- Objects2
  Nothing = Nothing
  File <- Files
  Directory = Directory
  NoPath = NoPath
  Foreign <- OneFile
  MaxFd = 2
  MaxEntries = 4
  MaxLines = 2
  MaxWrites = 2
  ReaddirMayFail = FALSE
  UseAfterClose = FALSE
SPECIFICATION FairSpec
INVARIANTS TypeOK OwnFileOnly AckedMeansWritten OneOwner ListsEachOnce
PROPERTIES ListsAll ListdirReturns
CHECK_DEADLOCK TRUE
