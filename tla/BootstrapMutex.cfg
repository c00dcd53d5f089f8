CONSTANTS
  p1 = p1
  p2 = p2
  p3 = p3
  Proc <- Slots3
  NoOne = NoOne
  MaxInits = 3
  TeardownFlags <- Either
  ClientsFork = FALSE
  Faults <- AllButExec
SPECIFICATION Spec
INVARIANTS TypeOK BootMutex
PROPERTIES ImplementsServerBoot
CHECK_DEADLOCK TRUE
