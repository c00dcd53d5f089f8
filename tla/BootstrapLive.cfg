CONSTANTS
  p1 = p1
  p2 = p2
  p3 = p3
  Proc <- Slots3
  NoOne = NoOne
  MaxInits = 4
  TeardownFlags <- Never
  ClientsFork = TRUE
  Faults <- NoFaults
SPECIFICATION FairSpec
INVARIANTS ServedWhileReady
PROPERTIES InitReturns
CHECK_DEADLOCK TRUE
