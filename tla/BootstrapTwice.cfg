CONSTANTS
  p1 = p1
  p2 = p2
  p3 = p3
  Proc <- Slots2
  NoOne = NoOne
  MaxInits = 2
  TeardownFlags <- Never
  ClientsFork = FALSE
  Faults <- NoFaults
SPECIFICATION Spec
SYMMETRY Symmetry
INVARIANTS OneServer
CHECK_DEADLOCK TRUE
