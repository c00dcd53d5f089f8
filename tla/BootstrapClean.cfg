CONSTANTS
  p1 = p1
  p2 = p2
  p3 = p3
  Proc <- Slots3
  NoOne = NoOne
  MaxInits = 4
  TeardownFlags <- Always
  ClientsFork = TRUE
  Faults <- AllButClientCrash
SPECIFICATION Spec
SYMMETRY Symmetry
INVARIANTS NoStaleLock NoLeakedServer
\* A process whose server stopped between the test and the handshake waits for ever.
CHECK_DEADLOCK FALSE
