CONSTANTS
  main = main
  worker = worker
  d1 = d1
  d2 = d2
  Thread <- TwoThreads
  Interruptible <- OnlyMain
  Dir <- OneDir
  NoDir = NoDir
  Inherited <- AbsentOrSame
  SlotCount = 2
  MaxDepth = 2
  InitMayFail = TRUE
  ExplicitTeardown = FALSE
SPECIFICATION Spec
INVARIANTS ProxyHasDir InitialisedInBody
\* The process ends.
CHECK_DEADLOCK FALSE
