CONSTANTS
  main = main
  worker = worker
  d1 = d1
  d2 = d2
  Thread <- OnlyMain
  Interruptible <- Nobody
  Dir <- TwoDirs
  NoDir = NoDir
  Inherited <- Absent
  SlotCount = 7
  MaxDepth = 3
  InitMayFail = FALSE
  ExplicitTeardown = TRUE
SPECIFICATION Spec
INVARIANTS TypeOK ScopedInterception Intercepted DirPublished TornDownAtExit
\* The process ends.
CHECK_DEADLOCK FALSE
