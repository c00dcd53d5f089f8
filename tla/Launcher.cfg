CONSTANTS
  Name <- Names
  Dot = "."
  DotDot = ".."
  Stem <- Stems
  Suffix <- Extensions
  main = main
  capio_dir <- DataDir
  NoDir = NoDir
  SlotCount = 3
  MaxDepth = 2
  Cwd <- DataDir
  ScriptPath <- ScriptPaths
  Outcome <- Outcomes
SPECIFICATION FairSpec
INVARIANTS TypeOK UnderProxies CleanExit ExitMirrors NotRunAgain TargetRuns
PROPERTIES LauncherEnds
\* The process ends.
CHECK_DEADLOCK FALSE
