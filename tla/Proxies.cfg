CONSTANTS
  Name <- Names
  Dot = "."
  DotDot = ".."
  Stem <- Stems
  Suffix <- Extensions
  Location <- Locations
  CAPIO_DIR <- DataDir
  StartDir <- DataDir
  NamePrefix <- SamePrefix
  TracksCwd = TRUE
  StatMayFail = FALSE
  Operand <- Literals
  Mode <- Modes
  Departing = FALSE
  MaxLength = 2
  MaxSize = 1
SPECIFICATION Spec
INVARIANTS TypeOK AnswersAgree SameFile OpenHonoursMode
PROPERTIES OnlyInside CreatesWhatIsMeant
