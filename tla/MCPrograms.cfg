SPECIFICATION Spec
CONSTANTS
  Labelled <- MCLabelled
  Sources <- MCSources
  Levels <- MCLevels
  Inputs <- MCInputs
INVARIANTS SameEffect KnownRight UsedRight
CHECK_DEADLOCK FALSE
