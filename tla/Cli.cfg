SPECIFICATION Spec
CONSTANTS
  Scripts <- AllScripts
  MaxChunks = 2
INVARIANTS
  RemoteCommandIsVerbatim
  OnlyUpdatesMisfit
  ConfigSurvives
  AcknowledgedEditsAreKept
  PipedWriteIsWhole
  ExitTellsTheTruth
PROPERTY CommandEnds
CHECK_DEADLOCK FALSE
