SPECIFICATION Spec
CONSTANTS
  Base <- MCBase
  LowRange = 2
  HighRange = 2
  SweepReload = 2
  SweepSettings <- MCSweepSettings
INVARIANTS
  TypeOK
  StatusIsTrue
PROPERTIES
  MutedOnlyByLastTick
  LengthEndsSound
