CONSTANTS
  CyclesPerTick = 2
  SearchCycles = 2
  TransferCycles = 3
  HBlankCycles = 5
  EnableOffset = 2
  VBlankStart = 2
  VBlankEnd = 4
  Penalties <- MCPenalties
  WindowPenalty = 1
  WindowSize = 1
  LyValues <- MCLyValues
  LyWrites <- MCLyWrites
  IntsWrites <- MCIntsWrites

SPECIFICATION FairSpec

INVARIANTS
  TypeOK
  StatLineCoherent
  PostponedOnlyInHBlank
  ModeMatchesLine

PROPERTIES
  RisingLineRequests
  RunsLikeRaster
  FramesKeepComing
