CONSTANTS
  VBlank = VBlank
  LcdStat = LcdStat
  Timer = Timer
  None = None
  InitialFlags <- MCInitialFlags
  Sources <- MCSources
  Rank <- MCRank
  MaxBefore = 2

SPECIFICATION FairSpec

INVARIANTS
  TypeOK
  DelayIsOneInstruction
  HaltBugLeaksOnlyBehindEI

PROPERTIES
  DispatchServesBest
  HaltEnds
  EnabledRequestIsServed
