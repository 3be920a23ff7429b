CONSTANTS
  ClockSize = 32
  ByteSize = 4
  InitialClock = 19
  Freqs <- MCFreqs
  TacWeight <- MCTacWeight
  SequencerWeight = 16

SPECIFICATION FairSpec

INVARIANTS
  TypeOK
  PendingReadsZero
  ReloadMirrorsTma

PROPERTIES
  CountsFallingEdges
  KeepsReloading
  SequencerKeepsRunning
