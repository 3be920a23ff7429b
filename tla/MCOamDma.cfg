CONSTANTS
  A = A
  B = B
  Cpu = Cpu
  Pages <- MCPages
  Size = 5
  WaitCycles = 2
  MaxCount = 3
  StartGap = 2
  SafeGap = 3

SPECIFICATION DmaFairSpec

INVARIANTS
  DmaTypeOK
  LatestCopyIntact
  ExitNeedsBurst

PROPERTIES
  TransfersEnd

\* FATAL ends the process.
CHECK_DEADLOCK FALSE
