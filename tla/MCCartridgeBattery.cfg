CONSTANTS
  A = A
  B = B
  None = None
  Carts <- MCCarts
  ByteSize = 8
  LowSize <- MCLowSize
  HighSize <- MCHighSize
  RamSelectSize = 2
  RamSlots = 2
  Contents <- MCContents
  Interval = 2
  TickSize = 5
  Snapshots <- MCSnapshots

SPECIFICATION FairSpec

PROPERTY
  BatteryRamIsSaved
