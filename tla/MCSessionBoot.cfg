CONSTANTS
  A = A
  B = B
  C = C
  NameA = NameA
  NameB = NameB
  S = S
  None = None
  Roms <- MCRoms
  Names <- MCNames
  NameOf <- MCNameOf
  Saves <- MCSaves

SPECIFICATION Spec

PROPERTY
  BootRomRestartsCurrent
