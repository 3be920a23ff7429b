SPECIFICATION Spec
CONSTANTS
  Ram <- MCRam
  Cases <- MCCases
  MaxInstructions <- MCMaxInstructions
INVARIANTS
  TypeOK
  OneAccessPerCycle
  DecimalArithmetic
PROPERTY
  PopsReturnPushes
CHECK_DEADLOCK FALSE
