SPECIFICATION Spec
CONSTANTS
  Lines <- MCLines
  Keyboard <- MCKeyboard
  Controls <- MCControls
  Axes <- MCAxes
  Controllers = {first, second}
  NoController = none
INVARIANTS
  TypeOK
  JoypIsCurrent
  NothingStuck
PROPERTIES
  InterruptPerPress
\* The player may quit.
CHECK_DEADLOCK FALSE
