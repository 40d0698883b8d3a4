CONSTANTS
  small = small
  large = large
  none = none
  Shells = 2
  Size = {small, large}
  NoSize = none
  Buffer = 2
  Paste = 2
  MaxTyped = 2
  MaxQueue = 2
SPECIFICATION Spec
INVARIANT StartedBound
CHECK_DEADLOCK FALSE
