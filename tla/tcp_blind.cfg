CONSTANTS
  Modes = {"poll", "pollOne"}
  EofChecks = {"server"}
  MaxRx = 2
SPECIFICATION Spec
INVARIANT IsClosedComplete
