SPECIFICATION Spec
CONSTANTS
  Calls = {c1, c2, c3, c4}
  Limit = 2
  Window = 2
  MaxTime = 4
CHECK_DEADLOCK FALSE
SYMMETRY CallSymmetry
INVARIANTS
  TypeOK
  WindowBound
  DenialJustified
  LeakNeedsFault
