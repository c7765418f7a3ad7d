SPECIFICATION Spec
CONSTANTS
  Procs = {p1, p2}
  Nobody = Nobody
  MaxFrames = 3
  MaxLines = 4
SYMMETRY Alike
INVARIANT OpenNeverCollected
CHECK_DEADLOCK FALSE
