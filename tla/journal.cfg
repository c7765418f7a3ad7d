SPECIFICATION Spec
CONSTANTS
  Procs = {p1, p2}
  Nobody = Nobody
  MaxFrames = 4
  MaxLines = 4
SYMMETRY Alike
INVARIANTS
  TypeOK
  SeqOrder
  ResumeAgrees
  Durable
  ReplayedAsWritten
CHECK_DEADLOCK FALSE
