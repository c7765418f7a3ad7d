SPECIFICATION FairSpec
CONSTANTS
  Procs = {p1, p2}
  Ids = {e1}
  Specs = {"every", "once"}
  Nobody = nobody
  Period = 2
  OnceTime = 3
  MaxTick = 4
  MaxTime = 4
  MaxFaults = 2
  MaxAsks = 1
INVARIANTS TypeOK OneRunner SaidOnce
PROPERTIES Fires
CHECK_DEADLOCK FALSE
