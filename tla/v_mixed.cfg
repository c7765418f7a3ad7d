SPECIFICATION Spec
CONSTANTS
  Callers = {c1}
  Kinds = {"mcp"}
  Others = FALSE
  Nobody = Nobody
  MaxMinted = 3
  MaxLogins = 2
  MaxLogouts = 0
  MaxFaults = 0
INVARIANT OneFact
