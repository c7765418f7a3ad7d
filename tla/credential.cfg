SPECIFICATION Spec
CONSTANTS
  Callers = {c1, c2}
  Kinds = {"provider", "mcp"}
  Others = TRUE
  Nobody = Nobody
  MaxMinted = 3
  MaxLogins = 2
  MaxLogouts = 1
  MaxFaults = 1
SYMMETRY Symmetry
INVARIANTS TypeOK DecisionStands RenewedOnce
