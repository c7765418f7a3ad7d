SPECIFICATION Spec
CONSTANTS
  Intents = {i1, i2, i3}
  None = None
  Lines = {"prose", "command", "peer", "peerHeld"}
  Models = {TRUE, FALSE}
  Links = {TRUE, FALSE}
  Faults = TRUE
  MaxAsks = 0
  MaxCompacts = 1
  MaxRetries = 0
SYMMETRY Symmetry
INVARIANTS TypeOK NothingStranded OneHome SaidInOrder HeldByOne
