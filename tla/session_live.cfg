SPECIFICATION FairSpec
CONSTANTS
  Intents = {i1, i2}
  None = None
  Lines = {"prose", "held", "command", "peer"}
  Models = {TRUE}
  Links = {FALSE}
  Faults = TRUE
  MaxAsks = 1
  MaxCompacts = 1
  MaxRetries = 0
INVARIANT CommandAsksEndWithIt
PROPERTIES EscStops CloseCompletes
