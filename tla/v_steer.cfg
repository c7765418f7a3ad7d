SPECIFICATION Spec
CONSTANTS
  Intents = {i1, i2}
  None = None
  Lines = {"prose"}
  Models = {TRUE}
  Links = {FALSE}
  Faults = FALSE
  MaxAsks = 0
  MaxCompacts = 0
  MaxRetries = 0
INVARIANT SteeringJoinsTranscript
