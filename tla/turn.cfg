SPECIFICATION FairSpec
CONSTANTS
    MaxTurns = 2
    MaxRounds = 2
    MaxRetries = 1
    MaxRecoveries = 1
    MaxCompactions = 1
    Trip = 1
    MaxItems = 2
INVARIANTS TypeOK CleanRequest EndedClosed OneEnding RequestsBounded PaidInVain
PROPERTY EscEnds
