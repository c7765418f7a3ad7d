SPECIFICATION LiveSpec
CONSTANTS
  N = 3
  MaxConcurrency = 2
  MaxChanges = 2
INVARIANTS TypeOK UnsafeAlone AskedAlone OneOutcomeEach NoDeniedRuns ReceiptBeforeRun
PROPERTIES SerialUnsafe RoundEnds
