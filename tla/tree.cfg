SPECIFICATION FairSpec
CONSTANTS
  Root = r
  c = c
  d = d
  Children <- MCChildren
  Parent <- MCParent
  MaxFrames = 4
  Sayings = {"delta", "note"}
  Capacity = 1
  MaxFaults = 1
INVARIANTS TypeOK NoRepeats EndsWithRoot
PROPERTIES ImplementsFeed 
