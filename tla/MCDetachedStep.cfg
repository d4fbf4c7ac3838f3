SPECIFICATION FairSpec
CONSTANTS
  Faulty <- MCFaulty
  Limit = 2
  StallAfter = 3
  Timeout = 6
INVARIANTS
  OneStep
PROPERTIES
  StopsOnlyTheQuiet
  KeepsPromise
  CallEnds
