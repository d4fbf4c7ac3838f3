SPECIFICATION FairSpec
CONSTANTS
  NPhases = 5
  Deps <- MCDeps
  Disturbs <- MCDisturbs
INVARIANTS
  DoneIsLive
  NoRunOnBrokenProbe
PROPERTIES
  KeepsPromise
  Converges
