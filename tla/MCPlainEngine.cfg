SPECIFICATION PlainFairSpec
CONSTANTS
  NPhases = 5
  Deps <- MCDeps
  Disturbs <- MCDisturbs
INVARIANTS
  PlainTypeOK
PROPERTIES
  PlainKeepsPromise
  PlainConverges
