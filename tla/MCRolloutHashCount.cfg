SPECIFICATION Spec
CONSTANTS
  Scalars <- MCScalars
  Logging <- MCLogging
  Values = {"a", "b"}
  NoValue = "unset"
  Configs <- MCConfigs
  Faulty = {"hash_count"}
  ByHand = FALSE
  HashBound = 2
INVARIANT
  RolloutNotForgotten
