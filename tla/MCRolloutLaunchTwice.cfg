SPECIFICATION Spec
CONSTANTS
  Scalars <- MCScalars
  Logging <- MCLogging
  Values = {"a", "b"}
  NoValue = "unset"
  Configs <- MCFewConfigs
  Faulty = {"start"}
  ByHand = FALSE
  HashBound = 2
INVARIANT
  NoSecondDeploy
