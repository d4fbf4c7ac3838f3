SPECIFICATION Spec
CONSTANTS
  Scalars <- MCScalars
  Logging <- MCLogging
  Values = {"a", "b"}
  NoValue = "unset"
  Configs <- MCFewConfigs
  Faulty <- StartAnswered
  ByHand = TRUE
  HashBound = 2
INVARIANT
  NoSecondDeploy
PROPERTY
  NoWriteUnderDeploy
