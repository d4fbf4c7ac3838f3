SPECIFICATION Spec
CONSTANTS
  Scalars <- MCScalars
  Logging <- MCLogging
  Values = {"a", "b"}
  NoValue = "unset"
  Configs <- MCFewConfigs
  Faulty = {"busy"}
  ByHand = FALSE
  HashBound = 2
PROPERTY
  NoWriteUnderDeploy
