SPECIFICATION Spec
CONSTANTS
  Scalars <- MCScalars
  Logging <- MCLogging
  Values = {"a", "b"}
  NoValue = "unset"
  Configs <- MCConfigs
  Faulty = {"last_hash"}
  ByHand = FALSE
  HashBound = 2
INVARIANT
  GreenMeansDeployed
