SPECIFICATION FairSpec
CONSTANTS
  Scalars <- MCScalars
  Logging <- MCLogging
  Values = {"a", "b"}
  NoValue = "unset"
  Configs <- MCTwoConfigs
  Faulty <- LateFaulty
  ByHand = FALSE
  HashBound = 1
INVARIANTS
  TypeOK
  RolloutNotForgotten
  GreenMeansApplied
  GreenMeansDeployed
PROPERTY
  RolloutHappens
