SPECIFICATION FairSpec
CONSTANTS
  Core = {"launcher", "usergroup"}
  Advisory = {}
  Infra = {"opensearch"}
  NoService = "none"
  Attempts = 3
  Faulty <- MCFaulty
INVARIANTS
  RewritesAlone
  StuckAfterTwoDeploys
PROPERTIES
  Recovers
