SPECIFICATION FairSpec
CONSTANTS
  Faulty <- MCFaulty
INVARIANTS
  TypeOK
  GreenMeansTenant
PROPERTIES
  CreatedIsNotRerun
  TenantComes
