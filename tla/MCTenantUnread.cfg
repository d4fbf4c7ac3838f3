SPECIFICATION FairSpec
CONSTANTS
  Faulty = {"log"}
PROPERTY
  CreatedIsNotRerun
