SPECIFICATION FairSpec
CONSTANTS
  Keyed = {TRUE, FALSE}
  Right = {TRUE, FALSE}
  Unread = 3
  Contents <- MCContents
  NoContent = "none"
  Length <- MCLength
  HasKey = {"long"}
  Shells = 1
  Lingers = FALSE
INVARIANTS
  TypeOK
  DeniedIsDenied
PROPERTIES
  IsAtomic
  OperationEnds
