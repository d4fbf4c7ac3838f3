SPECIFICATION FairSpec
CONSTANTS
  Processes = {p, q}
  Nobody = nobody
  Slots = {1}
  First = 1
  Presses = 1
  Habits <- MCHabits
  Nodes = 2
  Troubles = 2
  Folders = {"none", "name", "path"}
  Filters = TRUE
  Elsewhere <- MCElsewhere
INVARIANTS
  TypeOK
  OneDeploy
  UploadsAreStopped
PROPERTIES
  GreenMeansUp
  AllVmsUp
