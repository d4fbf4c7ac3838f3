SPECIFICATION Spec
CONSTANTS
  Processes = {p, q}
  Nobody = nobody
  Slots = {1}
  First = 1
  Presses = 1
  Habits <- MCHabits
  Nodes = 2
  Troubles = 2
  Folders = {"none"}
  Filters = TRUE
  Elsewhere <- MCElsewhere
PROPERTY GreenMeansBuilt
