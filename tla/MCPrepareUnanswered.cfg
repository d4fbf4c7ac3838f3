SPECIFICATION Spec
CONSTANTS
  Nodes = 2
  Polls = 2
  Room = 4
  Loads = 2
  Troubles = 3
INVARIANT NoWriteBesideAnother
