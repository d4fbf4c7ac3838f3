SPECIFICATION FairSpec
CONSTANTS
  Nodes = 2
  Polls = 2
  Room = 4
  Loads = 2
  Troubles = 3
INVARIANTS
  TypeOK
  GreenMeansPrepared
  NoSecondWriter
PROPERTY Prepared
