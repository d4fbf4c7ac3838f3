SPECIFICATION SettingsSpec
CONSTANTS
  SCALARS <- MCScalars
  Values = {"v", "4", "04"}
  NoValue = "no_value"
  Blank = "blank"
  Colon = "colon"
  Plain <- MCPlain
  Versions = {"4"}
  Hosts = {"h", "g"}
  Configs <- MCConfigs
  Shipped <- MCShipped
  Tampered = {"nfs_version"}
  Edits = 2
PROPERTIES
  IndentedKept
CHECK_DEADLOCK FALSE
