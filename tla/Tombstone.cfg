SPECIFICATION Spec
CONSTANTS
  Paths <- MCPaths
  UserPaths <- MCUserPaths
  Contents = {"s", "t"}
  Dir = Dir
  Gone = Gone
  UserItems = {"s", "t", Gone}
  Folders <- MCFolders
  SizeOf <- MCSizeOf
  Large = {"t"}
  Fold <- MCNumber
  NoCase <- MCNumber
  Rank <- MCNumber
  Leaf <- MCSelf
  CaseTarget <- MCCaseTarget
  Loser <- MCLoser
  CaseSensitive = TRUE
  Stores = {"memory"}
  RelPaths <- MCRelPaths
  PageSize = 1
  Drives <- MCDrives
  FirstSeq = 1
  RetryMax = 2
  MaxRuns = 2
  MaxEdits = 3
  MaxFaults = 0
PROPERTY
  DeletionSparesLocalEdits
CHECK_DEADLOCK FALSE
