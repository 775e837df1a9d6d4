SPECIFICATION Spec
CONSTANTS
  Paths <- MCPaths
  UserPaths <- MCUserPaths
  Contents = {"s", "t"}
  Dir = Dir
  Gone = Gone
  UserItems = {"s", "t", Gone}
  Folders <- MCFolders
  SizeOf <- MCSizeOf
  Large = {"t"}
  Fold <- MCNumber
  NoCase <- MCNumber
  Rank <- MCNumber
  Leaf <- MCSelf
  CaseTarget <- MCCaseTarget
  Loser <- MCLoser
  CaseSensitive = TRUE
  Stores = {"sqlite"}
  RelPaths <- MCRelPaths
  PageSize = 1
  Drives <- MCDrives
  FirstSeq = 1
  RetryMax = 2
  MaxRuns = 1
  MaxEdits = 1
  MaxFaults = 0
INVARIANT
  FailureIsRecorded
CHECK_DEADLOCK FALSE
