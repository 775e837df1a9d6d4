SPECIFICATION Spec
CONSTANTS
  Paths <- MCPaths
  UserPaths <- MCUserPaths
  Contents = {"s"}
  Dir = Dir
  Gone = Gone
  UserItems = {"s", Dir, Gone}
  Folders <- MCFolders
  SizeOf <- MCSizeOf
  Large = {}
  Fold <- MCFold
  NoCase <- MCNoCase
  Rank <- MCRank
  Leaf <- MCSelf
  CaseTarget <- MCCaseTarget
  Loser <- MCLoser
  CaseSensitive = FALSE
  Stores = {"sqlite", "memory"}
  RelPaths <- MCRelPaths
  PageSize = 1
  Drives <- MCDrives
  FirstSeq = 1
  RetryMax = 1
  MaxRuns = 2
  MaxEdits = 2
  MaxFaults = 1
INVARIANTS
  ParkedHasConflictRow
  OneTransferPerName
PROPERTIES
  CycleDescends
  CycleEnds
CHECK_DEADLOCK FALSE
