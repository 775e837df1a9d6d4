SPECIFICATION Spec
CONSTANTS
  Paths <- MCPaths
  UserPaths <- MCUserPaths
  Contents = {"s", "t"}
  Dir = Dir
  Gone = Gone
  UserItems = {"s", "t", Gone}
  Folders <- MCFolders
  SizeOf <- MCSizeOf
  Large = {"t"}
  Fold <- MCNumber
  NoCase <- MCNumber
  Rank <- MCNumber
  Leaf <- MCSelf
  CaseTarget <- MCCaseTarget
  Loser <- MCLoser
  CaseSensitive = TRUE
  Stores = {"memory"}
  RelPaths <- MCRelPaths
  PageSize = 2
  Drives <- MCDrives
  FirstSeq = 1
  RetryMax = 2
  MaxRuns = 3
  MaxEdits = 3
  MaxFaults = 1
INVARIANTS
  TypeOK
  CursorCovers
  ParkedHasConflictRow
  SuccessMeansNoFailure
  ParkedNotTransferred
PROPERTIES
  NoConflictWhileParked
  LocalContentKept
CHECK_DEADLOCK FALSE
