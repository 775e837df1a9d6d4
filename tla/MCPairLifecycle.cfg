SPECIFICATION Spec
CONSTANTS
  NumPairs = 2
  NumAdded = 1
  Accounts = {"acct"}
  AccountOf <- MCAccountOf
  Folder <- MCFolder
  Remote <- MCRemote
  Conns = {1}
  QueueDepth = 2
  MaxToken = 1
  MaxRequests = 3
INVARIANTS
  TypeOK
  NoOrphanPair
  CursorNeverAhead
  FirstDeltaBeforeActive
PROPERTIES
  ForceSyncServed
  
