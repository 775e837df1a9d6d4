SPECIFICATION Spec
CONSTANTS
  NumPairs = 2
  NumAdded = 1
  Accounts = {"acct"}
  AccountOf <- MCAccountOf
  Folder <- MCFolder
  Remote <- MCRemote
  Conns = {1}
  QueueDepth = 1
  MaxToken = 1
  MaxRequests = 4
PROPERTIES
  PauseHolds
