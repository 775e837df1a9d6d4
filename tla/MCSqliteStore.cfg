SPECIFICATION Spec
CONSTANTS
  a1 = a1 a2 = a2 p1 = p1 p2 = p2 e1 = e1 r1 = r1 o1 = o1 k1 = k1 c1 = c1 c2 = c2
  Accounts = {a1, a2}
  Pairs = {p1, p2}
  Entries = {e1}
  Runs = {r1}
  Ops = {o1}
  Conflicts = {k1}
  Events = {v1}
  upn <- MCUpn
  account_id <- MCAccountId
  same_folder <- MCSameFolder
  entry_pair <- MCEntryPair
  run_pair <- MCRunPair
  run_id <- MCRunId
  conflict_pair <- MCConflictPair
  NoOp = NoOp
  NoPair = NoPair
  MaxAge = 2
  Pool = {c1, c2}
  First = c1
  AuditDays = 1
  RunDays = 1
  ConflictDays = 1
  PairDays = 0
INVARIANTS TypeOK NoDangling
PROPERTIES LiveKept RecentKept AsInMemory
