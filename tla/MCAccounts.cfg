CONSTANTS
  Users = {ann, bob}
  NumIds = 2
  NumLogins = 2
  Ports = {p1}
  Conns = {c1, c2}
  Sched = sched
  MaxSerial = 3
  MaxRequests = 2
  MaxAttempts = 2
  NoUser = NoUser
SPECIFICATION Spec
INVARIANTS TypeOK RowHasToken TokenFresh OneExchangePerLogin OwnCode
PROPERTIES GoneForGood LoginEnds
CHECK_DEADLOCK FALSE
