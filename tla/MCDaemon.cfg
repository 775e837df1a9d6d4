SPECIFICATION Spec
CONSTANTS
  d1 = d1 d2 = d2 c1 = c1
  Daemons = {d1, d2}
  Conns = {c1}
  None = None
  MaxEvents = 3
  ConflictEvents = {2, 3}
  PairEvents = {1, 2, 3}
  SubDepth = 1
  NotifDepth = 1
INVARIANTS TypeOK SocketOwned NothingLost SeenIsLogged
PROPERTIES Stops SubscriptionGoes
