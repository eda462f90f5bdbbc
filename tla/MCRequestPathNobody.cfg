CONSTANTS
  a1 = a1
  k1 = k1
  k2 = k2
  p1 = p1
  t1 = t1
  u1 = u1
  u2 = u2
  root = root
  Root = root
  Awake = awake
  Parked = parked
  Stopped = stopped
  Nobody = nobody
  Daemon = daemon
  Unresolved = unresolved
  Requests <- Alone
  Tasks <- MCTasks
  Uids <- MCUids
  class <- MCClass
  kind <- MCKind
  uid <- MCUid
  owner <- MCOwner
  Tracked <- MCTracked
  Sessions <- MCSessions
SPECIFICATION PathSpec
PROPERTY NeverStartedForNobody
CHECK_DEADLOCK FALSE
