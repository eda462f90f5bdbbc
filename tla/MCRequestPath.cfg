CONSTANTS
  a1 = a1
  k1 = k1
  k2 = k2
  p1 = p1
  t1 = t1
  u1 = u1
  u2 = u2
  root = root
  Root = root
  Awake = awake
  Parked = parked
  Stopped = stopped
  Nobody = nobody
  Daemon = daemon
  Unresolved = unresolved
  Requests <- Contended
  Tasks <- MCTasks
  Uids <- MCUids
  class <- MCClass
  kind <- MCKind
  uid <- MCUid
  owner <- MCOwner
  Tracked <- MCTracked
  Sessions <- MCSessions
SPECIFICATION FairPathSpec
INVARIANTS PathTypeOK CancelReachesOwnJob LiveMatchesArbiter WaiterHasServer
PROPERTIES RefusalIsShown AuthenticationIsServed WaitEnds
CHECK_DEADLOCK FALSE
