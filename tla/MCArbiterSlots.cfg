CONSTANTS
  a1 = a1
  a2 = a2
  k1 = k1
  k2 = k2
  k3 = k3
  p1 = p1
  t1 = t1
  u1 = u1
  root = root
  Root = root
  Awake = awake
  Parked = parked
  Stopped = stopped
  Requests <- MCRequests
  Tasks <- MCTasks
  Uids <- MCUids
  class <- MCClass
  uid <- MCUid
SPECIFICATION ArbiterSpec
INVARIANT OneCameraJobPerUid
