CONSTANTS
  Conns = {c1, c2, c3}
  Uids = {root, u1, u2}
  Root = root
  Unreadable = unreadable
  NoSlot = noslot
  TOTAL = 3
  ROOT_RESERVED = 1
  PER_ACCOUNT = 2
  RATE = 3
  PENALTY = 2
  MAX_PENALTY_BOX = 2
SPECIFICATION AcceptSpec
INVARIANTS CountersAreLiveSlots RootServable DebtBoundedBySlots
PROPERTIES HeldIsReleased ThrottleHeals
