CONSTANTS
  u1 = u1
  u2 = u2
  u3 = u3
  Accounts <- MCAccounts
  Root = root
  Daemon = daemon
  Unresolved = unresolved
  MAX_REVISION_ACCOUNTS = 2
  MaxChanges = 6
SPECIFICATION RevisionSpec
INVARIANT CountsFitRevision
PROPERTIES ObservedChangeMoves
CHECK_DEADLOCK FALSE
