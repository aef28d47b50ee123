SPECIFICATION AuthFairSpec
CONSTANTS
  Users = {u1}
  SessionIDs = {s1}
  Procs = {p1, p2}
  SessionTTL = 2
  TokenTTL = 2
  Faulty = TRUE
  NoKey = NoKey
INVARIANTS
  AuthTypeOK
PROPERTIES
  DeletedUserLosesAccess
  DeletedGetNoTokens
  AbandonedSessionsGo
