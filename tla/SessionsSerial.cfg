SPECIFICATION FairSpec
CONSTANTS
  Users = {u1, u2}
  SessionIDs = {s1, s2}
  Procs = {p1}
  SessionTTL = 2
  Faulty = FALSE
  NoKey = NoKey
INVARIANTS
  TrackedWhenQuiet
PROPERTIES
  LogoutAllEndsAll
  AbandonedSessionsGo
  ListedSetsShrink
