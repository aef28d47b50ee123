SPECIFICATION Spec
CONSTANTS
  Users = {u1, u2}
  SessionIDs = {s1}
  Procs = {p1}
  SessionTTL = 2
  Faulty = FALSE
  NoKey = NoKey
INVARIANT
  ListedAreOwn
