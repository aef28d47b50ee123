SPECIFICATION Spec
CONSTANTS
  Users = {u1}
  SessionIDs = {s1}
  Procs = {p1, p2}
  SessionTTL = 2
  Faulty = FALSE
  NoKey = NoKey
INVARIANT
  EndedIsFinal
