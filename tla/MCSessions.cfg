SPECIFICATION Spec
CONSTANTS
  Users = {u1}
  SessionIDs = {s1, s2}
  Procs = {p1, p2}
  SessionTTL = 2
  Faulty = TRUE
  NoKey = NoKey
SYMMETRY Symmetry
INVARIANTS
  TypeOK
  EndedStaysEnded
  KeyOutlivesSession
PROPERTIES
  ImplementsRegister
