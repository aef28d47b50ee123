SPECIFICATION ServerFairSpec
CONSTANTS
  Users = {u1, u2, u3}
  Clients = {c1}
  Limit = 2
  Faulty = TRUE
  Others = {r1}
  MaxOpenConns = 1
INVARIANTS
  ServerTypeOK
  NoneMissed
  NoneRepeated
PROPERTIES
  Answered
  ShutdownEnds
