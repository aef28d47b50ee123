SPECIFICATION FairSpec
CONSTANTS
  UserIDs = {u1}
  Profiles = {a, b}
  Procs = {p1, p2, p3}
  Faulty = TRUE
  NoRow = NoRow
  Miss = Miss
INVARIANTS
  TypeOK
  StaleOnlyIfRaced
PROPERTIES
  Converges
  ImplementsDirectory
