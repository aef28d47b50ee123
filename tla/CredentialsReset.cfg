SPECIFICATION Spec
CONSTANTS
  UserIDs = {u1}
  Procs = {p1}
  Passwords = {old, new, short}
  Unhashable = {short}
  EnableLegacyAuth = TRUE
  EnablePasswordMigration = TRUE
  EnableV1API = TRUE
  MigratorCalled = FALSE
  Faulty = FALSE
  NoRow = NoRow
  Blank = Blank
  NoPassword = NoPassword
PROPERTY
  ResetsOnlyLegacy
