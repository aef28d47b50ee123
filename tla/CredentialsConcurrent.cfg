SPECIFICATION Spec
CONSTANTS
  UserIDs = {u1}
  Procs = {p1, p2}
  Passwords = {old, new, short}
  Unhashable = {short}
  EnableLegacyAuth = TRUE
  EnablePasswordMigration = TRUE
  EnableV1API = TRUE
  MigratorCalled = TRUE
  Faulty = TRUE
  NoRow = NoRow
  Blank = Blank
  NoPassword = NoPassword
INVARIANTS
  TypeOK
  CredentialsAsAcknowledged
  ChecksHold
  UpgradedAtLogin
  CountedBcryptIsStrong
PROPERTIES
  ResetHolds
