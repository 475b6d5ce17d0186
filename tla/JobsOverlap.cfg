SPECIFICATION JobsSpec
CONSTANTS
  Event = {1}
  Worker = {w1, w2, w3}
  MaxAttempts = 2
  Limit = 2
  Document = {1}
  Scanner = {w1, w2, w3}
  ScanLimit = 2
  Artifact = {1, 2}
  Syncer = {s1, s2}
  SyncMax = 2
  SyncLimit = 2
  Visit = {w1, w2, w3}
  Sender = {s1, s2}
  Address = {at1, at2}
  Process = {busy, other}
  Busy = busy
  Unknown = Unknown
  Application = {w1, w2, w3}
  Mail = {e1, e2}
  Nickname = {n1}
  User = {s1, s2}
  Approver = {a1, a2}
  Nobody = Nobody
  Field = {status, review}
  Value = {v1, v2}
  Clerk = {s1, s2}
INVARIANTS
  DuplicateOnlyAfterLapse
  OutcomesEarned
  ServedWasCleared
  VerdictsAgree
  SyncEarned
  FormsOnce
  AccountsFollow
  NoticesFollow
PROPERTIES
  EmailsAreLeased
  ScansAreLeased
  InfectedStaysBlocked
  SyncUndoneOnlyShared
SYMMETRY Symmetric
CHECK_DEADLOCK FALSE
