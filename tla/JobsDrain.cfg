SPECIFICATION JobsLiveSpec
CONSTANTS
  Event = {1, 2}
  Worker = {w1}
  MaxAttempts = 2
  Limit = 1
  Document = {1, 2}
  Scanner = {w1}
  ScanLimit = 1
  Artifact = {1, 2}
  Syncer = {w1, w2}
  SyncMax = 2
  SyncLimit = 1
  Visit = {w1}
  Sender = {w1}
  Address = {w1}
  Process = {w1}
  Busy = w1
  Unknown = Unknown
  Application = {w1}
  Mail = {w1}
  Nickname = {w1}
  User = {w1}
  Approver = {w1}
  Nobody = Nobody
  Field = {w1}
  Value = {w1}
  Clerk = {w1}
PROPERTIES
  JobsSettle
CHECK_DEADLOCK FALSE
