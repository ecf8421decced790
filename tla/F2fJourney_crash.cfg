SPECIFICATION Spec
CONSTANTS
  Sessions = {s1}
  YotiSessions = {y1}
  Codes = {c1}
  PdfPreferences = {email}
  Invocations = {i1}
  AuthSessionTtl = 1
  YotiSessionTtl = 0
  MaxReceiveCount = 2
  LastDay = 2
  MaxStale = 1
  MaxFaults = 1
  MaxTokens = 1
  None = None
SYMMETRY Symmetry
CONSTRAINT LagOrFaults
ACTION_CONSTRAINTS
  FirstDayEnds
  NothingBegins
CHECK_DEADLOCK FALSE
INVARIANTS
  Backed
  CredentialAfterUpload
PROPERTY
  KeepsPromise
