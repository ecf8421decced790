SPECIFICATION Spec
CONSTANTS
  Sessions = {s1}
  YotiSessions = {y1}
  Codes = {c1}
  PdfPreferences = {email}
  Invocations = {i1}
  AuthSessionTtl = 1
  YotiSessionTtl = 2
  MaxReceiveCount = 1
  LastDay = 2
  MaxStale = 0
  MaxFaults = 0
  MaxTokens = 1
  None = None
CHECK_DEADLOCK FALSE
PROPERTY
  ExpiredIsRefusedToCallbacks
