SPECIFICATION VisitsSpec
CONSTANTS
  Sessions = {s1, s2}
  YotiSessions = {y1, y2}
  Codes = {}
  PdfPreferences = {email}
  Invocations = {i1}
  AuthSessionTtl = 2
  YotiSessionTtl = 0
  MaxReceiveCount = 1
  LastDay = 1
  MaxStale = 0
  MaxFaults = 0
  MaxTokens = 1
  None = None
CHECK_DEADLOCK FALSE
INVARIANTS
  ExpiredOnlyWhenOld
  MarkedMeansReported
PROPERTIES
  OverdueIsSwept
  OverdueIsReported
