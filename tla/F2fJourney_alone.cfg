SPECIFICATION Spec
CONSTANTS
  Sessions = {s1, s2}
  YotiSessions = {y1, y2}
  Codes = {c1, c2}
  PdfPreferences = {email}
  Invocations = {i1}
  AuthSessionTtl = 1
  YotiSessionTtl = 4
  MaxReceiveCount = 1
  LastDay = 0
  MaxStale = 0
  MaxFaults = 0
  MaxTokens = 2
  None = None
SYMMETRY Symmetry
CHECK_DEADLOCK FALSE
INVARIANTS
  CredentialForOwner
  TokenForCodeOwner
  CodeExchangedOnce
  OneYotiSession
PROPERTIES
  YotiSessionIsStable
  OnlyCallbacksGoBack
