SPECIFICATION Spec
CONSTANTS
  Sessions = {s1}
  YotiSessions = {y1, y2}
  Codes = {c1}
  PdfPreferences = {email}
  Invocations = {i1, i2}
  AuthSessionTtl = 3
  YotiSessionTtl = 1
  MaxReceiveCount = 1
  LastDay = 0
  MaxStale = 0
  MaxFaults = 0
  MaxTokens = 1
  None = None
SYMMETRY Symmetry
CHECK_DEADLOCK FALSE
INVARIANTS
  TypeOK
  IssuedMeansSent
  CodeAfterLetter
  AnswerIsFinal
PROPERTY
  RestartMeansTwoLetters
