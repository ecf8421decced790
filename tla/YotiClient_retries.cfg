SPECIFICATION ClientSpec
CONSTANTS
  c1 = c1
  c2 = c2
  i1 = i1
  i2 = i2
  None = None
  Space = Space
  Letters <- MCLetters
  DocumentIds <- MCDocumentIds
  Callers <- MCCallers
  Instances <- MCInstances
  Journeys <- MCJourneys
  MaxRetries = 3
  Backoff = 5
  GatewayTimeout = 29
  LambdaTimeout = 30
  MaxDrops = 1
INVARIANTS
  ClientTypeOK
  SoleCallerIsServed
  SoleCallerIsInTime
  EndsAsTested
PROPERTIES
  AttemptsAreCounted
  CallsEnd
CHECK_DEADLOCK FALSE
