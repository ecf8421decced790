SPECIFICATION SystemSpec
CONSTANTS
  Sessions = {s1, s2}
  YotiSessions = {y1, y2}
  Codes = {}
  PdfPreferences = {email, letter}
  EmailOnly = email
  PrintedLetter = letter
  Invocations = {i1}
  AuthSessionTtl = 2
  YotiSessionTtl = 2
  ReminderDays = 1
  MaxReceiveCount = 1
  NotifyReceiveCount = 2
  LastDay = 3
  MaxStale = 0
  MaxFaults = 1
  MaxTokens = 1
  None = None
SYMMETRY Symmetry
CONSTRAINTS
  InstructionsOnly
  OneThingAtATime
  OneDeletion
  TwoReminders
CHECK_DEADLOCK FALSE
INVARIANTS
  SystemTypeOK
  InstructionsMatchRow
  PostedWasAskedFor
  FlagMeansQueued
  RemindedOnce
PROPERTY
  KeepsInstructions
