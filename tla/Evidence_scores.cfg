SPECIFICATION Spec
CONSTANTS
  d1 = d1
  d2 = d2
  ro = ro
  ma = ma
  Letters = {ro, ma}
  Space = Space
  DocumentIds = {d1, d2}
  Answers <- MCAnswers
  None = None
CHECK_DEADLOCK FALSE
INVARIANTS
  TypeOK
  VerifiedMeansApproved
  NoContraIndicatorLost
  ScoresAgree
  FamilyNameIsTheirs
  GivenNamesUnlessRepeated
