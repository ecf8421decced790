SPECIFICATION KeysSpec
CONSTANTS
  k1 = k1
  k2 = k2
  k3 = k3
  None = None
  Kids <- MCKids
  MaxAge = 1
  LastTime = 3
  MaxRotations = 1
SYMMETRY KidSymmetry
INVARIANTS
  KeysTypeOK
PROPERTIES
  RotationLosesNoRequest
  RefusedOnlyWhenNew
  WithdrawnIsForgotten
CHECK_DEADLOCK FALSE
