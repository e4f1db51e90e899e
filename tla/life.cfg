CONSTANTS
  p1 = p1
  n1 = n1
  Pod = {p1}
  Node = {n1}
  MethodsUsed = {"NodeLabel", "Taint"}
  MaxMishaps = 1
SPECIFICATION LiveSpec
CHECK_DEADLOCK FALSE
INVARIANTS
  TypeOK
PROPERTIES
  KeysCollected
  KeysMaintained
  DeletionCompletes
  WritesUnderFinalizer
