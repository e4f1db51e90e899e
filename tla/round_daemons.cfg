CONSTANTS
  a = a
  b = b
  u = u
  n1 = n1
  dA = dA
  dB = dB
  None = None
  Sequence = Sequence
  Matches <- MCMatches
  Terms <- MCTerms
  Owner <- MCOwner
  Selects <- MCSelects
  RunsOn <- Anywhere
  NumGroups = 2
  Node = {n1}
  OptedIn = {}
  Bypassed = {}
  Tolerates <- Tolerant
  Require = {}
  Wait <- NoWait
  GateTimeout = 0
  Pod = {a, b}
  DaemonSet = {dA, dB}
  Present = {n1}
  Churning = {b}
  Flaky = {a}
  Volatile = {n1}
  Foreign = {}
  MethodsUsed = {"NodeLabel"}
  MayEdit = FALSE
  MaxMishaps = 1
SPECIFICATION Spec
INVARIANTS
  NothingLeftUndone
PROPERTIES
  StartsInOrder
