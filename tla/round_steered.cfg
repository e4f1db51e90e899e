CONSTANTS
  a = a
  b = b
  u = u
  n1 = n1
  dA = dA
  dB = dB
  None = None
  Sequence = Sequence
  Matches <- MCMatches
  Terms <- MCTerms
  Owner <- MCOwner
  Selects <- MCSelects
  RunsOn <- Anywhere
  NumGroups = 2
  Node = {n1}
  OptedIn = {}
  Bypassed = {}
  Tolerates <- Tolerant
  Require = {}
  Wait <- NoWait
  GateTimeout = 0
  Pod = {a, u}
  DaemonSet = {dA}
  Present = {n1}
  Churning = {u}
  Flaky = {a}
  Volatile = {}
  Foreign = {"pressure"}
  MethodsUsed = {"NodeLabel", "Taint"}
  MayEdit = TRUE
  MaxMishaps = 1
SPECIFICATION Spec
INVARIANTS
  TypeOK
  NothingLeftUndone
PROPERTIES
  SteeredInOrder
  RulesBeforeGate
  OthersTaintsKept
