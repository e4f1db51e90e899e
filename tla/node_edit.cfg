CONSTANTS
  a1 = a1
  a2 = a2
  b1 = b1
  b2 = b2
  u = u
  w = w
  x = x
  n1 = n1
  n2 = n2
  dA = dA
  dB = dB
  None = None
  Matches <- MCMatches
  Terms <- MCTerms
  Owner <- MCOwner
  Selects <- MCSelects
  RunsOn <- Anywhere
  NumGroups = 2
  DaemonSet = {dA, dB}
  Pod = {a1, b1, u}
  Node = {n1}
  OptedIn = {}
  Bypassed = {}
  Tolerates <- OnlyBTolerates
  Require = {}
  Wait <- FirstWaitsOne
  GateTimeout = 0
  Present = {}
  FailOpen = {}
  Churning = {}
  Flaky = {}
  Slow = {}
  Volatile = {}
  Foreign = {}
  JoinTaint = 0
  Specs <- All
  MayEdit = TRUE
  NodeResync = 2
SPECIFICATION Spec
INVARIANTS
  TypeOK
  NothingWithheld
  StuckIsReported
  SteeringExact
PROPERTIES
  SteeredInOrder
