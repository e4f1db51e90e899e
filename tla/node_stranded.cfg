CONSTANTS
  a1 = a1
  a2 = a2
  b1 = b1
  b2 = b2
  u = u
  w = w
  x = x
  n1 = n1
  n2 = n2
  dA = dA
  dB = dB
  None = None
  Matches <- MCMatches
  Terms <- MCTerms
  Owner <- MCOwner
  Selects <- MCSelects
  RunsOn <- Anywhere
  NumGroups = 2
  DaemonSet = {dA, dB}
  Pod = {u}
  Node = {n1, n2}
  OptedIn = {}
  Bypassed = {}
  Tolerates <- TolerateOwn
  Require = {}
  Wait <- FirstWaits
  GateTimeout = 0
  Present = {n1, dA, dB}
  FailOpen = {}
  Churning = {}
  Flaky = {}
  Slow = {}
  Volatile = {}
  Foreign = {}
  JoinTaint <- Unset
  Specs <- Valid
  MayEdit = TRUE
  NodeResync = 3
SPECIFICATION Spec
INVARIANTS
  ReleasedEverywhere
