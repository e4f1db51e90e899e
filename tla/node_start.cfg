CONSTANTS
  a1 = a1
  a2 = a2
  b1 = b1
  b2 = b2
  u = u
  w = w
  x = x
  n1 = n1
  n2 = n2
  dA = dA
  dB = dB
  None = None
  Matches <- MCMatches
  Terms <- MCTerms
  Owner <- MCOwner
  Selects <- MCSelects
  RunsOn <- Anywhere
  NumGroups = 2
  DaemonSet = {dA, dB}
  Pod = {a1, b1, x}
  Node = {n1}
  OptedIn = {x}
  Bypassed = {}
  Tolerates <- OnlyBTolerates
  Require = {}
  Wait <- FirstWaits
  GateTimeout = 3
  Present = {dA, dB}
  FailOpen = {a1}
  Churning = {a1}
  Flaky = {a1}
  Slow = {}
  Volatile = {n1}
  Foreign = {"other"}
  JoinTaint <- Unset
  Specs <- Labels
  MayEdit = FALSE
  NodeResync = 4
SPECIFICATION Spec
INVARIANTS
  NothingWithheld
  StatusTruthful
PROPERTIES
  StartsInOrder
