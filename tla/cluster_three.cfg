CONSTANTS
  a = a
  b = b
  c = c
  Pod = {a, b, c}
  NumGroups = 3
  GroupOf <- OneOneOne
  Named = {0}
  Broken = {}
  Wait <- LastInvalid
  Churning = {b}
  Flaky = {}
  Ending = {b}
  MayDelete = TRUE
SPECIFICATION Spec
INVARIANTS
  NothingForgotten
PROPERTIES
  NoEarlyRelease
  DeletionReleasesRead
  KeepsOrder
