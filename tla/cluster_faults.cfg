CONSTANTS
  a = a
  b = b
  c = c
  Pod = {a, b}
  NumGroups = 2
  GroupOf <- OneOne
  Named = {0}
  Broken = {}
  Wait <- NoWait
  Churning = {a, b}
  Flaky = {a, b}
  Ending = {a}
  MayDelete = TRUE
SPECIFICATION Spec
INVARIANTS
  TypeOK
  IndexJustified
  NothingForgotten
PROPERTIES
  NoEarlyRelease
  OneGroupAtATime
  DeletionReleasesRead
  KeepsOrder
