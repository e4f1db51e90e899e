CONSTANTS
  a = a
  b = b
  c = c
  Pod = {a, b, c}
  NumGroups = 2
  GroupOf <- TwoOne
  Named = {0}
  Broken = {1}
  Wait <- NoWait
  Churning = {b}
  Flaky = {a}
  Ending = {b}
  MayDelete = FALSE
SPECIFICATION Spec
INVARIANTS
  IndexJustified
  NothingForgotten
