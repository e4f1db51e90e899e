CONSTANTS
  a = a
  b = b
  c = c
  Pod = {a, b}
  NumGroups = 2
  GroupOf <- OneOne
  Named = {0}
  Broken = {}
  Wait <- AllWait
  Churning = {b}
  Flaky = {}
  Ending = {a}
  MayDelete = TRUE
SPECIFICATION LiveSpec
PROPERTIES
  EventuallyCompleted
  EventuallyReleased
  HeldBack
  DeletionCompletes
