SPECIFICATION Spec
CONSTANTS
  Main = Main
  Null = Null
  MaxLen = 3
  b1 = b1
  b2 = b2
  b3 = b3
  Branches = {b1, b2, b3}
  Priorities = {0, 1}
  Statuses = {"validating", "merged", "superseded"}
  NoApp = NoApp
  NoRun = NoRun
  n1 = n1
  n2 = n2
  a1 = a1
  Names = {n1, n2}
  Apps = {a1}
  MaxRuns = 3
SYMMETRY DecisionSymmetry
INVARIANTS
  OrderIsPermutation
  StackThenPriority
  ReadyStacksAreRooted
  DownstreamIsClosure
  GreenIsEarned
