SPECIFICATION FairSpec
CONSTANTS
  NoRun = NoRun
  Pass = Pass
  Operator = Operator
  NoTask = NoTask
  r1 = r1
  r2 = r2
  Runs = {r1}
  RepairTypes = {"ci_repair", "review_fix"}
  ZombieBudget = 1
  RepairBudget = 1
  MaxDeeds = 2
  Serial = TRUE
INVARIANTS
  TypeOK
PROPERTIES
  RunsEnd
  DanglingCleared
  WorkIsQueued
CHECK_DEADLOCK FALSE
