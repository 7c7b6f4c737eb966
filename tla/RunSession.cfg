SPECIFICATION Spec
CONSTANTS
  NoRun = NoRun
  Pass = Pass
  Operator = Operator
  NoTask = NoTask
  r1 = r1
  r2 = r2
  Runs = {r1, r2}
  RepairTypes = {"ci_repair"}
  ZombieBudget = 1
  RepairBudget = 1
  MaxDeeds = 2
  Serial = TRUE
SYMMETRY RunSymmetry
INVARIANTS
  
  RecoveryIsBounded
PROPERTIES
  TerminalIsFinal
  
CHECK_DEADLOCK FALSE
