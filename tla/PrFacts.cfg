SPECIFICATION FairSpec
CONSTANTS
  None = None
  MaxHead = 2
  CiBudget = 1
  ReviewBudget = 1
  MaxHooks = 2
  MaxDeeds = 2
INVARIANT TypeOK
PROPERTIES
  CompletedStaysCompleted
  
CHECK_DEADLOCK FALSE
