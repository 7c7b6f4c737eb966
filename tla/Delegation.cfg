SPECIFICATION FairSpec
CONSTANTS
  NoRun = NoRun
  r1 = r1
  r2 = r2
  Runs = {r1, r2}
  MaxChanges = 3
  MaxFaults = 2

  
PROPERTIES
  RevokedIsNotPublished
  
  
CHECK_DEADLOCK FALSE
