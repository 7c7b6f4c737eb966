SPECIFICATION Spec
CONSTANTS
  Main = Main
  Null = Null
  HeadRun = HeadRun
  x = x
  y = y
  z = z
  PR = {x, y}
  Shapes <- Unstacked
  Conflicts <- AllPairs
  Depth = 2
  MaxRetries = 1
  FlakyRetries = 1
  MaxEntries = 2
  Deeds <- Repairs
  MaxDeeds = 2
SYMMETRY PRSymmetry

  
PROPERTIES
  
  LandsAdmitted
  
CHECK_DEADLOCK FALSE
