SPECIFICATION FairSpec
CONSTANTS
  Main = Main
  Null = Null
  HeadRun = HeadRun
  x = x
  y = y
  z = z
  PR = {x, y}
  Shapes <- Unstacked
  Conflicts = {}
  Depth = 2
  MaxRetries = 1
  FlakyRetries = 1
  MaxEntries = 2
  Deeds <- AllDeeds
  MaxDeeds = 1

PROPERTIES
  DrainsUnlessRefLost
CHECK_DEADLOCK FALSE
