SPECIFICATION Spec
CONSTANTS
  Main = Main
  Null = Null
  HeadRun = HeadRun
  x = x
  y = y
  z = z
  PR = {x, y}
  Shapes <- Stacks
  Conflicts = {}
  Depth = 2
  MaxRetries = 1
  FlakyRetries = 1
  MaxEntries = 3
  Deeds <- AllDeeds
  MaxDeeds = 1
SYMMETRY PRSymmetry
INVARIANTS
  TypeOK
  MergedIsLanded
PROPERTIES
  NoStowaway
  NoOpenPrBypassed
  ParentFirst
CHECK_DEADLOCK FALSE
