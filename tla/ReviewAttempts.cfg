SPECIFICATION FairSpec
CONSTANTS
  h1 = h1
  h2 = h2
  b1 = b1
  b2 = b2
  d1 = d1
  d2 = d2
  Heads = {h1, h2}
  Bases = {b1, b2}
  Passes = {d1}
  SamePatch = TRUE
  MaxReviews = 1
  MaxDeeds = 2
INVARIANTS
  TypeOK
  
  CompletedIsPosted
PROPERTIES
  AttemptsEnd
  
  
