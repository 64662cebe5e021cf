CONSTANTS
  f1 = f1
  big = big
  a1 = a1
  p1 = p1
  p2 = p2
  x1 = x1
  x2 = x2
  Plain <- MCPlain
  Large <- MCBig
  Archives <- MCArchive
  Pieces <- MCParts
  Scenes <- MCScenes
SPECIFICATION FairSpec
CHECK_DEADLOCK FALSE
INVARIANTS DeliveredOrWiped SentAgainOnlyInDoubt
PROPERTY JobEnds
