SPECIFICATION FairSpec
CONSTANTS
  ui = ui
  ws = ws
  r1 = r1
  r2 = r2
  r3 = r3
  g1 = g1
  None = None
  Threads <- MCThreads
  Loop = ws
  Requests <- MCRequests
  Cb <- MCCb
  MaxId = 3
INVARIANTS
  TypeOK
  WireIdsUnique
  SoloAnswer
  RunsOnce
  SoloNotDropped
PROPERTIES
  SoloAnswered
  ImplementsRequests
