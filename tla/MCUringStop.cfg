SPECIFICATION FairSpec
CONSTANTS
  o1 = o1
  o2 = o2
  o3 = o3
  Ops <- MCOps
  SqEntries = 2
  CqEntries = 2
  IndexMod = 4
  Results <- MCResults
  MaxRefused = 0
  None = None
PROPERTY StopEndsRun
