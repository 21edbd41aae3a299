SPECIFICATION FairSpec
CONSTANTS
  k1 = k1
  k2 = k2
  recv = recv
  poll = poll
  zc = zc
  None = None
  Keys = {k1, k2}
  Ops = {recv, poll, zc}
  Kind <- MCKind
  SqEntries = 2
  MaxShots = 2
  DrainRounds = 1
INVARIANTS KernelMemoryHeld CancelHitsOrphan ResultsInOrder 
PROPERTY OrphanReclaimed
CHECK_DEADLOCK FALSE
