CONSTANTS
  Tags = {t1, t2}
  NPages = 5
  ArenaPages = 1
  MaxSegs = 2
  NBufs = 2
  BufSize = 3
  NoChunk = NoChunk
  NoTag = NoTag
  HdrLen = 1
  DgLen = 1
  DirectMin = 2
  PageSize = 1
  Depth = 2
  Scripts <- MCScripts
SPECIFICATION FairSpec
INVARIANTS
  WindowIsStream
  StoredIsSent
  PoolExact
PROPERTY EveryCommandServed
CHECK_DEADLOCK FALSE
