SPECIFICATION FairSpec
CONSTANTS
  Conns = {1, 2, 3}
  MaxConnections = 2
  Grace = 1
  Backlog = 1
  MaxIo = 1
  MaxPools = 2
  MaxEdits = 2
  MaxWork = 2
  MaxQueries = 1
  MaxFaults = 1
  Scenarios <- MCScenarios
INVARIANTS
  PoolOutlivesConns
  NoLostMail
  NoLostNsChange
  CountsKept
PROPERTIES
  GraceRespected
  
