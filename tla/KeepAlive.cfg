SPECIFICATION KaSpec
CONSTANTS
  IoQueues = {q1, q2}
  TickMin = 2
  TickMax = 3
  Katos = {0, 1, 8}
  NewKatos = {0, 3}
  MaxLag = 1
  AgeCap = 37
INVARIANTS
  SteadyHostLives
  DeadHostNoticed
CHECK_DEADLOCK FALSE
