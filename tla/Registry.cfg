SPECIFICATION RegistrySpec
CONSTANTS
  AdminConns = {a1, a2, a3}
  IoConns = {q1, q2}
  Hosts = {h1, h2}
  CntlidMin = 3
  CntlidMax = 4
  MaxQid = 1
  Nobody = Nobody
SYMMETRY ConnSymmetry
INVARIANTS
  RegistrySafety
  OnlyOrphansFollow
CHECK_DEADLOCK FALSE
