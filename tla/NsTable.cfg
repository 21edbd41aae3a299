SPECIFICATION FairNsSpec
CONSTANTS
  Readers = {q1, q2}
  Nsids = {1, 2}
  MaxChanges = 2
INVARIANTS
  CacheCoherent
PROPERTIES
  ReadsAreAtomic
  
