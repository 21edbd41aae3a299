SPECIFICATION FsSpec
CONSTANTS
  Readers = {q1, q2}
  Nsids = {1}
  MaxChanges = 2
  Fds = {1, 2}
  FileSlots = 1
  MaxCalls = 2
INVARIANTS
  IoReachesOwnFile
