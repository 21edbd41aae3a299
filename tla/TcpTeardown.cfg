SPECIFICATION FairConnSpec
CONSTANTS
  NSlots = 2
  BatchCap = 1
  SendZc = TRUE
  IsAdmin = TRUE
  HostDepth = 1
  MaxCmds = 2
  MaxRetries = 0
  Capsules = {"cmd", "bad_digest", "r2t"}
  Faults = {"send_error", "close", "silence", "host_term", "bad_pdu"}
INVARIANTS
  FreedMemoryUnreferenced
  StaleShutdownOnlyAfterLeak

  
  
CHECK_DEADLOCK FALSE
