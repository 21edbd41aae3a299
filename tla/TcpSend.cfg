SPECIFICATION ConnSpec
CONSTANTS
  NSlots = 3
  BatchCap = 2
  SendZc = TRUE
  IsAdmin = FALSE
  HostDepth = 3
  MaxCmds = 4
  MaxRetries = 1
  Capsules = {"cmd"}
  Faults = {"send_error"}
INVARIANTS
  SendMemoryHeld
  SenderNotStranded
PROPERTIES
  SlotProtocol
CHECK_DEADLOCK FALSE
