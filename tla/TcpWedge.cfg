SPECIFICATION FairConnSpec
CONSTANTS
  NSlots = 4
  BatchCap = 3
  SendZc = FALSE
  IsAdmin = FALSE
  HostDepth = 3
  MaxCmds = 6
  MaxRetries = 1
  Capsules = {"cmd"}
  Faults = {"send_error"}
PROPERTY SendFailureEndsConnection
CHECK_DEADLOCK FALSE
