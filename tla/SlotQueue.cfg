SPECIFICATION FairSlotSpec
CONSTANT NSlots = 3
INVARIANTS
  SlotSafety
PROPERTIES
  SubmittedIsReleased
  ParkedClaimerWakes
CHECK_DEADLOCK FALSE
