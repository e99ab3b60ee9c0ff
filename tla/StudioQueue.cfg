CONSTANTS
  Job = {1, 2}
  Kind <- MCKind
  Slots <- MCSlots
  MaxActive = 2
  MaxEvents = 2
SPECIFICATION FairQueueSpec
INVARIANT IrrevocableIsWanted
PROPERTIES StagesAreGates WaitingIsRetried
CHECK_DEADLOCK FALSE
