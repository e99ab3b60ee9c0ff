CONSTANTS
  Duration <- MCDuration
  ItemCount = 2
  MinSlot = 2
  Settings <- MCFilmsAsleep
SPECIFICATION TimelineSpec
CHECK_DEADLOCK FALSE
PROPERTY ResumesWhereLeft
