CONSTANTS
  Device = {phone}
  Position = {0, 1}
  MaxTime = 3
  MaxWriters = 1
SPECIFICATION Spec
PROPERTIES LateSampleChangesNothing
CHECK_DEADLOCK FALSE
