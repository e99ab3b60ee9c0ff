CONSTANTS
  Laptop = {l1, l2}
  MaxClaims = 2
  MaxStops = 0
  MaxStudioFaults = 0
SPECIFICATION CompanionFairSpec
PROPERTIES ExpiredLeaseIsRecovered
CHECK_DEADLOCK FALSE
