CONSTANTS
  phone = phone
  tablet = tablet
  Device = {phone, tablet}
  Position = {0, 1}
  MaxTime = 3
  MaxWriters = 2
  Film = {f1}
  e1 = e1
  e2 = e2
  Episode <- MCEpisode
  Download = {d1}
  Call = {c1, c2}
  MaxStarts = 3
  MaxStreams = 3
  MaxStreamFaults = 1
SYMMETRY Devices
SPECIFICATION PhoneSpec
CHECK_DEADLOCK FALSE
INVARIANTS ArrivalOrderIsNotWatchOrder PhoneResumesWhereItLeft PlayerIsTheOwners
PROPERTIES OutboxNeverGoesBack
