CONSTANTS
  File = {f1, f2}
  Page = {p1, p2}
  Thread = {h1, h2}
  Size = 2
  MaxEvents = 2
SPECIFICATION UploadsSpec
INVARIANTS SlotIsHandedOn
CHECK_DEADLOCK FALSE
