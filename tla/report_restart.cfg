SPECIFICATION Spec
CONSTANTS
  None = None
  Recipient = {r1, r2}
  Scheduler = {s1}
  SlotsPerDay = 4
  DhakaOffset = 1
  LastSlot = 3
  MaxEdits = 0
  MaxCrashes = 1
INVARIANT ZeroDuplicateSends
