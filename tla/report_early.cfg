SPECIFICATION Spec
CONSTANTS
  None = None
  Recipient = {r1}
  Scheduler = {s1}
  SlotsPerDay = 4
  DhakaOffset = 1
  LastSlot = 7
  MaxEdits = 0
  MaxCrashes = 0
INVARIANT NotBeforeSendTime
