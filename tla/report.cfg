SPECIFICATION FairSpec
CONSTANTS
  None = None
  Recipient = {r1}
  Scheduler = {s1, s2}
  SlotsPerDay = 4
  DhakaOffset = 1
  LastSlot = 4
  MaxEdits = 1
  MaxCrashes = 1
INVARIANTS
  TypeOK
  OneRowPerDay
  NoOrphanNotification
  RepeatNeedsCrash
PROPERTIES
  DueReportIsSent
  LockIsReleased
  KeepsDailyLedger
