SPECIFICATION FairSpec
CONSTANTS
  None = None
  Delivery = {d1, d2}
  anEvent = e1
  Event = {e1}
  EventOf <- OneEvent
  Poller = {p1}
  Hook = {h1, h2}
  MaxRetryAttempts = 1
  BackoffSteps = 1
  MaxRollbacks = 1
CHECK_DEADLOCK FALSE
INVARIANTS
  TypeOK
  SendsAccounted
  RetriesBounded
  NoOrphanedQueued
  SendingAwaitsNewest
  NoEarlyGiveUp
PROPERTIES
  KeepsLedger
  OnlyRacesUndoDelivered
  RetryableIsRetried
