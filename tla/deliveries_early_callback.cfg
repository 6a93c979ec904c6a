SPECIFICATION Spec
CONSTANTS
  None = None
  Delivery = {d1}
  anEvent = e1
  Event = {e1}
  EventOf <- OneEvent
  Poller = {p1}
  Hook = {h1}
  MaxRetryAttempts = 3
  BackoffSteps = 3
  MaxRollbacks = 0
CHECK_DEADLOCK FALSE
INVARIANT SupersededByRetry
