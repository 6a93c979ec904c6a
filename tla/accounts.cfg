SPECIFICATION Spec
CONSTANTS
  None = None
  Admin = {a1, a2}
  Request = {q1, q2}
  Link = {l1}
  Session = {j1}
  Threshold = 2
  Duration = 1
  LinkTtl = 1
  SessionTtl = 1
  MaxClock = 1
CHECK_DEADLOCK FALSE
SYMMETRY Symmetry
INVARIANTS
  TypeOK
  LastAdministratorStays
  LockoutEngages
PROPERTIES
  KeepsRoster
  LockHolds
