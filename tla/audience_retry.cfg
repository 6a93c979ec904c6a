SPECIFICATION Spec
CONSTANTS
  None = None
  u1 = u1
  u2 = u2
  m1 = m1
  m2 = m2
  m3 = m3
  g1 = g1
  g2 = g2
  s1 = s1
  s2 = s2
  a = a
  b = b
  User = {u1, u2}
  Mobile = {m1, m2, m3}
  MobileOf <- Mobiles
  ConsentOf <- OwnConsents
  Team = {g1, g2}
  TeamOf <- Teams
  List = {l1}
  Template = {t1}
  Name = {n1}
  Content <- Contents
  l1 = l1
  Pick <- Picks
  Roster <- Rosters
  Notification = {k1}
  Handler = {h1}
  MaxChanges = 1
  MaxVersion = 3
CHECK_DEADLOCK FALSE
INVARIANT RetriesNeedConsent
