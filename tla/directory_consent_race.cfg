SPECIFICATION Spec
CONSTANTS
  None = None
  User = {u1, u2}
  Mobile = {m1, m2}
  Request = {q1, q2}
  MaxVersion = 3
INVARIANT ConsentFollowsNumber
