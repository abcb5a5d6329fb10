CONSTANTS
  None = None
  s1 = s1
  s2 = s2
  s3 = s3
  a1 = a1
  a2 = a2
  o1 = o1
  r1 = r1
  r2 = r2
  c1 = c1
  c2 = c2
  d1 = d1
  d2 = d2
  x1 = x1
  u1 = u1
  u2 = u2
  e1 = e1
  e2 = e2
  UserId = {u1, u2}
  Session = {s1, s2, s3}
  Auth = {a1, a2}
  SignOut = {o1}
  Request = {r1, r2}
  Hash = {r1, r2}
  Kind = {"stepUp"}
  Address = {"", e1, e2}
  Confirm = {c1, c2}
  Deletion = {d1, d2}
  Collect = {x1}
  UserOf <- MCUserOf
  Lifespan = 2
  RenewAfter = 1
  TokenTtl = 2
  CODE_ATTEMPTS = 2
  Skew = 1
  MaxStep = 1
  Scene <- Scenes
SPECIFICATION Spec
SYMMETRY Interchangeable
CHECK_DEADLOCK FALSE
INVARIANTS
  SessionsListed
  OutForGood
  StampsProven
  ReplayLeavesNothing
PROPERTIES
  NeverBroughtBack
