CONSTANTS
  None = None
  s1 = s1
  c1 = c1
  l1 = l1
  a1 = a1
  Holder = u1
  UserId = {u1}
  Kind = {"secondFactor", "resetPassword"}
  SignIn = {s1, s2}
  Link = {l1, l2}
  Hash = {s1, s2, l1, l2}
  Confirm = {c1, c2}
  Writer = {w1, w2}
  Password = {p1, p2}
  Address = {"", a1, a2}
  Keeper = {k1, k2}
  Secret = {x1, k1, k2}
  RecoveryCode = {r1, k1, k2}
  CODE_ATTEMPTS = 2
  Scene <- Scenes
  MaxStep = 2
SPECIFICATION Spec
SYMMETRY Interchangeable
CHECK_DEADLOCK FALSE
INVARIANTS
  ChallengeHeldByPassword
  ResetSignsOut
  LastPasswordStays
  CodeAcceptedOnce
  OlderLinksSpent
PROPERTIES
  FactorMovesForward
  ProvesItsAddress
