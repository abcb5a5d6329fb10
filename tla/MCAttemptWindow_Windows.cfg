CONSTANTS
  None = None
  Hash <- MCHash
  UserId = {u1}
  Kind = {"secondFactor"}
  Address = {""}
  Call = {c1, c2, c3}
  Modes = {"carry", "mail", "restart"}
  limit = 1
  MAX_LINKS = 2
  MAX_PROBES = 12
  windowMs = 2
  Skew = 1
  Slow = 1
  MaxSpent = 1
  MaxLink = 10
  MaxStep = 1
  MaxTime = 3
SPECIFICATION Spec
SYMMETRY Interchangeable
CHECK_DEADLOCK FALSE
INVARIANTS
  GuessesWithinLimit
  NeverVanishes
