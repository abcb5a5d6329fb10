CONSTANTS
  None = None
  Hash = {h1, h2}
  Confirm = {c1, c2}
  UserId = {u1}
  Address = {a1, a2}
  Kind <- MCKind
  CODE_ATTEMPTS = 1
  Ttl = 1
  MaxTime = 1
SPECIFICATION Spec
SYMMETRY Interchangeable
INVARIANTS
  RedeemedOnce
  GuessesBounded
  LastAttemptSpends
  OneLiveSecretSent
PROPERTIES
  KeepsPromise
