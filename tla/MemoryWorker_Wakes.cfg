CONSTANTS
  Delivery = {d1, d2}
  None = None
  concurrency = 2
  Retries = 1
SPECIFICATION Spec
CHECK_DEADLOCK FALSE
INVARIANTS
  FirstStartsAtOnce
