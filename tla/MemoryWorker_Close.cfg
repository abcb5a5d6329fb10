CONSTANTS
  Delivery = {d1, d2, d3}
  None = None
  concurrency = 1
  Retries = 1
SPECIFICATION FairSpec
CHECK_DEADLOCK FALSE
INVARIANTS
  ClosedEndsAll
PROPERTIES
  CloseResolves
