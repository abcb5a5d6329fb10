CONSTANTS
  Delivery <- MCDelivery
  None = None
  Process = {p1, p2}
  Event = {e1}
  Endpoint = {"crm", "shop"}
  Configs = {{"crm"}, {"shop"}}
  concurrency = 1
  Retries = 1
  Delay = 1
  timeout = 1
  leaseMs = 4
  orphanGrace = 1
  Latency = 1
  MaxClaims = 4
  Faults = {"crash", "outage"}
  MaxFaults = 2
  MaxDeploys = 1
SPECIFICATION FairSpec
INVARIANTS
  OneRequestAtOnce
  ReportedByItsHolder
  KeptWithinReach
PROPERTIES
  KeepsPromise
