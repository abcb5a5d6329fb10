CONSTANTS
  Delivery <- MCDelivery
  None = None
  Process = {p1, p2}
  Event = {e1}
  Endpoint = {"crm"}
  Configs = {{"crm"}}
  concurrency = 1
  Retries = 1
  Delay = 1
  timeout = 1
  leaseMs = 4
  orphanGrace = 1
  Latency = 1
  MaxClaims = 4
  Faults = {"crash"}
  MaxFaults = 2
  MaxDeploys = 0
SPECIFICATION Spec
INVARIANTS
  RunsOut
