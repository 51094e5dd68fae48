\* The chain and a caller marking the shipment ready, no faults.
SPECIFICATION Spec
CONSTANTS
  t1 = t1
  t2 = t2
  n1 = n1
  f1 = f1
  f2 = f2
  s1 = s1
  j1 = j1
  None = None
  Tenants = {t1, t2, t3}
  Notes = {n1}
  FulfilmentIds = {f1, f2}
  ShipmentIds = {s1}
  JobIds = {j1, j2}
  Requests = {r1, r2}
  ApiRequests <- ReadyRequests
  MaxAttempts = 2
  MaxFaults = 0
INVARIANT UpdatesCommit
CHECK_DEADLOCK FALSE
