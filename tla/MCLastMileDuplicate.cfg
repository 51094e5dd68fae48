\* A redelivered fulfilment:created.
SPECIFICATION Spec
CONSTANTS
  t1 = t1
  t2 = t2
  n1 = n1
  f1 = f1
  f2 = f2
  s1 = s1
  j1 = j1
  None = None
  Tenants = {t1}
  Notes = {n1}
  FulfilmentIds = {f1}
  ShipmentIds = {s1, s2}
  JobIds = {j1, j2, j3, j4}
  Requests = {r1, r2}
  ApiRequests <- OneFulfilment
  MaxAttempts = 2
  MaxFaults = 1
INVARIANT OneShipmentPerFulfilment
CHECK_DEADLOCK FALSE
