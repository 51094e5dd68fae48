\* The whole chain to its link job under fair scheduling, creations whose row
\* cannot be read back among them, one fault.
SPECIFICATION FairSpec
CONSTANTS
  t1 = t1
  t2 = t2
  n1 = n1
  f1 = f1
  f2 = f2
  s1 = s1
  j1 = j1
  None = None
  Tenants = {t1}
  Notes = {n1}
  FulfilmentIds = {f1}
  ShipmentIds = {s1, s2}
  JobIds = {j1, j2, j3, j4, j5}
  Requests = {r1, r2}
  ApiRequests <- ChainRequests
  MaxAttempts = 2
  MaxFaults = 1
INVARIANT ShipmentsBoundedByLostAnswers
INVARIANT OutboxAtomicity
INVARIANT JobHasDecision
INVARIANT AckImpliesEffect
PROPERTY FailureLeavesNoTrace
PROPERTY ImplementsContract
PROPERTY GeocodedGetsShipment
PROPERTY ShipmentGetsLinkJob
CHECK_DEADLOCK FALSE
