\* Creations racing for source notes and the whole chain among stray calls,
\* one fault.
SPECIFICATION Spec
CONSTANTS
  t1 = t1
  t2 = t2
  n1 = n1
  f1 = f1
  f2 = f2
  s1 = s1
  j1 = j1
  None = None
  Tenants = {t1, t2}
  Notes = {n1}
  FulfilmentIds = {f1, f2}
  ShipmentIds = {s1}
  JobIds = {j1, j2}
  Requests = {r1, r2}
  ApiRequests <- MixedRequests
  MaxAttempts = 1
  MaxFaults = 1
SYMMETRY Slots
INVARIANT TypeOK
INVARIANT RowsCompatible
INVARIANT SourceNoteUnique
INVARIANT ReferencesHold
INVARIANT JobsForGeocodedOnly
CHECK_DEADLOCK FALSE
