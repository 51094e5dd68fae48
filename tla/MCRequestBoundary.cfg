\* Requests of two users, deliveries late and repeated, and a scheduled task.
SPECIFICATION Spec
CONSTANTS
  None = None
  NaN = NaN
  ToleranceSeconds = 300
  FutureGraceSeconds = 60
  Contexts = {c1, c2}
  Users = {u1, u2}
  Tenants = {t1, t2}
  Skews <- MCSkews
  Delays <- MCDelays
  Secret = secret
  MaxStarts = 4
  MaxFaults = 1
SYMMETRY MCSymmetry
INVARIANTS
  TypeOK
  TracedToRequest
  CauseIsDelivered
  ReplayBounded
  TimelyAccepted
  NoticesAttributed
  AlertHasNotice
PROPERTIES
  OwnIdentity
CHECK_DEADLOCK FALSE
