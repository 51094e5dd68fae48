\* Every single-field variation of a valid POST /fulfilments body, and the
\* shipment its job asks for.
SPECIFICATION Spec
CONSTANTS
  None = None
  Invalid = Invalid
  Leap = Leap
  Coerced = Coerced
  AjvAddress = AjvAddress
  ZodAddress = ZodAddress
  LooseKey = LooseKey
  Expanded = Expanded
  Posts <- MCPosts
  Now <- MCNow
  MaxInteger <- MCMaxInteger
  FirstInstant <- MCFirstInstant
  FirstStored <- MCFirstStored
  LastInstant <- MCLastInstant
  Lives <- MCLives
  Trips <- MCTrips
INVARIANTS
  ReadableRowHasEvent
  WireMatchesContract
  CommitFailsOnlyBeyondSchema
  JobAccepted
  ShipmentCarriesPromise
  CargoIsCoherent
  RoundTrip
  TerminalStagesFreeTheNote
\* A client need not send anything more.
CHECK_DEADLOCK FALSE
