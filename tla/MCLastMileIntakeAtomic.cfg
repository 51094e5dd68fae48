\* The same bodies: a row is committed without its event when the end of its
\* collection window is a leap second.
SPECIFICATION Spec
CONSTANTS
  None = None
  Invalid = Invalid
  Leap = Leap
  Coerced = Coerced
  AjvAddress = AjvAddress
  ZodAddress = ZodAddress
  LooseKey = LooseKey
  Expanded = Expanded
  Posts <- MCPosts
  Now <- MCNow
  MaxInteger <- MCMaxInteger
  FirstInstant <- MCFirstInstant
  FirstStored <- MCFirstStored
  LastInstant <- MCLastInstant
  Lives <- MCLives
  Trips <- MCTrips
INVARIANT RowHasItsEvent
CHECK_DEADLOCK FALSE
