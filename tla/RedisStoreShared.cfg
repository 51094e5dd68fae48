\* Two callers at a time, one key, two tags, two writes, commands may fail.
SPECIFICATION Spec
CONSTANTS
  Clients = {c1, c2}
  Keys = {k1}
  Tags = {a, b}
  MaxWrites = 2
  CommandsFail = TRUE
  None = None
INVARIANT TypeOK
INVARIANT QuietFlushedStayGone
PROPERTY AloneLikeArrayStore
