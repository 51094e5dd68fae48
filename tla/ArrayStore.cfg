\* Two keys, two tags, two loaders, three writes.
SPECIFICATION Spec
CONSTANTS
  Clients = {c1, c2}
  Keys = {k1, k2}
  Tags = {a, b}
  MaxWrites = 3
  None = None
INVARIANT TagsFindEntries
INVARIANT FlushedStayGone
