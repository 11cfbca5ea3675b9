CONSTANTS
  Producers = {p1, p2}
  Consumers = {c1, c2}
  Addr = {i1, i2, i3, i4}
  NULL = NULL
  MAX_ITEMS_CBUF = 2
  MaxSignals = 1
SPECIFICATION FairSpec
INVARIANTS
  TypeOK
  Accounts
PROPERTIES
  ImplementsBuffer
  WritesReturn
