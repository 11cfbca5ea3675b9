CONSTANTS
  Producers = {p1, p2}
  Consumers = {c1, c2}
  Addr = {i1, i2, i3}
  NULL = NULL
  MAX_ITEMS_CBUF = 1
  MaxSignals = 1
SPECIFICATION Spec
INVARIANT
  SleepersMustWait
CHECK_DEADLOCK FALSE
