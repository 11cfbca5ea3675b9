CONSTANTS
  Producers = {p1, p2}
  Consumers = {c1, c2}
  x = x
  Byte = {x, nul}
  Nul = nul
  MAX_ITEMS_CBUF = 2
  Messages <- SingleBytes
  Lens = {1, 3}
  MaxOpens = 1
  MaxSignals = 1
SPECIFICATION Spec
INVARIANTS
  MutualExclusion
  WaitBalance
  SleepersAreCounted
  CountsCoverAttached
PROPERTIES
  ImplementsPipe
CHECK_DEADLOCK FALSE
