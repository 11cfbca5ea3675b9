CONSTANTS
  Producers = {p1}
  Consumers = {c1, c2}
  x = x
  Byte = {x, nul}
  Nul = nul
  MAX_ITEMS_CBUF = 2
  Messages <- SingleBytes
  Lens = {1}
  MaxOpens = 1
  MaxSignals = 0
SPECIFICATION Spec
INVARIANTS
  NoReaderForgotten
CHECK_DEADLOCK FALSE
