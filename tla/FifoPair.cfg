CONSTANTS
  Producers = {p1}
  Consumers = {c1}
  x = x
  y = y
  z = z
  Byte = {x, y, z, nul}
  Nul = nul
  MAX_ITEMS_CBUF = 3
  Messages <- FixedMessages
  Lens = {2}
  MaxOpens = 2
  MaxSignals = 2
SPECIFICATION FairTestSpec
INVARIANTS
  TypeOK
  NoStrandedSleeper
  WholeMessages
PROPERTIES
  ImplementsPipe
  TransfersReturn
CHECK_DEADLOCK FALSE
