CONSTANTS
  Readers = {r1, r2}
  MAX_ITEMS_CBUFFER = 3
  DEFAULT_EMERGENCY_THRESHOLD = 80
  Settings = {40, 150}
  Serials = 3
  MaxList = 2
  Grace = 1
  MaxEvents = 1
SPECIFICATION SpecAll
INVARIANTS
  TypeOK
  AuxFits
  FullMeansServed
PROPERTIES
  NothingLostOrReordered
  SomeReaderServed
CHECK_DEADLOCK FALSE
