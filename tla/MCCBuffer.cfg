CONSTANTS
  Item = {x, y}
  MaxSize = 3
SPECIFICATION RingSpec
INVARIANTS
  RingTypeOK
PROPERTY
  ImplementsQueue
