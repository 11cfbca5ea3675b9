CONSTANTS
  Ifs = {i1, i2}
  Minors = {0}
  Addr = {a1, a2, a3}
  Files = {f1, f2}
  NR_LEDS = 2
  Cleared = {0}
  Colors = {black, red}
  Black = black
  Patterns <- Writes
  red = red
  NULL = NULL
  Dead = Dead
SYMMETRY Symmetry
SPECIFICATION Spec
INVARIANTS
  TypeOK
  NoDangling
  RefsExact
  OpenFindsItsDevice
  SoloWriteShows
