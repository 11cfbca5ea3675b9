CONSTANTS
  Nodes = {e1, e2, e3}
  HEAD = HEAD
  Poison = Poison
  Procs = {p1, p2}
  Values = {1, 2, 3}
  Free = Free
  FirstWord <- Words
  TooLong = {3}
  Full <- Fills
SYMMETRY Symmetry
SPECIFICATION SpecAll
INVARIANTS
  TypeOK
  ListIntact
  NoUseAfterFree
PROPERTY
  ImplementsIntList
