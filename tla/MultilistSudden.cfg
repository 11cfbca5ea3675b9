CONSTANTS
  Procs = {p1, p2}
  Addr = {a1, a2}
  Entries = {x1, x2}
  Names = {default, other}
  Data = {d}
  NULL = NULL
  Free = Free
  Leaked = Leaked
SPECIFICATION Spec
INVARIANT
  RemovalNotSudden
CHECK_DEADLOCK FALSE
