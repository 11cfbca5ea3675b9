CONSTANTS
  Procs = {p1, p2}
  Addr = {a1, a2}
  Entries = {x1, x2}
  Names = {default, other}
  Data = {d}
  NULL = NULL
  Free = Free
  Leaked = Leaked
SPECIFICATION Spec
INVARIANTS
  TypeOK
  UsedNodesLive
  OwnedByOne
  QuietConsistent
  OwnEntryRemoved
PROPERTY
  CallsReturn
\* Once sp_lists is leaked the module does stop, every process spinning on it.
CHECK_DEADLOCK FALSE
