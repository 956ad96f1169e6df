SPECIFICATION Spec
CONSTANTS
  Procs = {p1, p2, p3}
  Peers = {x}
  Old = Old
  None = None
  Empty = Empty
  Torn = Torn
SYMMETRY Alike
INVARIANTS
  TypeOK
  Inherited
  Readable
  Reachable
  RefusedOnlyBehindCrash
CHECK_DEADLOCK FALSE
