CONSTANTS
  Lease = {l1, l2, l3}
  Base = 5
  Bytes = 13
  Alignment = 4
  Word = 32
  Request = {0, 1, 3, 4, 6}
SPECIFICATION Spec
SYMMETRY Symmetry
INVARIANTS
  TypeOK
  LeasesNest
  LiveSpansAreOwned
  CursorIsAccounted
