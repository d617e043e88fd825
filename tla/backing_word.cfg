CONSTANTS
  Lease = {l1, l2}
  Base = 4
  Bytes = 15
  Alignment = 4
  Word = 16
  Request = {1, 13, 15}
SPECIFICATION Spec
INVARIANT
  RequestsAreRoundedUp
