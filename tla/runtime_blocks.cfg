CONSTANTS
  s1 = s1
  s2 = s2
  s3 = s3
  d = d
  e = e
  t = t
  Arena = {0, 1, 2, 3}
  Node = {s1, s2, s3, d, t, e}
  None = None
  Backing <- SmallBacking
  Group = 3
  Word = 64
  Threshold = 2
  Demand <- SmallDemand
  MaxNesting = 1
SPECIFICATION Spec
SYMMETRY Symmetry
INVARIANTS
  TypeOK
  SearchFindsFirstFit
  OccupancyIsOwned
  MemoryIsOwned
PROPERTIES
  RefinesBlockStore
