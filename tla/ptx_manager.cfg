CONSTANTS
  Keys = {k1, k2, k3}
  NoKey = NoKey
  NumSlots = 2
  NumRecords = 3
  Word = 4
  MaxHolds = 2
  Bundles <- SmallBundles
  Limits = {2, 4}
  Counts = {1}
SPECIFICATION Spec
SYMMETRY Symmetry
INVARIANTS
  TypeOK
  PoolIsConsistent
  HeldMeansLoaded
PROPERTIES
  OnlyNamedStepsStrand
  RefinesCache
