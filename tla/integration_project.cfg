CONSTANTS
  Id <- MCId
  Version <- MCVersion
  Subject <- MCSubject
  Result <- MCResult
  Package <- MCPackage
  DecisionId = {d1, d2}
  FailureState = {WITHDRAWN}
  AnyVersion = AnyVersion
  Unsupported = Unsupported
  None = None
  MaxFailedGates = 1
  MaxEarlyGates = 1
  MaxSelected = 2
SPECIFICATION Spec
CONSTRAINT Bounds
SYMMETRY Symmetry
INVARIANTS
  TypeOK
  StateIsEarned
  AnalysisMissesNoOverlap
  DecisionsSettleConflicts
  OnlyReanalysisReopensConflicts
