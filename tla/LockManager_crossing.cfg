SPECIFICATION Spec
CONSTANTS
  Tid = {1, 2}
  Rid <- TwoRelations
  Requests <- Crossing
  kMaxTry = 1
  MaxScans = 1
INVARIANTS TypeOK OwnedCompatible AncestorsLocked TablesAgree RequestsConserved PermittedHolds
