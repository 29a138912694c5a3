SPECIFICATION Spec
CONSTANTS
  Tid = {1, 2}
  Rid <- TwoRelations
  Requests <- Crossing
  kMaxTry = 1
  MaxScans = 0
PROPERTY ReleaseWakesPending
