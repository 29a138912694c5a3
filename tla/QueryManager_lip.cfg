CONSTANTS
  NumOperators = 4
  Link <- LipLink
  Breaker <- LipBreaker
  LinkOrder <- LipOrder
  Kind <- LipKind
  Stored <- LipStored
  Input <- LipInput
  Output = {1, 2}
  Destination = {1, 2}
  Worker = {w1, w2}
  MaxBlocks = 2
  MaxLoad = 1
SPECIFICATION Spec
SYMMETRY WorkerSymmetry
INVARIANT QuiescentWhenExecuted
