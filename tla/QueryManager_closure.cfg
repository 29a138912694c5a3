CONSTANTS
  NumOperators = 4
  Link <- ClosureLink
  Breaker <- ClosureBreaker
  LinkOrder <- ClosureOrder
  Kind <- ClosureKind
  Stored <- ClosureStored
  Input <- ClosureInput
  Output = {0, 1, 3}
  Destination = {0, 1, 3}
  Worker = {w1, w2}
  MaxBlocks = 1
  MaxLoad = 1
SPECIFICATION Spec
INVARIANT DependenciesFinishFirst
