CONSTANTS
  NumOperators = 4
  Link <- UnionLink
  Breaker <- UnionBreaker
  LinkOrder <- UnionOrder
  Kind <- UnionKind
  Stored <- UnionStored
  Input <- UnionInput
  Output = {0, 1, 2}
  Destination = {0, 1, 2}
  Worker = {w1, w2}
  MaxBlocks = 1
  MaxLoad = 1
SPECIFICATION Spec
SYMMETRY WorkerSymmetry
INVARIANTS SchedulingInvariant DependenciesFinishFirst
