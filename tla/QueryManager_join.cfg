CONSTANTS
  NumOperators = 6
  Link <- JoinLink
  Breaker <- JoinBreaker
  LinkOrder <- JoinOrder
  Kind <- JoinKind
  Stored <- JoinStored
  Input <- JoinInput
  Output = {0, 2, 3}
  Destination = {0, 2, 3}
  Worker = {w1, w2}
  MaxBlocks = 2
  MaxLoad = 2
SPECIFICATION Spec
INVARIANTS TypeOK NoBlockLost OneWriterPerBlock QueuedCounterExact
  QuiescentWhenExecuted CatalogKnowsOutput BlockingDependenciesFirst
PROPERTY ImplementsSchedule QueryEventuallyExecuted
\* A system that stops too early violates QueryEventuallyExecuted.
CHECK_DEADLOCK FALSE
