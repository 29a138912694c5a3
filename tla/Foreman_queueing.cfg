CONSTANTS
  q1 = q1  q2 = q2  ddl1 = ddl1  ddl2 = ddl2
  Query = {q1, q2, ddl1, ddl2}
  ZeroWork = {ddl1, ddl2}
  Batches <- QueueingBatches
  NumWorkers = 2
  kMaxConcurrentQueries = 1
  MaxMsgs = 2
  MinLoad = 0
  MaxWork = 4
  MaxBlocks = 2
SPECIFICATION Spec
INVARIANTS LoadExact MessagesOfAdmittedQueries CompletionMeansQuiescent
  NoWorkForgotten
PROPERTY EventuallyStopped
\* A system that stops too early violates EventuallyStopped.
CHECK_DEADLOCK FALSE
