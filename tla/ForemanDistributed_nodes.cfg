SPECIFICATION Spec
CONSTANTS
  c1 = c1
  c2 = c2
  join = join
  column = column
  rows = rows
  insert = insert
  empty = empty
  scan = scan
  create = create
  None = None
  NumShiftbosses = 2
  Client <- ClientsRun
  Query <- QueriesRun
  Plan <- PlanRun
  Deployments <- DeploymentsRun
  Scenarios <- ScenariosRun
  Analyze <- AnalyzeRun
  SingleNode = {insert}
  Capacity = 1
  MaxMsgs = 3
  MaxBlocks <- MaxBlocksRun
  LateRegistration = FALSE
PROPERTY EventuallyAnswered
CHECK_DEADLOCK FALSE
INVARIANTS
  LoadExact ContextPresent MessagesOfAdmittedQueries OutputComplete
  SharedStateOnOneNode AnsweredOnce NothingLeftBehind
