SPECIFICATION Spec
CONSTANTS
  c1 = c1
  c2 = c2
  join = join
  column = column
  rows = rows
  insert = insert
  empty = empty
  scan = scan
  create = create
  None = None
  NumShiftbosses = 2
  Client = {c1}
  Query = {join}
  Plan <- PlanTwoJoins
  Deployments <- DeploymentsTwoJoins
  Scenarios <- ScenariosTwoJoins
  Analyze <- AnalyzeTwoJoins
  SingleNode = {}
  Capacity = 1
  MaxMsgs = 3
  MaxBlocks <- MaxBlocksTwoJoins
  LateRegistration = FALSE
CHECK_DEADLOCK FALSE
INVARIANT SharedStateOnOneNode
