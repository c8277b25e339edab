CONSTANTS
  n1 = n1
  n2 = n2
  get = get
  set = set
  operator = operator
  Node = {n1, n2}
  NoNode = NoNode
  Caller = {get, set}
  Reader = {get}
  Operator = {operator}
  Home <- MCHome
  Server = {"peer", "client"}
  Addresses <- MCAddresses
  MaxAttempts = 3
  MaxHints = 1
  QueueCap = 1
  Budgets <- MCBudgets
SPECIFICATION ServiceSpec
INVARIANTS
  ServiceTypeOK
  EveryWaiterIsServed
  ClosedHoldsNoConnection
PROPERTIES
  CallsReturn
  RunStops
  SettledCallsSucceed
CHECK_DEADLOCK FALSE
