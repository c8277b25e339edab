SPECIFICATION Spec
CONSTANTS
  n1 = n1
  n2 = n2
  n3 = n3
  NoNode = NoNode
  Node = {n1, n2, n3}
  FirstLeader = n1
  FirstLog <- MCFirstLog
  MaxTerm = 3
PROPERTIES
  SurvivorsElect
CHECK_DEADLOCK FALSE
