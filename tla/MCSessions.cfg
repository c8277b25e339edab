SPECIFICATION OpenedSpec
CONSTANTS
  Node = {n1, n2}
  NoNode = NoNode
  Session = {s1, s2}
  Key = {k1}
  Value = {v1}
  NoValue = NoValue
  Limit = 1
  MaxSequence = 2
  MaxLog = 5
  MaxTerm = 2
  MaxRequests = 3
  MaxLosses = 1
  MaxSnapshots = 1
  Old = n1
  Opened = s1
INVARIANT SessionsTypeOK
INVARIANT AtMostOnce
INVARIANT ReplicasAgree
INVARIANT ActiveIsCounted
INVARIANT RetriesAgree
INVARIANT AcknowledgedIsCommitted
CHECK_DEADLOCK FALSE
