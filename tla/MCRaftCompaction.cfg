SPECIFICATION ElectedSpec
CONSTANTS
  n1 = n1
  n2 = n2
  n3 = n3
  c1 = c1
  NoNode = NoNode
  NoOp = NoOp
  Node = {n1, n2, n3}
  Up = {n1, n2}
  Command = {c1}
  RecoveredTerm <- FirstTerm
  RecoveredVote <- FirstVote
  RecoveredLog <- FirstLog
  RecoveredCommit <- MCZero
  RecoveredSnapshot <- MCZero
  MaxBatch = 1
  Chunks = 2
  SnapshotThreshold = 1
  MaxTimeouts = 1
  MaxLogLen = 2
  MaxRequests = 7
  MaxReads = 0
  MaxFaults = 1
INVARIANTS
  LogTermsAscend
  IndexesAreOrdered
PROPERTIES
  CommittedIsFinal
  IsReplicatedLog
CHECK_DEADLOCK FALSE
