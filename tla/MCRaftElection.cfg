SPECIFICATION Spec
CONSTANTS
  n1 = n1
  n2 = n2
  n3 = n3
  c1 = c1
  NoNode = NoNode
  NoOp = NoOp
  Node = {n1, n2, n3}
  Up = {n1, n2, n3}
  Command = {c1}
  RecoveredTerm <- MCZero
  RecoveredVote <- MCNoVote
  RecoveredLog <- MCEmptyLog
  RecoveredCommit <- MCZero
  RecoveredSnapshot <- MCZero
  MaxBatch = 1
  Chunks = 1
  SnapshotThreshold = 9
  MaxTimeouts = 2
  MaxLogLen = 0
  MaxRequests = 1
  MaxReads = 0
  MaxFaults = 1
SYMMETRY MCSymmetry
INVARIANTS
  TypeOK
  ElectionSafety
PROPERTIES
  VoteIsFinal
CHECK_DEADLOCK FALSE
