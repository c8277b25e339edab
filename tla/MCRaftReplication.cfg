SPECIFICATION ReplicationSpec
CONSTANTS
  n1 = n1
  n2 = n2
  n3 = n3
  c1 = c1
  NoNode = NoNode
  NoOp = NoOp
  Node = {n1, n2, n3}
  Up = {n1, n2, n3}
  Command = {c1}
  RecoveredTerm <- OldEntryTerm
  RecoveredVote <- OldEntryVote
  RecoveredLog <- OldEntryLog
  RecoveredCommit <- MCZero
  RecoveredSnapshot <- MCZero
  MaxBatch = 1
  Chunks = 1
  SnapshotThreshold = 9
  MaxTimeouts = 1
  MaxLogLen = 1
  MaxRequests = 4
  MaxReads = 1
  MaxFaults = 1
SYMMETRY PeerSymmetry
INVARIANTS
  LogMatching
  StateMachineSafety
  LeaderCompleteness
  CommittedOnQuorum
  ReadsSeeCommitted
  ReadReadyIsCurrent
CHECK_DEADLOCK FALSE
