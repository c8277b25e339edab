SPECIFICATION Spec
CONSTANTS
  Voter = {v1}
  NoVote = NoVote
  SegmentSize = 2
  MaxTerm = 2
  MaxIndex = 2
  MaxBatch = 2
  MaxCalls = 7
  MaxTruncations = 1
  MaxInstalls = 1
INVARIANT WALTypeOK
INVARIANT RunsOnWholeWAL
INVARIANT RecoveryIsExact
INVARIANT SnapshotsAlwaysLoad
CHECK_DEADLOCK FALSE
