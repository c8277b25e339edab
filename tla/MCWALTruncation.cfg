SPECIFICATION Spec
CONSTANTS
  Voter = {v1}
  NoVote = NoVote
  SegmentSize = 2
  MaxTerm = 2
  MaxIndex = 3
  MaxBatch = 2
  MaxCalls = 10
  MaxTruncations = 1
  MaxInstalls = 0
INVARIANT WALReopens
CHECK_DEADLOCK FALSE
