SPECIFICATION TransferSpec
CONSTANTS
  MaxBatch = 1
  MaxIndex = 3
  QueueCap = 2
  MaxFaults = 2
  MayOvertake = FALSE
  Length <- MCLength
  MayLose <- AppendMessages
INVARIANTS
  TransferTypeOK
  MatchIsHeld
  StagedIsOneFile
  NoReaderLeaks
PROPERTIES
  FollowerIsRepaired
CHECK_DEADLOCK FALSE
