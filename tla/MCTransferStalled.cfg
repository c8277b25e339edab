SPECIFICATION TransferSpec
CONSTANTS
  MaxBatch = 1
  MaxIndex = 3
  QueueCap = 2
  MaxFaults = 1
  MayOvertake = TRUE
  Length <- MCLength
  MayLose <- AppendMessages
PROPERTIES
  FollowerIsRepaired
CHECK_DEADLOCK FALSE
