SPECIFICATION LiveSpec
CONSTANTS
  Conns = {c1}
  MaxReads = 1
  Parsers = {p1}
  Requests = {}
  Configs <- WithTcp
  Nothing = Nothing
  Stats <- OneStat
  MaxCount = 1
  QueueSize = 1
  BatchSize = 1
  MaxBatch = 2
PROPERTIES StopCompletes
CHECK_DEADLOCK FALSE
