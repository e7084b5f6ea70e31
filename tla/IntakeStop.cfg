SPECIFICATION LiveSpec
CONSTANTS
  Conns = {c1, c2}
  MaxReads = 1
  Parsers = {p1, p2}
  Requests = {r1}
  Configs <- Mixed
  Nothing = Nothing
  Stats <- OneStat
  MaxCount = 2
  QueueSize = 1
  BatchSize = 1
  MaxBatch = 2
INVARIANTS TypeOK Conserved AckIsTaken WriterIsLast EndsFlushed Counted
PROPERTIES Delivered Reported StopEnds
CHECK_DEADLOCK FALSE
