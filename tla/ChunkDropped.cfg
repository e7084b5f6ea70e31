SPECIFICATION LiveSpec
CONSTANTS
  Requests = {r1}
  Sync = {r1}
  Dropped = {r1}
  MaxBufs = 1
  NFiles = 1
  MaxStarts = 1
  Algo = "none"
  BufSize = 3
  BlockSize = 3
  Faults = {}
PROPERTIES SyncReturns
CHECK_DEADLOCK FALSE
