SPECIFICATION LiveSpec
CONSTANTS
  Requests = {r1, r2}
  Sync = {r1}
  Dropped = {}
  MaxBufs = 2
  NFiles = 2
  MaxStarts = 1
  Algo = "lz4"
  BufSize = 3
  BlockSize = 3
  Faults = {}
PROPERTIES TakenIsWritten SyncReturns
CHECK_DEADLOCK FALSE
