SPECIFICATION Spec
CONSTANTS
  Requests = {r1}
  Sync = {r1}
  Dropped = {}
  MaxBufs = 1
  NFiles = 1
  MaxStarts = 1
  Algo = "lz4"
  BufSize = 3
  BlockSize = 3
  Faults = {}
INVARIANTS SyncIsDurable
CHECK_DEADLOCK FALSE
