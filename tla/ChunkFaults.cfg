SPECIFICATION Spec
CONSTANTS
  Requests = {r1, r2, r3}
  Sync = {r1}
  Dropped = {r3}
  MaxBufs = 2
  NFiles = 3
  MaxStarts = 2
  Algo = "none"
  BufSize = 3
  BlockSize = 2
  Faults = {"write", "open", "link", "crash"}
INVARIANTS TypeOK SyncIsDurable ReaderGetsAll
PROPERTIES FinishedIsFinal
CHECK_DEADLOCK FALSE
