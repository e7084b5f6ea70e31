SPECIFICATION Spec
CONSTANTS
  Files = {1, 2}
  NoFile = 0
  Keys = {"a", "b"}
  KeysOf <- Overlapping
  Bad <- NoneBad
  Threads = {1}
  Parsers = {"series"}
  EarlyReply = {"series"}
INVARIANTS CacheIsStored
CHECK_DEADLOCK FALSE
