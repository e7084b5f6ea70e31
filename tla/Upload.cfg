SPECIFICATION LiveSpec
CONSTANTS
  Files = {1, 2}
  NoFile = 0
  Keys = {"a", "b"}
  KeysOf <- Overlapping
  Bad <- LongTags
  Threads = {1, 2}
  Parsers = {"points", "tree", "index", "tagged"}
  EarlyReply = {"points"}
INVARIANTS TypeOK FinishedIsStored CacheIsStored
PROPERTIES UploadReturns
CHECK_DEADLOCK FALSE
