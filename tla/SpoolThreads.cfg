SPECIFICATION Spec
CONSTANTS
  Files = {1, 2}
  Tables = {t1}
  NoTable = NoTable
  Threads = {1, 2}
  QueueSize = 1
  MaxStarts = 2
  MaxUnread = 2
  Faults = {"link", "open", "readdir", "stat", "eval", "cleanup", "insert", "rename", "crash"}
INVARIANTS IInv MarkedIsStored OneHolder
PROPERTIES UploadIsUndisturbed LiveLinkKept MarkOutlivesData
CHECK_DEADLOCK FALSE
