SPECIFICATION LiveSpec
CONSTANTS
  Files = {1, 2}
  Tables = {t1}
  NoTable = NoTable
  Threads = {1, 2}
  QueueSize = 1
  MaxStarts = 2
  MaxUnread = 0
  Faults = {"insert", "rename", "readdir"}
CHECK_DEADLOCK FALSE
PROPERTIES Drained Stops
