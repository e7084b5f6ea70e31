SPECIFICATION Spec
CONSTANTS
  Files = {1, 2}
  Tables = {t1, t2}
  NoTable = NoTable
  Threads = {1}
  QueueSize = 1
  MaxStarts = 2
  MaxUnread = 1
  Faults = {"crash", "readdir", "stat"}
SYMMETRY TableSymmetry
INVARIANTS OpenFileUnlinked LinkOrMark
PROPERTIES NoLoss ImplementsDelivery
CHECK_DEADLOCK FALSE
