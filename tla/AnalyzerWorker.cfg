SPECIFICATION Spec
CONSTANTS
  Path = {"a", "b", "c", "d"}
  Text = {0, 1}
  Empty = 0
  Imports <- MCImports
  Exports <- MCExports
  Disk <- MCDisk
  NotOpened = NotOpened
  NotRead = NotRead
  ModLimit = 4
  MaxCallbacks = 1
  MaxRequests = 4
  NoPath = NoPath
INVARIANTS UpToDate OpenedKnown
PROPERTIES RequestsServed WorkerJoined
CHECK_DEADLOCK FALSE
