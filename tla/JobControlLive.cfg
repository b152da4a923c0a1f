SPECIFICATION WaitSpec
CONSTANTS
  j1 = j1
  j2 = j2
  Job = {j1, j2}
  NoJob = NoJob
  Pid = {1, 2}
  MaxJob = 2
  MaxProc = 2
  MaxPipes = 0
  MaxLevel = 1
  Monitor = TRUE
  Interactive = FALSE
INVARIANTS
  IndexExact
  SignalOwn
PROPERTIES
  WaitEnds
