SPECIFICATION ForkFailureSpec
CONSTANTS
  j1 = j1
  j2 = j2
  Job = {j1, j2}
  NoJob = NoJob
  Pid = {1, 2}
  MaxJob = 2
  MaxProc = 2
  MaxPipes = 1
  MaxLevel = 0
  Monitor = TRUE
  Interactive = TRUE
SYMMETRY JobSymmetry
INVARIANTS
  NoAssertFailure
