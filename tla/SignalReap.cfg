SPECIFICATION FairSpec
CONSTANTS
  NSIG = 4
  INT = 1
  CHLD = 2
  WINCH = 3
  JobSig = {1}
  Status = {0}
  MaxFrame = 3
  MaxLevel = 1
  MaxChild = 1
PROPERTY
  AutoReap
CHECK_DEADLOCK FALSE
