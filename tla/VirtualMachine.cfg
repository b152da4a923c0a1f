SPECIFICATION FairSpec
CONSTANTS
  Programs <- MCPrograms
  MaxChoices = 3
INVARIANTS SameAsSource FinallyBalanced StackFits
PROPERTY Halts
CHECK_DEADLOCK FALSE
