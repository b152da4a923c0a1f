SPECIFICATION Spec
CONSTANTS
  Programs <- TwoDefers
  MaxChoices = 2
INVARIANT DefersEvaluated
CHECK_DEADLOCK FALSE
