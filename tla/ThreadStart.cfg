SPECIFICATION Spec
INVARIANTS
  FuncStartedWhenStartReturns
CHECK_DEADLOCK FALSE
