SPECIFICATION Spec
CONSTANT
  Clients <- MCClients
CHECK_DEADLOCK FALSE
INVARIANT
  BudgetBoundsLoop
