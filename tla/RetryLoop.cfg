SPECIFICATION FairSpec
CONSTANT
  Clients <- MCClients
CHECK_DEADLOCK FALSE
INVARIANTS
  TypeOK
  WithinBudget
  WithinBudgetAndRequest
  FailsForAReason
  PostsAreBounded
PROPERTIES
  CallEnds
  ImplementsSendCall
