SPECIFICATION FairSpec
CONSTANTS
  Updates <- MCUpdates
  MaxUpdates = 2
  MaxAttempts = 2
  NoUpdate = NoUpdate
  Faults = {"crash"}
INVARIANTS
  AnsweredOnce
  ToldUnlessCopied
  IInv
PROPERTIES
  HandlersAreFinite
  EveryUpdateIsHandled
  ImplementsDelivery
