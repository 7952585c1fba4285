SPECIFICATION Spec
CONSTANTS
  Updates <- MCConversation
  MaxUpdates = 2
  MaxAttempts = 1
  NoUpdate = NoUpdate
  Faults = {}
INVARIANTS
  ThankedIsForwarded
