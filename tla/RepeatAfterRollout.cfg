SPECIFICATION Spec
CONSTANTS
  Tickets <- MCTickets
  Statuses <- MCStatuses
  MaxListed = 2
  NoQueue = NoQueue
  NoRecord = NoRecord
  MaxAttempts = 1
  StatsEnabled = FALSE
  Faults = {"earlySignal"}
INVARIANT
  NoRepeat
