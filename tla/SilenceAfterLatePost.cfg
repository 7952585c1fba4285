SPECIFICATION LateSpec
CONSTANTS
  Tickets <- MCLateTickets
  Statuses <- MCLateStatuses
  MaxListed = 2
  NoQueue = NoQueue
  NoRecord = NoRecord
  MaxAttempts = 1
  StatsEnabled = FALSE
  Faults = {}
  Requests = {r1}
INVARIANTS
  AvailabilityIsShown
