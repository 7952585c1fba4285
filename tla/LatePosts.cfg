SPECIFICATION FairLateSpec
CONSTANTS
  Tickets <- MCLateTickets
  Statuses <- MCLateStatuses
  MaxListed = 2
  NoQueue = NoQueue
  NoRecord = NoRecord
  MaxAttempts = 1
  StatsEnabled = TRUE
  Faults = {"crash", "earlySignal"}
  Requests = {r1}
INVARIANTS
  ChannelShowsBeliefLate
  NoRepeatWithoutLatePost
PROPERTIES
  SelfHeals
  ShutdownCompletes
