SPECIFICATION Spec
CONSTANTS
  Tickets <- MCTickets
  Statuses <- MCStatuses
  MaxListed = 2
  NoQueue = NoQueue
  NoRecord = NoRecord
  MaxAttempts = 2
  StatsEnabled = TRUE
  Faults = {"ackLost", "crash", "stateLost", "loadFailed", "earlySignal", "saveFailed"}
INVARIANTS
  ChannelMatchesBelief
  ActiveIsAnnounced
  NoRepeatWithoutFault
  StatsOnlyOnClose
  IInv
PROPERTIES
  ChecksAreFinite
  QuietOnceHealed
  SaveKeepsState
  ImplementsChannel
  ImplementsClosingWatch
