SPECIFICATION Spec
CONSTANTS
  LastDay = 3
  Weekend = {2}
  HoursPerDay = 5
  WorkingHourStart = 1
  WorkingHourEnd = 3
  MaxTaken = 1
  NoRow = NoRow
  Faults = {"late", "unseen", "crash", "lost", "writeFailed"}
INVARIANTS IInv RowsAreOfTheirDay WorkedDaysAreRecorded
PROPERTIES ImplementsStatsTable ImplementsClosingWatch RowsNeverGoBack
CHECK_DEADLOCK FALSE
