SPECIFICATION Spec
CONSTANTS
  LastDay = 3
  Weekend = {2}
  HoursPerDay = 4
  WorkingHourStart = 1
  WorkingHourEnd = 3
  MaxTaken = 1
  NoRow = NoRow
  Faults = {"late"}
INVARIANTS SnapshotAtWindowEnd
CHECK_DEADLOCK FALSE
