SPECIFICATION Spec
CONSTANTS
  Periods = {"daily", "weekly", "monthly"}
  LastDay = 5
  FirstWeekday = 4
  MonthStarts = {0, 3, 6}
  FirstMonthlyDay = 2
  MaxTaken = 1
  BackoffLimit = 1
  MaxAttempts = 2
  NoRow = NoRow
  NoReport = NoReport
  Faults = {"delayed"}
INVARIANTS
  ReportAgreesWithTable
  SuccessIsPosted
  MonthsAreWhole
  PostsAreBounded
  IInv
PROPERTIES
  JobsAreFinite
  JobEnds
CHECK_DEADLOCK FALSE
