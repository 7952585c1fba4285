--------------------------- MODULE DailyStatsProofs ---------------------------
(***************************************************************************)
(* Theorems about DailyStats, for every calendar, all working hours that   *)
(* end before midnight, and any set of faults.                             *)
(***************************************************************************)
EXTENDS DailyStats, TLAPS

-----------------------------------------------------------------------------
(* Types. *)

LEMMA StatsInitIsTyped == Init => TypeOK
<1> SUFFICES ASSUME Init PROVE TypeOK
  OBVIOUS
<1>1. active \in BOOLEAN /\ up \in BOOLEAN /\ belief \in BOOLEAN /\ spanned \in BOOLEAN
  BY Zenon DEF Init
<1> QED
  BY <1>1, CalendarAssumption, WorkingHoursAssumption DEF Init, TypeOK, Days, Hours

\* One more ticket taken.
LEMMA TicketIsFigures ==
  ASSUME TypeOK, TakeTicket
  PROVE  /\ latest[day] \in Figures
         /\ latest' = [latest EXCEPT ![day] = [latest[day] EXCEPT !.taken = @ + 1]]
         /\ [latest[day] EXCEPT !.taken = @ + 1] \in Figures
<1>1. latest[day] \in Figures
  BY NoRowAssumption DEF TakeTicket, TypeOK
<1>2. [latest[day] EXCEPT !.taken = @ + 1] \in Figures
  BY <1>1, FiguresAssumption DEF TakeTicket, Figures
<1> QED
  BY <1>1, <1>2 DEF TakeTicket

\* The table changes at the end of a check that has seen the queue closed,
\* and in no other way.
LEMMA RowIsWritten ==
  ASSUME [Next]_vars
  PROVE  \/ UNCHANGED table
         \/ /\ pc = "stats" /\ pc' = "idle" /\ got' = NoRow
            /\ table' = UpsertDailyStats(day, got)
            /\ UNCHANGED <<clock, duw>>
BY DEF Next, Check, Process, Office, vars, InDoubt, Settle,
  Poll, Announced, SendFails, SaveDailyStats, SaveFails, WriteFails, Shutdown, ShutdownInStats,
  Restart, Crash, RecordLost, OpenDay, Reopen, TakeTicket, Close, Advance

LEMMA StatsNextIsTyped == TypeOK /\ [Next]_vars => TypeOK'
<1> SUFFICES ASSUME TypeOK, [Next]_vars PROVE TypeOK'
  OBVIOUS
<1> USE DEF TypeOK, Next, Check, Process, Office, vars, clock, duw, monitor,
    Poll, Announced, SendFails, SaveDailyStats, SaveFails, WriteFails, Shutdown, ShutdownInStats,
    Restart, Crash, RecordLost, OpenDay, Reopen, Close
<1>1. active' \in BOOLEAN /\ up' \in BOOLEAN
  BY Zenon DEF TakeTicket, Advance
<1>2. belief' \in BOOLEAN /\ spanned' \in BOOLEAN
  BY Zenon DEF Settle, TakeTicket, Advance
<1>3. day' \in Days /\ hour' \in Hours
  <2>1. CASE Advance
    BY <2>1, CalendarAssumption DEF Advance, Days, Hours
  <2>2. CASE UNCHANGED clock
    BY <2>2
  <2> QED
    BY <2>1, <2>2 DEF TakeTicket
<1>4. of' \in Days
  BY DEF TakeTicket, Advance
<1>5. latest' \in [Days -> Figures \cup {NoRow}]
  <2>1. CASE OpenDay
    BY <2>1, FiguresAssumption DEF Figures
  <2>2. CASE TakeTicket
    BY <2>2, TicketIsFigures
  <2>3. CASE UNCHANGED latest
    BY <2>3
  <2> QED
    BY <2>1, <2>2, <2>3 DEF Advance
<1>6. /\ pc' \in {"idle", "send", "stats"}
      /\ kept' \in {"none", "active", "inactive"}
      /\ got' \in Figures \cup {NoRow}
  BY DEF Settle, TakeTicket, Advance
<1>7. table' \in [Days -> Figures \cup {NoRow}]
  BY RowIsWritten DEF UpsertDailyStats
<1>8. troubled' \subseteq Days
  BY DEF Trouble, Unrecorded, TakeTicket, Advance
<1> QED
  BY <1>1, <1>2, <1>3, <1>4, <1>5, <1>6, <1>7, <1>8

-----------------------------------------------------------------------------
(* The inductive invariant, one conjunct at a time. *)

LEMMA StatsInitEstablishesIInv == Init => IInv
<1> SUFFICES ASSUME Init PROVE IInv
  OBVIOUS
<1>1. TypeOK
  BY StatsInitIsTyped
<1>2. RowsOnWorkingDays /\ RowsAreOfTheirDay
  BY DEF Init, RowsOnWorkingDays, RowsAreOfTheirDay
<1>3. CheckIsInHours
  BY Zenon DEF Init, CheckIsInHours
<1>4. LatestIsDated
  BY DEF Init, LatestIsDated
<1>5. ClosingIsDated
  <2>1. ~Remembered
    BY DEF Init, Remembered
  <2> QED
    BY <2>1 DEF ClosingIsDated
<1>6. OvertakenIsTrouble /\ GotIsDated
  BY DEF Init, OvertakenIsTrouble, GotIsDated
<1>7. DownHasNoBelief
  BY DEF Init, DownHasNoBelief
<1>8. WorkedDaysAreRecorded /\ LateCheckIsTrouble /\ TodayIsRecorded
  BY CalendarAssumption DEF Init, WorkedDaysAreRecorded, LateCheckIsTrouble, TodayIsRecorded, Days
<1>9. FiguresAreInOrder
  BY DEF Init, FiguresAreInOrder
<1> QED
  BY <1>1, <1>2, <1>3, <1>4, <1>5, <1>6, <1>7, <1>8, <1>9 DEF IInv

\* History forgets nothing.
LEMMA TroubleStays ==
  ASSUME [Next]_vars
  PROVE  troubled \subseteq troubled'
BY DEF Next, Check, Process, Office, vars, Trouble,
  Poll, Announced, SendFails, SaveDailyStats, SaveFails, WriteFails, Shutdown, ShutdownInStats,
  Restart, Crash, RecordLost, OpenDay, Reopen, TakeTicket, Close, Advance

LEMMA NextKeepsCheckIsInHours ==
  ASSUME TypeOK, CheckIsInHours, [Next]_vars
  PROVE  CheckIsInHours'
<1> USE DEF CheckIsInHours, Next, Check, Process, Office
<1>1. CASE Settle(TRUE) \/ Settle(FALSE) \/ Settle(belief)
  BY <1>1, Zenon DEF Settle
<1>2. CASE Poll
  BY <1>2, WorkingHoursAssumption DEF Poll, isDuwOffTime, clock, TypeOK, Hours
<1>3. CASE Announced
  <2>1. /\ pc # "idle" /\ up' = up /\ day' = day /\ hour' = hour
        /\ Settle(TRUE) \/ (pc' = "stats" /\ spanned' = spanned)
    BY <1>3 DEF Announced, clock
  <2>2. CASE pc' = "stats" /\ spanned' = spanned
    BY <2>1, <2>2
  <2> QED
    BY <1>1, <2>1, <2>2
<1>4. CASE Advance
  <2>1. CASE pc = "idle"
    BY <2>1, <1>4 DEF Advance
  <2>2. CASE pc # "idle"
    <3>1. spanned' /\ ~spanned
      BY <2>2, <1>4, Zenon DEF Advance
    <3>2. hour < WorkingHourEnd /\ WorkingHourStart <= hour /\ day \notin Weekend
      BY <2>2, <3>1
    <3>3. hour' = hour + 1 /\ day' = day
      BY <3>2, <1>4, WorkingHoursAssumption DEF Advance, TypeOK, Hours
    <3>4. up' /\ pc' = pc
      BY <2>2, <1>4, Zenon DEF Advance
    <3> QED
      BY <2>2, <3>1, <3>2, <3>3, <3>4, WorkingHoursAssumption DEF TypeOK, Hours
  <2> QED
    BY <2>1, <2>2
<1>5. CASE RecordLost \/ UNCHANGED vars
  BY <1>5 DEF RecordLost, vars, clock, monitor
<1>6. CASE OpenDay \/ Reopen \/ TakeTicket \/ Close
  BY <1>6 DEF OpenDay, Reopen, TakeTicket, Close, clock, monitor
<1>7. CASE Restart
  BY <1>7 DEF Restart, clock
<1> QED
  BY <1>1, <1>2, <1>3, <1>4, <1>5, <1>6, <1>7
  DEF SendFails, SaveDailyStats, SaveFails, WriteFails, Shutdown, ShutdownInStats, Crash

LEMMA NextKeepsLatestIsDated ==
  ASSUME TypeOK, LatestIsDated, [Next]_vars
  PROVE  LatestIsDated'
<1> USE DEF LatestIsDated
<1>1. CASE OpenDay
  <2>1. [of |-> day, taken |-> 0] \in Figures
    BY FiguresAssumption DEF Figures, TypeOK
  <2>2. /\ of' = day /\ day' = day /\ day \notin Weekend
        /\ latest' = [latest EXCEPT ![day] = [of |-> day, taken |-> 0]]
    BY <1>1 DEF OpenDay, OfficeHours, clock
  <2> QED
    BY <2>1, <2>2, NoRowAssumption DEF TypeOK, Days
<1>2. CASE TakeTicket
  BY <1>2, TicketIsFigures, NoRowAssumption DEF TakeTicket, clock, TypeOK, Figures
<1>3. CASE Advance
  BY <1>3 DEF Advance, duw, TypeOK, Days
<1>4. CASE UNCHANGED <<day, active, of, latest>>
  BY <1>4
<1>5. CASE Reopen
  BY <1>5 DEF Reopen, clock
<1>6. CASE Close
  BY <1>6 DEF Close, clock
<1> QED
  BY <1>1, <1>2, <1>3, <1>4, <1>5, <1>6 DEF Next, Check, Process, Office, vars, clock, duw,
    Poll, Announced, SendFails, SaveDailyStats, SaveFails, WriteFails, Shutdown, ShutdownInStats,
    Restart, Crash, RecordLost

\* Every poll is made in the window.
LEMMA PollIsInHours ==
  ASSUME TypeOK, Poll
  PROVE  hour < WorkingHourEnd /\ WorkingHourStart <= hour /\ Horizon = day
BY WorkingHoursAssumption DEF TypeOK, Poll, isDuwOffTime, Horizon, Hours

\* A row that is written has the date of a check, and figures of that day or
\* an excuse.
LEMMA NextKeepsRowsOnWorkingDays ==
  ASSUME TypeOK, CheckIsInHours, RowsOnWorkingDays, [Next]_vars
  PROVE  RowsOnWorkingDays'
BY RowIsWritten DEF RowsOnWorkingDays, CheckIsInHours, UpsertDailyStats, TypeOK

LEMMA NextKeepsRowsAreOfTheirDay ==
  ASSUME TypeOK, GotIsDated, RowsAreOfTheirDay, [Next]_vars
  PROVE  RowsAreOfTheirDay'
<1>1. troubled \subseteq troubled'
  BY TroubleStays
<1>2. pc = "stats" => got.of = day \/ Excused(got.of, day)
  BY DEF GotIsDated
<1> QED
  BY <1>1, <1>2, RowIsWritten DEF RowsAreOfTheirDay, UpsertDailyStats, Excused, TypeOK

LEMMA NextKeepsGotIsDated ==
  ASSUME TypeOK, CheckIsInHours, LatestIsDated, ClosingIsDated, GotIsDated, [Next]_vars
  PROVE  GotIsDated'
<1> USE DEF GotIsDated
<1>1. troubled \subseteq troubled'
  BY TroubleStays
<1>2. CASE pc' = "idle"
  BY <1>2
<1>3. CASE UNCHANGED <<day, belief, pc, got>>
  BY <1>1, <1>3 DEF Excused
<1>4. CASE Poll
  <2>1. /\ pc' = "send" /\ belief' = belief /\ day' = day /\ troubled' = troubled
        /\ got' = IF active THEN NoRow ELSE latest[of]
    BY <1>4 DEF Poll, clock
  <2>2. CASE belief
    <3>1. ~active /\ Remembered
      BY <1>4, <2>2, Zenon DEF Poll, Remembered, TypeOK
    <3>2. got' = latest[of] /\ latest[of] # NoRow /\ latest[of].of = of
      BY <2>1, <3>1 DEF ClosingIsDated, LatestIsDated, TypeOK
    <3>3. of = day \/ Excused(of, day)
      BY <1>4, <3>1, PollIsInHours DEF ClosingIsDated
    <3> QED
      BY <2>1, <3>2, <3>3 DEF Excused
  <2>3. CASE ~belief
    BY <2>1, <2>3
  <2> QED
    BY <2>2, <2>3
<1>5. CASE Announced
  <2>1. CASE belief /\ pc' = "stats" /\ UNCHANGED <<belief, got, spanned>>
    BY <1>5, <2>1 DEF Announced, clock, Excused
  <2> QED
    BY <1>5, <1>2, <2>1 DEF Announced, Settle
<1>6. CASE Advance
  <2>1. pc # "idle" => day' = day
    BY <1>6, WorkingHoursAssumption DEF Advance, CheckIsInHours, TypeOK, Hours
  <2>2. pc' = pc /\ belief' = belief /\ got' = got
    BY <1>6 DEF Advance
  <2> QED
    BY <1>1, <2>1, <2>2 DEF Excused
<1>7. CASE Restart
  BY <1>7, <1>2 DEF Restart, CheckIsInHours
<1> QED
  BY <1>2, <1>3, <1>4, <1>5, <1>6, <1>7 DEF Next, Check, Process, Office, vars, clock, monitor, Settle,
    SendFails, SaveDailyStats, SaveFails, WriteFails, Shutdown, ShutdownInStats,
    Crash, RecordLost, OpenDay, Reopen, TakeTicket, Close

LEMMA NextKeepsDownHasNoBelief ==
  ASSUME TypeOK, CheckIsInHours, DownHasNoBelief, [Next]_vars
  PROVE  DownHasNoBelief'
<1> USE DEF DownHasNoBelief
<1>1. CASE Announced
  BY <1>1, Zenon DEF Announced, CheckIsInHours
<1>2. CASE SendFails \/ SaveDailyStats \/ WriteFails \/ Shutdown \/ Crash \/ Restart
  BY <1>2, Zenon DEF SendFails, SaveDailyStats, WriteFails, Shutdown, Crash, Restart, Settle
<1>3. CASE UNCHANGED <<up, belief>>
  BY <1>3
<1> QED
  BY <1>1, <1>2, <1>3 DEF Next, Check, Process, Office, vars, monitor, SaveFails, ShutdownInStats,
    Poll, RecordLost, OpenDay, Reopen, TakeTicket, Close, Advance

LEMMA NextKeepsOvertakenIsTrouble ==
  ASSUME TypeOK, CheckIsInHours, OvertakenIsTrouble, [Next]_vars
  PROVE  OvertakenIsTrouble'
<1> USE DEF OvertakenIsTrouble
<1>1. troubled \subseteq troubled'
  BY TroubleStays
<1>2. CASE pc' # "send"
  BY <1>2
<1>3. CASE UNCHANGED <<clock, active, of, belief, pc>>
  BY <1>1, <1>3 DEF clock
<1>4. CASE Poll
  <2>1. hour' < WorkingHourEnd
    BY <1>4, PollIsInHours DEF Poll, clock
  <2>2. ~belief' => active'
    BY <1>4, Zenon DEF Poll, duw, TypeOK
  <2> QED
    BY <2>1, <2>2, <1>4, WorkingHoursAssumption DEF Poll, clock, TypeOK, Hours
<1>5. CASE OpenDay
  <2>1. active' /\ hour' = hour /\ hour < WorkingHourEnd
    BY <1>5 DEF OpenDay, OfficeHours, clock
  <2> QED
    BY <2>1, WorkingHoursAssumption DEF TypeOK, Hours
<1>6. CASE Reopen
  BY <1>6, <1>1 DEF Reopen, clock, monitor
<1>7. CASE Close
  <2>1. pc = "send" /\ of = day /\ hour < WorkingHourEnd => day \in troubled'
    BY <1>7 DEF Close, Unnoticed, Trouble
  <2> QED
    BY <1>7, <1>1, <2>1, WorkingHoursAssumption DEF Close, clock, monitor, TypeOK, Hours
<1>8. CASE Advance
  <2>1. pc = "send" => hour' = hour + 1 /\ day' = day /\ day \notin Weekend
    BY <1>8, WorkingHoursAssumption DEF Advance, CheckIsInHours, TypeOK, Hours
  <2>2. WindowEnds /\ active => day \in troubled'
    BY <1>8 DEF Advance, Trouble
  <2> QED
    BY <1>8, <1>1, <2>1, <2>2, WorkingHoursAssumption
    DEF Advance, WindowEnds, CheckIsInHours, duw, TypeOK, Hours
<1>9. CASE Restart
  BY <1>9 DEF Restart, CheckIsInHours
<1> QED
  BY <1>2, <1>3, <1>4, <1>5, <1>6, <1>7, <1>8, <1>9
  DEF Next, Check, Process, Office, vars, clock, duw, monitor, Settle, Announced,
    SendFails, SaveDailyStats, SaveFails, WriteFails, Shutdown, ShutdownInStats, Crash,
    RecordLost, TakeTicket

\* What a process, or the record it leaves, takes for active was so before,
\* unless a poll has just seen it.
LEMMA RememberingBegins ==
  ASSUME TypeOK, [Next]_vars, ~Poll
  PROVE  Remembered' => Remembered
<1> USE DEF Remembered
<1>1. CASE Announced \/ Restart \/ Shutdown
  BY <1>1, Zenon DEF Announced, Restart, Shutdown, Settle
<1>2. CASE SendFails \/ SaveDailyStats \/ SaveFails \/ ShutdownInStats \/ Crash \/ RecordLost
  <2>1. kept' = "active" => kept = "active"
    BY <1>2 DEF SendFails, SaveDailyStats, SaveFails, ShutdownInStats, Crash, RecordLost
  <2>2. pc' = "send" => pc = "send"
    BY <1>2 DEF SendFails, SaveDailyStats, SaveFails, ShutdownInStats, WriteFails, Crash,
      RecordLost, monitor, Settle
  <2>3. belief' = belief \/ belief' = FALSE
    BY <1>2, Zenon DEF SendFails, SaveDailyStats, SaveFails, ShutdownInStats, WriteFails, Crash,
      RecordLost, monitor, Settle
  <2> QED
    BY <2>1, <2>2, <2>3, Zenon
<1>3. CASE OpenDay \/ Reopen \/ TakeTicket \/ Close \/ Advance
  BY <1>3 DEF OpenDay, Reopen, TakeTicket, Close, Advance, monitor
<1>4. CASE UNCHANGED vars
  BY <1>4 DEF vars, monitor
<1> QED
  BY <1>1, <1>2, <1>3, <1>4 DEF Next, Check, Process, Office, SaveFails, ShutdownInStats

LEMMA NextKeepsClosingIsDated ==
  ASSUME TypeOK, CheckIsInHours, DownHasNoBelief, LatestIsDated, OvertakenIsTrouble,
         ClosingIsDated, [Next]_vars
  PROVE  ClosingIsDated'
<1>1. troubled \subseteq troubled'
  BY TroubleStays
<1>2. CASE Poll
  <2>1. UNCHANGED <<day, hour, active, of, latest, troubled>>
    BY <1>2 DEF Poll, clock, duw
  <2>2. latest[of] # NoRow /\ (of = day \/ Excused(of, day) \/ (active /\ of < day))
    <3>1. CASE active
      BY <3>1 DEF LatestIsDated, TypeOK, Days
    <3>2. CASE ~active
      <4>1. Remembered
        BY <1>2, <3>2, Zenon DEF Poll, Remembered, TypeOK
      <4> QED
        BY <4>1, <3>2, <1>2, PollIsInHours DEF ClosingIsDated
    <3> QED
      BY <3>1, <3>2
  <2>3. ~isDuwOffTime /\ ~isDuwOffTime' /\ Horizon' = day /\ hour' < WorkingHourEnd
    BY <1>2, <2>1, PollIsInHours DEF Poll, isDuwOffTime, Horizon
  <2> QED
    BY <2>1, <2>2, <2>3 DEF ClosingIsDated, Excused
<1>3. CASE ~Poll /\ Remembered'
  <2>1. Remembered
    BY <1>3, RememberingBegins
  <2>2. /\ latest[of] # NoRow /\ of \notin Weekend
        /\ \/ of = day /\ hour < WorkingHourEnd
           \/ Excused(of, Horizon)
           \/ active /\ of < day /\ ~isDuwOffTime
    BY <2>1 DEF ClosingIsDated, LatestIsDated, TypeOK
  <2>3. CASE UNCHANGED <<day, hour, active, of, latest>>
    BY <1>1, <2>2, <2>3 DEF ClosingIsDated, Excused, Horizon, isDuwOffTime
  <2>4. CASE OpenDay
    <3>1. [of |-> day, taken |-> 0] # NoRow
      BY FiguresAssumption, NoRowAssumption DEF Figures, TypeOK
    <3> QED
      BY <2>4, <3>1 DEF OpenDay, OfficeHours, clock, ClosingIsDated, TypeOK
  <2>5. CASE TakeTicket
    <3>1. latest'[of] # NoRow
      BY <2>5, <2>2, TicketIsFigures, NoRowAssumption DEF TypeOK, TakeTicket
    <3> QED
      BY <3>1, <2>2, <2>5 DEF TakeTicket, clock, ClosingIsDated, Excused, Horizon, isDuwOffTime
  <2>6. CASE Reopen
    <3>1. of' = of /\ latest' = latest /\ day' = day /\ hour' = hour /\ troubled' = troubled /\ ~active
      BY <2>6 DEF Reopen, clock
    <3> QED
      BY <3>1, <2>2 DEF ClosingIsDated, Excused, Horizon
  <2>7. CASE Close
    <3>1. of' = of /\ latest' = latest /\ day' = day /\ hour' = hour
      BY <2>7 DEF Close, clock
    <3>2. CASE active /\ of < day /\ ~isDuwOffTime
      <4>1. of \in troubled'
        BY <2>7, <3>2 DEF Close, Overdue, Trouble, TypeOK, Days
      <4>2. Horizon' = day
        BY <3>1, <3>2, WorkingHoursAssumption DEF Horizon, isDuwOffTime, TypeOK, Hours
      <4> QED
        BY <3>1, <3>2, <4>1, <4>2, <2>2 DEF ClosingIsDated, Excused, TypeOK, Days
    <3> QED
      BY <3>1, <3>2, <1>1, <2>2 DEF ClosingIsDated, Excused, Horizon
  <2>8. CASE Advance
    <3>1. UNCHANGED <<active, of, latest, belief, pc>> /\ kept' = "none"
      BY <2>8 DEF Advance, duw
    <3>2. belief \/ pc = "send"
      BY <1>3, <3>1 DEF Remembered
    <3>3. CASE WindowEnds
      <4>1. /\ hour < WorkingHourEnd /\ Horizon = day
            /\ day' = day /\ hour' = WorkingHourEnd /\ Horizon' = day + 1
        BY <2>8, <3>3, WorkingHoursAssumption DEF Advance, WindowEnds, Horizon, TypeOK, Hours
      <4>2. day \in troubled' \/ Excused(of, day)
        <5>1. CASE active \/ belief
          <6>1. active \/ Knows
            BY <5>1, Zenon DEF Knows, DownHasNoBelief
          <6> QED
            BY <2>8, <3>3, <6>1 DEF Advance, Trouble
        <5>2. CASE ~active /\ ~belief
          BY <5>2, <2>2, <3>2, <1>1, <4>1 DEF OvertakenIsTrouble
        <5> QED
          BY <5>1, <5>2
      <4> QED
        BY <3>1, <4>1, <4>2, <1>1, <2>2 DEF ClosingIsDated, Excused, LatestIsDated, TypeOK, Days
    <3>4. CASE ~WindowEnds /\ hour + 1 < HoursPerDay
      <4>1. day' = day /\ hour' = hour + 1
        BY <2>8, <3>4, WorkingHoursAssumption DEF Advance, TypeOK, Hours
      <4>2. day \notin Weekend => (hour < WorkingHourEnd <=> hour' < WorkingHourEnd)
        BY <3>4, <4>1, WorkingHoursAssumption DEF WindowEnds, TypeOK, Hours
      <4>3. Horizon <= Horizon' /\ (day \notin Weekend => Horizon' = Horizon)
        BY <4>1, <4>2, WorkingHoursAssumption DEF Horizon, TypeOK, Hours, Days
      <4>4. ~isDuwOffTime => day \notin Weekend /\ ~isDuwOffTime'
        BY <4>1, <4>2, WorkingHoursAssumption DEF isDuwOffTime, TypeOK, Hours
      <4> QED
        BY <3>1, <4>1, <4>2, <4>3, <4>4, <1>1, <2>2
        DEF ClosingIsDated, Excused, Horizon, TypeOK, Days
    <3>5. CASE hour + 1 = HoursPerDay
      <4>1. hour >= WorkingHourEnd /\ Horizon = day + 1 /\ isDuwOffTime
        BY <3>5, WorkingHoursAssumption DEF Horizon, isDuwOffTime, TypeOK, Hours
      <4>2. day' = day + 1 /\ Horizon' = day + 1
        BY <2>8, <3>5, WorkingHoursAssumption DEF Advance, Horizon, TypeOK, Hours
      <4>3. Excused(of, day + 1)
        BY <2>2, <4>1, WorkingHoursAssumption DEF TypeOK, Hours
      <4> QED
        BY <3>1, <4>2, <4>3, <1>1, <2>2 DEF ClosingIsDated, Excused, TypeOK, Days
    <3> QED
      BY <2>8, <3>3, <3>4, <3>5 DEF Advance
  <2> QED
    BY <1>3, <2>3, <2>4, <2>5, <2>6, <2>7, <2>8 DEF Next, Check, Process, Office, vars, clock, duw,
      Announced, SendFails, SaveDailyStats, SaveFails, WriteFails, Shutdown, ShutdownInStats,
      Restart, Crash, RecordLost
<1>4. CASE ~Remembered'
  BY <1>4 DEF ClosingIsDated
<1> QED
  BY <1>2, <1>3, <1>4

LEMMA NextKeepsLateCheckIsTrouble ==
  ASSUME TypeOK, CheckIsInHours, DownHasNoBelief, LateCheckIsTrouble, [Next]_vars
  PROVE  LateCheckIsTrouble'
<1> USE DEF LateCheckIsTrouble
<1>1. troubled \subseteq troubled'
  BY TroubleStays
<1>2. CASE pc' = "idle"
  BY <1>2
<1>3. CASE UNCHANGED <<clock, belief, pc>>
  BY <1>1, <1>3 DEF clock
<1>4. CASE Poll
  BY <1>4, PollIsInHours, WorkingHoursAssumption DEF Poll, clock, TypeOK, Hours
<1>5. CASE Announced
  <2>1. CASE belief /\ pc' = "stats" /\ UNCHANGED <<belief, got, spanned>>
    BY <1>5, <2>1 DEF Announced, clock
  <2> QED
    BY <1>5, <1>2, <2>1 DEF Announced, Settle
<1>6. CASE Advance
  <2>1. pc # "idle" => hour' = hour + 1 /\ day' = day /\ day \notin Weekend
    BY <1>6, WorkingHoursAssumption DEF Advance, CheckIsInHours, TypeOK, Hours
  <2>2. belief => Knows
    BY Zenon DEF Knows, DownHasNoBelief
  <2>3. WindowEnds /\ belief => day \in troubled'
    BY <1>6, <2>2 DEF Advance, Trouble
  <2> QED
    BY <1>6, <1>1, <2>1, <2>3, WorkingHoursAssumption DEF Advance, WindowEnds, TypeOK, Hours
<1>7. CASE Restart
  BY <1>7, <1>2 DEF Restart, CheckIsInHours
<1> QED
  BY <1>2, <1>3, <1>4, <1>5, <1>6, <1>7 DEF Next, Check, Process, Office, vars, monitor, Settle,
    SendFails, SaveDailyStats, SaveFails, WriteFails, Shutdown, ShutdownInStats,
    Crash, RecordLost, OpenDay, Reopen, TakeTicket, Close

\* The rows of days whose window is over are left alone, but for a row that
\* is written too late.
LEMMA NextKeepsWorkedDaysAreRecorded ==
  ASSUME TypeOK, CheckIsInHours, LatestIsDated, LateCheckIsTrouble,
         GotIsDated, TodayIsRecorded, WorkedDaysAreRecorded, [Next]_vars
  PROVE  WorkedDaysAreRecorded'
<1> USE DEF WorkedDaysAreRecorded
<1>1. troubled \subseteq troubled'
  BY TroubleStays
<1>2. CASE UNCHANGED <<clock, latest, table>>
  BY <1>1, <1>2 DEF clock, Past
<1>3. CASE pc = "stats" /\ table' = UpsertDailyStats(day, got) /\ UNCHANGED <<clock, duw>>
  <2>1. /\ pc = "stats" /\ UNCHANGED <<clock, latest>>
        /\ \A d \in Days : d # day => table'[d] = table[d]
    BY <1>3 DEF UpsertDailyStats, duw, TypeOK
  <2>2. hour >= WorkingHourEnd => day \in troubled
    BY <2>1 DEF GotIsDated, LateCheckIsTrouble
  <2> QED
    BY <1>1, <2>1, <2>2 DEF clock, Past, TypeOK, Days
<1>4. CASE OpenDay \/ TakeTicket
  <2>1. /\ ~Past(day) /\ UNCHANGED <<clock, table>>
        /\ \A d \in Days : d # day => latest'[d] = latest[d]
    <3>1. /\ hour < WorkingHourEnd /\ UNCHANGED <<clock, table>>
          /\ \E new : latest' = [latest EXCEPT ![day] = new]
      BY <1>4, TicketIsFigures DEF OpenDay, TakeTicket, OfficeHours
    <3> QED
      BY <3>1, WorkingHoursAssumption DEF Past, TypeOK, Hours, Days
  <2> QED
    BY <1>1, <2>1 DEF clock, Past
<1>5. CASE Advance
  <2>1. UNCHANGED <<latest, table>>
    BY <1>5 DEF Advance, duw
  <2>2. CASE ~WindowEnds
    <3>1. \A d \in Days : Past(d)' /\ latest[d] # NoRow => Past(d)
      <4>1. CASE hour + 1 < HoursPerDay
        <5>1. day' = day /\ hour' = hour + 1
          BY <1>5, <4>1 DEF Advance, TypeOK, Hours
        <5>2. day \in Weekend \/ hour + 1 # WorkingHourEnd
          BY <2>2 DEF WindowEnds
        <5> QED
          BY <5>1, <5>2, WorkingHoursAssumption DEF Past, LatestIsDated, TypeOK, Hours, Days
      <4>2. CASE hour + 1 = HoursPerDay
        BY <1>5, <4>2, WorkingHoursAssumption DEF Advance, Past, TypeOK, Hours, Days
      <4> QED
        BY <1>5, <4>1, <4>2 DEF Advance
    <3> QED
      BY <1>1, <2>1, <3>1
  <2>3. CASE WindowEnds
    <3>1. day' = day /\ hour < WorkingHourEnd
      BY <1>5, <2>3, WorkingHoursAssumption DEF Advance, WindowEnds, TypeOK, Hours
    <3>2. day \notin troubled' => ~active /\ ~Knows
      BY <1>5, <2>3 DEF Advance, Trouble
    <3>3. day \notin troubled' /\ latest[day] # NoRow => table[day] = latest[day]
      BY <1>1, <3>1, <3>2 DEF TodayIsRecorded
    <3> QED
      BY <1>1, <2>1, <3>1, <3>3 DEF Past, TypeOK, Days
  <2> QED
    BY <2>2, <2>3
<1>6. UNCHANGED <<clock, latest>> \/ OpenDay \/ TakeTicket \/ Advance
  BY DEF Next, Check, Process, Office, vars, clock, duw,
    Poll, Announced, SendFails, SaveDailyStats, SaveFails, WriteFails, Shutdown, ShutdownInStats,
    Restart, Crash, RecordLost, Reopen, Close
<1> QED
  BY <1>2, <1>3, <1>4, <1>5, <1>6, RowIsWritten

\* What is known of the closed queue is not forgotten within the window.
LEMMA NextKeepsTodayIsRecorded ==
  ASSUME TypeOK, CheckIsInHours, DownHasNoBelief, LatestIsDated,
         GotIsDated, TodayIsRecorded, [Next]_vars
  PROVE  TodayIsRecorded'
<1> USE DEF TodayIsRecorded
<1>1. troubled \subseteq troubled'
  BY TroubleStays
<1>2. CASE UNCHANGED vars
  BY <1>2 DEF vars, clock, duw, monitor, Knows
<1>3. CASE Poll
  <2>1. /\ UNCHANGED <<day, hour, active, latest, table, troubled, up, belief>>
        /\ up /\ got' = IF active THEN NoRow ELSE latest[of]
    BY <1>3 DEF Poll, clock, duw
  <2>2. latest[day] # NoRow => of = day
    BY DEF LatestIsDated, TypeOK, Days
  <2>3. Knows' => belief
    BY <2>1, Zenon DEF Knows
  <2>4. belief => Knows'
    BY <2>1, Zenon DEF Knows
  <2>5. Knows => belief
    BY <2>1, Zenon DEF Knows
  <2> QED
    BY <2>1, <2>2, <2>4, <2>5
<1>4. CASE Announced
  <2>1. /\ UNCHANGED <<day, hour, active, of, latest, table, troubled, up>>
        /\ pc = "send" /\ up
    BY <1>4 DEF Announced, clock, duw, CheckIsInHours
  <2>2. CASE ~belief
    <3>1. pc' = "idle" /\ belief' = TRUE
      BY <1>4, <2>2, Zenon DEF Announced, Settle
    <3>2. up'
      BY <1>4 DEF Announced, CheckIsInHours
    <3>3. Knows'
      BY <3>1, <3>2, Zenon DEF Knows
    <3> QED
      BY <2>1, <3>1, <3>3
  <2>3. CASE belief
    <3>1. belief' = belief /\ got' = got
      BY <1>4, <2>3 DEF Announced
    <3>2. up'
      BY <1>4 DEF Announced, CheckIsInHours
    <3>3. Knows'
      BY <2>3, <3>1, <3>2, Zenon DEF Knows
    <3> QED
      BY <2>1, <2>3, <3>1, <3>3
  <2> QED
    BY <2>2, <2>3
<1>5. CASE SendFails
  <2>1. /\ UNCHANGED <<day, hour, active, latest, table, troubled, up, belief, kept>>
        /\ pc' = "idle"
    BY <1>5 DEF SendFails, Settle, clock, duw
  <2> QED
    BY <2>1 DEF Knows
<1>6. CASE SaveDailyStats
  <2>1. /\ UNCHANGED <<day, hour, active, latest, troubled>>
        /\ pc # "idle" /\ pc' = "idle" /\ table' = [table EXCEPT ![day] = got]
    BY <1>6 DEF SaveDailyStats, Settle, UpsertDailyStats, clock, duw
  <2>2. belief
    BY <1>6 DEF SaveDailyStats, GotIsDated
  <2> QED
    BY <2>1, <2>2 DEF TypeOK
<1>7. CASE WriteFails
  BY <1>7 DEF WriteFails, Trouble, clock
<1>8. CASE Shutdown
  <2>1. UNCHANGED <<day, hour, active, latest, table, troubled>> /\ pc' = "idle"
    BY <1>8 DEF Shutdown, Settle, clock, duw
  <2>2. Knows => Knows'
    BY <1>8 DEF Shutdown, Settle, Knows
  <2> QED
    BY <2>1, <2>2
<1>9. CASE Restart
  <2>1. UNCHANGED <<day, hour, active, latest, table, troubled>> /\ pc' = "idle"
    BY <1>9 DEF Restart, CheckIsInHours, clock, duw
  <2>2. Knows => Knows'
    BY <1>9, Zenon DEF Restart, Knows
  <2> QED
    BY <2>1, <2>2
<1>10. CASE Crash
  <2>1. UNCHANGED <<day, hour, active, latest>> /\ pc' = "idle"
    BY <1>10 DEF Crash, Settle, clock, duw
  <2>2. Knows /\ ~active => day \in troubled'
    BY <1>10 DEF Crash, Trouble, Unrecorded
  <2>3. ~Knows => UNCHANGED table
    BY <1>10, Zenon DEF Crash, InDoubt, Knows, GotIsDated
  <2> QED
    BY <1>1, <2>1, <2>2, <2>3
<1>11. CASE RecordLost
  <2>1. UNCHANGED <<day, hour, active, latest, table, up, belief, pc, got>>
    BY <1>11 DEF RecordLost, clock, duw, monitor
  <2>2. Knows /\ ~active => Knows' \/ day \in troubled'
    <3>1. CASE up
      BY <2>1, <3>1, Zenon DEF Knows
    <3>2. CASE ~up
      BY <1>11, <3>2 DEF RecordLost, Trouble, Unrecorded
    <3> QED
      BY <3>1, <3>2
  <2> QED
    BY <1>1, <2>1, <2>2
<1>12. CASE OpenDay \/ Reopen \/ TakeTicket
  BY <1>12 DEF OpenDay, Reopen, TakeTicket, clock
<1>13. CASE Close
  <2>1. UNCHANGED <<day, hour, of, latest, table, up, belief, pc, got, kept>>
    BY <1>13 DEF Close, clock, monitor
  <2>2. latest[day] # NoRow => of = day
    BY DEF LatestIsDated, TypeOK, Days
  <2>3. of = day /\ hour < WorkingHourEnd /\ day \notin troubled' => Knows /\ pc = "idle"
    BY <1>13 DEF Close, Trouble, Unnoticed
  <2>4. Knows' = Knows
    BY <2>1 DEF Knows
  <2> QED
    BY <2>1, <2>2, <2>3, <2>4
<1>14. CASE Advance
  <2>1. UNCHANGED <<active, of, latest, table, up, belief, pc, got>>
    BY <1>14 DEF Advance, duw
  <2>2. CASE hour + 1 < HoursPerDay
    <3>1. day' = day /\ (hour' < WorkingHourEnd => hour < WorkingHourEnd)
      BY <1>14, <2>2, WorkingHoursAssumption DEF Advance, TypeOK, Hours
    <3>2. Knows /\ ~active => Knows' \/ day \in troubled'
      <4>1. CASE up
        BY <2>1, <4>1, Zenon DEF Knows
      <4>2. CASE ~up
        BY <1>14, <4>2 DEF Advance, Trouble, Unrecorded
      <4> QED
        BY <4>1, <4>2
    <3> QED
      BY <1>1, <2>1, <3>1, <3>2
  <2>3. CASE hour + 1 = HoursPerDay
    <3>1. latest'[day'] = NoRow
      <4>1. day' = day + 1 /\ day' \in Days
        BY <1>14, <2>3, CalendarAssumption DEF Advance, TypeOK, Days, Hours
      <4> QED
        BY <2>1, <4>1 DEF LatestIsDated, TypeOK, Days
    <3> QED
      BY <3>1
  <2> QED
    BY <1>14, <2>2, <2>3 DEF Advance
<1> QED
  BY <1>2, <1>3, <1>4, <1>5, <1>6, <1>7, <1>8, <1>9, <1>10, <1>11, <1>12, <1>13, <1>14
  DEF Next, Check, Process, Office, SaveFails, ShutdownInStats

\* The figures of a day only grow.
LEMMA LatestGrows ==
  ASSUME TypeOK, LatestIsDated, [Next]_vars,
         NEW d \in Days, latest[d] # NoRow
  PROVE  latest'[d] # NoRow /\ NotOlder(latest'[d], latest[d])
<1> USE DEF NotOlder
<1>1. latest[d] \in Figures
  BY DEF TypeOK
<1>2. CASE OpenDay
  BY <1>1, <1>2 DEF OpenDay, TypeOK, Figures, Days
<1>3. CASE TakeTicket
  <2>1. /\ latest[day] \in Figures
        /\ latest' = [latest EXCEPT ![day] = [latest[day] EXCEPT !.taken = @ + 1]]
        /\ [latest[day] EXCEPT !.taken = @ + 1] \in Figures
    BY <1>3, TicketIsFigures
  <2>2. CASE d = day
    BY <2>1, <2>2, NoRowAssumption DEF TypeOK, Figures, Days
  <2>3. CASE d # day
    BY <1>1, <2>1, <2>3 DEF TypeOK, Figures, Days
  <2> QED
    BY <2>2, <2>3
<1>4. CASE UNCHANGED latest
  BY <1>1, <1>4 DEF Figures, Days
<1> QED
  BY <1>2, <1>3, <1>4 DEF Next, Check, Process, Office, vars, duw,
    Poll, Announced, SendFails, SaveDailyStats, SaveFails, WriteFails, Shutdown, ShutdownInStats,
    Restart, Crash, RecordLost, Reopen, Close, Advance

\* What a step does to the figures a check carries.
LEMMA GotMoves ==
  ASSUME [Next]_vars
  PROVE  \/ got' = NoRow
         \/ UNCHANGED got
         \/ Poll /\ UNCHANGED <<table, latest>> /\ got' = latest[of]
BY DEF Next, Check, Process, Office, vars, duw, monitor, Settle,
  Poll, Announced, SendFails, SaveDailyStats, SaveFails, WriteFails, Shutdown, ShutdownInStats,
  Restart, Crash, RecordLost, OpenDay, Reopen, TakeTicket, Close, Advance

\* The figures of a poll are at least those of any row: DUW has moved on
\* since, to a later day or to more tickets.
LEMMA NextKeepsFiguresAreInOrder ==
  ASSUME TypeOK, LatestIsDated, GotIsDated, FiguresAreInOrder, [Next]_vars
  PROVE  FiguresAreInOrder'
<1> USE DEF NotOlder
<1>1. /\ \A d \in Days : latest[d] # NoRow => latest'[d] # NoRow /\ NotOlder(latest'[d], latest[d])
      /\ TypeOK'
  BY LatestGrows, StatsNextIsTyped
<1>2. CASE UNCHANGED table
  <2>1. ASSUME NEW d \in Days, table[d] # NoRow
        PROVE  latest'[table[d].of] # NoRow /\ NotOlder(latest'[table[d].of], table[d])
    <3>1. table[d] \in Figures /\ table[d].of \in Days
      BY <2>1 DEF TypeOK, Figures
    <3>2. latest[table[d].of] # NoRow /\ NotOlder(latest[table[d].of], table[d])
      BY <2>1 DEF FiguresAreInOrder
    <3>3. /\ latest'[table[d].of] # NoRow
          /\ NotOlder(latest'[table[d].of], latest[table[d].of])
      BY <1>1, <3>1, <3>2
    <3>4. latest[table[d].of] \in Figures /\ latest'[table[d].of] \in Figures
      BY <1>1, <3>1, <3>2, <3>3 DEF TypeOK
    <3> QED
      BY <3>1, <3>2, <3>3, <3>4 DEF Figures, Days
  <2>2. CASE got' = NoRow
    BY <2>1, <2>2, <1>2 DEF FiguresAreInOrder
  <2>3. CASE UNCHANGED got
    <3>1. got # NoRow => latest'[got.of] # NoRow /\ NotOlder(latest'[got.of], got)
      BY <1>1 DEF FiguresAreInOrder, TypeOK, Figures, Days
    <3> QED
      BY <2>1, <3>1, <1>2, <2>3 DEF FiguresAreInOrder
  <2>4. CASE Poll /\ UNCHANGED <<table, latest>> /\ got' = latest[of]
    <3>1. CASE latest[of] = NoRow
      BY <2>2, <2>4, <3>1
    <3>2. CASE latest[of] # NoRow
      <4>1. latest[of] \in Figures /\ latest[of].of = of
        BY <3>2 DEF TypeOK, LatestIsDated
      <4>2. ASSUME NEW d \in Days, table[d] # NoRow PROVE NotOlder(latest[of], table[d])
        <5>1. table[d] \in Figures /\ table[d].of <= of
          BY <4>2 DEF FiguresAreInOrder, TypeOK, Figures, LatestIsDated
        <5>2. NotOlder(latest[table[d].of], table[d])
          BY <4>2 DEF FiguresAreInOrder
        <5> QED
          BY <4>1, <5>1, <5>2 DEF TypeOK, Figures, Days
      <4> QED
        BY <2>1, <2>4, <4>1, <4>2 DEF FiguresAreInOrder, Figures, Days
    <3> QED
      BY <3>1, <3>2
  <2> QED
    BY <2>2, <2>3, <2>4, GotMoves
<1>3. CASE pc = "stats" /\ got' = NoRow /\ table' = UpsertDailyStats(day, got) /\ UNCHANGED <<clock, duw>>
  <2>1. got # NoRow
    BY <1>3 DEF GotIsDated
  <2> QED
    BY <1>3, <2>1 DEF FiguresAreInOrder, UpsertDailyStats, duw, TypeOK
<1> QED
  BY <1>2, <1>3, RowIsWritten

\* The write of a row is one step of the table; nothing else touches it.
LEMMA StatsStepIsTableStep ==
  ASSUME TypeOK, CheckIsInHours, GotIsDated, [Next]_vars
  PROVE  [Table!Next]_<<day, hour > WorkingHourEnd, table>>
<1>1. CASE UNCHANGED <<clock, table>>
  BY <1>1 DEF clock
<1>2. CASE pc = "stats" /\ table' = UpsertDailyStats(day, got) /\ UNCHANGED <<clock, duw>>
  <2>1. day \notin Weekend /\ ~(hour > WorkingHourEnd)
    BY <1>2, WorkingHoursAssumption DEF CheckIsInHours, TypeOK, Hours
  <2>2. got \in Figures
    BY <1>2 DEF GotIsDated, TypeOK
  <2>3. Table!Write
    BY <1>2, <2>1, <2>2 DEF Table!Write, UpsertDailyStats, clock
  <2> QED
    BY <2>3 DEF Table!Next
<1>3. CASE Advance
  <2>1. CASE hour + 1 < HoursPerDay
    <3>1. hour' = hour + 1 /\ day' = day /\ table' = table
      BY <1>3, <2>1 DEF Advance, TypeOK, Hours
    <3> QED
      BY <3>1, WorkingHoursAssumption DEF Table!Next, Table!Finish, TypeOK, Hours
  <2>2. CASE hour + 1 = HoursPerDay
    <3>1. hour' = 0 /\ day < LastDay /\ day' = day + 1 /\ table' = table
      BY <1>3, <2>2 DEF Advance, TypeOK, Hours
    <3> QED
      BY <3>1, WorkingHoursAssumption DEF Table!Next, Table!NextDay, TypeOK, Hours
  <2> QED
    BY <1>3, <2>1, <2>2 DEF Advance
<1>4. UNCHANGED clock \/ Advance
  BY DEF Next, Check, Process, Office, vars,
    Poll, Announced, SendFails, SaveDailyStats, SaveFails, WriteFails, Shutdown, ShutdownInStats,
    Restart, Crash, RecordLost, OpenDay, Reopen, TakeTicket, Close
<1> QED
  BY <1>1, <1>2, <1>3, <1>4, RowIsWritten

\* A step of the monitor is one of the closing's rules, or none.
LEMMA StatsStepIsWatchStep ==
  ASSUME TypeOK, CheckIsInHours, DownHasNoBelief, GotIsDated, [Next]_vars
  PROVE  [Watch!Next]_<<WatchBelief, WatchRecord, WatchStage, table>>
<1> USE DEF WatchBelief, WatchRecord, WatchStage
<1>a. /\ WatchStage # "idle" => up
      /\ WatchStage = "writing" => WatchBelief = "active"
  BY Zenon DEF CheckIsInHours, GotIsDated, TypeOK
<1>1. CASE Poll
  <2>1. up /\ pc = "idle" /\ pc' = "send" /\ UNCHANGED <<up, belief, kept, table>>
    BY <1>1 DEF Poll
  <2> QED
    BY <2>1 DEF Watch!Next, Watch!Notice
<1>2. CASE Announced
  <2>1. CASE belief
    <3>1. pc = "send" /\ pc' = "stats" /\ UNCHANGED <<up, belief, kept, table>>
      BY <1>2, <2>1 DEF Announced
    <3> QED
      BY <3>1, <2>1, <1>a DEF Watch!Next, Watch!Announce
  <2>2. CASE ~belief
    <3>1. pc = "send" /\ pc' = "idle" /\ belief' = TRUE /\ UNCHANGED <<up, kept, table>>
      BY <1>2, <2>2, Zenon DEF Announced, Settle
    <3> QED
      BY <3>1, <2>2, <1>a DEF Watch!Next, Watch!Open
  <2> QED
    BY <2>1, <2>2
<1>3. CASE SendFails
  <2>1. pc = "send" /\ pc' = "idle" /\ UNCHANGED <<up, belief, kept, table>>
    BY <1>3, Zenon DEF SendFails, Settle
  <2> QED
    BY <2>1 DEF Watch!Next, Watch!Overlook
<1>4. CASE SaveDailyStats \/ SaveFails
  <2>1. pc = "stats" /\ pc' = "idle" /\ belief' = FALSE /\ UNCHANGED <<up, kept>>
    BY <1>4, Zenon DEF SaveDailyStats, SaveFails, WriteFails, Settle
  <2> QED
    BY <2>1, <1>a DEF Watch!Next, Watch!Write
<1>5. CASE Shutdown
  <2>1. /\ up /\ pc # "stats" /\ pc' = "idle" /\ up' = FALSE /\ UNCHANGED table
        /\ kept' = IF belief THEN "active" ELSE "inactive"
    BY <1>5, Zenon DEF Shutdown, Settle
  <2> QED
    BY <2>1 DEF Watch!Next, Watch!Stop, TypeOK
<1>6. CASE ShutdownInStats
  <2>1. pc = "stats" /\ pc' = "idle" /\ up' = FALSE /\ kept' = "inactive"
    BY <1>6, Zenon DEF ShutdownInStats, WriteFails, Settle
  <2> QED
    BY <2>1 DEF Watch!Next, Watch!StopInWrite
<1>7. CASE Restart
  <2>1. ~up /\ up' = TRUE /\ belief' = (kept = "active") /\ UNCHANGED <<pc, kept, table>>
    BY <1>7, Zenon DEF Restart
  <2> QED
    BY <2>1 DEF Watch!Next, Watch!Wake
<1>8. CASE Crash
  <2>1. up /\ pc' = "idle" /\ up' = FALSE /\ UNCHANGED kept
    BY <1>8, Zenon DEF Crash, Settle
  <2>2. pc # "stats" => UNCHANGED table
    BY <1>8 DEF Crash, InDoubt
  <2> QED
    BY <2>1, <2>2 DEF Watch!Next, Watch!Die
<1>9. CASE RecordLost \/ Advance
  <2>1. kept' = "none" /\ UNCHANGED <<up, belief, pc, table>>
    BY <1>9 DEF RecordLost, Advance, monitor
  <2> QED
    BY <2>1 DEF Watch!Next, Watch!Forget
<1>10. CASE OpenDay \/ Reopen \/ TakeTicket \/ Close \/ UNCHANGED vars
  <2>1. UNCHANGED <<up, belief, pc, kept, table>>
    BY <1>10 DEF OpenDay, Reopen, TakeTicket, Close, vars, monitor
  <2> QED
    BY <2>1, Zenon
<1> QED
  BY <1>1, <1>2, <1>3, <1>4, <1>5, <1>6, <1>7, <1>8, <1>9, <1>10 DEF Next, Check, Process, Office

LEMMA StatsIInvHolds == Spec => []IInv
<1>1. IInv /\ [Next]_vars => IInv'
  BY StatsNextIsTyped, NextKeepsRowsOnWorkingDays, NextKeepsRowsAreOfTheirDay,
    NextKeepsCheckIsInHours, NextKeepsDownHasNoBelief, NextKeepsLatestIsDated,
    NextKeepsClosingIsDated, NextKeepsOvertakenIsTrouble, NextKeepsGotIsDated,
    NextKeepsLateCheckIsTrouble, NextKeepsWorkedDaysAreRecorded, NextKeepsTodayIsRecorded,
    NextKeepsFiguresAreInOrder DEF IInv
<1> QED
  BY <1>1, StatsInitEstablishesIInv, PTL DEF Spec

-----------------------------------------------------------------------------
(* The theorems. *)

\* The inductive invariant, the types included.
THEOREM StatsInvariant == Spec => []IInv
BY StatsIInvHolds

\* No row is ever dated on a weekend, as long as the working hours end
\* before midnight.
THEOREM NoWeekendRows == Spec => []RowsOnWorkingDays
<1>1. IInv => RowsOnWorkingDays
  BY DEF IInv
<1> QED
  BY <1>1, StatsIInvHolds, PTL

\* A row under a date has the figures of that date, unless something went
\* wrong between the two.
THEOREM RowsAreDated == Spec => []RowsAreOfTheirDay
<1>1. IInv => RowsAreOfTheirDay
  BY DEF IInv
<1> QED
  BY <1>1, StatsIInvHolds, PTL

\* A day on which nothing went wrong has its row, with its last figures,
\* whatever happened on any other day.
THEOREM GoodDaysAreRecorded == Spec => []WorkedDaysAreRecorded
<1>1. IInv => WorkedDaysAreRecorded
  BY DEF IInv
<1> QED
  BY <1>1, StatsIInvHolds, PTL
\* The table is written as its readers expect: of the day of the write, on a
\* working day, before the table of that day is final, and never emptied.
THEOREM TheTableKeepsItsContract == Spec => ImplementsStatsTable
<1>1. Init => Table!Init
  BY WorkingHoursAssumption DEF Init, Table!Init, Table!Days, Days, Hours
<1>2. IInv /\ [Next]_vars => [Table!Next]_<<day, hour > WorkingHourEnd, table>>
  BY StatsStepIsTableStep DEF IInv
<1> QED
  BY <1>1, <1>2, StatsIInvHolds, PTL DEF Spec, ImplementsStatsTable, Table!Spec

\* The monitor of this module keeps the rules of the closing, as that of
\* QueueMonitor does.
THEOREM StatsKeepTheRulesOfTheClosing == Spec => ImplementsClosingWatch
<1>1. Init => Watch!Init
  BY Zenon DEF Init, Watch!Init, WatchBelief, WatchRecord, WatchStage
<1>2. IInv /\ [Next]_vars => [Watch!Next]_<<WatchBelief, WatchRecord, WatchStage, table>>
  BY StatsStepIsWatchStep DEF IInv
<1> QED
  BY <1>1, <1>2, StatsIInvHolds, PTL
  DEF Spec, ImplementsClosingWatch, Watch!Spec, Watch!vars

\* A row gives way to later figures only, whatever is late, lost or down.
THEOREM RowsOnlyMoveForward == Spec => RowsNeverGoBack
<1>1. ASSUME IInv, [Next]_vars
      PROVE  \A d \in Days : table[d] # NoRow => table'[d] # NoRow /\ NotOlder(table'[d], table[d])
  <2>1. CASE UNCHANGED table
    BY <1>1, <2>1 DEF IInv, TypeOK, NotOlder, Figures, Days
  <2>2. CASE pc = "stats" /\ table' = UpsertDailyStats(day, got)
    <3>1. got # NoRow
      BY <1>1, <2>2 DEF IInv, GotIsDated
    <3> QED
      BY <1>1, <2>2, <3>1 DEF IInv, FiguresAreInOrder, UpsertDailyStats, TypeOK, NotOlder, Figures, Days
  <2> QED
    BY <1>1, <2>1, <2>2, RowIsWritten
<1> QED
  BY <1>1, StatsIInvHolds, PTL DEF Spec, RowsNeverGoBack

\* What the reports need of the table, from its contract alone: once a day is
\* over its row is final, so a report of that day cannot be overtaken by a
\* write (saveDailyStats of monitor.go dates rows by the clock).
PastRowsKept ==
  \A d \in Days : d < day \/ (d = day /\ hour > WorkingHourEnd) => table'[d] = table[d]

THEOREM PastRowsAreFinal == Spec => [][PastRowsKept]_<<day, hour > WorkingHourEnd, table>>
<1>1. TypeOK /\ [Table!Next]_<<day, hour > WorkingHourEnd, table>>
        => [PastRowsKept]_<<day, hour > WorkingHourEnd, table>>
  <2> SUFFICES ASSUME TypeOK, Table!Next PROVE PastRowsKept
    OBVIOUS
  <2>1. CASE Table!Write
    BY <2>1, CalendarAssumption DEF Table!Write, PastRowsKept, TypeOK, Days
  <2>2. CASE Table!Finish \/ Table!NextDay
    BY <2>2 DEF Table!Finish, Table!NextDay, PastRowsKept
  <2> QED
    BY <2>1, <2>2 DEF Table!Next
<1>2. IInv => TypeOK
  BY DEF IInv
<1> QED
  BY <1>1, <1>2, TheTableKeepsItsContract, StatsIInvHolds, PTL DEF ImplementsStatsTable, Table!Spec
=============================================================================
