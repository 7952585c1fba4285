------------------------------ MODULE DailyStats ------------------------------
(***************************************************************************)
(* The figures of a day on their way from DUW to the table                 *)
(* queue_daily_stats.                                                      *)
(*                                                                         *)
(* The monitor polls during the working hours of weekdays only.  When it   *)
(* sees an active queue closed it posts the alert and then writes the      *)
(* figures of that poll under the date of the moment of writing.  So what  *)
(* a row holds depends on when DUW opens, closes and starts a new day, on  *)
(* when the monitor gets to see it, and on what the monitor remembers.     *)
(*                                                                         *)
(* The active states of QueueMonitor are one here (belief = TRUE), and so  *)
(* are the attempts of a send.  Time is counted in hours: a check may see  *)
(* one hour end, never two.  For that the upsert of a row, which has no    *)
(* timeout in the code, is taken to be over before the next hour is.       *)
(***************************************************************************)
EXTENDS Integers

CONSTANTS
  LastDay,           \* the calendar is 0 .. LastDay
  Weekend,           \* the days that are Saturdays or Sundays
  HoursPerDay,
  WorkingHourStart,
  WorkingHourEnd,
  MaxTaken,          \* bound: tickets taken in a day
  NoRow,             \* the absence of a row, or of figures
  Faults             \* out of FaultKinds

Days == 0 .. LastDay
Hours == 0 .. HoursPerDay - 1

FaultKinds == {"late",         \* the queue is open when the hours end, or outside them
               "unseen",       \* DUW is faster than the checks of the monitor
               "crash",        \* the process dies without shutting down
               "lost",         \* the record of a clean shutdown is not restored
               "writeFailed"}  \* PostgreSQL refuses the row

ASSUME CalendarAssumption == LastDay \in Nat /\ HoursPerDay \in Nat /\ Weekend \subseteq Days
ASSUME WorkingHoursAssumption ==
  /\ WorkingHourStart \in Hours /\ WorkingHourEnd \in Hours
  /\ WorkingHourStart < WorkingHourEnd
ASSUME FiguresAssumption == MaxTaken \in Nat
ASSUME StatsFaultsAssumption == Faults \subseteq FaultKinds

\* A row of the table, or what DUW reports: the office day the figures are
\* about, and the tickets taken (the capacity travels with them).
Figures == [of : Days, taken : 0 .. MaxTaken]

ASSUME NoRowAssumption == NoRow \notin Figures

VARIABLES
  day, hour,   \* the clock, in UTC
  active,      \* what DUW says of the queue
  of,          \* the day its figures are about
  latest,      \* the last figures DUW had of each day
  up,          \* the monitor is running
  belief,      \* its state is one of the active ones
  pc,          \* where its check is
  got,         \* the figures of the poll that saw the queue closed
  spanned,     \* the check in progress has seen an hour end
  kept,        \* the record in Redis: "none", "active", "inactive"
  table,       \* queue_daily_stats for the monitored queue, by date
  troubled     \* history: days on which something went wrong

clock == <<day, hour>>
duw == <<active, of, latest>>
monitor == <<up, belief, pc, got, spanned>>
vars == <<clock, duw, monitor, kept, table, troubled>>

Init ==
  /\ day = 0 /\ hour = 0
  /\ active = FALSE /\ of = 0
  /\ latest = [d \in Days |-> NoRow]
  /\ up = TRUE /\ belief = FALSE
  /\ pc = "idle" /\ got = NoRow /\ spanned = FALSE
  /\ kept = "none"
  /\ table = [d \in Days |-> NoRow]
  /\ troubled = {}

Trouble(ds) == troubled' = troubled \cup ds

\* A mutant: the weekend is forgotten.
isDuwOffTimeWeekdayless ==
  hour < WorkingHourStart \/ hour >= WorkingHourEnd

isDuwOffTime ==
  day \in Weekend \/ hour < WorkingHourStart \/ hour >= WorkingHourEnd

\* What the monitor goes by: its state, or the record it will restore.
Knows == IF up THEN belief ELSE kept = "active"

-----------------------------------------------------------------------------
(* A check. *)

\* A mutant: the stats are written for every poll that finds the queue
\* closed, not only for the first.
PollAlways ==
  /\ up /\ pc = "idle" /\ ~isDuwOffTime
  /\ active # belief \/ latest[of] # NoRow
  /\ pc' = IF active # belief THEN "send" ELSE IF active THEN "idle" ELSE "stats"
  /\ got' = IF active THEN NoRow ELSE latest[of]
  /\ UNCHANGED <<clock, duw, up, belief, spanned, kept, table, troubled>>

\* A check that finds nothing new for the stats, that fails to fetch, or that
\* posts a change between two active states, is no step here.
Poll ==
  /\ up /\ pc = "idle" /\ ~isDuwOffTime
  /\ active # belief
  /\ pc' = "send"
  /\ got' = IF active THEN NoRow ELSE latest[of]
  /\ UNCHANGED <<clock, duw, up, belief, spanned, kept, table, troubled>>

\* h.state = newState; the locals of the check are gone.
Settle(b) ==
  /\ belief' = b
  /\ pc' = "idle" /\ got' = NoRow /\ spanned' = FALSE

\* The alert is confirmed; a closing goes on to its stats.
Announced ==
  /\ pc = "send"
  /\ \/ ~belief /\ Settle(TRUE)
     \/ belief /\ pc' = "stats" /\ UNCHANGED <<belief, got, spanned>>
  /\ UNCHANGED <<clock, duw, up, kept, table, troubled>>

\* The check ends with the state of before; the next one tries again.
SendFails ==
  /\ pc = "send"
  /\ Settle(belief)
  /\ UNCHANGED <<clock, duw, up, kept, table, troubled>>

\* A mutant: an existing row is left as it is (ON CONFLICT DO NOTHING).
InsertOnly(d, figures) == IF table[d] = NoRow THEN [table EXCEPT ![d] = figures] ELSE table

\* One row per date: a second closing replaces the first.
UpsertDailyStats(d, figures) == [table EXCEPT ![d] = figures]

\* The date is read from the clock now, after the post.
SaveDailyStats ==
  /\ pc = "stats"
  /\ table' = UpsertDailyStats(day, got)
  /\ Settle(FALSE)
  /\ UNCHANGED <<clock, duw, up, kept, troubled>>

\* A mutant: the upsert is two statements, and only the DELETE comes through.
DeletedOnly == UNCHANGED table \/ (pc = "stats" /\ table' = [table EXCEPT ![day] = NoRow])

\* The process or the connection is gone while the row is on its way: the
\* row may be there all the same.
InDoubt == UNCHANGED table \/ (pc = "stats" /\ table' = UpsertDailyStats(day, got))

\* An error is logged and the state moves on: this closing is not written
\* again.
WriteFails ==
  /\ pc = "stats"
  /\ "writeFailed" \in Faults
  /\ InDoubt
  /\ Settle(FALSE)
  /\ Trouble({day})
  /\ UNCHANGED <<clock, duw>>

SaveFails == WriteFails /\ UNCHANGED <<up, kept>>

-----------------------------------------------------------------------------
(* The life of the process. *)

\* A shutdown begins between two checks, or ends the one in progress: its
\* context is cancelled, so neither the send nor the write comes through.
Shutdown ==
  /\ up
  /\ pc # "stats"
  /\ kept' = IF belief THEN "active" ELSE "inactive"
  /\ up' = FALSE
  /\ Settle(FALSE)
  /\ UNCHANGED <<clock, duw, table, troubled>>

\* A mutant: the state is saved as it was before the check.
ShutdownInStatsEarly ==
  /\ WriteFails
  /\ kept' = "active"
  /\ up' = FALSE

\* The cancelled context makes the write fail, and the state that is saved
\* has moved on.
ShutdownInStats ==
  /\ WriteFails
  /\ kept' = "inactive"
  /\ up' = FALSE

Restart ==
  /\ ~up
  /\ up' = TRUE
  /\ belief' = (kept = "active")
  /\ UNCHANGED <<clock, duw, pc, got, spanned, kept, table, troubled>>

\* The day suffers if the closing was still to be seen.
Unrecorded == IF Knows /\ ~active THEN {day} ELSE {}

Crash ==
  /\ "crash" \in Faults
  /\ up
  /\ up' = FALSE
  /\ Settle(FALSE)
  /\ InDoubt
  /\ Trouble(Unrecorded)
  /\ UNCHANGED <<clock, duw, kept>>

RecordLost ==
  /\ "lost" \in Faults
  /\ kept # "none"
  /\ kept' = "none"
  /\ Trouble(IF up THEN {} ELSE Unrecorded)
  /\ UNCHANGED <<clock, duw, monitor, table>>

-----------------------------------------------------------------------------
(* DUW and the clock. *)

OfficeHours == day \notin Weekend /\ hour < WorkingHourEnd

\* A day's queue opens with new figures; DUW may still have been saying
\* "active" of the day before.
OpenDay ==
  /\ OfficeHours
  /\ latest[day] = NoRow
  /\ active' = TRUE
  /\ of' = day
  /\ latest' = [latest EXCEPT ![day] = [of |-> day, taken |-> 0]]
  /\ UNCHANGED <<clock, monitor, kept, table, troubled>>

\* It opens once more on the same day.  DUW also reports the queue active
\* at night and on weekends, with the figures it has.
Reopen ==
  /\ ~active
  /\ latest[of] # NoRow
  /\ (OfficeHours /\ of = day) \/ (isDuwOffTime /\ "late" \in Faults)
  /\ active' = TRUE
  /\ UNCHANGED <<clock, of, latest, monitor, kept, table, troubled>>

TakeTicket ==
  /\ active /\ OfficeHours
  /\ of = day /\ latest[day] # NoRow
  /\ latest[day].taken < MaxTaken
  /\ latest' = [latest EXCEPT ![day].taken = @ + 1]
  /\ UNCHANGED <<clock, active, of, monitor, kept, table, troubled>>

\* The monitor should have seen the day open, and be between two checks.
Unnoticed == of = day /\ hour < WorkingHourEnd /\ (isDuwOffTime \/ ~Knows \/ pc # "idle")

\* A queue of an earlier day is closed while the monitor looks.
Overdue == of # day /\ ~isDuwOffTime

Close ==
  /\ active
  /\ Unnoticed => "unseen" \in Faults
  /\ Overdue => "late" \in Faults
  /\ active' = FALSE
  /\ Trouble({d \in {day} : Unnoticed} \cup {d \in {of} : Overdue})
  /\ UNCHANGED <<clock, of, latest, monitor, kept, table>>

\* The last hour of the window: the queue should be closed and the monitor
\* should know.
WindowEnds == day \notin Weekend /\ hour + 1 = WorkingHourEnd

\* The record's time to live is shorter than an hour.
Advance ==
  /\ ~spanned
  /\ spanned' = (pc # "idle")
  /\ WindowEnds /\ active => "late" \in Faults
  /\ WindowEnds /\ Knows # active => "unseen" \in Faults
  /\ \/ hour + 1 < HoursPerDay /\ hour' = hour + 1 /\ day' = day
     \/ hour + 1 = HoursPerDay /\ hour' = 0 /\ day < LastDay /\ day' = day + 1
  /\ kept' = "none"
  /\ kept # "none" /\ ~up /\ Unrecorded # {} => "lost" \in Faults
  /\ Trouble({d \in {day} : WindowEnds /\ (active \/ Knows)} \cup IF up THEN {} ELSE Unrecorded)
  /\ UNCHANGED <<duw, up, belief, pc, got, table>>

-----------------------------------------------------------------------------
Check == Poll \/ Announced \/ SendFails \/ SaveDailyStats \/ SaveFails
Process == Shutdown \/ ShutdownInStats \/ Restart \/ Crash \/ RecordLost
Office == OpenDay \/ Reopen \/ TakeTicket \/ Close \/ Advance

Next == Check \/ Process \/ Office

Spec == Init /\ [][Next]_vars

-----------------------------------------------------------------------------
(***************************************************************************)
(* Properties.                                                             *)
(***************************************************************************)

\* Every variable has its type.
TypeOK ==
  /\ day \in Days /\ hour \in Hours
  /\ active \in BOOLEAN /\ of \in Days
  /\ latest \in [Days -> Figures \cup {NoRow}]
  /\ up \in BOOLEAN /\ belief \in BOOLEAN
  /\ pc \in {"idle", "send", "stats"}
  /\ got \in Figures \cup {NoRow}
  /\ spanned \in BOOLEAN
  /\ kept \in {"none", "active", "inactive"}
  /\ table \in [Days -> Figures \cup {NoRow}]
  /\ troubled \subseteq Days

\* No row is dated on a weekend: the gate is asked before the poll and the
\* date is taken after the post, and no check reaches from one into the
\* other (the working hours end before midnight).
RowsOnWorkingDays == \A d \in Days : table[d] # NoRow => d \notin Weekend

\* A row that holds the figures of another day is there because something
\* went wrong on that day or between the two: otherwise the figures under
\* a date are those of that date.
RowsAreOfTheirDay ==
  \A d \in Days : table[d] # NoRow =>
    \/ table[d].of = d
    \/ \E e \in troubled : table[d].of <= e /\ e < d

\* The window of d is over.
Past(d) == d < day \/ (d = day /\ hour >= WorkingHourEnd)

\* A day on which nothing went wrong has its row, with the last figures of
\* the day, whatever happened on the days before, and however often the
\* queue was closed, a send failed or the monitor was restarted cleanly.
\* So a fault costs the row of its own day and of no other day's.
WorkedDaysAreRecorded ==
  \A d \in Days : Past(d) /\ d \notin troubled /\ latest[d] # NoRow => table[d] = latest[d]

\* Every write is one that the readers of the table expect: of the day it is
\* made on, a working day, before that day's table is final; and no row is
\* ever removed.  So the gate of the monitor keeps the promise that the
\* reports rely on.
Table == INSTANCE StatsTable WITH Rows <- Figures, over <- hour > WorkingHourEnd

ImplementsStatsTable == Table!Spec

\* What the rules of the closing see of the monitor.
WatchBelief == CASE ~up -> "off" [] up /\ belief -> "active" [] up /\ ~belief -> "inactive"
WatchRecord == IF kept = "active" THEN "active" ELSE "inactive"
WatchStage == CASE pc = "idle" -> "idle" [] pc = "send" -> "announcing" [] pc = "stats" -> "writing"

\* The coarse check of this module is one of those that QueueMonitor makes
\* step by step: both write the rows of a closing by the same rules.
Watch == INSTANCE ClosingWatch WITH
  belief <- WatchBelief, record <- WatchRecord, stage <- WatchStage, rows <- table

ImplementsClosingWatch == Watch!Spec

\* A row only ever gives way to a later one: of a later day, or of the same
\* day with no fewer tickets.  No delay, crash, retry or restart brings
\* older figures back.
NotOlder(new, old) ==
  new.of > old.of \/ (new.of = old.of /\ new.taken >= old.taken)

RowsNeverGoBack ==
  [][\A d \in Days : table[d] # NoRow => table'[d] # NoRow /\ NotOlder(table'[d], table[d])]_vars

-----------------------------------------------------------------------------
(***************************************************************************)
(* The inductive invariant behind them.                                    *)
(***************************************************************************)

\* A check runs in the window, or in the hour after it if it began before.
CheckIsInHours ==
  IF pc = "idle" THEN ~spanned
  ELSE /\ up /\ day \notin Weekend
       /\ hour <= WorkingHourEnd
       /\ spanned \/ hour < WorkingHourEnd
       /\ WorkingHourStart <= hour

\* A process that is gone believes nothing.
DownHasNoBelief == belief => up

\* The figures of a day are filed under it, no day is in the future, and an
\* active queue has figures.
LatestIsDated ==
  /\ of <= day
  /\ active => latest[of] # NoRow
  /\ \A d \in Days : latest[d] # NoRow => d <= of
  /\ \A d \in Days : latest[d] # NoRow => latest[d].of = d /\ d \notin Weekend

\* Trouble between the day of the figures and the day of the row.
Excused(from, to) == \E e \in troubled : from <= e /\ e < to

\* The day on which a closing can be seen next.
Horizon == IF hour < WorkingHourEnd THEN day ELSE day + 1

\* Something may take the queue for an active one.
Remembered == belief \/ kept = "active" \/ pc = "send"

\* A closing that is still to be seen, or still to come, will be of its own
\* day or has an excuse; a queue that is open past its day may still be
\* closed in the window, which is its excuse.
ClosingIsDated ==
  Remembered =>
    /\ latest[of] # NoRow
    /\ \/ of = day /\ hour < WorkingHourEnd
       \/ Excused(of, Horizon)
       \/ active /\ of < day /\ ~isDuwOffTime

\* An opening whose queue was closed, or whose window ended, while it was
\* being announced.
OvertakenIsTrouble ==
  pc = "send" /\ ~belief /\ of = day /\ (~active \/ hour >= WorkingHourEnd) =>
    day \in troubled

\* The figures on their way to the table.
GotIsDated ==
  /\ pc = "stats" => belief
  /\ pc # "idle" /\ belief => got # NoRow /\ (got.of = day \/ Excused(got.of, day))

\* A check that reports a closing and outlasts the window began too late.
LateCheckIsTrouble ==
  pc # "idle" /\ belief /\ hour >= WorkingHourEnd => day \in troubled

\* Within the window of a good day, the figures of a closed queue are in the
\* table or still remembered; a check in progress carries no older ones.
TodayIsRecorded ==
  hour < WorkingHourEnd /\ day \notin troubled /\ latest[day] # NoRow /\ ~active =>
    /\ table[day] = latest[day] \/ Knows
    /\ pc # "idle" /\ belief => got = latest[day]

\* No row, and no figures on their way to one, are newer than what DUW has
\* said last; and a check carries nothing older than the row it will replace.
FiguresAreInOrder ==
  /\ \A d \in Days : table[d] # NoRow =>
       latest[table[d].of] # NoRow /\ NotOlder(latest[table[d].of], table[d])
  /\ got # NoRow => latest[got.of] # NoRow /\ NotOlder(latest[got.of], got)
  /\ got # NoRow => \A d \in Days : table[d] # NoRow => NotOlder(got, table[d])

IInv ==
  /\ TypeOK
  /\ RowsOnWorkingDays
  /\ RowsAreOfTheirDay
  /\ WorkedDaysAreRecorded
  /\ CheckIsInHours
  /\ DownHasNoBelief
  /\ LatestIsDated
  /\ ClosingIsDated
  /\ OvertakenIsTrouble
  /\ GotIsDated
  /\ LateCheckIsTrouble
  /\ TodayIsRecorded
  /\ FiguresAreInOrder

-----------------------------------------------------------------------------
(***************************************************************************)
(* What the repository says of the program and the program does not do.    *)
(***************************************************************************)

\* The stats are written once per day at the end of the window
\* (docs/agents/map/01-overview.md:94): when it is over, an opened day has
\* its row.
SnapshotAtWindowEnd ==
  \A d \in Days : Past(d) /\ latest[d] # NoRow => table[d] # NoRow /\ table[d].of = d
=============================================================================
