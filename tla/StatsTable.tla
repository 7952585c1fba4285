------------------------------ MODULE StatsTable ------------------------------
(***************************************************************************)
(* What the readers of queue_daily_stats may rely on: the rows of the      *)
(* monitored queue, as DailyStats writes them and StatsReports finds them. *)
(***************************************************************************)
EXTENDS Integers

CONSTANTS
  LastDay,   \* the calendar is 0 .. LastDay
  Weekend,   \* the days without a row
  Rows,      \* what a row can hold
  NoRow      \* the absence of a row

VARIABLES
  day,       \* the date in UTC
  over,      \* its row is not written any more
  table      \* the row of each date

Days == 0 .. LastDay

Init ==
  /\ day = 0 /\ over = FALSE
  /\ table = [d \in Days |-> NoRow]

\* A row is written on its own day, in place of the one that is there; none
\* is ever removed, and none is touched once its day is over.
Write ==
  /\ ~over /\ day \notin Weekend
  /\ \E row \in Rows : table' = [table EXCEPT ![day] = row]
  /\ UNCHANGED <<day, over>>

Finish ==
  /\ ~over /\ over' = TRUE
  /\ UNCHANGED <<day, table>>

NextDay ==
  /\ day < LastDay /\ day' = day + 1
  /\ over' = FALSE
  /\ UNCHANGED table

Next == Write \/ Finish \/ NextDay

Spec == Init /\ [][Next]_<<day, over, table>>
=============================================================================
