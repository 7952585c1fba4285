----------------------------- MODULE StatsReports -----------------------------
(***************************************************************************)
(* One of the three cron jobs that post what is in queue_daily_stats: the  *)
(* daily, the weekly or the monthly report.                                *)
(*                                                                         *)
(* Kubernetes starts a job on the days of its schedule and starts its      *)
(* container again when it fails.  The container looks at the clock, reads *)
(* the rows of its window, posts one message and exits.  The monitor may   *)
(* write the row of the day before, during or after that, and midnight may *)
(* pass while the job waits for a node.  The jobs of two periods share     *)
(* only the table, which they read, so each is looked at by itself.        *)
(*                                                                         *)
(* Of the two figures of a row, which are treated alike, one is kept.      *)
(***************************************************************************)
EXTENDS Integers, FiniteSetsExt

CONSTANTS
  Periods,          \* the jobs to look at
  LastDay,          \* the calendar is 0 .. LastDay
  FirstWeekday,     \* the weekday of day 0, where Sunday is 0
  MonthStarts,      \* the days that are the first of a month
  FirstMonthlyDay,  \* day of the month from which the monthly job is started
  MaxTaken,         \* bound: tickets taken in a day
  BackoffLimit,     \* how often a failed container is started again
  MaxAttempts,      \* of one SendMessage call
  NoRow, NoReport,  \* absence of a row, of a message
  Faults            \* out of {"delayed"}: midnight passes during a job

Days == 0 .. LastDay
Taken == 0 .. MaxTaken
NoDay == -1

ASSUME PeriodsAssumption == Periods \subseteq {"daily", "weekly", "monthly"}
ASSUME CalendarAssumption ==
  /\ LastDay \in Nat /\ FirstWeekday \in 0 .. 6
  /\ MonthStarts \subseteq 0 .. LastDay + 1 /\ 0 \in MonthStarts
  /\ FirstMonthlyDay \in Nat
ASSUME JobAssumption ==
  MaxTaken \in Nat /\ BackoffLimit \in Nat /\ MaxAttempts \in Nat \ {0}
ASSUME ReportFaultsAssumption == Faults \subseteq {"delayed"}
ASSUME SentinelAssumption == NoRow \notin Nat

VARIABLES
  day, table,   \* the date in UTC; queue_daily_stats for the queue, by date
  ahead,        \* it is past midnight in Warsaw, where the schedule is
  period,       \* which job this is
  phase,        \* "idle"; "starting": up to the guard; "reading": up to the
                \* answer of PostgreSQL; "sending"
  due,          \* the day the job was started for
  runs,         \* containers of the job that have failed
  asked,        \* the day the container took for today
  message,      \* what it is posting
  posts,        \* posts of the job
  posted,       \* the last post of this kind in the channel
  outcome,      \* of the last job: "none" (not yet), "succeeded", "failed"
  reported,     \* history: the days the posts of the job are about
  late          \* history: the phases of the job in which the date changed

job == <<phase, due, runs, asked, message, posts>>
channel == <<posted, reported>>
vars == <<day, ahead, table, period, job, channel, outcome, late>>

-----------------------------------------------------------------------------
(* The calendar and the windows. *)

Weekday(d) == (d + FirstWeekday) % 7
MonthStart(d) == Max({m \in MonthStarts : m <= d})
LastOfMonth(d) == d + 1 \in MonthStarts

\* A mutant: Sunday is taken for the first day of the week.
WeekStartNaive(d) == d - Weekday(d) + 1

WeekStart(d) == d - (IF Weekday(d) = 0 THEN 7 ELSE Weekday(d)) + 1

WindowStart(p, d) ==
  CASE p = "daily" -> d
    [] p = "weekly" -> WeekStart(d)
    [] p = "monthly" -> MonthStart(d)

\* The rows between two dates, both included.
GetByDateRange(start, end) ==
  [d \in {d \in Days : start <= d /\ d <= end /\ table[d] # NoRow} |-> table[d]]

-----------------------------------------------------------------------------
(* The messages. *)

NoData == [lines |-> <<>>, total |-> NoRow]

Sum(rows) == MapThenSumSet(LAMBDA d : rows[d], DOMAIN rows)

buildDailyMsg(rows) == [lines |-> <<>>, total |-> rows[Min(DOMAIN rows)]]
buildWeeklyMsg(rows) == [lines |-> rows, total |-> Sum(rows)]
buildMonthlyMsg(rows) == [lines |-> <<>>, total |-> Sum(rows)]

Message(p, rows) ==
  CASE DOMAIN rows = {} -> NoData
    [] DOMAIN rows # {} /\ p = "daily" -> buildDailyMsg(rows)
    [] DOMAIN rows # {} /\ p = "weekly" -> buildWeeklyMsg(rows)
    [] DOMAIN rows # {} /\ p = "monthly" -> buildMonthlyMsg(rows)

-----------------------------------------------------------------------------
Init ==
  /\ day = 0 /\ ahead = FALSE
  /\ table = [d \in Days |-> NoRow]
  /\ period \in Periods
  /\ phase = "idle" /\ due = NoDay /\ runs = 0 /\ asked = NoDay /\ message = NoReport /\ posts = 0
  /\ posted = NoReport /\ reported = {}
  /\ outcome = "none"
  /\ late = {}

Due ==
  CASE period = "daily" -> Weekday(day) \in 1 .. 5
    [] period = "weekly" -> Weekday(day) = 5
    [] period = "monthly" -> day - MonthStart(day) + 1 >= FirstMonthlyDay

\* Kubernetes may also miss the time of a job; it never starts one while the
\* one before it runs.
StartJob ==
  /\ phase = "idle"
  /\ ~ahead /\ Due
  /\ due # day
  /\ phase' = "starting" /\ outcome' = "none"
  /\ due' = day
  /\ posts' = 0 /\ reported' = {} /\ late' = {}
  /\ UNCHANGED <<day, ahead, table, period, runs, asked, message, posted>>

Finish(result) ==
  /\ phase' = "idle"
  /\ outcome' = result
  /\ runs' = 0 /\ asked' = NoDay /\ message' = NoReport
  /\ UNCHANGED due

\* A mutant: the monthly job is not guarded.
SkipNever == FALSE

\* Exit 0 without a report: the shell guard of the monthly job.  It asks for
\* the date in Warsaw, but the image has no time zones and falls back to UTC,
\* by which the program goes as well.
Skip ==
  /\ phase = "starting" /\ period = "monthly"
  /\ ~LastOfMonth(day)

SkipReport ==
  /\ Skip
  /\ Finish("succeeded")
  /\ UNCHANGED <<day, ahead, table, period, posts, channel, late>>

\* The guard is passed and the program is up.  What it does next waits for
\* PostgreSQL.
Begin ==
  /\ phase = "starting"
  /\ ~Skip
  /\ phase' = "reading"
  /\ UNCHANGED <<day, ahead, table, period, due, runs, asked, message, posts, channel, outcome, late>>

\* The ping, the look at the clock and the query.
Query ==
  /\ phase = "reading"
  /\ phase' = "sending"
  /\ asked' = day
  /\ message' = Message(period, GetByDateRange(WindowStart(period, day), day))
  /\ UNCHANGED <<day, ahead, table, period, due, runs, posts, channel, outcome, late>>

\* n posts of the message reach the channel.
Deliver(n) ==
  /\ posts' = posts + n
  /\ posted' = IF n > 0 THEN [asked |-> asked, message |-> message] ELSE posted
  /\ reported' = IF n > 0 THEN reported \cup {asked} ELSE reported

\* The confirmed attempt comes after failed ones, of which any number was
\* posted too.
Sent ==
  /\ phase = "sending"
  /\ \E n \in 1 .. MaxAttempts : Deliver(n)
  /\ Finish("succeeded")
  /\ UNCHANGED <<day, ahead, table, period, late>>

\* Mutants: a failed container is started once more than the limit allows; an
\* error is logged and the exit code stays 0.
FailOnceMore ==
  \/ runs <= BackoffLimit /\ phase' = "starting" /\ runs' = runs + 1 /\ UNCHANGED <<due, asked, message, outcome>>
  \/ runs > BackoffLimit /\ Finish("failed")
FailQuietly == Finish("succeeded")

\* Exit 1: the container is started again, up to the limit.
Fail ==
  \/ /\ runs < BackoffLimit
     /\ phase' = "starting"
     /\ runs' = runs + 1
     /\ asked' = NoDay /\ message' = NoReport
     /\ UNCHANGED <<due, outcome>>
  \/ runs = BackoffLimit /\ Finish("failed")

\* A mutant: failures before the send are not counted.
StartFailsUncounted ==
  /\ phase \in {"starting", "reading"}
  /\ phase' = "starting"
  /\ UNCHANGED <<day, ahead, table, period, due, runs, asked, message, posts, channel, outcome, late>>

\* The container does not come up, or PostgreSQL does not answer.
StartFails ==
  /\ phase \in {"starting", "reading"}
  /\ Fail
  /\ UNCHANGED <<day, ahead, table, period, posts, channel, late>>

\* The send fails, or the container is killed, after any number of posts.
SendFails ==
  /\ phase = "sending"
  /\ \E n \in 0 .. MaxAttempts : Deliver(n)
  /\ Fail
  /\ UNCHANGED <<day, ahead, table, period, late>>

-----------------------------------------------------------------------------
(* The monitor and the calendar. *)

\* The table as the monitor leaves it: DailyStats implements the same
\* specification.  The working hours are over before midnight in Warsaw.
Table ==
  INSTANCE StatsTable WITH
    Weekend <- {d \in Days : Weekday(d) \notin 1 .. 5},
    Rows <- Taken,
    over <- ahead

SaveDailyStats ==
  /\ Table!Write
  /\ UNCHANGED <<period, job, channel, outcome, late>>

MidnightInWarsaw ==
  /\ Table!Finish
  /\ phase # "idle" => "delayed" \in Faults
  /\ UNCHANGED <<period, job, channel, outcome, late>>

NextDay ==
  /\ ahead
  /\ Table!NextDay
  /\ late' = late \cup ({phase} \ {"idle"})
  /\ UNCHANGED <<period, job, channel, outcome>>

-----------------------------------------------------------------------------
Container == SkipReport \/ Begin \/ Query \/ Sent \/ StartFails \/ SendFails
Next == StartJob \/ Container \/ SaveDailyStats \/ MidnightInWarsaw \/ NextDay

\* Everything but PostgreSQL answers in the end: neither the ping nor the
\* query has a timeout, and the jobs have no deadline.
Fairness ==
  /\ WF_vars(SkipReport \/ Begin)
  /\ WF_vars(Sent \/ SendFails)

Spec == Init /\ [][Next]_vars /\ Fairness

-----------------------------------------------------------------------------
(***************************************************************************)
(* Properties.                                                             *)
(***************************************************************************)

\* Every variable has its type.
TypeOK ==
  /\ day \in Days /\ ahead \in BOOLEAN
  /\ due \in Days \cup {NoDay} /\ asked \in Days \cup {NoDay}
  /\ table \in [Days -> Taken \cup {NoRow}]
  /\ period \in Periods
  /\ phase \in {"idle", "starting", "reading", "sending"}
  /\ runs \in 0 .. BackoffLimit /\ posts \in Nat
  /\ outcome \in {"none", "succeeded", "failed"}
  /\ reported \subseteq Days /\ late \subseteq {"starting", "reading", "sending"}

\* What the words day, week and month mean: the days up to d with no Monday,
\* or no first of a month, in between.
Reference(p, d) ==
  {e \in Days : e <= d /\
     CASE p = "daily" -> e = d
       [] p = "weekly" -> \A x \in e + 1 .. d : Weekday(x) # 1
       [] p = "monthly" -> \A x \in e + 1 .. d : x \notin MonthStarts}

\* What a report of day d should say if the row of d itself was t: it totals
\* the rows of its week or month and, if weekly, lists them.
RightMessage(p, d, t, m) ==
  LET row == [table EXCEPT ![d] = t]
      rows == [e \in {e \in Reference(p, d) : row[e] # NoRow} |-> row[e]]
  IN IF DOMAIN rows = {} THEN m = NoData
     ELSE /\ m.total = IF p = "daily" THEN t ELSE Sum(rows)
          /\ p = "weekly" => m.lines = rows

\* A message of day d agrees with the table.
Agrees(d, m) ==
  \E t \in Taken \cup {NoRow} :
    /\ RightMessage(period, d, t, m)
    /\ t # NoRow => table[d] # NoRow

\* A report in the channel agrees with the table for good, the row of its own
\* day excepted, which the monitor may write after the report: later rows,
\* later closings and midnight change nothing of what it covers.
ReportAgreesWithTable ==
  posted # NoReport => Agrees(posted.asked, posted.message)

\* A job that Kubernetes counts as succeeded has posted a report, unless the
\* guard skipped the day, and it is the report of its day, unless the date
\* changed during the job: no error is swallowed on the way from the send to
\* the exit code.
SuccessIsPosted ==
  outcome = "succeeded" =>
    /\ reported # {} \/ period = "monthly"
    /\ late = {} => due \in reported \/ (period = "monthly" /\ ~LastOfMonth(due))

\* A monthly report is about a whole month: though the job is started on
\* several days, and however long a container waits to come up, to send or to
\* be started again, no report is of another day than the last of a month,
\* unless the date changed between the guard and the look at the clock.
MonthsAreWhole ==
  period = "monthly" /\ "reading" \notin late => \A d \in reported : LastOfMonth(d)

\* Retries of the send times retries of the container: a job cannot post more
\* often than that.
PostsAreBounded == posts <= (BackoffLimit + 1) * MaxAttempts

\* How many steps a job can still take: three for each container.
JobSteps ==
  CASE phase = "idle" -> 0
    [] phase = "starting" -> 3 * (BackoffLimit - runs) + 3
    [] phase = "reading" -> 3 * (BackoffLimit - runs) + 2
    [] phase = "sending" -> 3 * (BackoffLimit - runs) + 1

\* Every step of a job brings it nearer to its end, and neither the monitor
\* nor midnight sets it back: no chain of failures keeps it busy for ever, so
\* that nothing but a container or a query that hangs makes the next one miss
\* its time.
JobsAreFinite ==
  [][phase # "idle" => JobSteps' < JobSteps \/ UNCHANGED <<job, channel, outcome>>]_vars

\* A job of today runs on its own day, and what it has posted is about it.
JobIsOfItsDay ==
  /\ phase = "sending" => asked \in Days
  /\ phase # "idle" /\ late = {} => due = day
  /\ phase = "sending" /\ late = {} => asked = due
  /\ late = {} => reported \subseteq {due}
  /\ period = "monthly" /\ "reading" \notin late =>
       /\ phase = "reading" => LastOfMonth(day)
       /\ phase = "sending" => LastOfMonth(asked)

\* The posts of a job, container by container.
PostsSoFar ==
  phase # "idle" => posts <= runs * MaxAttempts /\ outcome = "none"

\* A report is right before it is posted, and of a day that is over or now.
ReportsAgree ==
  /\ phase = "sending" => asked <= day /\ Agrees(asked, message)
  /\ posted # NoReport =>
       posted.asked \in Days /\ posted.asked <= day /\ Agrees(posted.asked, posted.message)

IInv ==
  /\ TypeOK
  /\ ReportsAgree
  /\ SuccessIsPosted
  /\ MonthsAreWhole
  /\ PostsAreBounded
  /\ JobIsOfItsDay
  /\ PostsSoFar

\* A job comes to an end, unless PostgreSQL leaves it waiting for ever.
JobEnds == [](phase # "idle" => <>(phase = "idle")) \/ <>[](phase = "reading")
=============================================================================
