-------------------------- MODULE StatsReportsProofs --------------------------
(***************************************************************************)
(* Theorems about StatsReports, for every calendar, schedule and limit:    *)
(* the windows, what a report says, and the path from the schedule to the  *)
(* exit code.  A total is a fold, which nothing here needs to look into.   *)
(***************************************************************************)
EXTENDS StatsReports, WellFoundedInduction, TLAPS

\* A Monday is found by going back at most six days.
LEMMA WeekStartIsMonday ==
  ASSUME NEW d \in Nat
  PROVE  /\ WeekStart(d) \in Int
         /\ WeekStart(d) <= d /\ d <= WeekStart(d) + 6
         /\ Weekday(WeekStart(d)) = 1
BY CalendarAssumption DEF WeekStart, Weekday

\* No other Monday lies within six days of one.
LEMMA NextMonday ==
  ASSUME NEW m \in Int, NEW x \in Int, Weekday(m) = 1, m < x, x <= m + 6
  PROVE  Weekday(x) # 1
BY CalendarAssumption DEF Weekday

\* The arithmetic of the weekly report, which shifts Sunday by hand, selects
\* the days since Monday, whatever the weekday.
THEOREM WeeklyWindow ==
  ASSUME NEW d \in Days
  PROVE  {e \in Days : WindowStart("weekly", d) <= e /\ e <= d} = Reference("weekly", d)
<1> DEFINE start == WeekStart(d)
<1>1. WindowStart("weekly", d) = start
  BY DEF WindowStart
<1>2. d \in Nat
  BY CalendarAssumption DEF Days
<1>3. start \in Int /\ start <= d /\ d <= start + 6 /\ Weekday(start) = 1
  BY <1>2, WeekStartIsMonday
<1>4. ASSUME NEW e \in Days, e <= d
      PROVE  start <= e <=> \A x \in e + 1 .. d : Weekday(x) # 1
  <2>1. e \in Int
    BY CalendarAssumption DEF Days
  <2>2. ASSUME start <= e, NEW x \in e + 1 .. d PROVE Weekday(x) # 1
    <3>1. x \in Int /\ start < x /\ x <= start + 6
      BY <1>2, <1>3, <2>1, <2>2
    <3> QED
      BY <1>3, <3>1, NextMonday
  <2>3. ASSUME e < start PROVE ~ \A x \in e + 1 .. d : Weekday(x) # 1
    <3>1. start \in e + 1 .. d
      BY <1>2, <1>3, <2>1, <2>3
    <3> QED
      BY <1>3, <3>1
  <2> QED
    BY <1>3, <2>1, <2>2, <2>3
<1> HIDE DEF start
<1> QED
  BY <1>1, <1>4 DEF Reference

\* A set of numbers up to d has a greatest element, though d be the only
\* bound that is known.
LEMMA MaxExists ==
  ASSUME NEW d \in Nat, NEW S \in SUBSET (0 .. d), S # {}
  PROVE  Max(S) \in S /\ \A x \in S : x <= Max(S)
<1> DEFINE T == {d - x : x \in S}
<1>1. T \subseteq Nat /\ T # {}
  OBVIOUS
<1>2. PICK t \in T : \A u \in T : <<u, t>> \notin OpToRel(<, Nat)
  <2> HIDE DEF T
  <2> QED
    BY <1>1, WFMin, NatLessThanWellFounded, Zenon
<1>3. \A u \in T : t <= u
  <2>1. ASSUME NEW u \in T, u < t PROVE <<u, t>> \in OpToRel(<, Nat)
    <3> HIDE DEF T
    <3>1. u \in Nat /\ t \in Nat
      BY <1>1
    <3> QED
      BY <2>1, <3>1 DEF OpToRel
  <2>2. \A u \in T : u \in Nat /\ t \in Nat
    BY <1>1
  <2>3. ASSUME NEW u \in T PROVE t <= u
    <3>1. ~(u < t)
      BY <1>2, <2>1
    <3> HIDE DEF T
    <3> QED
      BY <2>2, <3>1
  <2> QED
    BY <2>3
<1>4. PICK m \in S : t = d - m
  OBVIOUS
<1>5. ASSUME NEW x \in S PROVE m >= x
  <2>1. t <= d - x
    BY <1>3
  <2>2. x \in 0 .. d /\ m \in 0 .. d
    BY <1>4
  <2> QED
    BY <1>4, <2>1, <2>2
<1>6. Max(S) \in S /\ \A x \in S : Max(S) >= x
  BY <1>5, Zenon DEF Max
<1> QED
  BY <1>6

\* The first of the month that the monthly report goes back to leaves no
\* other first of a month out, whatever the months' lengths.
THEOREM MonthlyWindow ==
  ASSUME NEW d \in Days
  PROVE  {e \in Days : WindowStart("monthly", d) <= e /\ e <= d} = Reference("monthly", d)
<1> DEFINE start == MonthStart(d)
<1>1. WindowStart("monthly", d) = start
  BY DEF WindowStart
<1>2. d \in Nat
  BY CalendarAssumption DEF Days
<1>3. start \in MonthStarts /\ start \in Int /\ start <= d /\ \A m \in MonthStarts : m <= d => m <= start
  <2> DEFINE S == {m \in MonthStarts : m <= d}
  <2>1. S \in SUBSET (0 .. d) /\ 0 \in S
    <3>1. ASSUME NEW m \in S PROVE m \in 0 .. d
      <4>1. m \in 0 .. LastDay + 1 /\ m <= d
        BY CalendarAssumption
      <4> QED
        BY <1>2, <4>1
    <3>2. 0 \in S
      BY <1>2, CalendarAssumption
    <3> QED
      BY <3>1, <3>2
  <2>2. Max(S) \in S /\ \A x \in S : x <= Max(S)
    BY <1>2, <2>1, MaxExists
  <2> QED
    BY <2>1, <2>2 DEF MonthStart
<1> HIDE DEF start
<1>4. ASSUME NEW e \in Days, e <= d
      PROVE  start <= e <=> \A x \in e + 1 .. d : x \notin MonthStarts
  BY <1>2, <1>3, <1>4, CalendarAssumption DEF Days
<1> QED
  BY <1>1, <1>4 DEF Reference

\* The daily report asks for its own day.
LEMMA DailyWindow ==
  ASSUME NEW d \in Days
  PROVE  {e \in Days : WindowStart("daily", d) <= e /\ e <= d} = Reference("daily", d)
BY CalendarAssumption DEF WindowStart, Reference, Days

LEMMA WindowIsReference ==
  ASSUME NEW p \in {"daily", "weekly", "monthly"}, NEW d \in Days
  PROVE  {e \in Days : WindowStart(p, d) <= e /\ e <= d} = Reference(p, d)
BY DailyWindow, WeeklyWindow, MonthlyWindow

LEMMA ReferenceIsPast ==
  ASSUME NEW p, NEW d \in Days, NEW e \in Reference(p, d)
  PROVE  e \in Days /\ e <= d
BY DEF Reference

\* What is read from the table and put into words agrees with it.
LEMMA MessageAgrees ==
  ASSUME TypeOK, NEW d \in Days
  PROVE  Agrees(d, Message(period, GetByDateRange(WindowStart(period, d), d)))
<1> DEFINE row == [table EXCEPT ![d] = table[d]]
           rows == [e \in {e \in Reference(period, d) : row[e] # NoRow} |-> row[e]]
<1>1. row = table
  BY DEF TypeOK
<1>2. period \in {"daily", "weekly", "monthly"}
  BY PeriodsAssumption DEF TypeOK
<1>3. GetByDateRange(WindowStart(period, d), d) = rows
  <2>1. {e \in Days : WindowStart(period, d) <= e /\ e <= d /\ table[e] # NoRow}
          = {e \in Reference(period, d) : table[e] # NoRow}
    BY <1>2, WindowIsReference
  <2> QED
    BY <1>1, <2>1 DEF GetByDateRange
<1>4. period = "daily" /\ DOMAIN rows # {} => rows[Min(DOMAIN rows)] = table[d]
  <2> SUFFICES ASSUME period = "daily", DOMAIN rows # {} PROVE rows[Min(DOMAIN rows)] = table[d]
    OBVIOUS
  <2>1. DOMAIN rows = {d}
    BY DEF Reference
  <2>2. Min({d}) = d
    BY CalendarAssumption DEF Min, Days
  <2> QED
    BY <1>1, <2>1, <2>2
<1>5. RightMessage(period, d, table[d], Message(period, rows))
  <2>1. CASE DOMAIN rows = {}
    BY <2>1 DEF RightMessage, Message
  <2>2. CASE DOMAIN rows # {} /\ period = "daily"
    <3>1. Message(period, rows) = buildDailyMsg(rows)
      BY <2>2 DEF Message
    <3> HIDE DEF rows
    <3>2. buildDailyMsg(rows).total = table[d]
      BY <1>4, <2>2 DEF buildDailyMsg
    <3> QED
      BY <2>2, <3>1, <3>2 DEF RightMessage, rows
  <2>3. CASE DOMAIN rows # {} /\ period = "weekly"
    BY <2>3 DEF RightMessage, Message, buildWeeklyMsg
  <2>4. CASE DOMAIN rows # {} /\ period = "monthly"
    BY <2>4 DEF RightMessage, Message, buildMonthlyMsg
  <2> QED
    BY <1>2, <2>1, <2>2, <2>3, <2>4
<1>6. table[d] \in Taken \cup {NoRow}
  BY DEF TypeOK
<1> QED
  BY <1>3, <1>5, <1>6 DEF Agrees

\* A row that is written later changes nothing of what a report covers, but
\* for the row of the report's own day.
LEMMA LaterRowsAgree ==
  ASSUME TypeOK, NEW d \in Days, d <= day, NEW m, Agrees(d, m), NEW u \in Taken,
         table' = [table EXCEPT ![day] = u], period' = period
  PROVE  Agrees(d, m)'
<1>1. PICK t \in Taken \cup {NoRow} : RightMessage(period, d, t, m) /\ (t # NoRow => table[d] # NoRow)
  BY DEF Agrees
<1> DEFINE old == [table EXCEPT ![d] = t]
           new == [table' EXCEPT ![d] = t]
<1>2. \A e \in Reference(period, d) : old[e] = new[e]
  <2> SUFFICES ASSUME NEW e \in Reference(period, d) PROVE old[e] = new[e]
    OBVIOUS
  <2>1. e \in Days /\ e <= d /\ e \in Int /\ d \in Int /\ day \in Int
    BY ReferenceIsPast, CalendarAssumption DEF Days, TypeOK
  <2> QED
    BY <2>1 DEF TypeOK
<1>3. {e \in Reference(period, d) : old[e] # NoRow} = {e \in Reference(period, d) : new[e] # NoRow}
  BY <1>2
<1>4. [e \in {e \in Reference(period, d) : old[e] # NoRow} |-> old[e]]
        = [e \in {e \in Reference(period, d) : new[e] # NoRow} |-> new[e]]
  <2> HIDE DEF old, new
  <2> QED
    BY <1>2, <1>3
<1>5. RightMessage(period, d, t, m)'
  BY <1>1, <1>4 DEF RightMessage, Reference
<1>6. t # NoRow => table'[d] # NoRow
  BY <1>1, SentinelAssumption, JobAssumption DEF TypeOK, Taken
<1> QED
  BY <1>5, <1>6 DEF Agrees

LEMMA InitEstablishesIInv == Init => IInv
<1> SUFFICES ASSUME Init PROVE IInv
  OBVIOUS
<1>1. TypeOK
  <2>1. /\ day \in Days /\ due \in Days \cup {NoDay} /\ asked \in Days \cup {NoDay}
        /\ runs \in 0 .. BackoffLimit /\ posts \in Nat
    BY CalendarAssumption, JobAssumption DEF Init, Days
  <2>2. table \in [Days -> Taken \cup {NoRow}]
    BY DEF Init
  <2> QED
    BY <2>1, <2>2, Zenon DEF Init, TypeOK
<1>2. PostsAreBounded
  BY JobAssumption DEF Init, PostsAreBounded
<1>3. SuccessIsPosted /\ MonthsAreWhole /\ JobIsOfItsDay /\ PostsSoFar /\ ReportsAgree
  BY DEF Init, ReportsAgree, SuccessIsPosted, MonthsAreWhole, JobIsOfItsDay, PostsSoFar
<1> QED
  BY <1>1, <1>2, <1>3 DEF IInv

LEMMA NextKeepsTypeOK ==
  ASSUME TypeOK, JobIsOfItsDay, [Next]_vars
  PROVE  TypeOK'
<1> USE CalendarAssumption, JobAssumption DEF TypeOK, channel, job
<1>1. CASE StartJob
  BY <1>1 DEF StartJob
<1>2. CASE SkipReport
  BY <1>2 DEF SkipReport, Finish
<1>3. CASE Begin
  BY <1>3 DEF Begin
<1>4. CASE Query
  BY <1>4 DEF Query
<1>5. CASE Sent
  BY <1>5 DEF Sent, Deliver, Finish, JobIsOfItsDay
<1>6. CASE StartFails
  BY <1>6 DEF StartFails, Fail, Finish
<1>7. CASE SendFails
  BY <1>7 DEF SendFails, Fail, Deliver, Finish, JobIsOfItsDay
<1>8. CASE SaveDailyStats
  BY <1>8 DEF SaveDailyStats, Table!Write
<1>9. CASE MidnightInWarsaw
  BY <1>9 DEF MidnightInWarsaw, Table!Finish
<1>10. CASE NextDay
  <2>1. day' \in Days
    BY <1>10 DEF NextDay, Table!NextDay, Days
  <2>2. ahead' \in BOOLEAN
    BY <1>10, Zenon DEF NextDay, Table!NextDay
  <2> QED
    BY <1>10, <2>1, <2>2 DEF NextDay, Table!NextDay
<1>11. CASE UNCHANGED vars
  BY <1>11 DEF vars
<1> QED
  BY <1>1, <1>2, <1>3, <1>4, <1>5, <1>6, <1>7, <1>8, <1>9, <1>10, <1>11 DEF Next, Container

\* A job during which the date does not change has one idea of today from the
\* guard to the post.
LEMMA NextKeepsJobIsOfItsDay ==
  ASSUME TypeOK, JobIsOfItsDay, [Next]_vars
  PROVE  JobIsOfItsDay'
<1> USE DEF TypeOK, JobIsOfItsDay, channel, job
<1>1. CASE StartJob
  BY <1>1 DEF StartJob
<1>2. CASE SkipReport
  BY <1>2 DEF SkipReport, Finish
<1>3. CASE Begin
  BY <1>3 DEF Begin, Skip, LastOfMonth
<1>4. CASE Query
  BY <1>4 DEF Query, LastOfMonth
<1>5. CASE Sent
  BY <1>5 DEF Sent, Deliver, Finish
<1>6. CASE StartFails
  BY <1>6 DEF StartFails, Fail, Finish
<1>7. CASE SendFails
  BY <1>7 DEF SendFails, Fail, Deliver, Finish
<1>8. CASE SaveDailyStats
  BY <1>8 DEF SaveDailyStats, Table!Write, LastOfMonth
<1>9. CASE MidnightInWarsaw
  BY <1>9 DEF MidnightInWarsaw, Table!Finish, LastOfMonth
<1>10. CASE NextDay
  BY <1>10 DEF NextDay, Table!NextDay, LastOfMonth
<1>11. CASE UNCHANGED vars
  BY <1>11 DEF vars, LastOfMonth
<1> QED
  BY <1>1, <1>2, <1>3, <1>4, <1>5, <1>6, <1>7, <1>8, <1>9, <1>10, <1>11 DEF Next, Container

LEMMA NextKeepsSuccessIsPosted ==
  ASSUME TypeOK, JobIsOfItsDay, PostsSoFar, SuccessIsPosted, [Next]_vars
  PROVE  SuccessIsPosted'
<1> USE DEF TypeOK, SuccessIsPosted, PostsSoFar, LastOfMonth, channel, job
<1>1. CASE StartJob
  BY <1>1 DEF StartJob
<1>2. CASE SkipReport
  BY <1>2 DEF SkipReport, Skip, Finish, JobIsOfItsDay
<1>3. CASE Begin
  BY <1>3 DEF Begin
<1>4. CASE Query
  BY <1>4 DEF Query
<1>5. CASE Sent
  BY <1>5 DEF Sent, Deliver, Finish, JobIsOfItsDay
<1>6. CASE StartFails
  BY <1>6 DEF StartFails, Fail, Finish
<1>7. CASE SendFails
  BY <1>7 DEF SendFails, Fail, Deliver, Finish
<1>8. CASE SaveDailyStats
  BY <1>8 DEF SaveDailyStats, Table!Write
<1>9. CASE MidnightInWarsaw
  BY <1>9 DEF MidnightInWarsaw, Table!Finish
<1>10. CASE NextDay
  BY <1>10 DEF NextDay, Table!NextDay
<1>11. CASE UNCHANGED vars
  BY <1>11 DEF vars
<1> QED
  BY <1>1, <1>2, <1>3, <1>4, <1>5, <1>6, <1>7, <1>8, <1>9, <1>10, <1>11 DEF Next, Container

LEMMA NextKeepsMonthsAreWhole ==
  ASSUME TypeOK, JobIsOfItsDay, MonthsAreWhole, [Next]_vars
  PROVE  MonthsAreWhole'
<1> USE DEF TypeOK, MonthsAreWhole, LastOfMonth, channel, job
<1>1. CASE StartJob
  BY <1>1 DEF StartJob
<1>2. CASE SkipReport \/ Begin \/ Query \/ StartFails
  BY <1>2 DEF SkipReport, Begin, Query, StartFails
<1>3. CASE Sent \/ SendFails
  BY <1>3 DEF Sent, SendFails, Deliver, JobIsOfItsDay
<1>4. CASE SaveDailyStats \/ MidnightInWarsaw \/ NextDay \/ UNCHANGED vars
  BY <1>4 DEF SaveDailyStats, Table!Write, MidnightInWarsaw, Table!Finish, NextDay, Table!NextDay, vars
<1> QED
  BY <1>1, <1>2, <1>3, <1>4 DEF Next, Container

\* One more container adds the attempts of one more send.
LEMMA NextKeepsPosts ==
  ASSUME TypeOK, PostsSoFar, PostsAreBounded, [Next]_vars
  PROVE  PostsSoFar' /\ PostsAreBounded'
<1> USE JobAssumption DEF TypeOK, PostsSoFar, PostsAreBounded, channel, job
<1>1. /\ (runs + 1) * MaxAttempts = runs * MaxAttempts + MaxAttempts
      /\ (runs + 1) * MaxAttempts <= (BackoffLimit + 1) * MaxAttempts
      /\ 0 <= runs * MaxAttempts
  BY SMTT(30)
<1>2. CASE StartJob
  <2>1. posts' = 0 /\ runs' = runs /\ outcome' = "none"
    BY <1>2 DEF StartJob
  <2> QED
    BY <2>1, <1>1
<1>3. CASE Sent \/ SendFails
  <2>1. posts' \in Nat /\ posts' <= runs * MaxAttempts + MaxAttempts
    BY <1>3 DEF Sent, SendFails, Deliver
  <2>2. PostsAreBounded'
    BY <2>1, <1>1
  <2>3. phase' = "idle" \/ (runs' = runs + 1 /\ outcome' = "none")
    BY <1>3 DEF Sent, SendFails, Fail, Finish
  <2> QED
    BY <2>1, <2>2, <2>3, <1>1
<1>4. CASE StartFails
  <2>1. posts' = posts /\ (phase' = "idle" \/ (runs' = runs + 1 /\ outcome' = "none"))
    BY <1>4 DEF StartFails, Fail, Finish
  <2> QED
    BY <2>1, <1>1, <1>4 DEF StartFails
<1>5. CASE SkipReport
  BY <1>5 DEF SkipReport, Finish
<1>6. CASE Begin \/ Query
  BY <1>6 DEF Begin, Query
<1>7. CASE SaveDailyStats \/ MidnightInWarsaw \/ NextDay \/ UNCHANGED vars
  BY <1>7 DEF SaveDailyStats, Table!Write, MidnightInWarsaw, Table!Finish, NextDay, Table!NextDay, vars
<1> QED
  BY <1>2, <1>3, <1>4, <1>5, <1>6, <1>7 DEF Next, Container

\* Nothing a message depends on changes, except by the monitor.
LEMMA AgreesByTable ==
  ASSUME NEW d, NEW m, Agrees(d, m), UNCHANGED <<table, period>>
  PROVE  Agrees(d, m)'
<1>1. PICK t \in Taken \cup {NoRow} : RightMessage(period, d, t, m) /\ (t # NoRow => table[d] # NoRow)
  BY DEF Agrees
<1>2. RightMessage(period, d, t, m)'
  BY <1>1 DEF RightMessage
<1>3. t # NoRow => table'[d] # NoRow
  BY <1>1
<1> QED
  BY <1>2, <1>3 DEF Agrees

LEMMA NextKeepsReportsAgree ==
  ASSUME TypeOK, JobIsOfItsDay, ReportsAgree, [Next]_vars
  PROVE  ReportsAgree'
<1>1. ASSUME UNCHANGED <<table, period>>, NEW d \in Days, NEW m, d <= day, Agrees(d, m)
      PROVE  day' \in {day, day + 1} => d <= day' /\ Agrees(d, m)'
  BY <1>1, AgreesByTable, CalendarAssumption DEF TypeOK, Days
<1> USE DEF ReportsAgree, channel, job
<1>2. CASE StartJob \/ SkipReport \/ Begin \/ StartFails
  <2>1. UNCHANGED <<table, period, day, posted>> /\ phase' # "sending"
    BY <1>2 DEF StartJob, SkipReport, Begin, StartFails, Fail, Finish
  <2> QED
    BY <2>1, <1>1
<1>3. CASE Query
  <2>1. Agrees(day, message') /\ asked' = day
    BY <1>3, MessageAgrees DEF Query, TypeOK
  <2>2. UNCHANGED <<table, period, day, posted>> /\ day \in Days /\ day <= day
    BY <1>3, CalendarAssumption DEF Query, TypeOK, Days
  <2> QED
    BY <2>1, <2>2, <1>1
<1>4. CASE Sent \/ SendFails
  <2>1. phase = "sending" /\ asked \in Days
    BY <1>4 DEF Sent, SendFails, JobIsOfItsDay
  <2>2. UNCHANGED <<table, period, day>> /\ phase' # "sending"
    BY <1>4 DEF Sent, SendFails, Fail, Finish
  <2>3. posted' = posted \/ posted' = [asked |-> asked, message |-> message]
    BY <1>4 DEF Sent, SendFails, Deliver
  <2> QED
    BY <2>1, <2>2, <2>3, <1>1
<1>5. CASE SaveDailyStats
  <2>1. PICK u \in Taken : table' = [table EXCEPT ![day] = u]
    BY <1>5 DEF SaveDailyStats, Table!Write
  <2>2. UNCHANGED <<day, period, phase, asked, message, posted>>
    BY <1>5 DEF SaveDailyStats, Table!Write
  <2>3. phase = "sending" => asked \in Days
    BY DEF JobIsOfItsDay
  <2> QED
    BY <2>1, <2>2, <2>3, LaterRowsAgree
<1>6. CASE MidnightInWarsaw \/ NextDay \/ UNCHANGED vars
  <2>1. UNCHANGED <<table, period, phase, asked, message, posted>> /\ day' \in {day, day + 1}
    BY <1>6 DEF MidnightInWarsaw, Table!Finish, NextDay, Table!NextDay, vars
  <2>2. phase = "sending" => asked \in Days
    BY DEF JobIsOfItsDay
  <2> QED
    BY <2>1, <2>2, <1>1
<1> QED
  BY <1>2, <1>3, <1>4, <1>5, <1>6 DEF Next, Container

LEMMA NextKeepsIInv == IInv /\ [Next]_vars => IInv'
  BY NextKeepsTypeOK, NextKeepsJobIsOfItsDay, NextKeepsSuccessIsPosted, NextKeepsMonthsAreWhole,
     NextKeepsPosts, NextKeepsReportsAgree DEF IInv

\* The strengthening holds in every reachable state.
THEOREM JobInvariant == Spec => []IInv
  BY InitEstablishesIInv, NextKeepsIInv, PTL DEF Spec

\* Exit code 0 means that a report is in the channel, and that of the day
\* unless the date changed, or that the guard skipped the day
\* (cmd/queuestatsreports).
THEOREM SuccessMeansPosted == Spec => []SuccessIsPosted
<1>1. IInv => SuccessIsPosted
  BY DEF IInv
<1> QED
  BY <1>1, JobInvariant, PTL

\* Of all the evenings on which the monthly job is started, only the last of
\* the month posts, unless the date changes between the guard and the look at
\* the clock.
THEOREM OnlyWholeMonths == Spec => []MonthsAreWhole
<1>1. IInv => MonthsAreWhole
  BY DEF IInv
<1> QED
  BY <1>1, JobInvariant, PTL

\* The two levels of retries multiply, and no more.
THEOREM JobPostsAreBounded == Spec => []PostsAreBounded
<1>1. IInv => PostsAreBounded
  BY DEF IInv
<1> QED
  BY <1>1, JobInvariant, PTL

\* Every variable keeps its type.
THEOREM JobTypeCorrectness == Spec => []TypeOK
<1>1. IInv => TypeOK
  BY DEF IInv
<1> QED
  BY <1>1, JobInvariant, PTL

\* A report in the channel agrees with the table for good, the row of its own
\* day excepted.
THEOREM ReportsStayRight == Spec => []ReportAgreesWithTable
<1>1. IInv => ReportAgreesWithTable
  BY DEF IInv, ReportsAgree, ReportAgreesWithTable
<1> QED
  BY <1>1, JobInvariant, PTL
-----------------------------------------------------------------------------
(* Jobs come to an end. *)

\* A step of the container brings its job forward; the others leave it alone.
LEMMA JobGoesForward ==
  ASSUME TypeOK, Next, phase # "idle"
  PROVE  JobSteps' < JobSteps \/ UNCHANGED <<job, channel, outcome>>
<1> USE JobAssumption DEF JobSteps, TypeOK
<1>1. CASE SkipReport \/ Sent
  BY <1>1 DEF SkipReport, Sent, Finish
<1>2. CASE Begin \/ Query
  BY <1>2 DEF Begin, Query
<1>3. CASE StartFails \/ SendFails
  <2>1. Fail
    BY <1>3 DEF StartFails, SendFails
  <2>2. CASE runs < BackoffLimit /\ phase' = "starting" /\ runs' = runs + 1
    BY <2>2
  <2>3. CASE phase' = "idle"
    BY <2>3
  <2> QED
    BY <2>1, <2>2, <2>3 DEF Fail, Finish
<1>4. CASE StartJob
  BY <1>4 DEF StartJob
<1>5. CASE SaveDailyStats \/ MidnightInWarsaw \/ NextDay
  BY <1>5 DEF SaveDailyStats, MidnightInWarsaw, NextDay
<1> QED
  BY <1>1, <1>2, <1>3, <1>4, <1>5 DEF Next, Container

\* A job takes three steps for each of its BackoffLimit + 1 containers at most
\* (run of cmd/queuestatsreports, and the backoffLimit of its manifest).
THEOREM EveryJobEnds == Spec => JobsAreFinite
<1>1. TypeOK /\ [Next]_vars =>
        [phase # "idle" => JobSteps' < JobSteps \/ UNCHANGED <<job, channel, outcome>>]_vars
  BY JobGoesForward
<1> QED
  BY <1>1, JobTypeCorrectness, PTL DEF Spec, JobsAreFinite
=============================================================================
