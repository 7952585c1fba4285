# Verification of the DUW queue monitor

TLA+ modules for the services in this repository: what the queue monitor does
between the DUW API, the Telegram channel, Redis and PostgreSQL, checked with
TLC on small instances and, where it matters most, proved with TLAPS for every
value of the constants. Paths below are relative to the repository's root.

## 1. The system

| Component | State it keeps | Operations | Talks to |
|---|---|---|---|
| Queue state machine (`internal/queuemonitor/state*.go`, `notification.go`) | the current state: Uninitialized, Inactive, ActiveDisabled, ActiveEnabled with a number of tickets | `Handle` of each state, `StateFromPersistence`, `StateToPersistence` | the notifier, inside `Handle` |
| Monitor process (`monitor.go`, `runner.go`, `cmd/queuemonitor`) | `state`, `lastQueue`, the context | start, restore, check on every tick, shutdown with a save | all of the others |
| State repository (`monitorstate.go`) | one Redis key with a time to live of 60 s | `Get` at the start, `Save` at shutdown | Redis |
| Status collector (`statuscollector.go`) | none | `GetQueueStatus` with retries; clamps negative tickets | DUW |
| Working-hours gate (`monitorweekday.go`) | none | skips checks at night and on weekends | the clock |
| Telegram notifier (`internal/notifications`) | none | `SendMessage` with retries | Telegram |
| Daily stats (`internal/dailystats`) | the table `queue_daily_stats`, one row per queue and date | upsert, query by dates | the monitor writes, the reports read |
| Statistics reports (`internal/statsreporting`, `cmd/queuestatsreports`) | none; a cron job | daily, weekly and monthly report | daily stats, the notifier |
| Telegram bot (`internal/telegrambot`, `cmd/telegrambot`) | two registries, filled at the start; the updates it has fetched, and a goroutine for each | profile, polling, dispatch, the `/feedback` conversation, the default menu | Telegram, the notifier |
| Logger, configuration, migrations, manifests | none that changes | - | - |

The monitor is one goroutine in one process (one replica, strategy `Recreate`),
so nothing in it races with itself. The bot handles every update in a goroutine
of its own, and its `main` waits for none of them. What makes it hard lies between the
processes it belongs to. A post may be in the channel although the call that
sent it failed; a signal may arrive at any step; a process may die between a
post and the save that would have recorded it; the record expires; the queue
changes, and changes back, while the monitor is not looking. The properties
are about whether the channel, the monitor's state and the record agree after
any such history. For the bot they are about what becomes of an update whose
process ends, or whose messages fail, on the way; for the table and the reports
about dates that are read at different times.

The list of hazards, each with its line and with the properties that watch
it, is in `PROJECT.json`.

## 2. The modules

| Module | What it is |
|---|---|
| `QueueState` | the state machine as pure operators: `Handle*`, the alerts, the conversion to and from the Redis record |
| `QueueMonitor` | the process with its environment: variables, actions, properties |
| `AlertChannel` | the promise to the subscribers, an abstract specification with three variables |
| `ClosingWatch` | the rules by which a closing is announced, recorded and believed, an abstract specification that `QueueMonitor` and `DailyStats` both implement |
| `QueueMonitorInductive` | the inductive invariant `IInv` |
| `QueueStateProofs`, `QueueMonitorProofs` | lemmas on the operators; theorems about the process |
| `MCQueueMonitor` | small instances of `QueueMonitor` for TLC |
| `LatePosts`, `LatePostsProofs`, `MCLatePosts` | `QueueMonitor` over a network that posts an alert after its request was given up on; theorems about the two; an instance |
| `RetryLoop`, `RetryLoopProofs`, `MCRetryLoop` | one call through the retry library, with its clock; theorems about it; the settings of its two clients |
| `SendCall` | the same call without the clock, an abstract specification |
| `DailyStats`, `DailyStatsProofs` | the working-hours gate with a calendar, and the figures of a day on their way to the table; theorems about it |
| `StatsTable` | what the readers of the table may rely on, an abstract specification between `DailyStats` and `StatsReports` |
| `StatsReports`, `StatsReportsProofs` | a cron job that reports what is in the table; theorems about it |
| `TelegramBot`, `TelegramBotProofs`, `MCTelegramBot` | the bot with its users and Telegram's queue of updates; theorems about it; instances |
| `UpdateDelivery` | how an update comes to a handler, an abstract specification of the polls |

`QueueMonitor` extends `QueueState` and instantiates `AlertChannel` with the
refinement mapping `belief <- state`, `saved <-` what the record restores,
`posted <- posted`. `LatePosts` extends `QueueMonitor` and adds the network to its
steps. `RetryLoop` instantiates `SendCall` (`limit <-` the attempts of the client,
`attempts <- failures`, `posts <- served`).

Modules that are not composed meet in a contract. `StatsReports` takes the steps
of its environment from `StatsTable`, and `DailyStats` implements `StatsTable`
(`over <-` the working hours are over). `ClosingWatch` has the stages of a check
that sees the queue open or close; `QueueMonitor` has no calendar and `DailyStats`
no attempts, alerts or tickets, and both implement it, so that the reduced
monitor of the second is held to the same rules as the full one.
`TelegramBot` implements `UpdateDelivery` (`status <-` how far each update has
come, `forgotten <-` the offset of the last poll).

### QueueMonitor and the code

| Variable | In the code |
|---|---|
| `queue` | what DUW would answer now |
| `pc` | where the goroutine is: `init` (`buildRunner`, `initMonitorState`), `fetch` (gate and `GetQueueStatus`), `send` (`SendMessage` inside `Handle`), `stats` (`saveDailyStats`), `settle` (`h.state = newState; h.lastQueue = queue`), `select` (the loop of `Run`), `save` (`doShutdown`), `down` |
| `cancelled` | the context of `signal.NotifyContext` is done |
| `state`, `lastQueue` | the fields of `DefaultQueueMonitor` |
| `checked` | the local variable `queue` of `CheckAndProcessStatus` |
| `attempts` | attempts of the `SendMessage` call in progress |
| `redis` | the value of `monitor:state` |
| `posted` | the last message in the channel |
| `stats` | the status the stats were last written from |
| `faults` | history only: the faults since the channel last confirmed the state |

| Action | In the code |
|---|---|
| `Start`, `StartFails` | `run`, `buildRunner`: without PostgreSQL the process ends before it reads the record |
| `Restore`, `RestoreFails` | `initMonitorState`; an error of `Get` seeds the default record just as a missing one does |
| `NoStatus` | every way a check ends before `Handle`: off hours, failed fetch, queue not in the answer, cancelled context |
| `Fetch` | an answer of DUW, which lists other queues before and after the monitored one or lacks it, `GetQueueStatus` on it, and the decision `Handle` takes |
| `AttemptConfirmed`, `AttemptUnacked`, `AttemptLost`, `GiveUp` | one attempt of the retry loop and its outcomes; the end of a failed call |
| `StatsSaved`, `StatsFailed`, `Settle` | the rest of `CheckAndProcessStatus` |
| `Tick`, `ShutdownSeen`, `SaveState`, `SaveFails` | the `select` of `Run`, `doShutdown` |
| `QueueChanges`, `Signal`, `Crash`, `Expire` | the outside |

A check is not atomic: DUW, a signal, a crash and the expiry of the record may
come between any two of its steps. `Crash` stands for every end without a
save, a second signal included (the handler is removed after the first one).

`faults` is a history variable. No action reads it; properties use it to say
what a disagreement must be blamed on. It is cleared when an alert is
confirmed, for then the channel shows the state again.

Two things a reader of the documentation would not expect: with nothing in
Redis the monitor starts as Inactive and not as Uninitialized
(`runner.go:93-101`, `state.go:40`), and a failed read is treated the same
way. `IInv` contains that no process ever runs, or saves, as Uninitialized.

### LatePosts and the code

A request that the notifier gives up on (`telegram.go:68-84`), because it timed
out or its context ended, may still reach Telegram. `Delayed` is an attempt that
fails with its request under way (`late`), `Deliver` the moment Telegram posts
it: after newer alerts, or after a restart. `posted` is the last alert that was
posted in order, `shown` what the subscribers see last, and `overtaken` is a
history variable that says whether the two may differ. All other steps are
those of `QueueMonitor`.

### RetryLoop and the code

`RetryLoop` is `retry.Do` as its clients use it, in discrete time. The constant
`Clients` is a set of settings, and a call is made with any of them:
`requestCarriesBudget` tells the notifier, which builds its request with the
context of the budget (`telegram.go:62`), from the collector, which uses the
caller's (`statuscollector.go:49`). The library itself is external: it looks at
the context before the first attempt and during a delay.

`SendCall` is what is left of a call when the clock is taken away: attempts up
to a limit, each confirmed, posted without a confirmation, or lost, and an end
after the first one at the earliest, unless the context is cancelled.
`QueueMonitor`, `StatsReports` and `TelegramBot` use sends of this kind.
`RetryLoop` implements it (`ImplementsSendCall`). In `SendCall` an attempt may
also fail after the cancellation; the modules that use it let no attempt begin
after one, and an attempt the signal finds under way has its outcome before the
signal.

### TelegramBot and the code

| Variable | In the code |
|---|---|
| `inbox`, `confirmed` | the updates Telegram holds, and the offset of the last poll that reached it |
| `fetched` | the last update the library has taken off a poll |
| `proc` | `down`; `profile`: `main` up to `SetProfile`; `up`: `Start` runs in its goroutine and `main` waits for the context |
| `work` | the next step of the handler of each update |
| `attempts` | attempts of the handler's call of the notifier |
| `shown` | how often each text was shown on account of each update (history) |
| `failed`, `interrupted` | history: the texts a handler got an error for; the updates that were in a process when it ended |

| Action | In the code |
|---|---|
| `Start`, `SetProfile`, `ProfileFails` | `main` of `cmd/telegrambot`, `profile.go` |
| `Poll` | a long poll of the library, which confirms what was fetched before, and `FirstStep`, the dispatch: the registered command, then the default handler with the registry of replies |
| `Tell`, `Prompt` | `FeedbackHandler.HandleUpdate`: the information, then the prompt, unless the information failed |
| `Thank`, `ForwardAttempt`, `ForwardFails` | `FeedbackHandler.HandleReply`: thanks, whose error is logged, then the call of the notifier with its attempts |
| `Menu` | the menu of the default handler |
| `Signal`, `Exit`, `Crash` | the end of the process, in whatever step its handlers are |
| `UserSends` | users; a reply quotes a prompt the bot has sent to the chat (`"prompt"`), the same text from anywhere else (`"copy"`), or another message; `FindHandler` takes the first two alike |

The library and Telegram are external: updates are delivered in order, again
until they are confirmed, and a poll's answer may get lost. A text may be
`refused` by Telegram, as with markup of the user's own within the notifier's
HTML, which no attempt changes.

### DailyStats and the code

The question of this module is under which date which figures end up. It has
the clock of `isDuwOffTime` (days, a weekend, hours), DUW (an office day with
its figures, opened, closed and opened again) and the monitor reduced to what
matters here: whether it takes the queue for an active one (`belief`), where
its check is (`pc`: between checks, in the send, in `saveDailyStats`), and the
figures of the poll in progress (`got`).

| Action | In the code |
|---|---|
| `Poll` | a check that passes the gate, fetches and finds a transition to or from Inactive |
| `Announced`, `SendFails` | the end of `SendMessage` inside `Handle` |
| `SaveDailyStats`, `SaveFails` | `saveDailyStats`: the date is read after the post; an error is logged, the state moves on |
| `Shutdown`, `ShutdownInStats`, `Restart` | `doShutdown`, also while the stats are being written (the cancelled context makes the write fail), and `initMonitorState` |
| `Crash`, `RecordLost`, `Advance` | the environment; the record in Redis lives less than an hour |
| `OpenDay`, `Reopen`, `TakeTicket`, `Close` | DUW |

`Faults` says what the environment may do wrong: DUW is open past the working
hours or outside them (`late`), or faster than the checks (`unseen`); the
process dies; a record is lost; a write fails. A write that fails, and one that a
crash cuts short, may have written the row all the same (`InDoubt`). `troubled` is a history
variable: the days on which one of these mattered.

### StatsReports and the code

One of the three cron jobs, from its schedule to its exit code: the manifest
(`infra/k8s/base/queue-stats-reports-cronjob.yml`) with its schedule, the shell
guard of the monthly job, `backoffLimit` and `concurrencyPolicy: Forbid`; `run`
and `main` of `cmd/queuestatsreports`; the windows of `reporter.go`; the totals
of `notification.go`. The monitor and the clock are the steps of `StatsTable`,
which `DailyStats` implements (`TheTableKeepsItsContract`). Midnight
comes in Warsaw first and in UTC later, and either may pass while a job waits.
Only the schedule goes by Warsaw: the guard asks for the date there, but its image
is built without time zones (`cmd/queuestatsreports/Dockerfile`), so `Skip` gets
the date in UTC, which the windows go by as well.

## 3. What is checked

| Run | Shows |
|---|---|
| `monitor_safety` | the safety properties below and the two refinements, with all six kinds of fault enabled |
| `late_posts` | the monitor over a late network: what the subscribers see, and the liveness properties `SelfHeals` and `ShutdownCompletes` |
| `retry_loop` | one call with the default settings of either client, and its refinement of `SendCall` |
| `daily_stats` | four days with a weekend, all faults: which rows there are and what they hold, and the two contracts |
| `stats_reports` | the three jobs: what is posted, the exit code, the retries |
| `telegram_bot` | two updates of any kind, crashes, restarts and failing messages: what is answered, to whom, and that it is answered |
| `repeat_after_rollout`, `silence_after_crash`, `silence_after_late_post`, `late_closing`, `thanked_not_forwarded`, `retry_fetch_over_budget` | where the program does not do what its comments and documents say (section 5) |

Properties of `QueueMonitor`:

- `ChannelMatchesBelief`: between checks, the last post announces the state,
  unless a fault happened since the last confirmed alert.
- `ActiveIsAnnounced`: the same for active states when the only faults were a
  lost or unreadable record or an early signal: those lead to Inactive, never
  to a wrong belief in an active queue.
- `NoRepeatWithoutFault`: no alert repeats the last post without such a fault.
- `StatsOnlyOnClose`: the stats are written for an announced closing only.
- `QuietOnceHealed`: a check that has seen the queue as it is, and completes, leaves
  the state that describes it; from then on the monitor stays in that state and has
  nothing to say until DUW changes or the process ends.
- `SaveKeepsState`: a saved record restores the state, though its number of
  tickets comes from `lastQueue`.
- `ImplementsChannel`: every behaviour is one of `AlertChannel`; in particular the
  state moves only to what the last post announced (`AdvanceIsAnnounced`).
- `ImplementsClosingWatch`: a closing writes the stats at most once, after its
  alert and before the belief moves, and nothing else writes them; a failed write
  does not undo the closing, and a shutdown during the write saves it.
- `ChecksAreFinite`: every step of a check brings it nearer to its end, and nothing
  outside sets it back: it is over after its poll, `MaxAttempts` attempts, the
  stats and the new state.
- `SelfHeals`: if the process stays up and DUW stops changing, the state ends
  up describing the queue, and not another one of the city. `ShutdownCompletes`:
  a signal ends the process. Both unless PostgreSQL never answers.

Properties of `LatePosts`:

- `ChannelShowsBeliefLate`: between checks the subscribers see the state, unless
  a fault or a late alert came after the last alert in order: the next one in
  order repairs what a late one did.
- `NoRepeatWithoutLatePost`: they never read an alert twice in a row without one.

Properties of `RetryLoop`:

- `WithinBudget`, `WithinBudgetAndRequest`: a call whose requests carry the
  budget ends within it; any other outlasts it by one request at most.
- `FailsForAReason`: a call fails only after its last attempt, at the end of its
  budget or by a cancellation. `PostsAreBounded`: it posts at most once per attempt.
- `CallEnds`, and `ImplementsSendCall`, the promise the other modules build on.

Properties of `DailyStats`:

- `ImplementsStatsTable`: a row is written only on its own day, a working day,
  before that day is over, and no row is removed, although the gate and the date
  of the row read the clock at different times.
- `ImplementsClosingWatch`: the rules of the closing, as in `QueueMonitor`.
- `RowsNeverGoBack`: a row gives way only to figures of a later day or to later
  ones of the same day, over writes in doubt, crashes and restarts.
- `RowsAreOfTheirDay`: a row holds the figures of its own day, or something went
  wrong between that day and the row's.
- `WorkedDaysAreRecorded`: a day on which nothing went wrong has its row with
  the last figures of the day, through any number of closings, failed sends and
  clean restarts, and whatever happened on other days.

Properties of `StatsReports`:

- `ReportAgreesWithTable`: a report in the channel agrees for good with the
  table over its week or month, as the words mean it, except for the row of its
  own day. That row may be missing or older: the jobs run at 18:00 in Warsaw,
  before the working hours are over.
- `SuccessIsPosted`: exit code 0 means that a report was posted, except by the
  monthly job, whose guard may skip the day; and if the date did not change under
  the job, the report is of its own day, or that day is not the last of its month.
- `MonthsAreWhole`: of the evenings on which the monthly job is started, only
  the last of the month posts. This holds although the date may change while a
  container comes up, sends or is started again; excused is only a date that
  changes between the guard and the program's look at the clock.
- `PostsAreBounded`: the retries of the send times those of the container.
- `JobsAreFinite`: every step of a job brings it nearer to its end, at most three
  for each container, and neither the monitor nor midnight sets it back.
- `JobEnds`: a job ends, or PostgreSQL leaves it waiting for ever.

Properties of `TelegramBot`:

- `AnsweredOnce`: a handler that came to its end in a process that stayed up has
  sent each text of the answer exactly once, or got an error for it, and no other
  text. A failed thanks does not stop the opinion; without the information there
  is no prompt.
- `ImplementsDelivery`: every update is handled at least once, taken in the order
  it was sent and never again once Telegram has forgotten it; an update is lost
  only when the process ends while it handles one that is forgotten.
- `HandlersAreFinite`: every step of a handler brings it nearer to its end, and
  neither users nor other handlers, polls or signals set it back.
- `ToldUnlessCopied`: an opinion is forwarded from a chat that was told before how
  opinions are used, or it replies to a prompt that the bot did not send there.
  A reply is recognised by the text it quotes and nothing else, so a prompt that
  was copied or forwarded into another chat gets an opinion through that nobody
  was told about; the property says that there is no other way, over every
  conversation that may overlap with it.
- `EveryUpdateIsHandled`: while the process stays up every update is handled to
  its end, those excepted that a former process confirmed and did not handle.

Each property has a mutant of the code it is about (an operator that stands
next to the original) under which TLC finds it violated.

**Bounds.** Four statuses: closed, open without tickets, open with one ticket,
open with minus one. The closed one still claims to be bookable and the one
without tickets still counts one, so that code which looks at the wrong field
is noticed. Two numbers of tickets are enough for a change and its return;
alerts and states are only compared for equality. Two attempts per call allow
an unconfirmed attempt followed by a confirmed, a lost or no further one. The
number of checks, restarts, signals and faults is not bounded. An answer of DUW
lists up to two queues of the city (`MaxListed`): the monitored one alone, before
or after another one, or not at all. `late_posts` has one request under way late
at a time, which may be used any number of times, one attempt, no minus one and
two kinds of fault, crashes and early signals, for the size of its graph; the
stats are switched on, and an unconfirmed post is a late one that is delivered at
once. `RetryLoop` runs with the default
settings in units of half a second.

`TelegramBot` has two updates (`MaxUpdates`) of eight kinds in two chats and two
attempts: enough for a conversation, two at a time, or a reply to a prompt of
before a restart. `shown` counts up to 2, which stands for more than once. The
number of restarts, polls and lost answers is not bounded.

`DailyStats` has four days of five hours, of which the third is a weekend and
the hours 1 and 2 are working hours, so that a day goes on after the hour in
which a late check may still write: a weekend with a working day on each
side, two working days in a row, time before, in and after the window. One
ticket a day tells an older figure from the last one. `StatsReports` has six
days from a Thursday on, so that a week ends and another begins, two months of
three days with the monthly job started from their second day on, one retry
and two attempts; a job may be delayed by any number of days, which reaches the
window of every weekday from Thursday to Tuesday, Sunday included. Both systems
stop with their calendars, so deadlock is not checked there.

**Fairness.** Weak fairness for the steps of the goroutine, except where it waits
for PostgreSQL: the calls to DUW, Telegram and Redis have timeouts (Redis the
client's), but neither the ping at the start nor the upsert of the stats has one.
`WaitsForPostgres` names these two places, no step is taken for granted in
them, and `SelfHeals` and `ShutdownCompletes` excuse a monitor that stays there
for ever (with the stats switched off there is no such place). Strong fairness for `Fetch` and `AttemptConfirmed`: a poll, and a
post, that is tried again and again succeeds some day; without it nothing can
be promised. Strong fairness for `ShutdownSeen`: `select` chooses at random
between a due tick and the cancelled context. Starting again is not assumed:
`SelfHeals` speaks of a process that stays up. In `RetryLoop`, the clock and
what is due at its time are weakly fair; a confirmation is not.
In `StatsReports` the start of a container up to the ping, and the send, are weakly
fair, both have limits; the ping and the query are not, as neither the code nor
the manifest gives PostgreSQL a time limit. In `TelegramBot` every handler is weakly fair, for its
calls have timeouts, and a poll that brings something is strongly fair: the
library repeats its polls, and one of them succeeds some day.

## 4. What is proved

All theorems are about the specifications with constants of any value:
any set of statuses, any number of attempts, any subset of the faults.

The argument in `QueueMonitorProofs` has three layers.

1. `QueueStateProofs`: `Handle` moves to the state that describes the queue
   (`HandleDescribes`), and asks for the announcement of that state exactly
   when it is another one (`HandleAnnounces`); announcements tell states apart
   (`AnnouncementIsInjective`); a saved state is restored
   (`SavedStateIsRestored`); a poll hands on the status of the monitored queue
   or nothing, wherever the queue is in an answer of any length
   (`ReadingIsOfMonitored`).
2. `IInv` is inductive (`InitEstablishesIInv`, `NextKeepsIInv`, one step per
   action). `ChannelMatchesBelief` is not inductive by itself: it says nothing
   of a process that is down, so it would not survive a restart, nor of the
   middle of a check. `BeliefIsPosted` carries it over both: while the process
   is down the belief is what the record restores, and while a check has
   posted but not settled, `AlertIsOut` says what the channel shows. The round
   trip through the record needs `LastQueueDescribed`.
3. The theorems: `TypeCorrectness`, `ChannelShowsBelief`, `ActiveBeliefIsShown`,
   `RepeatsNeedAFault`, `StatsFollowTheClosing`, `SaveRestores`,
   `AdvanceNeedsThePost`, `Refinement`, `TheRulesOfTheClosing`,
   `EveryCheckEnds` and `HealedAndQuiet`. For the rules of the closing the stage of a check is read off
   from what it has fetched (`SeesTurn`), so one lemma each says that a check
   without a turn has no stage and that one in the stats has a turn.

`LatePostsProofs` extends this to the late network. The steps of `LateSpec` are
those of `Spec` or stutter, so `IInv` holds of it, and one more invariant is
enough: unless an alert came out of turn, what is shown is what was posted.
`LatePostsBreakNoContract` lists what carries over from `QueueMonitor` unchanged.

`RetryLoopProofs` proves, for any set of settings with a budget, the type
invariant, that a call whose requests carry the budget ends within it, that one
whose requests do not may outlast it by one request and no more (given a delay
between attempts: with none, `select` may prefer the timer to the spent budget
again and again), that a call posts at most once per attempt, that it does not
give up early, and that it implements `SendCall` (`CallIsSendCall`).

`DailyStatsProofs` proves the properties of `DailyStats` for every calendar,
working hours and set of faults. They need what happens before a row is
written: that a check never outlasts the hour after the window
(`CheckIsInHours`), that a closing which is still to be seen is of its own day
or has its excuse (`ClosingIsDated`), on the goroutine's side and in the record,
and that on a good day the last figures are in the table or still remembered
(`TodayIsRecorded`). `RowsOnlyMoveForward` needs an order of all figures there are
(`FiguresAreInOrder`): those of a check in progress are no older than any row, and
DUW's are no older than those of the check. `TheTableKeepsItsContract` needs
`CheckIsInHours`, since the write looks at the clock and not at the gate.
`PastRowsAreFinal` follows from the contract alone.

`StatsReportsProofs` proves that the weekday arithmetic of the weekly report
selects the days since Monday (`WeeklyWindow`), that the monthly report selects
the days of its month (`MonthlyWindow`), and the safety properties of a job;
`JobIsOfItsDay` carries one idea of today from the guard to the post, and
`ReportsAgree` says of every report in the channel that the rows it was made of
are still those of the table, its own day excepted (`ReportsStayRight`). The
totals are folds; nothing in these proofs needs to look into them.

`TelegramBotProofs` proves the safety properties of the bot for any number
of updates of any kind in any number of chats. Its invariant has four parts
besides the types. `Routed`: a handler takes the steps of its own update.
`SentSoFar`: of a handler whose process never ended, each text is sent, failed or
still ahead; `AnsweredOnce` is what remains of that at the end. `Told`: whoever
quotes a prompt of the bot's was shown the information by an earlier update of the
same chat, which no restart undoes; of copies of the prompt it says nothing. `TakenAreHeld`: between the offset of the last poll
and the last update fetched every update has its handler, which is why the end of
the process loses none of them. With it every step is one of `UpdateDelivery`
(`UpdatesAreDelivered`), and from that contract alone follow the order of dispatch
and that what is forgotten is not handled again (`UpdatesAreTakenInOrder`,
`ForgottenIsNotHandledAgain`). That an update forgotten by
Telegram has reached a handler, or its process ended with it, is
`UpdatesReachHandlers`.

Assumptions are the named `ASSUME`s of the modules: types of the constants,
working hours that begin before they end and end before midnight, and that the
sentinels are not values.

Only model-checked: the liveness properties (`SelfHeals`, `ShutdownCompletes`,
`CallEnds`, `JobEnds`, `EveryUpdateIsHandled`), since fairness is out of the
prover's reach. What the code contributes to them is proved: a check, a job and a
handler each have a number of steps left that every step of theirs lowers and
nothing raises (`EveryCheckEnds`, `EveryJobEnds`, `EveryHandlerEnds`), and a call
its budget (`BudgetBoundsCall`); and a monitor that has healed stays healed and
quiet (`HealedAndQuiet`). What remains for TLC is that the steps are taken.
The type invariants of `QueueMonitor`, `StatsReports` and `TelegramBot` are checked
as conjuncts of `IInv`; that of `LatePosts`, and `AdvanceIsAnnounced`,
`RowsOnWorkingDays` and `NothingSlipsThrough`, which contracts imply, are proved and have no run of their
own.

## 5. Where the program differs from what is said of it

- `repeat_after_rollout`: a SIGTERM that arrives while the process starts makes
  the read of the record fail; the shutdown then saves Inactive over the good
  record (`docs/architecture.md:68` says a restart resumes without duplicates).
- `silence_after_late_post`: an "unavailable" post that arrives unconfirmed or
  late, and a queue that returns to the number of tickets it had, leave the
  channel saying there is nothing while tickets can be booked
  (`docs/agents/map/09-reliability.md:31` says alerts are re-sent, not dropped).
- `silence_after_crash`: the record outlives its reading, so a crash within its
  time to live restores it a second time (`09-reliability.md:24` says a crash
  loses the state and the first active check notifies).
- `retry_fetch_over_budget`: the budget of a poll does not bound its requests
  (`09-reliability.md:32`).
- `late_closing`: a queue that is still active when the working hours end leaves
  its day without a row, and the next working day may get its figures
  (`docs/agents/map/01-overview.md:94` says the row is written once per day at
  the end of the window).
- `thanked_not_forwarded`: the user is told that the opinion has been sent before
  it is, and an error of the forward is only logged (`feedback.go:14`). The run
  ends in an opinion with markup of the user's own, which Telegram refuses within
  the notifier's HTML on every attempt, in a process that stays up.

`NoRepeat`, which `repeat_after_rollout` violates, fails after a crash as well: the
comment at `monitorstate.go:21` promises no duplicates after one, and the state is
saved at an orderly shutdown only.

## 6. What is not modelled

Left out of the models: `StateFromPersistence` of nil, which no caller passes; a
configuration with 0 attempts, for which the retry library tries without a limit
(`RetryLoop` takes any positive number); the wording of messages, the ticket being served,
queue names and totals (payload); the decoding of answers; the order of
two processes during a rollout (`Recreate` ends the old one first).

In `DailyStats` a check sees at most one hour end. For the poll and the send this
follows from their budgets; the upsert of a row has no timeout, and that it is
over before the next hour is (it takes milliseconds or fails) is an assumption,
on which `ImplementsStatsTable` and its theorem rest: reading the date and writing
the row are one step. DUW starts a day's figures only on a working day before the
window ends. In `StatsReports` the two
figures of a row are one, and totals do not reach 2^31.

In `TelegramBot` the library's queue of fetched updates is part of `Poll`: a
handler starts at once.

Not modelled as components: the logger and the configuration (no state; a
setting that matters is a constant), the migrations (the unique key on queue and
date is that `table` is a function of the date), and the manifests apart from
the cron jobs and the strategy of the monitor.

What could be added: `DailyStats` and `QueueMonitor` in one module with one clock,
and `DailyStats` in place of the environment of `StatsReports`. Both are products of
state spaces that are large already. What the modules assume of each other is a
contract that is proved on the side that owes it (`StatsTable`, `ClosingWatch`); a
product would add that the full and the reduced monitor see the same closings.
