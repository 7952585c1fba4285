---------------------------- MODULE QueueMonitor ----------------------------
(***************************************************************************)
(* The queue monitor process of cmd/queuemonitor and what it shares with   *)
(* the outside: the DUW queue it polls, the Telegram channel it posts to,  *)
(* the Redis record that survives it, and the daily-stats table.           *)
(*                                                                         *)
(* One process runs at a time (the deployment has one replica and the      *)
(* strategy Recreate).  It is a loop in one goroutine; between its steps   *)
(* DUW changes the queue, a signal cancels the context, the process dies,  *)
(* or the record expires.  A check is                                      *)
(*    fetch -> send -> stats -> settle -> select                           *)
(* where send and stats are passed through only when needed, and any of    *)
(* them may fail, which ends the check with the state of before.           *)
(***************************************************************************)
EXTENDS QueueState

CONSTANTS
  MaxAttempts,   \* attempts of one SendMessage call (MaxRetryAttempts)
  StatsEnabled,  \* the flag FF_DAILY_STATS_ENABLED
  Faults         \* the faults the environment may commit, out of FaultKinds

FaultKinds == {"ackLost",      \* a post arrives, its confirmation does not
               "crash",        \* the process dies without shutting down
               "stateLost",    \* the record expires, or Redis forgets it
               "loadFailed",   \* the record is there and cannot be read
               "earlySignal",  \* a signal arrives before the record is read
               "saveFailed"}   \* the record cannot be written

ASSUME MaxAttemptsAssumption == MaxAttempts \in Nat \ {0}
ASSUME StatsEnabledAssumption == StatsEnabled \in BOOLEAN
ASSUME FaultsAssumption == Faults \subseteq FaultKinds

VARIABLES
  queue,      \* the queue status DUW would answer with now
  pc,         \* where the process is
  cancelled,  \* its context is cancelled: a signal has arrived
  state,      \* DefaultQueueMonitor.state
  lastQueue,  \* DefaultQueueMonitor.lastQueue
  checked,    \* the local variable queue of CheckAndProcessStatus
  attempts,   \* attempts made by the SendMessage call in progress
  redis,      \* the record under the Redis key
  posted,     \* the last alert in the channel
  stats,      \* the status the daily-stats table was last written from
  faults      \* history: faults since the channel last matched the state

process == <<cancelled, state, lastQueue, checked, attempts>>
vars == <<queue, pc, process, redis, posted, stats, faults>>

Locations == {"down", "init", "fetch", "send", "stats", "settle", "select", "save"}

\* What the process that is up does with the status it has just fetched.
NextState == Handle(state, checked).next
Pending == Handle(state, checked).alert

\* A new process, and what is left of one that is gone: nothing.
Blank ==
  /\ cancelled' = FALSE
  /\ state' = Uninitialized
  /\ lastQueue' = NoQueue
  /\ checked' = NoQueue
  /\ attempts' = 0

Init ==
  /\ queue \in Statuses
  /\ pc = "down"
  /\ cancelled = FALSE
  /\ state = Uninitialized
  /\ lastQueue = NoQueue
  /\ checked = NoQueue
  /\ attempts = 0
  /\ stats = NoQueue
  /\ faults = {}
  /\ \/ redis = NoRecord /\ posted = Silent
     \/ \* an older version of the program has been here
        /\ redis \in LegacyRecords
        /\ posted = Announcement(StateFromPersistence(redis))

-----------------------------------------------------------------------------
(* Starting up. *)

Start ==
  /\ pc = "down"
  /\ pc' = "init"
  /\ Blank
  /\ UNCHANGED <<queue, redis, posted, stats, faults>>

\* Without PostgreSQL the process ends before it reads the record.
StartFails ==
  /\ pc = "init"
  /\ StatsEnabled
  /\ pc' = "down"
  /\ Blank
  /\ UNCHANGED <<queue, redis, posted, stats, faults>>

\* The monitor is seeded with r and the first check begins.
Seed(r) ==
  /\ state' = StateFromPersistence(r)
  /\ pc' = "fetch"
  /\ UNCHANGED <<queue, cancelled, lastQueue, checked, attempts, redis, posted, stats>>

Restore ==
  /\ pc = "init"
  /\ ~cancelled
  /\ IF redis = NoRecord
       THEN Seed(DefaultRecord) /\ faults' = faults \cup {"stateLost"}
       ELSE Seed(redis) /\ faults' = faults

\* An error of Get is logged and the monitor starts as if it had no record.
\* A cancelled context makes Get fail whatever Redis holds.
RestoreFails ==
  /\ pc = "init"
  /\ cancelled \/ "loadFailed" \in Faults
  /\ Seed(DefaultRecord)
  /\ faults' = faults \cup {IF cancelled THEN "earlySignal" ELSE "loadFailed"}

-----------------------------------------------------------------------------
(* A check: CheckAndProcessStatus. *)

\* A check ends; its local variables are gone.
CheckEnds ==
  /\ pc' = "select"
  /\ checked' = NoQueue
  /\ attempts' = 0

\* Outside the office hours nothing is asked; the collector's retries are
\* used up; the monitored queue is not in the answer; or the context is
\* cancelled.  The caller only logs the error.
NoStatus ==
  /\ pc = "fetch"
  /\ CheckEnds
  /\ UNCHANGED <<queue, cancelled, state, lastQueue, redis, posted, stats, faults>>

\* A mutant: any transition is taken for a closing.
AnnouncedOnAnyMove(s, next) ==
  IF StatsEnabled /\ next.name # s.name THEN "stats" ELSE "settle"

\* Where a check goes on once its alert, if it has one, is out.
Announced(s, next) ==
  IF StatsEnabled /\ next.name = "Inactive" /\ s.name # "Inactive"
    THEN "stats" ELSE "settle"

Fetch ==
  /\ pc = "fetch"
  /\ ~cancelled
  /\ checked' \in Readings[queue] \ {NoQueue}
  /\ LET move == Handle(state, checked') IN
       pc' = IF move.alert = Silent THEN Announced(state, move.next) ELSE "send"
  /\ UNCHANGED <<queue, cancelled, state, lastQueue, attempts, redis, posted, stats, faults>>

\* A mutant: the number of attempts is not limited.
AttemptUnlimited ==
  /\ pc = "send"
  /\ ~cancelled
  /\ attempts <= MaxAttempts
  /\ UNCHANGED <<queue, cancelled, state, lastQueue, checked, redis, stats>>

\* One attempt of the retry loop in SendMessage.
Attempt ==
  /\ pc = "send"
  /\ ~cancelled
  /\ attempts < MaxAttempts
  /\ UNCHANGED <<queue, cancelled, state, lastQueue, checked, redis, stats>>

AttemptConfirmed ==
  /\ Attempt
  /\ posted' = Pending
  /\ pc' = Announced(state, NextState)
  /\ attempts' = 0
  /\ UNCHANGED faults

\* The post is in the channel; the answer got lost, or a signal interrupts
\* the request before it comes.
AttemptUnacked ==
  /\ "ackLost" \in Faults
  /\ Attempt
  /\ posted' = Pending
  /\ attempts' = attempts + 1
  /\ faults' = faults \cup {"ackLost"}
  /\ UNCHANGED pc

AttemptLost ==
  /\ Attempt
  /\ attempts' = attempts + 1
  /\ UNCHANGED <<pc, posted, faults>>

\* A mutant: the state moves on although the alert was not confirmed.
GiveUpAndMoveOn ==
  /\ pc = "send"
  /\ cancelled \/ attempts > 0
  /\ CheckEnds
  /\ state' = NextState
  /\ lastQueue' = checked
  /\ UNCHANGED <<queue, cancelled, redis, posted, stats, faults>>

\* A mutant: a cancelled context does not end the call.
GiveUpIgnoringCancel ==
  /\ pc = "send"
  /\ attempts > 0
  /\ CheckEnds
  /\ UNCHANGED <<queue, cancelled, state, lastQueue, redis, posted, stats, faults>>

\* The attempts are used up, the time budget is spent (which takes at least
\* one attempt), or the context is cancelled.  Handle returns the error and
\* the check ends without touching state or lastQueue.
GiveUp ==
  /\ pc = "send"
  /\ cancelled \/ attempts > 0
  /\ CheckEnds
  /\ UNCHANGED <<queue, cancelled, state, lastQueue, redis, posted, stats, faults>>

StatsSaved ==
  /\ pc = "stats"
  /\ ~cancelled
  /\ stats' = checked
  /\ pc' = "settle"
  /\ UNCHANGED <<queue, process, redis, posted, faults>>

\* A mutant: the error of the write ends the check like that of a send.
StatsFailedReturned ==
  /\ pc = "stats"
  /\ stats' \in {stats, checked}
  /\ CheckEnds
  /\ UNCHANGED <<queue, cancelled, state, lastQueue, redis, posted, faults>>

\* Logged and forgotten: the check goes on as if the row had been written,
\* which it may have been all the same.
StatsFailed ==
  /\ pc = "stats"
  /\ stats' \in {stats, checked}
  /\ pc' = "settle"
  /\ UNCHANGED <<queue, process, redis, posted, faults>>

\* A mutant: lastQueue is only replaced when the state changes its name.
SettleKeepsLastQueue ==
  /\ pc = "settle"
  /\ state' = NextState
  /\ lastQueue' = IF NextState.name = state.name /\ lastQueue # NoQueue THEN lastQueue ELSE checked
  /\ faults' = IF Pending = Silent THEN faults ELSE {}
  /\ CheckEnds
  /\ UNCHANGED <<queue, cancelled, redis, posted, stats>>

\* A confirmed alert leaves no doubt about what the channel shows last.
Settle ==
  /\ pc = "settle"
  /\ state' = NextState
  /\ lastQueue' = checked
  /\ faults' = IF Pending = Silent THEN faults ELSE {}
  /\ CheckEnds
  /\ UNCHANGED <<queue, cancelled, redis, posted, stats>>

-----------------------------------------------------------------------------
(* The select of the loop, and shutting down. *)

\* When the ticker has fired and the context is cancelled, select may take
\* either.
Tick ==
  /\ pc = "select"
  /\ pc' = "fetch"
  /\ UNCHANGED <<queue, process, redis, posted, stats, faults>>

ShutdownSeen ==
  /\ pc = "select"
  /\ cancelled
  /\ pc' = "save"
  /\ UNCHANGED <<queue, process, redis, posted, stats, faults>>

\* The save does not use the cancelled context.
SaveState ==
  /\ pc = "save"
  /\ redis' = StateToPersistence(state, lastQueue)
  /\ pc' = "down"
  /\ Blank
  /\ UNCHANGED <<queue, posted, stats, faults>>

SaveFails ==
  /\ pc = "save"
  /\ "saveFailed" \in Faults
  /\ pc' = "down"
  /\ Blank
  /\ faults' = faults \cup {"saveFailed"}
  /\ UNCHANGED <<queue, redis, posted, stats>>

-----------------------------------------------------------------------------
(* The environment. *)

QueueChanges ==
  /\ queue' \in Statuses \ {queue}
  /\ UNCHANGED <<pc, process, redis, posted, stats, faults>>

\* SIGTERM or an interrupt.  The handler is installed before the runner is
\* built, so the signal may find the record not read yet.
Signal ==
  /\ pc # "down"
  /\ pc = "init" => "earlySignal" \in Faults
  /\ ~cancelled
  /\ cancelled' = TRUE
  /\ UNCHANGED <<queue, pc, state, lastQueue, checked, attempts, redis, posted, stats, faults>>

\* A panic, a kill, a lost node.
Crash ==
  /\ "crash" \in Faults
  /\ pc # "down"
  /\ pc' = "down"
  /\ Blank
  /\ faults' = faults \cup {"crash"}
  /\ UNCHANGED <<queue, redis, posted, stats>>

\* The time to live is over, or Redis, which persists nothing, restarts.
Expire ==
  /\ "stateLost" \in Faults
  /\ redis # NoRecord
  /\ redis' = NoRecord
  /\ UNCHANGED <<queue, pc, process, posted, stats, faults>>

-----------------------------------------------------------------------------
\* The steps after which the channel shows something new, and the others.
Post == AttemptConfirmed \/ AttemptUnacked

QuietCheck ==
  \/ NoStatus \/ Fetch
  \/ AttemptLost \/ GiveUp
  \/ StatsSaved \/ StatsFailed \/ Settle

Check == Post \/ QuietCheck

Environment == QueueChanges \/ Signal \/ Crash \/ Expire

Quiet ==
  \/ Start \/ StartFails \/ Restore \/ RestoreFails
  \/ QuietCheck
  \/ Tick \/ ShutdownSeen \/ SaveState \/ SaveFails
  \/ Environment

Next == Post \/ Quiet

Spec == Init /\ [][Next]_vars

\* The process waits for PostgreSQL, at the start (the ping) or with the
\* stats: nothing limits the time either may take.
WaitsForPostgres == StatsEnabled /\ pc \in {"init", "stats"}

(***************************************************************************)
(* The goroutine keeps running, unless PostgreSQL holds it.  What the      *)
(* outside owes is strong fairness: a poll that is tried again and again   *)
(* is answered some day (the office opens, DUW is reachable), and so is a  *)
(* post.  A select with both cases ready chooses at random, so shutdown is *)
(* not passed over for ever.                                               *)
(***************************************************************************)
Fairness ==
  /\ WF_vars(~WaitsForPostgres /\ (Restore \/ RestoreFails))
  /\ WF_vars(~WaitsForPostgres /\ Check)
  /\ WF_vars(Tick)
  /\ WF_vars(SaveState \/ SaveFails)
  /\ SF_vars(Fetch)
  /\ SF_vars(AttemptConfirmed)
  /\ SF_vars(ShutdownSeen)

FairSpec == Spec /\ Fairness

-----------------------------------------------------------------------------
(***************************************************************************)
(* Properties.                                                             *)
(***************************************************************************)

\* Every variable has its type, and the process is in a state only while
\* it is up.
TypeOK ==
  /\ queue \in Statuses
  /\ pc \in Locations
  /\ cancelled \in BOOLEAN
  /\ state \in States
  /\ lastQueue \in Queues \cup {NoQueue}
  /\ checked \in Queues \cup {NoQueue}
  /\ attempts \in 0 .. MaxAttempts
  /\ redis \in MonitorState \cup {NoRecord}
  /\ posted \in Alerts \cup {Silent}
  /\ stats \in Queues \cup {NoQueue}
  /\ faults \subseteq FaultKinds

Up == pc \notin {"down", "init"}

\* The process is up and no post of the running check is out yet.
Steady == pc \in {"fetch", "select", "save"}

\* What the subscribers read last is what the monitor believes, unless
\* something went wrong since the last confirmed alert: over any number of
\* checks, failed sends, signals and clean restarts, the last post in the
\* channel announces the state the monitor is in.
ChannelMatchesBelief ==
  Steady /\ faults = {} => posted = Announcement(state)

\* The faults after which the channel may show something else although the
\* monitor believes the queue to be active.
Unsettling == {"ackLost", "crash", "saveFailed"}

\* Losing the record, or failing to read it, costs at most a repeated or a
\* missing "closed" alert: while the monitor believes the queue to be
\* active, the channel says so, with the right number of tickets.
ActiveIsAnnounced ==
  Steady /\ state.name \in ActiveNames /\ faults \cap Unsettling = {} =>
    posted = Announcement(state)

\* No alert is about to be sent that repeats the last one in the channel,
\* unless something went wrong since the last confirmed alert.
NoRepeatWithoutFault ==
  pc = "send" /\ faults = {} => Pending # posted

\* A check never moves the monitor to another state before the channel
\* announces that state.
AdvanceIsAnnounced ==
  [][pc \notin {"down", "init"} /\ pc' = "select" /\ state' # state =>
       posted = Announcement(state')]_vars

\* A record written at shutdown restores the very state that was running,
\* although the number of tickets is taken from lastQueue and not from the
\* state.
SaveKeepsState ==
  [][pc = "save" /\ redis' # redis /\ pc' = "down" =>
       StateFromPersistence(redis') = state]_vars

\* How many steps a check can still take: its attempts, and what follows them.
StepsLeft ==
  CASE pc = "fetch" -> MaxAttempts + 3
    [] pc = "send" -> MaxAttempts - attempts + 2
    [] pc = "stats" -> 2
    [] pc = "settle" -> 1
    [] OTHER -> 0

\* Every step of a check brings it nearer to its end, and nothing outside
\* sets it back: whatever DUW, Telegram and PostgreSQL answer, it is over
\* after its poll, MaxAttempts attempts, the stats and the new state.
ChecksAreFinite ==
  [][StepsLeft > 0 =>
       StepsLeft' < StepsLeft \/ (UNCHANGED StepsLeft /\ Environment)]_vars

\* The daily stats are written only while an active queue is being closed,
\* from the status that says it is closed, and after the channel was told.
StatsOnlyOnClose ==
  pc = "stats" =>
    /\ state.name \in ActiveNames
    /\ ~checked.active
    /\ posted = ClosedAlert

\* If the process stays up and DUW stops changing, the monitor ends up in
\* the state that describes the queue, whatever was lost before and however
\* many writes of the stats fail, unless PostgreSQL never answers at all.
SelfHeals ==
  (<>[](pc # "down" /\ ~cancelled) /\ <>[][queue' = queue]_queue) =>
    <>[](state = Describes(Collected(queue))) \/ <>[]WaitsForPostgres

\* The state describes the queue, and the check in progress, if there is one,
\* has seen it as it is now.
Healed ==
  /\ Up /\ state = Describes(Collected(queue))
  /\ pc \in {"send", "stats", "settle"} => checked = Collected(queue)

\* A check that has seen the queue as it is and comes to its end heals the
\* monitor; and a healed monitor stays so, and has nothing to say, until DUW
\* changes or the process ends: over any number of checks, failed or not,
\* and whatever becomes of the record.
QuietOnceHealed ==
  [][/\ pc = "settle" /\ pc' = "select" /\ checked = Collected(queue) => Healed'
     /\ Healed /\ queue' = queue /\ Up' => Healed' /\ pc' # "send"]_vars

\* A signal ends the process, whatever it was doing, unless PostgreSQL never
\* answers.
ShutdownCompletes == (cancelled ~> pc = "down") \/ <>[]WaitsForPostgres

\* The monitor keeps the promise of AlertChannel.
Channel == INSTANCE AlertChannel WITH
  Beliefs  <- Settled,
  NoBelief <- Uninitialized,
  Default  <- Inactive,
  Announce <- [s \in Settled |-> Announcement(s)],
  belief   <- state,
  saved    <- IF redis = NoRecord THEN Inactive ELSE StateFromPersistence(redis)

ImplementsChannel == Channel!Spec

BelievesActive(s) == s.name \in ActiveNames

\* The check in progress has seen the queue open or close.
SeesTurn ==
  pc \in {"send", "stats", "settle"} /\ BelievesActive(NextState) # BelievesActive(state)

WatchBelief ==
  CASE ~Up -> "off"
    [] Up /\ BelievesActive(state) -> "active"
    [] Up /\ ~BelievesActive(state) -> "inactive"

WatchRecord ==
  IF redis # NoRecord /\ BelievesActive(StateFromPersistence(redis)) THEN "active" ELSE "inactive"

WatchStage ==
  CASE ~SeesTurn -> "idle"
    [] SeesTurn /\ BelievesActive(state) /\ pc = "stats" -> "writing"
    [] SeesTurn /\ BelievesActive(state) /\ pc = "settle" -> "written"
    [] OTHER -> "announcing"

\* The monitor writes the stats once per closing, between its alert and the
\* next check, and never on any other way of coming to believe that the
\* queue is closed: the contract that DailyStats implements as well.
Watch == INSTANCE ClosingWatch WITH
  belief <- WatchBelief, record <- WatchRecord, stage <- WatchStage, rows <- stats

ImplementsClosingWatch == Watch!Spec

-----------------------------------------------------------------------------
(***************************************************************************)
(* What the repository says of the program and the program does not do.    *)
(***************************************************************************)

\* No alert repeats the last one in the channel (monitorstate.go:21: no
\* duplicate notifications in case of monitor restart or crash).
NoRepeat == pc = "send" => Pending # posted

\* A check that finds bookable tickets and says nothing finds them already
\* announced.
AvailabilityIsAnnounced ==
  pc = "settle" /\ Pending = Silent /\ checked.active /\ checked.enabled =>
    posted = AvailableAlert(checked.ticketsLeft)
=============================================================================
