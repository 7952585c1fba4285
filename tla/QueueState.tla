----------------------------- MODULE QueueState -----------------------------
(***************************************************************************)
(* The state machine of the DUW queue monitor as pure operators: the four  *)
(* states of internal/queuemonitor/state*.go, what each of them does with  *)
(* a freshly collected queue status, the alert it asks the notifier to     *)
(* post, and the conversion of a state to and from the record that is kept *)
(* in Redis.                                                               *)
(*                                                                         *)
(* A queue status keeps the three fields the machine looks at.  The queue  *)
(* name, the number of the ticket being served and the day's totals are    *)
(* payload and are left out.                                               *)
(***************************************************************************)
EXTENDS Integers

CONSTANTS
  Tickets,    \* values the DUW API may report as tickets_left
  Statuses,   \* queue statuses the DUW API may report
  MaxListed,  \* bound: queues the DUW API lists for the city
  NoQueue,    \* the nil *Queue
  NoRecord    \* no value under the Redis key (redis.Nil)

RawQueue == [active: BOOLEAN, enabled: BOOLEAN, ticketsLeft: Tickets]

ASSUME TicketsAssumption == Tickets \subseteq Int
ASSUME StatusesAssumption == Statuses \subseteq RawQueue /\ Statuses # {}
ASSUME MaxListedAssumption == MaxListed \in Nat \ {0}

(***************************************************************************)
(* What the collector hands on: the API occasionally reports a negative    *)
(* number of tickets, which is clamped to zero.                            *)
(***************************************************************************)
Clamp(n) == IF n < 0 THEN 0 ELSE n

\* A mutant: the number is taken as it comes.
CollectedUnclamped(raw) == raw

Collected(raw) == [raw EXCEPT !.ticketsLeft = Clamp(@)]

\* 0 is also what a record that says nothing reads as.
Counts == {0} \cup {Clamp(n) : n \in Tickets}

Queues == [active: BOOLEAN, enabled: BOOLEAN, ticketsLeft: Counts]

ASSUME NoQueueAssumption == NoQueue \notin Queues

\* What DUW lists for the city while the monitored queue has the status raw:
\* any queues in any order, the monitored one among them or not.
Listed == [monitored: BOOLEAN, raw: Statuses]

Answers(raw) ==
  {answer \in UNION {[1 .. n -> Listed] : n \in 0 .. MaxListed} :
     \A i \in DOMAIN answer : answer[i].monitored => answer[i].raw = raw}

\* A mutant: the first queue of the city is taken, whatever its id.
GetQueueStatusOfAny(answer) ==
  IF answer = <<>> THEN NoQueue ELSE Collected(answer[1].raw)

\* The first queue with the monitored id; none is an error.
GetQueueStatus(answer) ==
  LET found == {i \in DOMAIN answer : answer[i].monitored} IN
  IF found = {} THEN NoQueue
  ELSE Collected(answer[CHOOSE i \in found : \A j \in found : i <= j].raw)

\* What a poll may make of each status.
Readings == [raw \in Statuses |-> {GetQueueStatus(answer) : answer \in Answers(raw)}]

-----------------------------------------------------------------------------
(***************************************************************************)
(* States.  TicketsLeft() of every state but ActiveEnabled is 0.           *)
(***************************************************************************)
Uninitialized == [name |-> "Uninitialized", ticketsLeft |-> 0]
Inactive == [name |-> "Inactive", ticketsLeft |-> 0]
ActiveDisabled == [name |-> "ActiveDisabled", ticketsLeft |-> 0]
ActiveEnabled(n) == [name |-> "ActiveEnabled", ticketsLeft |-> n]

\* The states a check can end in.
Settled == {Inactive, ActiveDisabled} \cup {ActiveEnabled(n) : n \in Counts}

States == Settled \cup {Uninitialized}

ActiveNames == {"ActiveDisabled", "ActiveEnabled"}

-----------------------------------------------------------------------------
(***************************************************************************)
(* Alerts, told apart by their template and by the number of tickets that  *)
(* the "available" templates print.  Silent is "no alert".                 *)
(***************************************************************************)
Silent == [kind |-> "none", ticketsLeft |-> 0]
ClosedAlert == [kind |-> "inactive", ticketsLeft |-> 0]
UnavailableAlert == [kind |-> "unavailable", ticketsLeft |-> 0]
AvailableAlert(n) == [kind |-> "available", ticketsLeft |-> n]

Alerts == {ClosedAlert, UnavailableAlert}
            \cup {AvailableAlert(n) : n \in Counts}

buildQueueAvailableMsg(q) ==
  IF q.enabled THEN AvailableAlert(q.ticketsLeft) ELSE UnavailableAlert

sendNotification(q, isInactive) ==
  IF isInactive THEN ClosedAlert ELSE buildQueueAvailableMsg(q)

(***************************************************************************)
(* The four Handle methods.  Each returns the state to move to and the     *)
(* alert that must have been posted first; the caller keeps the old state  *)
(* when that post fails.                                                   *)
(***************************************************************************)
Move(next, alert) == [next |-> next, alert |-> alert]

\* The state of a queue that is active.
Opened(q) == IF q.enabled THEN ActiveEnabled(q.ticketsLeft) ELSE ActiveDisabled

HandleUninitialized(q) ==
  IF ~q.active THEN Move(Inactive, Silent)
  ELSE Move(Opened(q), sendNotification(q, FALSE))

HandleInactive(s, q) ==
  IF ~q.active THEN Move(s, Silent)
  ELSE Move(Opened(q), sendNotification(q, FALSE))

HandleActiveDisabled(s, q) ==
  IF ~q.active THEN Move(Inactive, sendNotification(q, TRUE))
  ELSE IF q.enabled
    THEN Move(ActiveEnabled(q.ticketsLeft), sendNotification(q, FALSE))
    ELSE Move(s, Silent)

\* A mutant: an unchanged number of tickets is announced again.
HandleActiveEnabledChatty(s, q) ==
  IF ~q.active THEN Move(Inactive, sendNotification(q, TRUE))
  ELSE IF ~q.enabled THEN Move(ActiveDisabled, sendNotification(q, FALSE))
  ELSE Move(ActiveEnabled(q.ticketsLeft), sendNotification(q, FALSE))

HandleActiveEnabled(s, q) ==
  IF ~q.active THEN Move(Inactive, sendNotification(q, TRUE))
  ELSE IF ~q.enabled THEN Move(ActiveDisabled, sendNotification(q, FALSE))
  ELSE IF q.ticketsLeft # s.ticketsLeft
    THEN Move(ActiveEnabled(q.ticketsLeft), sendNotification(q, FALSE))
    ELSE Move(s, Silent)

Handle(s, q) ==
  CASE s.name = "Uninitialized"  -> HandleUninitialized(q)
    [] s.name = "Inactive"       -> HandleInactive(s, q)
    [] s.name = "ActiveDisabled" -> HandleActiveDisabled(s, q)
    [] s.name = "ActiveEnabled"  -> HandleActiveEnabled(s, q)

-----------------------------------------------------------------------------
(***************************************************************************)
(* Persistence.  last_ticket_processed is written but never read back and  *)
(* is left out.  A record without a state name was written by a version of *)
(* the program that only knew the two flags.                               *)
(***************************************************************************)
MonitorState == [stateName: {s.name : s \in States} \cup {""},
                 queueActive: BOOLEAN, queueEnabled: BOOLEAN,
                 ticketsLeft: Counts]

ASSUME NoRecordAssumption == NoRecord \notin MonitorState

LegacyRecords == {r \in MonitorState : r.stateName = ""}

\* What the runner seeds the monitor with when it has no record.
DefaultRecord == [stateName |-> "", queueActive |-> FALSE,
                  queueEnabled |-> FALSE, ticketsLeft |-> 0]

\* A record without a state name, or with one this version does not know, is
\* read by its flags.  (The nil record of state.go:22 is left out: the runner
\* seeds the monitor with DefaultRecord instead.)
StateFromPersistence(r) ==
  CASE r.stateName = "Inactive"       -> Inactive
    [] r.stateName = "ActiveDisabled" -> ActiveDisabled
    [] r.stateName = "ActiveEnabled"  -> ActiveEnabled(r.ticketsLeft)
    [] r.stateName = "Uninitialized"  -> Uninitialized
    [] OTHER -> IF ~r.queueActive     THEN Inactive
                ELSE IF r.queueEnabled THEN ActiveEnabled(r.ticketsLeft)
                ELSE ActiveDisabled

\* A mutant: the number of tickets is not written.
StateToPersistenceWithoutTickets(s, q) ==
  [stateName |-> s.name, queueActive |-> s.name \in ActiveNames,
   queueEnabled |-> s.name = "ActiveEnabled", ticketsLeft |-> 0]

\* The number of tickets of the last queue, when there is one, overrides
\* that of the state.
StateToPersistence(s, q) ==
  [stateName    |-> s.name,
   queueActive  |-> s.name \in ActiveNames,
   queueEnabled |-> s.name = "ActiveEnabled",
   ticketsLeft  |-> IF q = NoQueue THEN s.ticketsLeft ELSE q.ticketsLeft]

-----------------------------------------------------------------------------
(***************************************************************************)
(* Reference definitions the properties are stated with: the state that    *)
(* describes a collected queue, and the alert that tells the subscribers   *)
(* about a state.                                                          *)
(***************************************************************************)
Describes(q) == IF q.active THEN Opened(q) ELSE Inactive

Announcement(s) ==
  CASE s.name = "Inactive"       -> ClosedAlert
    [] s.name = "ActiveDisabled" -> UnavailableAlert
    [] s.name = "ActiveEnabled"  -> AvailableAlert(s.ticketsLeft)
    [] s.name = "Uninitialized"  -> Silent
=============================================================================
