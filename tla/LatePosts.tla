------------------------------ MODULE LatePosts ------------------------------
(***************************************************************************)
(* QueueMonitor over a network that is late.  An attempt the notifier has  *)
(* given up on, when its request timed out or its context ended, may still *)
(* be under way: Telegram posts it at any later time, after alerts that    *)
(* were sent after it, and after restarts of the monitor.                  *)
(*                                                                         *)
(* The variable posted of QueueMonitor is the last alert that was posted   *)
(* in order.  What the subscribers see last is shown.                      *)
(***************************************************************************)
EXTENDS QueueMonitorInductive

CONSTANT Requests  \* bound: requests that may be under way late at a time

VARIABLES
  late,       \* the alert of each request that is under way late, or Silent
  shown,      \* the last alert in the channel
  overtaken   \* history: an old alert was shown since the last one in order

network == <<late, shown, overtaken>>
lateVars == <<vars, network>>

LateInit ==
  /\ Init
  /\ late = [r \in Requests |-> Silent]
  /\ shown = posted
  /\ overtaken = FALSE

\* An attempt that Telegram acts on at once.
InOrder ==
  /\ Post
  /\ shown' = posted' /\ overtaken' = FALSE
  /\ UNCHANGED late

\* A failed attempt whose request is still under way.
Delayed ==
  /\ AttemptLost
  /\ \E r \in Requests :
       late[r] = Silent /\ late' = [late EXCEPT ![r] = Pending]
  /\ UNCHANGED <<shown, overtaken>>

\* The network delivers, or drops, what is late.
Deliver ==
  \E r \in Requests :
    /\ late[r] # Silent
    /\ late' = [late EXCEPT ![r] = Silent]
    /\ shown' = late[r] /\ overtaken' = TRUE
    /\ UNCHANGED vars

Drop ==
  \E r \in Requests :
    /\ late[r] # Silent
    /\ late' = [late EXCEPT ![r] = Silent]
    /\ UNCHANGED <<vars, shown, overtaken>>

LateNext ==
  \/ InOrder \/ Delayed \/ Deliver \/ Drop
  \/ Quiet /\ UNCHANGED network

LateSpec == LateInit /\ [][LateNext]_lateVars

FairLateSpec == LateSpec /\ Fairness

-----------------------------------------------------------------------------
\* Every variable has its type.
LateTypeOK ==
  /\ TypeOK
  /\ late \in [Requests -> Alerts \cup {Silent}]
  /\ shown \in Alerts \cup {Silent}
  /\ overtaken \in BOOLEAN

\* Between checks the subscribers see what the monitor believes, unless
\* something went wrong since the last confirmed alert, or an alert that was
\* given up on came out of turn after it.  The next alert that is posted in
\* order repairs what a late one did, however many are under way, and over
\* restarts.
ChannelShowsBeliefLate ==
  Steady /\ faults = {} /\ ~overtaken => shown = Announcement(state)

\* The subscribers never read the same alert twice in a row without a fault
\* or a late alert.
NoRepeatWithoutLatePost ==
  pc = "send" /\ faults = {} /\ ~overtaken => Pending # shown

(***************************************************************************)
(* What the repository says of the program and the program does not do.    *)
(***************************************************************************)

\* A check that finds bookable tickets and says nothing finds them shown in
\* the channel (docs/agents/map/09-reliability.md:31: a failure heals on the
\* next tick, alerts are sent again rather than dropped).
AvailabilityIsShown ==
  pc = "settle" /\ Pending = Silent /\ checked.active /\ checked.enabled =>
    shown = AvailableAlert(checked.ticketsLeft)
=============================================================================
