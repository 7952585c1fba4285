----------------------- MODULE QueueMonitorInductive -----------------------
(***************************************************************************)
(* The inductive invariant behind the theorems of QueueMonitorProofs.      *)
(***************************************************************************)
EXTENDS QueueMonitor

\* A process that is up believes something definite, one that is not
\* believes nothing.
BeliefIsSettled == IF Up THEN state \in Settled ELSE state = Uninitialized

\* Only a check replaces lastQueue, and it replaces the state with it.
LastQueueDescribed ==
  lastQueue # NoQueue => Up /\ state = Describes(lastQueue)

\* No process ever saves the state it was created with.
RecordIsSettled == redis # NoRecord => redis.stateName # "Uninitialized"

\* What the process and the record hold.
Memory == BeliefIsSettled /\ LastQueueDescribed /\ RecordIsSettled

\* A check that is under way has a status; it sends when there is something
\* to send, and what it had to send is out when it goes on.
CheckHasStatus == pc \in {"send", "stats", "settle"} => checked \in Queues

SendHasAlert == pc = "send" => Pending # Silent

AlertIsOut == pc \in {"stats", "settle"} /\ Pending # Silent => posted = Pending

StatsAreDue == pc = "stats" => NextState = Inactive /\ state # Inactive

\* How far the running check has come.
Progress == CheckHasStatus /\ SendHasAlert /\ AlertIsOut /\ StatsAreDue

\* The running check has told the channel nothing that is not settled yet.
NothingTold == pc \in {"stats", "settle"} => Pending = Silent

\* What the process believes, or will believe when it is started again.
Belief == IF Up THEN state ELSE StateFromPersistence(redis)

HasBelief == IF Up THEN NothingTold ELSE redis # NoRecord

\* ChannelMatchesBelief and ActiveIsAnnounced, carried over the time in
\* which the process is down.
BeliefIsPosted ==
  HasBelief /\ faults = {} => posted = Announcement(Belief)

ActiveBeliefIsPosted ==
  HasBelief /\ faults \cap Unsettling = {} /\ Belief.name \in ActiveNames =>
    posted = Announcement(Belief)

IInv == TypeOK /\ Memory /\ Progress /\ BeliefIsPosted /\ ActiveBeliefIsPosted
=============================================================================
