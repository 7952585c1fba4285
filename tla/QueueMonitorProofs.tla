------------------------- MODULE QueueMonitorProofs -------------------------
(***************************************************************************)
(* Theorems about QueueMonitor, for every set of queue statuses, every     *)
(* number of attempts, with and without daily stats, under any faults.     *)
(***************************************************************************)
EXTENDS QueueMonitorInductive, QueueStateProofs

-----------------------------------------------------------------------------
(* The inductive invariant. *)

LEMMA LegacyRestoresSettled ==
  ASSUME NEW r \in LegacyRecords
  PROVE  /\ r \in MonitorState
         /\ r.stateName # "Uninitialized"
         /\ StateFromPersistence(r) \in Settled
BY RecordRestoresSettled DEF LegacyRecords

LEMMA DefaultRestoresInactive ==
  /\ DefaultRecord \in MonitorState
  /\ StateFromPersistence(DefaultRecord) = Inactive
<1>1. DefaultRecord \in MonitorState
  BY DEF DefaultRecord, MonitorState, Counts
<1>2. \A r \in MonitorState : r.stateName = "" /\ ~r.queueActive => StateFromPersistence(r) = Inactive
  BY DEF StateFromPersistence
<1>3. DefaultRecord.stateName = "" /\ ~DefaultRecord.queueActive
  BY DEF DefaultRecord
<1> QED
  BY <1>1, <1>2, <1>3

\* A new process, and one that is gone, has variables of the right types.
LEMMA BlankIsTyped ==
  ASSUME Blank
  PROVE  /\ cancelled' \in BOOLEAN
         /\ state' \in States
         /\ lastQueue' \in Queues \cup {NoQueue}
         /\ checked' \in Queues \cup {NoQueue}
         /\ attempts' \in 0 .. MaxAttempts
<1>1. cancelled' \in BOOLEAN
  BY Zenon DEF Blank
<1>2. attempts' \in 0 .. MaxAttempts
  BY MaxAttemptsAssumption DEF Blank
<1> QED
  BY <1>1, <1>2 DEF Blank, States

LEMMA InitEstablishesIInv == Init => IInv
<1> SUFFICES ASSUME Init PROVE IInv
  OBVIOUS
<1>1. ~Up
  BY DEF Init, Up
<1>2. TypeOK
  <2>1. posted \in Alerts \cup {Silent} /\ redis \in MonitorState \cup {NoRecord}
    BY LegacyRestoresSettled, AnnouncementIsAlert DEF Init
  <2>2. cancelled \in BOOLEAN
    BY Zenon DEF Init
  <2> QED
    BY <2>1, <2>2, MaxAttemptsAssumption DEF Init, TypeOK, Locations, States
<1>3. RecordIsSettled
  BY LegacyRestoresSettled DEF Init, RecordIsSettled
<1>4. BeliefIsPosted /\ ActiveBeliefIsPosted
  BY <1>1 DEF Init, BeliefIsPosted, ActiveBeliefIsPosted, HasBelief, Belief
<1> QED
  BY <1>1, <1>2, <1>3, <1>4
  DEF Init, IInv, Memory, Progress, BeliefIsSettled, LastQueueDescribed, CheckHasStatus, SendHasAlert,
      AlertIsOut, StatsAreDue

\* What a check is about, once it has a status.
LEMMA CheckMoves ==
  ASSUME IInv, pc \in {"send", "stats", "settle"}
  PROVE  /\ state \in Settled
         /\ checked \in Queues
         /\ NextState \in Settled
         /\ NextState = Describes(checked)
         /\ Pending = IF NextState = state THEN Silent ELSE Announcement(NextState)
<1>1. state \in Settled /\ checked \in Queues
  BY DEF IInv, Memory, Progress, BeliefIsSettled, CheckHasStatus, Up
<1> QED
  BY <1>1, HandleDescribes, HandleAnnounces, DescribesIsSettled DEF NextState, Pending

\* The stats are due only when the queue was not closed before and is now.
LEMMA StatsFollowClosing ==
  ASSUME NEW s \in Settled, NEW next \in Settled
  PROVE  /\ Announced(s, next) \in {"stats", "settle"}
         /\ Announced(s, next) = "stats" => next = Inactive /\ s # Inactive
BY InactiveByName DEF Announced

\* What is written at shutdown restores the state that was running.
LEMMA SaveIsRestored ==
  ASSUME IInv, pc = "save"
  PROVE  /\ StateToPersistence(state, lastQueue) \in MonitorState
         /\ StateToPersistence(state, lastQueue) # NoRecord
         /\ StateToPersistence(state, lastQueue).stateName # "Uninitialized"
         /\ StateFromPersistence(StateToPersistence(state, lastQueue)) = state
<1>1. state \in Settled /\ lastQueue \in Queues \cup {NoQueue}
  BY DEF IInv, TypeOK, Memory, BeliefIsSettled, Up
<1>2. lastQueue # NoQueue => state = Describes(lastQueue)
  BY DEF IInv, Memory, LastQueueDescribed
<1> QED
  BY <1>1, <1>2, SavedStateIsRestored, NoRecordAssumption

LEMMA NextKeepsIInv == IInv /\ [Next]_vars => IInv'
<1> SUFFICES ASSUME IInv, [Next]_vars PROVE IInv'
  OBVIOUS
<1>1. CASE Start \/ StartFails
  <2>1. TypeOK'
    BY <1>1, BlankIsTyped DEF Start, StartFails, IInv, TypeOK, Locations
  <2>2. Memory'
    BY <1>1 DEF Start, StartFails, Blank, IInv, Memory, BeliefIsSettled, LastQueueDescribed, RecordIsSettled, Up
  <2>3. Progress'
    BY <1>1 DEF Start, StartFails, Blank, IInv, Progress, CheckHasStatus, SendHasAlert, AlertIsOut, StatsAreDue, Pending, NextState
  <2>4. BeliefIsPosted' /\ ActiveBeliefIsPosted'
    BY <1>1 DEF Start, StartFails, Blank, IInv, BeliefIsPosted, ActiveBeliefIsPosted, HasBelief, NothingTold, Belief, Up, Pending, NextState, Unsettling
  <2> QED
    BY <2>1, <2>2, <2>3, <2>4 DEF IInv
<1>2. CASE Restore
  <2>1. TypeOK'
    BY <1>2, DefaultRestoresInactive, RecordRestoresSettled DEF Restore, Seed, IInv, TypeOK, Locations, States, Settled, FaultKinds, Memory, RecordIsSettled
  <2>2. Memory'
    BY <1>2, <2>1, DefaultRestoresInactive, RecordRestoresSettled DEF Restore, Seed, IInv, Memory, BeliefIsSettled, LastQueueDescribed, RecordIsSettled, Up, TypeOK, Settled
  <2>3. Progress'
    BY <1>2 DEF Restore, Seed, IInv, Progress, CheckHasStatus, SendHasAlert, AlertIsOut, StatsAreDue, Pending, NextState
  <2>4. BeliefIsPosted' /\ ActiveBeliefIsPosted'
    BY <1>2, DefaultRestoresInactive DEF Restore, Seed, IInv, BeliefIsPosted, ActiveBeliefIsPosted, HasBelief, NothingTold, Belief, Up, Pending, NextState, Unsettling, Inactive, ActiveNames
  <2> QED
    BY <2>1, <2>2, <2>3, <2>4 DEF IInv
<1>3. CASE RestoreFails
  <2>1. TypeOK'
    BY <1>3, DefaultRestoresInactive DEF RestoreFails, Seed, IInv, TypeOK, Locations, States, Settled, FaultKinds
  <2>2. Memory'
    BY <1>3, DefaultRestoresInactive DEF RestoreFails, Seed, IInv, Memory, BeliefIsSettled, LastQueueDescribed, RecordIsSettled, Up, Settled
  <2>3. Progress'
    BY <1>3 DEF RestoreFails, Seed, IInv, Progress, CheckHasStatus, SendHasAlert, AlertIsOut, StatsAreDue, Pending, NextState
  <2>4. BeliefIsPosted' /\ ActiveBeliefIsPosted'
    BY <1>3, DefaultRestoresInactive DEF RestoreFails, Seed, IInv, BeliefIsPosted, ActiveBeliefIsPosted, HasBelief, NothingTold, Belief, Up, Pending, NextState, Unsettling, Inactive, ActiveNames
  <2> QED
    BY <2>1, <2>2, <2>3, <2>4 DEF IInv
<1>4. CASE NoStatus
  <2>1. TypeOK'
    BY <1>4, MaxAttemptsAssumption DEF NoStatus, CheckEnds, IInv, TypeOK, Locations
  <2>2. Memory'
    BY <1>4 DEF NoStatus, CheckEnds, IInv, Memory, BeliefIsSettled, LastQueueDescribed, RecordIsSettled, Up
  <2>3. Progress'
    BY <1>4 DEF NoStatus, CheckEnds, IInv, Progress, CheckHasStatus, SendHasAlert, AlertIsOut, StatsAreDue, Pending, NextState
  <2>4. BeliefIsPosted' /\ ActiveBeliefIsPosted'
    BY <1>4 DEF NoStatus, CheckEnds, IInv, BeliefIsPosted, ActiveBeliefIsPosted, HasBelief, NothingTold, Belief, Up, Pending, NextState, Unsettling
  <2> QED
    BY <2>1, <2>2, <2>3, <2>4 DEF IInv
<1>5. CASE Fetch
  <2>0. checked' \in Queues
    <3>1. queue \in Statuses /\ checked' \in Readings[queue] \ {NoQueue}
      BY <1>5 DEF Fetch, IInv, TypeOK
    <3>2. checked' = Collected(queue)
      BY <3>1, ReadingIsOfMonitored
    <3> QED
      BY <3>1, <3>2, CollectedIsQueue, StatusesAssumption
  <2>1. TypeOK'
    BY <1>5, <2>0 DEF Fetch, IInv, TypeOK, Locations, Announced
  <2>2. Memory'
    BY <1>5 DEF Fetch, IInv, Memory, BeliefIsSettled, LastQueueDescribed, RecordIsSettled, Up, Announced
  <2>3. Progress'
    <3>1. state \in Settled /\ checked' \in Queues /\ state' = state /\ posted' = posted
      BY <1>5, <2>0
      DEF Fetch, IInv, TypeOK, Memory, BeliefIsSettled, Up
    <3> DEFINE move == Handle(state, checked')
    <3>2. /\ move.next \in Settled
          /\ move.alert = IF move.next = state THEN Silent ELSE Announcement(move.next)
      BY <3>1, HandleDescribes, HandleAnnounces, DescribesIsSettled
    <3>3. NextState' = move.next /\ Pending' = move.alert
      BY <3>1 DEF NextState, Pending
    <3>4. pc' = IF move.alert = Silent THEN Announced(state, move.next) ELSE "send"
      BY <1>5 DEF Fetch
    <3> HIDE DEF move
    <3> QED
      BY <3>1, <3>2, <3>3, <3>4, StatsFollowClosing
      DEF Progress, CheckHasStatus, SendHasAlert, AlertIsOut, StatsAreDue
  <2>4. BeliefIsPosted' /\ ActiveBeliefIsPosted'
    BY <1>5 DEF Fetch, IInv, BeliefIsPosted, ActiveBeliefIsPosted, HasBelief, NothingTold, Belief, Up, Pending, NextState, Unsettling, Announced
  <2> QED
    BY <2>1, <2>2, <2>3, <2>4 DEF IInv
<1>6. CASE AttemptConfirmed
  <2>1. TypeOK'
    BY <1>6, CheckMoves, AnnouncementIsAlert, MaxAttemptsAssumption DEF AttemptConfirmed, Attempt, IInv, TypeOK, Locations, Announced
  <2>2. Memory'
    BY <1>6 DEF AttemptConfirmed, Attempt, IInv, Memory, BeliefIsSettled, LastQueueDescribed, RecordIsSettled, Up, Announced
  <2>3. Progress'
    <3>1. pc' = Announced(state, NextState) /\ posted' = Pending
      BY <1>6 DEF AttemptConfirmed
    <3>2. checked \in Queues /\ checked' = checked /\ state' = state
      BY <1>6, CheckMoves DEF AttemptConfirmed, Attempt
    <3>3. NextState' = NextState /\ Pending' = Pending
      BY <3>2 DEF NextState, Pending
    <3>4. state \in Settled /\ NextState \in Settled
      BY <1>6, CheckMoves DEF AttemptConfirmed, Attempt
    <3> QED
      BY <3>1, <3>2, <3>3, <3>4, StatsFollowClosing
      DEF Progress, CheckHasStatus, SendHasAlert, AlertIsOut, StatsAreDue
  <2>4. BeliefIsPosted' /\ ActiveBeliefIsPosted'
    BY <1>6 DEF AttemptConfirmed, Attempt, IInv, BeliefIsPosted, ActiveBeliefIsPosted, HasBelief, NothingTold, Belief, Up, Pending, NextState, Unsettling, Announced, Progress, SendHasAlert
  <2> QED
    BY <2>1, <2>2, <2>3, <2>4 DEF IInv
<1>7. CASE AttemptUnacked
  <2>1. TypeOK'
    BY <1>7, CheckMoves, AnnouncementIsAlert, MaxAttemptsAssumption DEF AttemptUnacked, Attempt, IInv, TypeOK, Locations, FaultKinds
  <2>2. Memory'
    BY <1>7 DEF AttemptUnacked, Attempt, IInv, Memory, BeliefIsSettled, LastQueueDescribed, RecordIsSettled, Up
  <2>3. Progress'
    BY <1>7 DEF AttemptUnacked, Attempt, IInv, Progress, CheckHasStatus, SendHasAlert, AlertIsOut, StatsAreDue, Pending, NextState
  <2>4. BeliefIsPosted' /\ ActiveBeliefIsPosted'
    BY <1>7 DEF AttemptUnacked, Attempt, IInv, BeliefIsPosted, ActiveBeliefIsPosted, HasBelief, NothingTold, Belief, Up, Pending, NextState, Unsettling
  <2> QED
    BY <2>1, <2>2, <2>3, <2>4 DEF IInv
<1>8. CASE AttemptLost
  <2>1. TypeOK'
    BY <1>8, MaxAttemptsAssumption DEF AttemptLost, Attempt, IInv, TypeOK, Locations
  <2>2. Memory'
    BY <1>8 DEF AttemptLost, Attempt, IInv, Memory, BeliefIsSettled, LastQueueDescribed, RecordIsSettled, Up
  <2>3. Progress'
    BY <1>8 DEF AttemptLost, Attempt, IInv, Progress, CheckHasStatus, SendHasAlert, AlertIsOut, StatsAreDue, Pending, NextState
  <2>4. BeliefIsPosted' /\ ActiveBeliefIsPosted'
    BY <1>8 DEF AttemptLost, Attempt, IInv, BeliefIsPosted, ActiveBeliefIsPosted, HasBelief, NothingTold, Belief, Up, Pending, NextState, Unsettling
  <2> QED
    BY <2>1, <2>2, <2>3, <2>4 DEF IInv
<1>9. CASE GiveUp
  <2>1. TypeOK'
    BY <1>9, MaxAttemptsAssumption DEF GiveUp, CheckEnds, IInv, TypeOK, Locations
  <2>2. Memory'
    BY <1>9 DEF GiveUp, CheckEnds, IInv, Memory, BeliefIsSettled, LastQueueDescribed, RecordIsSettled, Up
  <2>3. Progress'
    BY <1>9 DEF GiveUp, CheckEnds, IInv, Progress, CheckHasStatus, SendHasAlert, AlertIsOut, StatsAreDue, Pending, NextState
  <2>4. BeliefIsPosted' /\ ActiveBeliefIsPosted'
    BY <1>9 DEF GiveUp, CheckEnds, IInv, BeliefIsPosted, ActiveBeliefIsPosted, HasBelief, NothingTold, Belief, Up, Pending, NextState, Unsettling
  <2> QED
    BY <2>1, <2>2, <2>3, <2>4 DEF IInv
<1>10. CASE StatsSaved
  <2>1. TypeOK'
    BY <1>10 DEF StatsSaved, process, IInv, TypeOK, Locations, Progress, CheckHasStatus
  <2>2. Memory'
    BY <1>10 DEF StatsSaved, process, IInv, Memory, BeliefIsSettled, LastQueueDescribed, RecordIsSettled, Up
  <2>3. Progress'
    BY <1>10 DEF StatsSaved, process, IInv, Progress, CheckHasStatus, SendHasAlert, AlertIsOut, StatsAreDue, Pending, NextState
  <2>4. BeliefIsPosted' /\ ActiveBeliefIsPosted'
    BY <1>10 DEF StatsSaved, process, IInv, BeliefIsPosted, ActiveBeliefIsPosted, HasBelief, NothingTold, Belief, Up, Pending, NextState, Unsettling
  <2> QED
    BY <2>1, <2>2, <2>3, <2>4 DEF IInv
<1>11. CASE StatsFailed
  <2>1. TypeOK'
    BY <1>11 DEF StatsFailed, process, IInv, TypeOK, Locations
  <2>2. Memory'
    BY <1>11 DEF StatsFailed, process, IInv, Memory, BeliefIsSettled, LastQueueDescribed, RecordIsSettled, Up
  <2>3. Progress'
    BY <1>11 DEF StatsFailed, process, IInv, Progress, CheckHasStatus, SendHasAlert, AlertIsOut, StatsAreDue, Pending, NextState
  <2>4. BeliefIsPosted' /\ ActiveBeliefIsPosted'
    BY <1>11 DEF StatsFailed, process, IInv, BeliefIsPosted, ActiveBeliefIsPosted, HasBelief, NothingTold, Belief, Up, Pending, NextState, Unsettling
  <2> QED
    BY <2>1, <2>2, <2>3, <2>4 DEF IInv
<1>12. CASE Settle
  <2>1. TypeOK'
    BY <1>12, CheckMoves, MaxAttemptsAssumption DEF Settle, CheckEnds, IInv, TypeOK, Locations, States
  <2>2. Memory'
    BY <1>12, CheckMoves DEF Settle, CheckEnds, IInv, Memory, BeliefIsSettled, LastQueueDescribed, RecordIsSettled, Up
  <2>3. Progress'
    BY <1>12 DEF Settle, CheckEnds, IInv, Progress, CheckHasStatus, SendHasAlert, AlertIsOut, StatsAreDue, Pending, NextState
  <2>4. BeliefIsPosted' /\ ActiveBeliefIsPosted'
    <3>1. Belief' = NextState /\ posted' = posted
      BY <1>12 DEF Settle, CheckEnds, Belief, Up
    <3>2. CASE Pending # Silent
      BY <1>12, <3>1, <3>2, CheckMoves
      DEF Settle, IInv, Progress, AlertIsOut, BeliefIsPosted, ActiveBeliefIsPosted
    <3>3. CASE Pending = Silent
      <4>1. NextState = state
        BY <1>12, <3>3, CheckMoves, AnnouncementIsAlert DEF Settle
      <4>2. HasBelief /\ Belief = state /\ faults' = faults
        BY <1>12, <3>3 DEF Settle, HasBelief, NothingTold, Belief, Up
      <4> QED
        BY <3>1, <4>1, <4>2 DEF IInv, BeliefIsPosted, ActiveBeliefIsPosted, Unsettling
    <3> QED
      BY <3>2, <3>3
  <2> QED
    BY <2>1, <2>2, <2>3, <2>4 DEF IInv
<1>13. CASE Tick
  <2>1. TypeOK'
    BY <1>13 DEF Tick, process, IInv, TypeOK, Locations
  <2>2. Memory'
    BY <1>13 DEF Tick, process, IInv, Memory, BeliefIsSettled, LastQueueDescribed, RecordIsSettled, Up
  <2>3. Progress'
    BY <1>13 DEF Tick, process, IInv, Progress, CheckHasStatus, SendHasAlert, AlertIsOut, StatsAreDue, Pending, NextState
  <2>4. BeliefIsPosted' /\ ActiveBeliefIsPosted'
    BY <1>13 DEF Tick, process, IInv, BeliefIsPosted, ActiveBeliefIsPosted, HasBelief, NothingTold, Belief, Up, Pending, NextState, Unsettling
  <2> QED
    BY <2>1, <2>2, <2>3, <2>4 DEF IInv
<1>14. CASE ShutdownSeen
  <2>1. TypeOK'
    BY <1>14 DEF ShutdownSeen, process, IInv, TypeOK, Locations
  <2>2. Memory'
    BY <1>14 DEF ShutdownSeen, process, IInv, Memory, BeliefIsSettled, LastQueueDescribed, RecordIsSettled, Up
  <2>3. Progress'
    BY <1>14 DEF ShutdownSeen, process, IInv, Progress, CheckHasStatus, SendHasAlert, AlertIsOut, StatsAreDue, Pending, NextState
  <2>4. BeliefIsPosted' /\ ActiveBeliefIsPosted'
    BY <1>14 DEF ShutdownSeen, process, IInv, BeliefIsPosted, ActiveBeliefIsPosted, HasBelief, NothingTold, Belief, Up, Pending, NextState, Unsettling
  <2> QED
    BY <2>1, <2>2, <2>3, <2>4 DEF IInv
<1>15. CASE SaveState
  <2>1. TypeOK'
    BY <1>15, SaveIsRestored, BlankIsTyped DEF SaveState, IInv, TypeOK, Locations
  <2>2. Memory'
    BY <1>15, SaveIsRestored DEF SaveState, Blank, IInv, Memory, BeliefIsSettled, LastQueueDescribed, RecordIsSettled, Up
  <2>3. Progress'
    BY <1>15 DEF SaveState, Blank, IInv, Progress, CheckHasStatus, SendHasAlert, AlertIsOut, StatsAreDue, Pending, NextState
  <2>4. BeliefIsPosted' /\ ActiveBeliefIsPosted'
    BY <1>15, SaveIsRestored DEF SaveState, Blank, IInv, BeliefIsPosted, ActiveBeliefIsPosted, HasBelief, NothingTold, Belief, Up, Pending, NextState, Unsettling
  <2> QED
    BY <2>1, <2>2, <2>3, <2>4 DEF IInv
<1>16. CASE SaveFails
  <2>1. TypeOK'
    BY <1>16, BlankIsTyped DEF SaveFails, IInv, TypeOK, Locations, FaultKinds
  <2>2. Memory'
    BY <1>16 DEF SaveFails, Blank, IInv, Memory, BeliefIsSettled, LastQueueDescribed, RecordIsSettled, Up
  <2>3. Progress'
    BY <1>16 DEF SaveFails, Blank, IInv, Progress, CheckHasStatus, SendHasAlert, AlertIsOut, StatsAreDue, Pending, NextState
  <2>4. BeliefIsPosted' /\ ActiveBeliefIsPosted'
    BY <1>16 DEF SaveFails, Blank, IInv, BeliefIsPosted, ActiveBeliefIsPosted, HasBelief, NothingTold, Belief, Up, Pending, NextState, Unsettling
  <2> QED
    BY <2>1, <2>2, <2>3, <2>4 DEF IInv
<1>17. CASE QueueChanges
  <2>1. TypeOK'
    BY <1>17 DEF QueueChanges, process, IInv, TypeOK, Locations
  <2>2. Memory'
    BY <1>17 DEF QueueChanges, process, IInv, Memory, BeliefIsSettled, LastQueueDescribed, RecordIsSettled, Up
  <2>3. Progress'
    BY <1>17 DEF QueueChanges, process, IInv, Progress, CheckHasStatus, SendHasAlert, AlertIsOut, StatsAreDue, Pending, NextState
  <2>4. BeliefIsPosted' /\ ActiveBeliefIsPosted'
    BY <1>17 DEF QueueChanges, process, IInv, BeliefIsPosted, ActiveBeliefIsPosted, HasBelief, NothingTold, Belief, Up, Pending, NextState, Unsettling
  <2> QED
    BY <2>1, <2>2, <2>3, <2>4 DEF IInv
<1>18. CASE Signal
  <2>1. TypeOK'
    BY <1>18 DEF Signal, IInv, TypeOK, Locations
  <2>2. Memory'
    BY <1>18 DEF Signal, IInv, Memory, BeliefIsSettled, LastQueueDescribed, RecordIsSettled, Up
  <2>3. Progress'
    BY <1>18 DEF Signal, IInv, Progress, CheckHasStatus, SendHasAlert, AlertIsOut, StatsAreDue, Pending, NextState
  <2>4. BeliefIsPosted' /\ ActiveBeliefIsPosted'
    BY <1>18 DEF Signal, IInv, BeliefIsPosted, ActiveBeliefIsPosted, HasBelief, NothingTold, Belief, Up, Pending, NextState, Unsettling
  <2> QED
    BY <2>1, <2>2, <2>3, <2>4 DEF IInv
<1>19. CASE Crash
  <2>1. TypeOK'
    BY <1>19, BlankIsTyped DEF Crash, IInv, TypeOK, Locations, FaultKinds
  <2>2. Memory'
    BY <1>19 DEF Crash, Blank, IInv, Memory, BeliefIsSettled, LastQueueDescribed, RecordIsSettled, Up
  <2>3. Progress'
    BY <1>19 DEF Crash, Blank, IInv, Progress, CheckHasStatus, SendHasAlert, AlertIsOut, StatsAreDue, Pending, NextState
  <2>4. BeliefIsPosted' /\ ActiveBeliefIsPosted'
    BY <1>19 DEF Crash, Blank, IInv, BeliefIsPosted, ActiveBeliefIsPosted, HasBelief, NothingTold, Belief, Up, Pending, NextState, Unsettling
  <2> QED
    BY <2>1, <2>2, <2>3, <2>4 DEF IInv
<1>20. CASE Expire
  <2>1. TypeOK'
    BY <1>20 DEF Expire, process, IInv, TypeOK, Locations
  <2>2. Memory'
    BY <1>20 DEF Expire, process, IInv, Memory, BeliefIsSettled, LastQueueDescribed, RecordIsSettled, Up
  <2>3. Progress'
    BY <1>20 DEF Expire, process, IInv, Progress, CheckHasStatus, SendHasAlert, AlertIsOut, StatsAreDue, Pending, NextState
  <2>4. BeliefIsPosted' /\ ActiveBeliefIsPosted'
    BY <1>20 DEF Expire, process, IInv, BeliefIsPosted, ActiveBeliefIsPosted, HasBelief, NothingTold, Belief, Up, Pending, NextState, Unsettling
  <2> QED
    BY <2>1, <2>2, <2>3, <2>4 DEF IInv
<1>21. CASE UNCHANGED vars
  <2>1. TypeOK'
    BY <1>21 DEF vars, process, IInv, TypeOK, Locations
  <2>2. Memory'
    BY <1>21 DEF vars, process, IInv, Memory, BeliefIsSettled, LastQueueDescribed, RecordIsSettled, Up
  <2>3. Progress'
    BY <1>21 DEF vars, process, IInv, Progress, CheckHasStatus, SendHasAlert, AlertIsOut, StatsAreDue, Pending, NextState
  <2>4. BeliefIsPosted' /\ ActiveBeliefIsPosted'
    BY <1>21 DEF vars, process, IInv, BeliefIsPosted, ActiveBeliefIsPosted, HasBelief, NothingTold, Belief, Up, Pending, NextState, Unsettling
  <2> QED
    BY <2>1, <2>2, <2>3, <2>4 DEF IInv
<1> QED
  BY <1>1, <1>2, <1>3, <1>4, <1>5, <1>6, <1>7, <1>8, <1>9, <1>10, <1>11, <1>12, <1>13, <1>14, <1>15, <1>16, <1>17, <1>18, <1>19, <1>20, <1>21 DEF Next, Post, Quiet, QuietCheck, Environment

\* IInv holds in every reachable state.
THEOREM InductiveInvariant == Spec => []IInv
<1>1. Init => IInv
  BY InitEstablishesIInv
<1>2. IInv /\ [Next]_vars => IInv'
  BY NextKeepsIInv
<1> QED
  BY <1>1, <1>2, PTL DEF Spec

-----------------------------------------------------------------------------
(* Invariants of the specification. *)

\* Every variable keeps its type: the ticket numbers that reach states,
\* alerts and records are never negative, and no call makes more attempts
\* than it is configured for.
THEOREM TypeCorrectness == Spec => []TypeOK
<1>1. IInv => TypeOK
  BY DEF IInv
<1> QED
  BY <1>1, InductiveInvariant, PTL

\* The last post in the channel announces the state the monitor is in, as
\* long as nothing went wrong since the last confirmed alert.
THEOREM ChannelShowsBelief == Spec => []ChannelMatchesBelief
<1>1. IInv => ChannelMatchesBelief
  BY DEF IInv, BeliefIsPosted, ChannelMatchesBelief, Steady, Up, HasBelief, NothingTold, Belief
<1> QED
  BY <1>1, InductiveInvariant, PTL

\* A lost or unreadable record never makes the monitor believe in an active
\* queue that the channel does not announce.
THEOREM ActiveBeliefIsShown == Spec => []ActiveIsAnnounced
<1>1. IInv => ActiveIsAnnounced
  BY DEF IInv, ActiveBeliefIsPosted, ActiveIsAnnounced, Steady, Up, HasBelief, NothingTold, Belief
<1> QED
  BY <1>1, InductiveInvariant, PTL

\* Restarts, failed sends and off hours cause no repeated alert by themselves.
THEOREM RepeatsNeedAFault == Spec => []NoRepeatWithoutFault
<1>1. ASSUME IInv, pc = "send", faults = {}
      PROVE  Pending # posted
  <2>1. /\ state \in Settled /\ NextState \in Settled
        /\ Pending = IF NextState = state THEN Silent ELSE Announcement(NextState)
    BY <1>1, CheckMoves
  <2>2. Pending # Silent
    BY <1>1 DEF IInv, Progress, SendHasAlert
  <2>3. posted = Announcement(state)
    BY <1>1 DEF IInv, BeliefIsPosted, HasBelief, NothingTold, Belief, Up
  <2> QED
    BY <2>1, <2>2, <2>3, AnnouncementIsInjective
<1>2. IInv => NoRepeatWithoutFault
  BY <1>1 DEF NoRepeatWithoutFault
<1> QED
  BY <1>2, InductiveInvariant, PTL

\* Daily stats are written only for a queue that has just been closed, from
\* the status that closed it, once the channel was told.
THEOREM StatsFollowTheClosing == Spec => []StatsOnlyOnClose
<1>1. ASSUME IInv, pc = "stats"
      PROVE  state.name \in ActiveNames /\ ~checked.active /\ posted = ClosedAlert
  <2>1. /\ state \in Settled /\ checked \in Queues /\ NextState = Describes(checked)
        /\ Pending = IF NextState = state THEN Silent ELSE Announcement(NextState)
    BY <1>1, CheckMoves
  <2>2. NextState = Inactive /\ state # Inactive
    BY <1>1 DEF IInv, Progress, StatsAreDue
  <2>3. state.name \in ActiveNames
    BY <2>1, <2>2, SettledShape, InactiveByName DEF ActiveNames
  <2>4. ~checked.active
    BY <2>1, <2>2 DEF Describes, Opened, Inactive, ActiveDisabled, ActiveEnabled
  <2>5. Pending = ClosedAlert
    BY <2>1, <2>2 DEF Announcement, Inactive
  <2>6. posted = Pending
    BY <1>1, <2>5 DEF IInv, Progress, AlertIsOut, ClosedAlert, Silent
  <2> QED
    BY <2>3, <2>4, <2>5, <2>6
<1>2. IInv => StatsOnlyOnClose
  BY <1>1 DEF StatsOnlyOnClose
<1> QED
  BY <1>2, InductiveInvariant, PTL

-----------------------------------------------------------------------------
(* Action properties. *)

\* What a shutdown saves is what the next start restores.
THEOREM SaveRestores == Spec => SaveKeepsState
<1>1. ASSUME IInv, [Next]_vars, pc = "save", redis' # redis, pc' = "down"
      PROVE  StateFromPersistence(redis') = state
  <2>1. SaveState
    BY <1>1 DEF Next, Post, Quiet, QuietCheck, Environment, vars, process, Start, StartFails, Restore, RestoreFails, Seed,
       NoStatus, Fetch, AttemptConfirmed, AttemptUnacked, AttemptLost, Attempt, GiveUp,
       StatsSaved, StatsFailed, Settle, Tick, ShutdownSeen, SaveFails, QueueChanges, Signal,
       Crash, Expire
  <2> QED
    BY <1>1, <2>1, SaveIsRestored DEF SaveState
<1>2. IInv /\ [Next]_vars =>
        [pc = "save" /\ redis' # redis /\ pc' = "down" => StateFromPersistence(redis') = state]_vars
  BY <1>1
<1> QED
  BY <1>2, InductiveInvariant, PTL DEF Spec, SaveKeepsState

\* No check moves the monitor to a state the channel does not announce.
THEOREM AdvanceNeedsThePost == Spec => AdvanceIsAnnounced
<1>1. ASSUME IInv, [Next]_vars, pc \notin {"down", "init"}, pc' = "select", state' # state
      PROVE  posted = Announcement(state')
  <2>1. Settle
    BY <1>1 DEF Next, Post, Quiet, QuietCheck, Environment, vars, process, Start, StartFails, Restore, RestoreFails, Seed,
       NoStatus, Fetch, AttemptConfirmed, AttemptUnacked, AttemptLost, Attempt, GiveUp,
       StatsSaved, StatsFailed, Tick, ShutdownSeen, SaveState, SaveFails, QueueChanges, Signal,
       Crash, Expire
  <2>2. /\ NextState # state /\ state' = NextState
        /\ Pending = Announcement(NextState) /\ NextState \in Settled
    BY <1>1, <2>1, CheckMoves DEF Settle
  <2> QED
    BY <2>1, <2>2, <1>1, AnnouncementIsAlert DEF Settle, IInv, Progress, AlertIsOut
<1>2. IInv /\ [Next]_vars =>
        [pc \notin {"down", "init"} /\ pc' = "select" /\ state' # state =>
           posted = Announcement(state')]_vars
  BY <1>1
<1> QED
  BY <1>2, InductiveInvariant, PTL DEF Spec, AdvanceIsAnnounced

-----------------------------------------------------------------------------
(* The refinement of AlertChannel. *)

Saved == IF redis = NoRecord THEN Inactive ELSE StateFromPersistence(redis)
Says == [s \in Settled |-> Announcement(s)]

LEMMA SavedIsSettled ==
  ASSUME IInv
  PROVE  Saved \in Settled
<1>1. redis # NoRecord => redis \in MonitorState /\ redis.stateName # "Uninitialized"
  BY DEF IInv, TypeOK, Memory, RecordIsSettled
<1> QED
  BY <1>1, RecordRestoresSettled DEF Saved, Settled

LEMMA UninitializedIsNotSettled == Uninitialized \notin Settled
BY SettledShape DEF Uninitialized

LEMMA NextImplementsChannel ==
  ASSUME IInv, [Next]_vars
  PROVE  [Channel!Next]_Channel!vars
<1> USE DEF Channel!vars
<1>a. /\ Up => state \in Settled
      /\ ~Up => state = Uninitialized
      /\ Uninitialized \notin Settled
  BY UninitializedIsNotSettled DEF IInv, Memory, BeliefIsSettled
<1>1. CASE Restore
  <2>1. state = Uninitialized /\ state' \in {Saved, Inactive} /\ UNCHANGED <<redis, posted>>
    BY <1>1, <1>a, DefaultRestoresInactive DEF Restore, Seed, Saved, Up
  <2> QED
    BY <2>1 DEF Saved, Channel!Next, Channel!Wake
<1>2. CASE RestoreFails
  <2>1. state = Uninitialized /\ state' = Inactive /\ UNCHANGED <<redis, posted>>
    BY <1>2, <1>a, DefaultRestoresInactive DEF RestoreFails, Seed, Up
  <2> QED
    BY <2>1 DEF Channel!Next, Channel!Wake
<1>3. CASE AttemptConfirmed \/ AttemptUnacked
  <2>1. pc = "send" /\ posted' = Pending /\ UNCHANGED <<state, redis>>
    BY <1>3 DEF AttemptConfirmed, AttemptUnacked, Attempt
  <2>2. /\ state \in Settled /\ NextState \in Settled
        /\ Pending = IF NextState = state THEN Silent ELSE Announcement(NextState)
        /\ Pending # Silent
    BY <2>1, CheckMoves DEF IInv, Progress, SendHasAlert
  <2>3. NextState \in Settled \ {state} /\ posted' = Says[NextState]
    BY <2>1, <2>2 DEF Says
  <2> QED
    BY <2>1, <2>2, <2>3, <1>a DEF Says, Channel!Next, Channel!Post
<1>4. CASE Settle
  <2>1. /\ state \in Settled /\ NextState \in Settled
        /\ state' = NextState /\ UNCHANGED <<redis, posted>>
        /\ NextState # state => posted = Announcement(NextState)
    BY <1>4, CheckMoves, AnnouncementIsAlert DEF Settle, IInv, Progress, AlertIsOut
  <2>2. CASE NextState = state
    BY <2>1, <2>2
  <2>3. CASE NextState # state
    BY <2>1, <2>3, <1>a DEF Channel!Next, Channel!Adopt
  <2> QED
    BY <2>2, <2>3
<1>5. CASE SaveState
  <2>1. /\ state \in Settled /\ state' = Uninitialized /\ posted' = posted
        /\ redis' # NoRecord /\ StateFromPersistence(redis') = state
    BY <1>5, <1>a, SaveIsRestored DEF SaveState, Blank, Up
  <2> QED
    BY <2>1, <1>a DEF Channel!Next, Channel!Stop
<1>6. CASE SaveFails \/ Crash
  <2>1. state' = Uninitialized /\ UNCHANGED <<redis, posted>>
    BY <1>6 DEF SaveFails, Crash, Blank
  <2>2. CASE state = Uninitialized
    BY <2>1, <2>2
  <2>3. CASE state # Uninitialized
    BY <2>1, <2>3 DEF Channel!Next, Channel!Die
  <2> QED
    BY <2>2, <2>3
<1>7. CASE Expire
  BY <1>7 DEF Expire, process, Channel!Next, Channel!Forget
<1>8. CASE Start \/ StartFails
  BY <1>8, <1>a DEF Start, StartFails, Blank, Up
<1>9. CASE \/ NoStatus \/ Fetch \/ AttemptLost \/ GiveUp \/ StatsSaved \/ StatsFailed
           \/ Tick \/ ShutdownSeen \/ QueueChanges \/ Signal \/ UNCHANGED vars
  BY <1>9 DEF NoStatus, Fetch, AttemptLost, Attempt, GiveUp, StatsSaved, StatsFailed, Tick,
     ShutdownSeen, QueueChanges, Signal, vars, process
<1> QED
  BY <1>1, <1>2, <1>3, <1>4, <1>5, <1>6, <1>7, <1>8, <1>9 DEF Next, Post, Quiet, QuietCheck, Environment

\* The monitor, with its polling, retries, signals, crashes and records,
\* implements the alert channel its subscribers rely on.
THEOREM Refinement == Spec => ImplementsChannel
<1>1. Init => Channel!Init
  <2> SUFFICES ASSUME Init PROVE Channel!Init
    OBVIOUS
  <2>1. Saved \in Settled
    BY InitEstablishesIInv, SavedIsSettled
  <2> QED
    BY <2>1 DEF Init, Saved, Channel!Init
<1>2. IInv /\ [Next]_vars => [Channel!Next]_Channel!vars
  BY NextImplementsChannel
<1> QED
  BY <1>1, <1>2, InductiveInvariant, PTL DEF Spec, ImplementsChannel, Channel!Spec

-----------------------------------------------------------------------------
(* The refinement of ClosingWatch. *)

\* Without a turn of the queue the step of a check is none of the watch.
LEMMA NoTurnNoStage ==
  ASSUME pc \notin {"send", "stats", "settle"}
  PROVE  WatchStage = "idle"
BY DEF WatchStage, SeesTurn

\* The stats are due when an active queue is closed.
LEMMA StatsAreATurn ==
  ASSUME IInv, pc = "stats"
  PROVE  /\ WatchStage = "writing" /\ WatchBelief = "active"
         /\ ~BelievesActive(NextState)
<1>1. state \in Settled /\ NextState = Inactive /\ state # Inactive
  BY CheckMoves DEF IInv, Progress, StatsAreDue
<1>2. BelievesActive(state)
  BY <1>1, SettledShape, InactiveByName DEF BelievesActive, ActiveNames
<1>3. ~BelievesActive(NextState)
  BY <1>1 DEF BelievesActive, ActiveNames, Inactive
<1> QED
  BY <1>2, <1>3 DEF WatchStage, WatchBelief, SeesTurn, Up

\* A status that needs no alert changes nothing.
LEMMA FetchMoves ==
  ASSUME IInv, Fetch, Pending' = Silent
  PROVE  NextState' = state'
<1>1. queue \in Statuses /\ checked' \in Readings[queue] \ {NoQueue} /\ state' = state
  BY DEF Fetch, IInv, TypeOK
<1>2. state \in Settled /\ checked' \in Queues
  BY <1>1, ReadingIsOfMonitored, CollectedIsQueue, StatusesAssumption
  DEF Fetch, IInv, Memory, BeliefIsSettled, Up
<1> DEFINE move == Handle(state, checked')
<1>3. /\ move.next \in Settled
      /\ move.alert = IF move.next = state THEN Silent ELSE Announcement(move.next)
  BY <1>2, HandleDescribes, HandleAnnounces, DescribesIsSettled
<1>4. NextState' = move.next /\ Pending' = move.alert
  BY <1>1 DEF NextState, Pending
<1> HIDE DEF move
<1> QED
  BY <1>1, <1>3, <1>4, AnnouncementIsAlert

LEMMA NextImplementsClosingWatch ==
  ASSUME IInv, [Next]_vars
  PROVE  [Watch!Next]_<<WatchBelief, WatchRecord, WatchStage, stats>>
<1>0. TypeOK /\ (Up => state \in Settled)
  BY DEF IInv, Memory, BeliefIsSettled
<1>1. CASE Start \/ StartFails
  BY <1>1, NoTurnNoStage DEF Start, StartFails, WatchBelief, WatchRecord, WatchStage, SeesTurn, Up
<1>2. CASE Restore \/ RestoreFails
  <2>1. /\ pc = "init" /\ pc' = "fetch" /\ UNCHANGED <<redis, stats>>
        /\ state' = Inactive \/ (redis # NoRecord /\ state' = StateFromPersistence(redis))
    BY <1>2, DefaultRestoresInactive DEF Restore, RestoreFails, Seed
  <2>2. /\ WatchBelief = "off" /\ WatchStage = "idle" /\ WatchStage' = "idle"
        /\ WatchRecord' = WatchRecord
    BY <2>1 DEF WatchBelief, WatchStage, WatchRecord, SeesTurn, Up
  <2>3. WatchBelief' \in {WatchRecord, "inactive"}
    BY <2>1 DEF WatchBelief, WatchRecord, Up, BelievesActive, Inactive, ActiveNames
  <2> QED
    BY <2>1, <2>2, <2>3 DEF Watch!Next, Watch!Wake
<1>3. CASE NoStatus \/ GiveUp
  <2>1. /\ pc \in {"fetch", "send"} /\ pc' = "select" /\ UNCHANGED <<state, redis, stats>>
    BY <1>3 DEF NoStatus, GiveUp, CheckEnds
  <2>2. /\ WatchStage \in {"idle", "announcing"} /\ WatchStage' = "idle"
        /\ WatchBelief' = WatchBelief /\ WatchRecord' = WatchRecord
    BY <2>1 DEF WatchBelief, WatchStage, WatchRecord, SeesTurn, Up
  <2> QED
    BY <2>1, <2>2 DEF Watch!Next, Watch!Overlook
<1>4. CASE Fetch
  <2>1. /\ pc = "fetch" /\ UNCHANGED <<state, redis, stats>> /\ Up /\ Up'
        /\ pc' = IF Pending' = Silent THEN Announced(state, NextState') ELSE "send"
    BY <1>4 DEF Fetch, Up, Announced, NextState, Pending
  <2>2. WatchBelief # "off" /\ WatchBelief' = WatchBelief /\ WatchRecord' = WatchRecord
    BY <2>1, Zenon DEF WatchBelief, WatchRecord
  <2>3. WatchStage = "idle"
    BY <2>1, NoTurnNoStage
  <2>4. WatchStage' \in {"idle", "announcing"}
    <3>1. CASE Pending' = Silent
      <4>1. NextState' = state'
        BY <1>4, <2>1, <3>1, FetchMoves
      <4> QED
        BY <4>1 DEF WatchStage, SeesTurn
    <3>2. CASE Pending' # Silent
      BY <2>1, <3>2 DEF WatchStage
    <3> QED
      BY <3>1, <3>2
  <2> QED
    BY <2>1, <2>2, <2>3, <2>4 DEF Watch!Next, Watch!Notice
<1>5. CASE AttemptConfirmed
  <2>1. /\ pc = "send" /\ pc' = Announced(state, NextState)
        /\ UNCHANGED <<state, checked, redis, stats>> /\ NextState' = NextState
    BY <1>5 DEF AttemptConfirmed, Attempt, NextState
  <2>2. state \in Settled /\ NextState \in Settled
    BY <2>1, CheckMoves
  <2>3. pc' \in {"stats", "settle"} /\ Up /\ Up'
    BY <2>1, <2>2, StatsFollowClosing DEF Up
  <2>4. WatchBelief' = WatchBelief /\ WatchRecord' = WatchRecord
    BY <2>1, <2>3, Zenon DEF WatchBelief, WatchRecord
  <2>5. SeesTurn' = SeesTurn
    BY <2>1, <2>3 DEF SeesTurn
  <2>6. CASE SeesTurn /\ BelievesActive(state)
    <3>1. WatchStage = "announcing" /\ WatchStage' \in {"writing", "written"} /\ WatchBelief = "active"
      BY <2>1, <2>3, <2>5, <2>6 DEF WatchStage, WatchBelief
    <3> QED
      BY <2>1, <2>4, <3>1 DEF Watch!Next, Watch!Announce
  <2>7. CASE ~(SeesTurn /\ BelievesActive(state))
    <3>1. WatchStage' = WatchStage
      BY <2>1, <2>5, <2>7, Zenon DEF WatchStage
    <3> QED
      BY <2>1, <2>4, <3>1
  <2> QED
    BY <2>6, <2>7
<1>6. CASE StatsSaved \/ StatsFailed
  <2>1. /\ pc = "stats" /\ pc' = "settle" /\ UNCHANGED <<state, checked, redis>>
        /\ NextState' = NextState
    BY <1>6 DEF StatsSaved, StatsFailed, process, NextState
  <2>2. WatchStage = "writing" /\ WatchBelief = "active"
    BY <2>1, StatsAreATurn
  <2>3. WatchStage' = "written" /\ WatchBelief' = WatchBelief /\ WatchRecord' = WatchRecord
    <3>1. BelievesActive(state) /\ ~BelievesActive(NextState)
      BY <2>1, <2>2, StatsAreATurn DEF WatchBelief
    <3> QED
      BY <2>1, <3>1 DEF WatchStage, WatchBelief, WatchRecord, SeesTurn, Up
  <2> QED
    BY <2>2, <2>3 DEF Watch!Next, Watch!Write
<1>7. CASE Settle
  <2>1. /\ pc = "settle" /\ pc' = "select" /\ state' = NextState /\ UNCHANGED <<redis, stats>>
        /\ Up /\ Up' /\ WatchStage' = "idle" /\ WatchRecord' = WatchRecord
    BY <1>7, NoTurnNoStage DEF Settle, CheckEnds, Up, WatchStage, SeesTurn, WatchRecord
  <2>2. CASE BelievesActive(NextState) = BelievesActive(state)
    <3>1. WatchStage = "idle" /\ WatchBelief' = WatchBelief
      BY <2>1, <2>2 DEF WatchStage, WatchBelief, SeesTurn
    <3> QED
      BY <2>1, <3>1
  <2>3. CASE BelievesActive(NextState) /\ ~BelievesActive(state)
    <3>1. WatchStage = "announcing" /\ WatchBelief = "inactive" /\ WatchBelief' = "active"
      BY <2>1, <2>3 DEF WatchStage, WatchBelief, SeesTurn
    <3> QED
      BY <2>1, <3>1 DEF Watch!Next, Watch!Open
  <2>4. CASE ~BelievesActive(NextState) /\ BelievesActive(state)
    <3>1. WatchStage = "written" /\ WatchBelief' = "inactive"
      BY <2>1, <2>4 DEF WatchStage, WatchBelief, SeesTurn
    <3> QED
      BY <2>1, <3>1 DEF Watch!Next, Watch!Close
  <2> QED
    BY <2>2, <2>3, <2>4 DEF BelievesActive
<1>8. CASE SaveState
  <2>1. /\ pc = "save" /\ pc' = "down" /\ UNCHANGED stats
        /\ redis' # NoRecord /\ StateFromPersistence(redis') = state
    BY <1>8, SaveIsRestored DEF SaveState
  <2>2. WatchStage = "idle" /\ WatchStage' = "idle" /\ WatchBelief' = "off"
    BY <2>1 DEF WatchStage, WatchBelief, SeesTurn, Up
  <2>3. WatchBelief = WatchRecord' /\ WatchBelief # "off"
    BY <2>1 DEF WatchBelief, WatchRecord, Up
  <2> QED
    BY <2>1, <2>2, <2>3 DEF Watch!Next, Watch!Stop
<1>9. CASE SaveFails \/ Crash
  <2>1. pc # "down" /\ pc' = "down" /\ UNCHANGED <<redis, stats>>
    BY <1>9 DEF SaveFails, Crash
  <2>2. WatchStage' = "idle" /\ WatchBelief' = "off" /\ WatchRecord' = WatchRecord
    BY <2>1 DEF WatchStage, WatchBelief, WatchRecord, SeesTurn, Up
  <2>3. CASE Up
    <3>1. WatchBelief # "off"
      BY <2>3 DEF WatchBelief
    <3> QED
      BY <2>1, <2>2, <3>1 DEF Watch!Next, Watch!Die
  <2>4. CASE ~Up
    <3>1. WatchBelief = "off" /\ WatchStage = "idle"
      BY <2>4 DEF WatchBelief, WatchStage, SeesTurn, Up
    <3> QED
      BY <2>1, <2>2, <3>1
  <2> QED
    BY <2>3, <2>4
<1>10. CASE Expire
  <2>1. redis' = NoRecord /\ UNCHANGED <<pc, state, checked, stats>>
    BY <1>10 DEF Expire, process
  <2>2. WatchStage' = WatchStage /\ WatchBelief' = WatchBelief /\ WatchRecord' = "inactive"
    BY <2>1 DEF WatchStage, WatchBelief, WatchRecord, SeesTurn, NextState, Up
  <2> QED
    BY <2>1, <2>2 DEF Watch!Next, Watch!Forget
<1>11. CASE \/ AttemptUnacked \/ AttemptLost \/ QueueChanges \/ Signal \/ UNCHANGED vars
  <2>1. UNCHANGED <<pc, state, checked, redis, stats>>
    BY <1>11 DEF AttemptUnacked, AttemptLost, Attempt, QueueChanges, Signal, vars, process
  <2> QED
    BY <2>1 DEF WatchStage, WatchBelief, WatchRecord, SeesTurn, NextState, Up
<1>12. CASE Tick \/ ShutdownSeen
  <2>1. /\ pc = "select" /\ pc' \in {"fetch", "save"} /\ UNCHANGED <<state, redis, stats>>
    BY <1>12 DEF Tick, ShutdownSeen, process
  <2> QED
    BY <2>1 DEF WatchStage, WatchBelief, WatchRecord, SeesTurn, Up
<1> QED
  BY <1>1, <1>2, <1>3, <1>4, <1>5, <1>6, <1>7, <1>8, <1>9, <1>10, <1>11, <1>12
  DEF Next, Post, Quiet, QuietCheck, Environment

\* The monitor writes the stats by the rules of the closing: once, between
\* the alert and the moment its belief moves.
THEOREM TheRulesOfTheClosing == Spec => ImplementsClosingWatch
<1>1. Init => Watch!Init
  <2> SUFFICES ASSUME Init PROVE Watch!Init
    OBVIOUS
  <2>1. WatchBelief = "off" /\ WatchStage = "idle" /\ WatchRecord \in {"active", "inactive"}
    BY DEF Init, WatchBelief, WatchStage, WatchRecord, SeesTurn, Up
  <2> QED
    BY <2>1 DEF Watch!Init
<1>2. IInv /\ [Next]_vars => [Watch!Next]_<<WatchBelief, WatchRecord, WatchStage, stats>>
  BY NextImplementsClosingWatch
<1> QED
  BY <1>1, <1>2, InductiveInvariant, PTL
  DEF Spec, ImplementsClosingWatch, Watch!Spec, Watch!vars
-----------------------------------------------------------------------------
(* Checks come to an end. *)

\* A step is one of the outside or brings the check in progress forward.
LEMMA CheckGoesForward ==
  ASSUME TypeOK, Next, StepsLeft > 0
  PROVE  StepsLeft' < StepsLeft \/ (UNCHANGED StepsLeft /\ Environment)
<1> USE MaxAttemptsAssumption DEF StepsLeft, TypeOK
<1>1. pc \in {"fetch", "send", "stats", "settle"}
  OBVIOUS
<1>2. CASE NoStatus \/ GiveUp \/ Settle
  <2>1. pc' = "select" /\ StepsLeft' = 0
    BY <1>2 DEF NoStatus, GiveUp, Settle, CheckEnds
  <2> QED
    BY <2>1
<1>3. CASE Fetch
  <2>1. pc = "fetch" /\ pc' \in {"stats", "settle", "send"} /\ attempts' = attempts
    BY <1>3 DEF Fetch, Announced
  <2> QED
    BY <2>1
<1>4. CASE AttemptConfirmed
  <2>1. pc = "send" /\ pc' \in {"stats", "settle"} /\ attempts < MaxAttempts
    BY <1>4 DEF AttemptConfirmed, Attempt, Announced
  <2> QED
    BY <2>1
<1>5. CASE AttemptUnacked \/ AttemptLost
  <2>1. pc = "send" /\ pc' = "send" /\ attempts' = attempts + 1
    BY <1>5 DEF AttemptUnacked, AttemptLost, Attempt
  <2> QED
    BY <2>1
<1>6. CASE StatsSaved \/ StatsFailed
  BY <1>6 DEF StatsSaved, StatsFailed
<1>7. CASE Start \/ StartFails \/ Restore \/ RestoreFails \/ Tick \/ ShutdownSeen \/ SaveState \/ SaveFails
  BY <1>1, <1>7 DEF Start, StartFails, Restore, RestoreFails, Tick, ShutdownSeen, SaveState, SaveFails
<1>8. CASE QueueChanges \/ Signal \/ Expire
  BY <1>8 DEF QueueChanges, Signal, Expire, Environment, process
<1>9. CASE Crash
  BY <1>1, <1>9 DEF Crash
<1> QED
  BY <1>2, <1>3, <1>4, <1>5, <1>6, <1>7, <1>8, <1>9 DEF Next, Post, Quiet, QuietCheck, Environment

\* Whatever DUW, Telegram and PostgreSQL answer, a check is over after
\* MaxAttempts + 3 of its own steps (CheckAndProcessStatus).
THEOREM EveryCheckEnds == Spec => ChecksAreFinite
<1>1. TypeOK /\ [Next]_vars =>
        [StepsLeft > 0 => StepsLeft' < StepsLeft \/ (UNCHANGED StepsLeft /\ Environment)]_vars
  BY CheckGoesForward
<1> QED
  BY <1>1, TypeCorrectness, PTL DEF Spec, ChecksAreFinite
-----------------------------------------------------------------------------
(* A healed monitor. *)

\* A check ends with the state that describes what it has fetched.
LEMMA SettleHeals ==
  ASSUME IInv, Settle, checked = Collected(queue)
  PROVE  Healed'
BY CheckMoves DEF Settle, CheckEnds, Healed, Up

\* A poll of a queue that is described already finds nothing to say.
LEMMA FetchStaysHealed ==
  ASSUME IInv, Healed, Fetch
  PROVE  Healed' /\ pc' # "send"
<1>1. /\ queue \in Statuses /\ checked' \in Readings[queue] \ {NoQueue}
      /\ UNCHANGED <<queue, state>>
  BY DEF Fetch, IInv, TypeOK
<1>2. checked' = Collected(queue) /\ state = Describes(checked')
  BY <1>1, ReadingIsOfMonitored DEF Healed
<1>3. state \in Settled /\ checked' \in Queues
  BY <1>1, <1>2, CollectedIsQueue, StatusesAssumption
  DEF Fetch, IInv, Memory, BeliefIsSettled, Up
<1>4. Handle(state, checked').alert = Silent
  BY <1>2, <1>3, HandleAnnounces
<1>5. pc' \in {"stats", "settle"}
  BY <1>4 DEF Fetch, Announced
<1> QED
  BY <1>1, <1>2, <1>5 DEF Healed, Up

LEMMA StaysHealed ==
  ASSUME IInv, Healed, Next, queue' = queue, Up'
  PROVE  Healed' /\ pc' # "send"
<1>0. pc # "send"
  BY CheckMoves DEF Healed, IInv, Progress, SendHasAlert
<1>1. CASE Settle
  <2>1. checked = Collected(queue) /\ pc' = "select"
    BY <1>1 DEF Settle, CheckEnds, Healed
  <2> QED
    BY <1>1, <2>1, SettleHeals
<1>2. CASE Fetch
  BY <1>2, FetchStaysHealed
<1>3. CASE NoStatus
  BY <1>3 DEF NoStatus, CheckEnds, Healed, Up
<1>4. CASE Post \/ AttemptLost \/ GiveUp
  BY <1>0, <1>4 DEF Post, AttemptConfirmed, AttemptUnacked, AttemptLost, Attempt, GiveUp
<1>5. CASE StatsSaved \/ StatsFailed
  BY <1>5 DEF StatsSaved, StatsFailed, Healed, process, Up
<1>6. CASE Start \/ StartFails \/ Restore \/ RestoreFails
  BY <1>6 DEF Start, StartFails, Restore, RestoreFails, Healed, Up
<1>7. CASE Tick \/ ShutdownSeen
  BY <1>7 DEF Tick, ShutdownSeen, Healed, process, Up
<1>8. CASE SaveState \/ SaveFails \/ Crash
  BY <1>8 DEF SaveState, SaveFails, Crash, Up
<1>9. CASE QueueChanges \/ Signal \/ Expire
  BY <1>0, <1>9 DEF QueueChanges, Signal, Expire, Healed, process, Up
<1> QED
  BY <1>1, <1>2, <1>3, <1>4, <1>5, <1>6, <1>7, <1>8, <1>9 DEF Next, Quiet, QuietCheck, Environment

\* Once a check has seen the queue as it is, the monitor describes it and is
\* silent until DUW changes or the process ends (CheckAndProcessStatus).
THEOREM HealedAndQuiet == Spec => QuietOnceHealed
<1> DEFINE Step ==
      /\ pc = "settle" /\ pc' = "select" /\ checked = Collected(queue) => Healed'
      /\ Healed /\ queue' = queue /\ Up' => Healed' /\ pc' # "send"
<1>1. ASSUME IInv, Next PROVE Step
  <2>1. ASSUME pc = "settle", pc' = "select" PROVE Settle
    BY <1>1, <2>1 DEF Next, Post, Quiet, QuietCheck, Environment, process, Start, StartFails,
       Restore, RestoreFails, Seed, NoStatus, Fetch, AttemptConfirmed, AttemptUnacked, AttemptLost,
       Attempt, GiveUp, StatsSaved, StatsFailed, Tick, ShutdownSeen, SaveState, SaveFails,
       QueueChanges, Signal, Crash, Expire
  <2> QED
    BY <1>1, <2>1, SettleHeals, StaysHealed
<1>2. IInv /\ [Next]_vars => [Step]_vars
  BY <1>1
<1> QED
  BY <1>2, InductiveInvariant, PTL DEF Spec, QuietOnceHealed
=============================================================================
