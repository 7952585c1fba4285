--------------------------- MODULE LatePostsProofs ---------------------------
(***************************************************************************)
(* Theorems about LatePosts: a late network does to the subscribers what   *)
(* an alert out of turn does, and nothing else.                            *)
(***************************************************************************)
EXTENDS LatePosts, QueueMonitorProofs

\* The network adds to the monitor, and takes nothing away: every behaviour
\* over it is one of QueueMonitor (telegram.go does not see what is late).
THEOREM LateIsMonitor == LateSpec => Spec
<1>1. LateInit => Init
  BY DEF LateInit
<1>2. [LateNext]_lateVars => [Next]_vars
  BY DEF LateNext, InOrder, Delayed, Deliver, Drop, lateVars, Next, Quiet, QuietCheck
<1> QED
  BY <1>1, <1>2, PTL DEF LateSpec, Spec

\* Only a post changes the last alert that was posted in order.
LEMMA QuietPostsNothing == Quiet => posted' = posted
BY DEF Quiet, QuietCheck, Environment, process, Start, StartFails, Restore, RestoreFails, Seed,
       NoStatus, Fetch, AttemptLost, GiveUp, StatsSaved, StatsFailed, Settle,
       Tick, ShutdownSeen, SaveState, SaveFails, QueueChanges, Signal, Crash, Expire

\* Until an alert comes out of turn the subscribers see what was posted last.
InTurn == ~overtaken => shown = posted

LEMMA InTurnHolds == LateSpec => []InTurn
<1>1. LateInit => InTurn
  BY DEF LateInit, InTurn
<1>2. InTurn /\ [LateNext]_lateVars => InTurn'
  <2> SUFFICES ASSUME InTurn, [LateNext]_lateVars PROVE InTurn'
    OBVIOUS
  <2>1. CASE InOrder
    BY <2>1 DEF InOrder, InTurn
  <2>2. CASE Delayed
    BY <2>2 DEF Delayed, AttemptLost, InTurn
  <2>3. CASE Deliver
    BY <2>3 DEF Deliver, InTurn
  <2>4. CASE Drop
    BY <2>4 DEF Drop, vars, InTurn
  <2>5. CASE Quiet /\ UNCHANGED network
    BY <2>5, QuietPostsNothing DEF network, InTurn
  <2>6. CASE UNCHANGED lateVars
    BY <2>6 DEF lateVars, network, vars, InTurn
  <2> QED
    BY <2>1, <2>2, <2>3, <2>4, <2>5, <2>6 DEF LateNext
<1> QED
  BY <1>1, <1>2, PTL DEF LateSpec

-----------------------------------------------------------------------------
\* Every variable keeps its type.
THEOREM LateTypeCorrectness == LateSpec => []LateTypeOK
<1> DEFINE NetworkTyped ==
      /\ late \in [Requests -> Alerts \cup {Silent}]
      /\ shown \in Alerts \cup {Silent}
      /\ overtaken \in BOOLEAN
<1>1. LateInit /\ TypeOK => NetworkTyped
  <2> SUFFICES ASSUME LateInit, TypeOK PROVE NetworkTyped
    OBVIOUS
  <2>1. overtaken \in BOOLEAN
    BY Zenon DEF LateInit
  <2> QED
    BY <2>1 DEF LateInit, TypeOK
<1>2. IInv /\ TypeOK' /\ NetworkTyped /\ [LateNext]_lateVars => NetworkTyped'
  <2> SUFFICES ASSUME IInv, TypeOK', NetworkTyped, [LateNext]_lateVars PROVE NetworkTyped'
    OBVIOUS
  <2>1. CASE InOrder
    <3>1. overtaken' \in BOOLEAN
      BY <2>1, Zenon DEF InOrder
    <3> QED
      BY <2>1, <3>1 DEF InOrder, TypeOK
  <2>2. CASE Delayed
    <3>1. overtaken' \in BOOLEAN
      BY <2>2, Zenon DEF Delayed
    <3>2. Pending \in Alerts \cup {Silent}
      BY <2>2, CheckMoves, AnnouncementIsAlert DEF Delayed, AttemptLost, Attempt, States
    <3> QED
      BY <2>2, <3>1, <3>2 DEF Delayed
  <2>3. CASE Deliver
    <3>1. overtaken' \in BOOLEAN
      BY <2>3, Zenon DEF Deliver
    <3> QED
      BY <2>3, <3>1 DEF Deliver
  <2>4. CASE Drop
    <3>1. overtaken' \in BOOLEAN
      BY <2>4, Zenon DEF Drop
    <3> QED
      BY <2>4, <3>1 DEF Drop
  <2>5. CASE UNCHANGED network
    <3>1. overtaken' \in BOOLEAN
      BY <2>5, Zenon DEF network
    <3> QED
      BY <2>5, <3>1 DEF network
  <2> QED
    BY <2>1, <2>2, <2>3, <2>4, <2>5 DEF LateNext, lateVars
<1>3. TypeOK /\ NetworkTyped => LateTypeOK
  BY Zenon DEF LateTypeOK
<1> QED
  BY <1>1, <1>2, <1>3, LateIsMonitor, InductiveInvariant, TypeCorrectness, PTL DEF LateSpec

\* Whatever is under way late, between checks the subscribers see what the
\* monitor believes, unless a fault or an alert out of turn came after the
\* last one that was confirmed.
THEOREM SubscribersSeeBelief == LateSpec => []ChannelShowsBeliefLate
<1>1. ChannelMatchesBelief /\ InTurn => ChannelShowsBeliefLate
  BY DEF ChannelMatchesBelief, InTurn, ChannelShowsBeliefLate
<1> QED
  BY <1>1, InTurnHolds, LateIsMonitor, ChannelShowsBelief, PTL

\* Nor do they read an alert twice in a row.
THEOREM SubscribersReadOnce == LateSpec => []NoRepeatWithoutLatePost
<1>1. NoRepeatWithoutFault /\ InTurn => NoRepeatWithoutLatePost
  BY DEF NoRepeatWithoutFault, InTurn, NoRepeatWithoutLatePost
<1> QED
  BY <1>1, InTurnHolds, LateIsMonitor, RepeatsNeedAFault, PTL

\* What is promised of the monitor's own steps does not depend on a punctual
\* network: the order of alert and state, the record, the stats, and that a
\* check ends (monitor.go, runner.go).
THEOREM LatePostsBreakNoContract ==
  LateSpec => /\ ImplementsChannel /\ ImplementsClosingWatch
              /\ AdvanceIsAnnounced /\ SaveKeepsState /\ ChecksAreFinite
BY LateIsMonitor, Refinement, TheRulesOfTheClosing, AdvanceNeedsThePost, SaveRestores,
   EveryCheckEnds
=============================================================================
