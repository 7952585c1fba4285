-------------------------- MODULE RetryLoopProofs --------------------------
(***************************************************************************)
(* Theorems about RetryLoop, for every number of attempts and all times.   *)
(* The settings of a call are records; the proofs speak of their fields,   *)
(* which ClientIsSet gives the types of.                                   *)
(***************************************************************************)
EXTENDS RetryLoop, TLAPS

LEMMA ClientIsSet ==
  ASSUME client \in Clients
  PROVE  /\ MaxAttempts \in Nat \ {0}
         /\ Delay \in Nat
         /\ Budget \in Nat
         /\ ClientTimeout \in Nat
BY ClientsAssumption DEF Settings, MaxAttempts, Delay, Budget, ClientTimeout

\* A call keeps the settings it was made with.
LEMMA ClientStays ==
  ASSUME [Next]_vars
  PROVE  /\ client' = client
         /\ MaxAttempts' = MaxAttempts
         /\ Delay' = Delay
         /\ Budget' = Budget
         /\ ClientTimeout' = ClientTimeout
         /\ RequestCarriesBudget' = RequestCarriesBudget
<1>1. client' = client
  BY DEF Next, vars, Begin, Succeed, Fail, Again, Lapse, Cancel, Advance
<1> QED
  BY <1>1 DEF MaxAttempts, Delay, Budget, ClientTimeout, RequestCarriesBudget

\* Until a call ends, fewer attempts have failed than it may make; the
\* server acts on a failed attempt at most once; a delay follows a failure.
AttemptsCounted ==
  /\ phase = "waiting" => failures > 0
  /\ phase \notin {"failed"} => failures < MaxAttempts
  /\ phase # "ok" => served <= failures
  /\ served <= failures + 1

\* No attempt begins after the budget is spent.  (With no delay between the
\* attempts, select may prefer the timer again and again.)
TimesKept ==
  /\ phase = "called" => now = 0
  /\ phase = "trying" => now <= since + ClientTimeout
  /\ phase = "trying" /\ Delay > 0 => since <= Budget
  /\ phase = "waiting" => now = since \/ now <= Budget

RInv == TypeOK /\ AttemptsCounted /\ TimesKept

LEMMA InitEstablishesRInv == Init => RInv
<1> SUFFICES ASSUME Init PROVE RInv
  OBVIOUS
<1>1. cancelled \in BOOLEAN
  BY Zenon DEF Init
<1> QED
  BY <1>1, ClientIsSet DEF Init, RInv, TypeOK, Phases, AttemptsCounted, TimesKept

LEMMA NextKeepsRInv == RInv /\ [Next]_vars => RInv'
<1> SUFFICES ASSUME RInv, [Next]_vars PROVE RInv'
  OBVIOUS
<1> USE ClientIsSet, ClientStays DEF RInv, TypeOK, Phases, AttemptsCounted, TimesKept
<1>1. CASE Begin
  BY <1>1 DEF Begin
<1>2. CASE Succeed
  BY <1>2 DEF Succeed
<1>3. CASE Fail
  BY <1>3 DEF Fail, AfterFailure
<1>4. CASE Again
  BY <1>4 DEF Again
<1>5. CASE Lapse
  BY <1>5 DEF Lapse
<1>6. CASE Cancel
  <2>1. cancelled' \in BOOLEAN
    BY <1>6, Zenon DEF Cancel
  <2> QED
    BY <1>6, <2>1 DEF Cancel
<1>7. CASE Advance
  BY <1>7 DEF Advance, AttemptDeadline, DelayDeadline, Earlier
<1>8. CASE UNCHANGED vars
  BY <1>8 DEF vars
<1> QED
  BY <1>1, <1>2, <1>3, <1>4, <1>5, <1>6, <1>7, <1>8 DEF Next

LEMMA RInvHolds == Spec => []RInv
BY InitEstablishesRInv, NextKeepsRInv, PTL DEF Spec

\* Every variable keeps its type, whatever the numbers.
THEOREM RetryTypeCorrectness == Spec => []TypeOK
<1>1. RInv => TypeOK
  BY DEF RInv
<1> QED
  BY <1>1, RInvHolds, PTL

\* A notification takes no longer than its budget: every request and every
\* delay ends with it.
THEOREM BudgetBoundsCall == Spec => []WithinBudget
<1>1. Init => WithinBudget
  BY ClientIsSet DEF Init, WithinBudget
<1>2. RInv /\ WithinBudget /\ [Next]_vars => WithinBudget'
  <2> SUFFICES ASSUME RInv, WithinBudget, [Next]_vars PROVE WithinBudget'
    OBVIOUS
  <2>1. CASE Advance
    <3>1. RequestCarriesBudget => now' <= Budget
      BY <2>1, ClientIsSet
      DEF Advance, AttemptDeadline, DelayDeadline, Earlier, RInv, TypeOK, WithinBudget
    <3> QED
      BY <3>1, ClientStays DEF WithinBudget
  <2>2. CASE now' = now
    BY <2>2, ClientStays DEF WithinBudget
  <2> QED
    BY <2>1, <2>2 DEF Next, Begin, Succeed, Fail, Again, Lapse, Cancel, vars
<1> QED
  BY <1>1, <1>2, RInvHolds, PTL DEF Spec

\* A poll of DUW may outlast its budget by one request, and by no more.
THEOREM BudgetAndRequestBoundCall ==
  ASSUME \A c \in Clients : c.delay > 0
  PROVE  Spec => []WithinBudgetAndRequest
<1>1. Init => WithinBudgetAndRequest
  BY ClientIsSet DEF Init, WithinBudgetAndRequest
<1>2. RInv /\ WithinBudgetAndRequest /\ [Next]_vars => WithinBudgetAndRequest'
  <2> SUFFICES ASSUME RInv, WithinBudgetAndRequest, [Next]_vars PROVE WithinBudgetAndRequest'
    OBVIOUS
  <2>1. CASE Advance
    <3>1. Delay > 0
      BY DEF RInv, TypeOK, Delay
    <3>2. now' <= Budget + ClientTimeout
      BY <2>1, <3>1, ClientIsSet
      DEF Advance, AttemptDeadline, DelayDeadline, Earlier, RInv, TypeOK, TimesKept,
          WithinBudgetAndRequest
    <3> QED
      BY <3>2, ClientStays DEF WithinBudgetAndRequest
  <2>2. CASE now' = now
    BY <2>2, ClientStays DEF WithinBudgetAndRequest
  <2> QED
    BY <2>1, <2>2 DEF Next, Begin, Succeed, Fail, Again, Lapse, Cancel, vars
<1> QED
  BY <1>1, <1>2, RInvHolds, PTL DEF Spec

\* One call posts its message at most as often as it may make attempts.
THEOREM CallPostsAreBounded == Spec => []PostsAreBounded
<1>1. RInv => PostsAreBounded
  BY ClientIsSet DEF RInv, TypeOK, AttemptsCounted, PostsAreBounded, Phases
<1> QED
  BY <1>1, RInvHolds, PTL

\* A call does not give up while attempts, time and context are left.
THEOREM GivingUpHasAReason == Spec => []FailsForAReason
<1>1. Init => FailsForAReason
  BY DEF Init, FailsForAReason
<1>2. RInv /\ FailsForAReason /\ [Next]_vars => FailsForAReason'
  <2> SUFFICES ASSUME RInv, FailsForAReason, [Next]_vars, phase' = "failed"
               PROVE  failures' = MaxAttempts \/ now' >= Budget \/ cancelled'
    BY ClientStays DEF FailsForAReason
  <2>1. CASE Begin
    BY <2>1, ClientIsSet DEF Begin, RInv, TypeOK, TimesKept
  <2>2. CASE Fail
    BY <2>2 DEF Fail, AfterFailure
  <2>3. CASE Lapse
    BY <2>3 DEF Lapse
  <2>4. CASE Succeed \/ Again \/ Cancel \/ Advance \/ UNCHANGED vars
    BY <2>4 DEF Succeed, Again, Cancel, Advance, vars, FailsForAReason
  <2> QED
    BY <2>1, <2>2, <2>3, <2>4 DEF Next
<1> QED
  BY <1>1, <1>2, RInvHolds, PTL DEF Spec

-----------------------------------------------------------------------------
(* The call without its clock. *)

LEMMA StepOfSendCall ==
  ASSUME RInv, Budget > 0, [Next]_vars
  PROVE  [Call!Next]_Call!vars
<1> USE ClientIsSet, ClientStays DEF Call!vars, Call!Next
<1>1. CASE Begin
  <2>1. CASE cancelled
    BY <1>1, <2>1 DEF Begin, Call!GiveUp, RInv, TypeOK
  <2>2. CASE ~cancelled
    BY <1>1, <2>2 DEF Begin, RInv, TypeOK
  <2> QED
    BY <2>1, <2>2
<1>2. CASE Succeed
  BY <1>2 DEF Succeed, Call!AttemptConfirmed, RInv, AttemptsCounted
<1>3. CASE Fail
  BY <1>3 DEF Fail, AfterFailure, Call!AttemptFails, RInv, TypeOK, AttemptsCounted
<1>4. CASE Again
  BY <1>4 DEF Again
<1>5. CASE Lapse
  BY <1>5 DEF Lapse, Call!GiveUp, RInv, AttemptsCounted
<1>6. CASE Cancel
  BY <1>6 DEF Cancel, Call!Cancel
<1>7. CASE Advance
  BY <1>7 DEF Advance
<1>8. CASE UNCHANGED vars
  BY <1>8 DEF vars
<1> QED
  BY <1>1, <1>2, <1>3, <1>4, <1>5, <1>6, <1>7, <1>8 DEF Next

\* Whatever the times are, a call does what SendCall says.
THEOREM CallIsSendCall ==
  ASSUME \A c \in Clients : c.budget > 0
  PROVE  Spec => ImplementsSendCall
<1>1. Init => Call!Init
  <2> SUFFICES ASSUME Init PROVE Call!Init
    OBVIOUS
  <2>1. cancelled \in BOOLEAN
    BY Zenon DEF Init
  <2> QED
    BY <2>1, ClientIsSet DEF Init, Call!Init
<1>2. RInv => Budget > 0
  BY DEF RInv, TypeOK, Budget
<1>3. RInv /\ [Next]_vars => [Call!Next]_Call!vars
  BY <1>2, StepOfSendCall
<1> QED
  BY <1>1, <1>3, RInvHolds, PTL DEF Spec, ImplementsSendCall, Call!Spec
=============================================================================
