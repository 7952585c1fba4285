----------------------------- MODULE RetryLoop -----------------------------
(***************************************************************************)
(* One call through the retry library, with its clock: SendMessage of the  *)
(* Telegram notifier and getStatusWithRetries of the status collector.     *)
(* Both make a number of attempts with a fixed delay between them under a  *)
(* time budget, and differ in what the budget reaches.  The notifier       *)
(* builds every request with the context that carries the budget.  The     *)
(* collector is handed a request built with the caller's context, so that  *)
(* its budget ends the delays and never an attempt, which only the timeout *)
(* of the HTTP client bounds.                                              *)
(*                                                                         *)
(* Time is discrete, counted from the call.  A time that is up is acted on *)
(* before the clock moves on.                                              *)
(***************************************************************************)
EXTENDS Integers

CONSTANT Clients  \* the settings a call may be made with

\* attempts of a call; between two of them; of the whole call; of one HTTP
\* request; whether the request is built with the context of the budget.
\* The configuration would also take 0 attempts, for which retry-go tries
\* without a limit; such a call is left out.
Settings == [maxAttempts: Nat \ {0}, delay: Nat, budget: Nat,
             clientTimeout: Nat, requestCarriesBudget: BOOLEAN]

ASSUME ClientsAssumption == Clients \subseteq Settings

VARIABLES
  client,     \* the settings of this call
  phase,      \* where the call is
  now,        \* time since the call
  since,      \* when the current attempt or delay began
  failures,   \* failed attempts
  served,     \* attempts the server acted on: messages posted, statuses sent
  cancelled   \* the caller's context is cancelled

MaxAttempts == client.maxAttempts
Delay == client.delay
Budget == client.budget
ClientTimeout == client.clientTimeout
RequestCarriesBudget == client.requestCarriesBudget

vars == <<client, phase, now, since, failures, served, cancelled>>

Phases == {"called", "trying", "waiting", "ok", "failed"}

Init ==
  /\ client \in Clients
  /\ phase = "called"
  /\ now = 0 /\ since = 0
  /\ failures = 0 /\ served = 0
  /\ cancelled \in BOOLEAN

Earlier(a, b) == IF a < b THEN a ELSE b

\* Mutants: a request without the budget, and one without any timeout of
\* its own once the client's timeout is forgotten.
AttemptDeadlineOfClient == since + ClientTimeout
AttemptDeadlineDoubled == since + 2 * ClientTimeout

\* When a request that is still running is given up.
AttemptDeadline ==
  IF RequestCarriesBudget THEN Earlier(since + ClientTimeout, Budget)
  ELSE since + ClientTimeout

DelayDeadline == Earlier(since + Delay, Budget)

\* The library looks at the context before the first attempt.
Begin ==
  /\ phase = "called"
  /\ phase' = IF cancelled \/ Budget = 0 THEN "failed" ELSE "trying"
  /\ UNCHANGED <<client, now, since, failures, served, cancelled>>

\* A confirmation that arrives in time.
Succeed ==
  /\ phase = "trying"
  /\ ~cancelled
  /\ now < AttemptDeadline
  /\ phase' = "ok"
  /\ served' = served + 1
  /\ UNCHANGED <<client, now, since, failures, cancelled>>

\* Mutants: one attempt too many, and one too few.
AfterFailureOneMore == IF failures = MaxAttempts THEN "failed" ELSE "waiting"
AfterFailureOneLess == IF failures + 2 >= MaxAttempts THEN "failed" ELSE "waiting"

AfterFailure == IF failures + 1 = MaxAttempts THEN "failed" ELSE "waiting"

\* An error status, a broken connection, a timeout or the cancellation.  If
\* the request got out at all, the server may have done its part.
Fail ==
  /\ phase = "trying"
  /\ failures' = failures + 1
  /\ \/ served' = served
     \/ since < AttemptDeadline /\ served' = served + 1
  /\ phase' = AfterFailure
  /\ since' = now
  /\ UNCHANGED <<client, now, cancelled>>

\* The delay is over.  At the last moment of the budget, select may still
\* prefer the timer.
Again ==
  /\ phase = "waiting"
  /\ now = since + Delay
  /\ phase' = "trying"
  /\ since' = now
  /\ UNCHANGED <<client, now, failures, served, cancelled>>

\* A mutant: only the budget ends the delay.
LapseIgnoringCancel ==
  /\ phase = "waiting"
  /\ now >= Budget
  /\ phase' = "failed"
  /\ UNCHANGED <<client, now, since, failures, served, cancelled>>

\* The context is done during the delay.
Lapse ==
  /\ phase = "waiting"
  /\ cancelled \/ now >= Budget
  /\ phase' = "failed"
  /\ UNCHANGED <<client, now, since, failures, served, cancelled>>

Cancel ==
  /\ ~cancelled
  /\ phase \in {"called", "trying", "waiting"}
  /\ cancelled' = TRUE
  /\ UNCHANGED <<client, phase, now, since, failures, served>>

Advance ==
  /\ ~cancelled
  /\ \/ phase = "trying" /\ now < AttemptDeadline
     \/ phase = "waiting" /\ now < DelayDeadline
  /\ now' = now + 1
  /\ UNCHANGED <<client, phase, since, failures, served, cancelled>>

Next == Begin \/ Succeed \/ Fail \/ Again \/ Lapse \/ Cancel \/ Advance

Spec == Init /\ [][Next]_vars

\* The clock runs, and the goroutine does what is due.
FairSpec == Spec /\ WF_vars(Advance) /\ WF_vars(Begin \/ Fail \/ Again \/ Lapse)

-----------------------------------------------------------------------------
\* Every variable has its type.
TypeOK ==
  /\ client \in Clients
  /\ phase \in Phases
  /\ now \in Nat /\ since \in 0 .. now
  /\ failures \in 0 .. MaxAttempts
  /\ served \in 0 .. failures + 1
  /\ cancelled \in BOOLEAN

\* The budget bounds the whole call, the requests that are under way when it
\* is spent included, where the requests carry it.
WithinBudget == RequestCarriesBudget => now <= Budget

\* What bounds a call whose requests do not carry the budget: an attempt
\* that begins in the last moment of the budget still has the time of the
\* HTTP client.
WithinBudgetAndRequest == now <= Budget + ClientTimeout

\* A call fails only with the attempts used up, the budget spent or the
\* context cancelled; it never fails early.
FailsForAReason ==
  phase = "failed" => failures = MaxAttempts \/ now >= Budget \/ cancelled

\* A call never makes more than MaxAttempts attempts, so that one alert is
\* posted at most that many times, the confirmed one included.
PostsAreBounded == served <= MaxAttempts

\* Every call ends, though the server never answers.
CallEnds == <>(phase \in {"ok", "failed"})

\* Without its clock a call is the one that the notifier's callers rely on
\* (SendCall).
Call == INSTANCE SendCall WITH
  limit    <- MaxAttempts,
  outcome  <- IF phase \in {"ok", "failed"} THEN phase ELSE "open",
  attempts <- failures,
  posts    <- served

ImplementsSendCall == Call!Spec

(***************************************************************************)
(* What the repository says of the program and the program does not do.    *)
(***************************************************************************)

\* Both budgets bound the whole loop and not an attempt
\* (docs/agents/map/09-reliability.md:32).
BudgetBoundsLoop == now <= Budget
=============================================================================
