------------------------------ MODULE SendCall ------------------------------
(***************************************************************************)
(* What a caller of the notifier can rely on, whatever the times are: a    *)
(* call makes at most limit attempts.  Each is confirmed, which ends the   *)
(* call, or fails, and may have posted its message all the same.  A call   *)
(* that fails has made an attempt, unless its context was cancelled.       *)
(*                                                                         *)
(* QueueMonitor, StatsReports and TelegramBot take the steps of their      *)
(* sends from here.                                                        *)
(***************************************************************************)
EXTENDS Integers

VARIABLES limit, outcome, attempts, posts, cancelled

vars == <<limit, outcome, attempts, posts, cancelled>>

Init ==
  /\ limit \in Nat \ {0}
  /\ outcome = "open"
  /\ attempts = 0 /\ posts = 0
  /\ cancelled \in BOOLEAN

AttemptConfirmed ==
  /\ outcome = "open" /\ ~cancelled
  /\ attempts < limit
  /\ outcome' = "ok" /\ posts' = posts + 1
  /\ UNCHANGED <<limit, attempts, cancelled>>

\* The last attempt may end the call in the same step.
AttemptFails ==
  /\ outcome = "open"
  /\ attempts < limit
  /\ attempts' = attempts + 1 /\ posts' \in {posts, posts + 1}
  /\ outcome' \in {"open", "failed"}
  /\ UNCHANGED <<limit, cancelled>>

GiveUp ==
  /\ outcome = "open"
  /\ cancelled \/ attempts > 0
  /\ outcome' = "failed"
  /\ UNCHANGED <<limit, attempts, posts, cancelled>>

Cancel ==
  /\ outcome = "open" /\ ~cancelled
  /\ cancelled' = TRUE
  /\ UNCHANGED <<limit, outcome, attempts, posts>>

Next == AttemptConfirmed \/ AttemptFails \/ GiveUp \/ Cancel

Spec == Init /\ [][Next]_vars
=============================================================================
