----------------------------- MODULE MCRetryLoop -----------------------------
(***************************************************************************)
(* The two clients with their default settings, for TLC.  One unit of time *)
(* is half a second.                                                       *)
(***************************************************************************)
EXTENDS RetryLoop

Notifier ==
  [maxAttempts |-> 5, delay |-> 1, budget |-> 10, clientTimeout |-> 10,
   requestCarriesBudget |-> TRUE]

StatusCollector ==
  [maxAttempts |-> 3, delay |-> 1, budget |-> 8, clientTimeout |-> 10,
   requestCarriesBudget |-> FALSE]

MCClients == {Notifier, StatusCollector}
=============================================================================
