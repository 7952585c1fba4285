--------------------------- MODULE MCQueueMonitor ---------------------------
(***************************************************************************)
(* Small instances of QueueMonitor for TLC.                                *)
(***************************************************************************)
EXTENDS QueueMonitorInductive

Status(active, enabled, n) == [active |-> active, enabled |-> enabled, ticketsLeft |-> n]

MCTickets == {-1, 1}

\* Closed, though still claiming to be bookable; open without tickets,
\* though still counting one; open with one ticket; open with, as DUW
\* sometimes says, minus one.
MCStatuses ==
  {Status(FALSE, TRUE, 1), Status(TRUE, FALSE, 1),
   Status(TRUE, TRUE, 1), Status(TRUE, TRUE, -1)}
=============================================================================
