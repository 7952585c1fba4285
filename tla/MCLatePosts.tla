---------------------------- MODULE MCLatePosts ----------------------------
(***************************************************************************)
(* A small instance of LatePosts for TLC.                                  *)
(***************************************************************************)
EXTENDS LatePosts, MCQueueMonitor

MCLateTickets == {1}

\* As MCStatuses, with one number of tickets.
MCLateStatuses ==
  {Status(FALSE, TRUE, 1), Status(TRUE, FALSE, 1), Status(TRUE, TRUE, 1)}
=============================================================================
