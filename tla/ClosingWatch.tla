----------------------------- MODULE ClosingWatch -----------------------------
(***************************************************************************)
(* How the monitor comes to write the daily stats, with alerts, tickets    *)
(* and the clock left out.  QueueMonitor, which has the steps of a check,  *)
(* and DailyStats, which has the days, both implement this.                *)
(*                                                                         *)
(*   - The belief moves only by an announcement, or by a restart, which    *)
(*     brings back the record or a closed queue.                           *)
(*   - The rows change at most once per closing, after it is announced and *)
(*     before the belief has moved; what ends the process in between may   *)
(*     leave the row, and only an orderly end remembers the closing.       *)
(***************************************************************************)
VARIABLES
  belief,   \* of a process that is up: "active" or "inactive"; else "off"
  record,   \* what the next process will believe: "active" or "inactive"
  stage,    \* of a check that has seen the queue open or close, or "idle"
  rows      \* the table, whatever it holds

vars == <<belief, record, stage, rows>>

Init ==
  /\ belief \in {"off", "inactive"}
  /\ record \in {"active", "inactive"}
  /\ stage = "idle"

Wake ==
  /\ belief = "off"
  /\ belief' \in {record, "inactive"}
  /\ UNCHANGED <<record, stage, rows>>

-----------------------------------------------------------------------------
Notice ==
  /\ belief # "off" /\ stage = "idle"
  /\ stage' = "announcing"
  /\ UNCHANGED <<belief, record, rows>>

\* The announcement fails: nothing has been seen.
Overlook ==
  /\ stage = "announcing"
  /\ stage' = "idle"
  /\ UNCHANGED <<belief, record, rows>>

Open ==
  /\ stage = "announcing" /\ belief = "inactive"
  /\ belief' = "active"
  /\ stage' = "idle"
  /\ UNCHANGED <<record, rows>>

\* A closing is announced; without daily stats there is nothing to write.
Announce ==
  /\ stage = "announcing" /\ belief = "active"
  /\ stage' \in {"writing", "written"}
  /\ UNCHANGED <<belief, record, rows>>

\* The row is written, or the attempt fails.
Write ==
  /\ stage = "writing"
  /\ \/ stage' = "written" /\ UNCHANGED belief
     \/ stage' = "idle" /\ belief' = "inactive"
  /\ UNCHANGED record

Close ==
  /\ stage = "written"
  /\ belief' = "inactive"
  /\ stage' = "idle"
  /\ UNCHANGED <<record, rows>>

-----------------------------------------------------------------------------
\* The orderly end, of a process that gives up its check, and of one that
\* completes it.
Stop ==
  /\ belief # "off" /\ stage \in {"idle", "announcing"}
  /\ record' = belief
  /\ belief' = "off" /\ stage' = "idle"
  /\ UNCHANGED rows

StopInWrite ==
  /\ stage = "writing"
  /\ record' = "inactive"
  /\ belief' = "off" /\ stage' = "idle"

Die ==
  /\ belief # "off"
  /\ belief' = "off" /\ stage' = "idle"
  /\ stage # "writing" => UNCHANGED rows
  /\ UNCHANGED record

Forget ==
  /\ record' = "inactive"
  /\ UNCHANGED <<belief, stage, rows>>

Next ==
  \/ Wake
  \/ Notice \/ Overlook \/ Open \/ Announce \/ Write \/ Close
  \/ Stop \/ StopInWrite \/ Die \/ Forget

Spec == Init /\ [][Next]_vars
=============================================================================
