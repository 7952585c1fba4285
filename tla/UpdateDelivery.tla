---------------------------- MODULE UpdateDelivery ----------------------------
(***************************************************************************)
(* What the handlers of the bot may rely on: how an update comes to one,   *)
(* with chats, texts and errors left out.                                  *)
(*                                                                         *)
(*   - An update is handled at least once, unless the process ends while   *)
(*     it handles one that Telegram has already forgotten.                 *)
(*   - What Telegram has forgotten is not handled again.                   *)
(*   - Updates are taken in the order they were sent.                      *)
(***************************************************************************)
EXTENDS Integers

CONSTANT Ids   \* of the updates: numbers, in the order they are sent

VARIABLES
  status,      \* of each update
  forgotten    \* the updates Telegram does not deliver any more

vars == <<status, forgotten>>

Init ==
  /\ status = [i \in Ids |-> "unsent"]
  /\ forgotten = {}

Changes(i, from, to) ==
  /\ status[i] = from
  /\ status' = [status EXCEPT ![i] = to]
  /\ UNCHANGED forgotten

Send(i) ==
  /\ \A j \in Ids : j < i => status[j] # "unsent"
  /\ Changes(i, "unsent", "waiting")

Finish(i) == Changes(i, "handling", "done")

\* A poll takes what waits, in order, or comes to nothing; it makes Telegram
\* forget what was taken before.
Poll ==
  /\ forgotten' = forgotten \cup {i \in Ids : status[i] \in {"handling", "done"}}
  /\ \E new \in SUBSET {i \in Ids : status[i] = "waiting"}, trivial \in SUBSET Ids :
       /\ \A i \in new, j \in Ids : j < i => status[j] # "waiting" \/ j \in new
       /\ status' = [i \in Ids |->
            IF i \notin new THEN status[i] ELSE IF i \in trivial THEN "done" ELSE "handling"]

\* The process ends.
End ==
  /\ status' = [i \in Ids |->
       CASE status[i] = "handling" /\ i \in forgotten -> "lost"
         [] status[i] \in {"handling", "done"} /\ i \notin forgotten -> "waiting"
         [] OTHER -> status[i]]
  /\ UNCHANGED forgotten

Next ==
  \/ \E i \in Ids : Send(i) \/ Finish(i)
  \/ Poll \/ End

Spec == Init /\ [][Next]_vars
=============================================================================
