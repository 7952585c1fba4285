---------------------------- MODULE AlertChannel ----------------------------
(***************************************************************************)
(* What the queue monitor promises to the subscribers of its channel, with *)
(* polling, retries, signals and records left out.  There is what the      *)
(* monitor believes of the queue, what it would believe again after a      *)
(* restart, and the last post in the channel.                              *)
(*                                                                         *)
(*   - A post always announces something else than the current belief.     *)
(*   - The belief moves only to what the last post announced.              *)
(*   - A restart brings back the belief that was saved last, or the        *)
(*     default when that is lost; it never posts.                          *)
(***************************************************************************)
CONSTANTS
  Beliefs,   \* what the monitor may believe of the queue
  NoBelief,  \* it is not running
  Default,   \* the belief of a monitor that remembers nothing
  Announce   \* the post that announces each belief

VARIABLES belief, saved, posted

vars == <<belief, saved, posted>>

Init ==
  /\ belief = NoBelief
  /\ saved \in Beliefs

Wake ==
  /\ belief = NoBelief
  /\ belief' \in {saved, Default}
  /\ UNCHANGED <<saved, posted>>

Post ==
  /\ belief # NoBelief
  /\ \E b \in Beliefs \ {belief} : posted' = Announce[b]
  /\ UNCHANGED <<belief, saved>>

Adopt ==
  /\ belief # NoBelief
  /\ belief' \in Beliefs
  /\ posted = Announce[belief']
  /\ UNCHANGED <<saved, posted>>

\* Ending in an orderly way, and otherwise.
Stop ==
  /\ belief # NoBelief
  /\ saved' = belief
  /\ belief' = NoBelief
  /\ UNCHANGED posted

Die ==
  /\ belief # NoBelief
  /\ belief' = NoBelief
  /\ UNCHANGED <<saved, posted>>

Forget ==
  /\ saved' = Default
  /\ UNCHANGED <<belief, posted>>

Next == Wake \/ Post \/ Adopt \/ Stop \/ Die \/ Forget

Spec == Init /\ [][Next]_vars
=============================================================================
