-------------------------- MODULE QueueStateProofs --------------------------
(***************************************************************************)
(* What the operators of QueueState promise, for every set of ticket       *)
(* numbers.                                                                *)
(***************************************************************************)
EXTENDS QueueState, WellFoundedInduction, TLAPS

LEMMA SettledShape ==
  ASSUME NEW s \in Settled
  PROVE  /\ s.name \in {"Inactive", "ActiveDisabled", "ActiveEnabled"}
         /\ s.ticketsLeft \in Counts
<1>1. 0 \in Counts
  BY DEF Counts
<1>2. CASE s \in {Inactive, ActiveDisabled}
  BY <1>1, <1>2 DEF Inactive, ActiveDisabled
<1>3. ASSUME NEW n \in Counts, s = ActiveEnabled(n)
      PROVE  s.name = "ActiveEnabled" /\ s.ticketsLeft = n
  BY <1>3 DEF ActiveEnabled
<1> QED
  BY <1>2, <1>3 DEF Settled

LEMMA InactiveByName ==
  ASSUME NEW s \in Settled
  PROVE  s.name = "Inactive" <=> s = Inactive
BY DEF Settled, Inactive, ActiveDisabled, ActiveEnabled

\* The collector hands on a well-formed queue whatever number of tickets
\* DUW reports.
LEMMA CollectedIsQueue ==
  ASSUME NEW raw \in RawQueue
  PROVE  Collected(raw) \in Queues
<1>1. Clamp(raw.ticketsLeft) \in Counts
  BY DEF RawQueue, Counts
<1>2. Collected(raw) = [active |-> raw.active, enabled |-> raw.enabled,
                        ticketsLeft |-> Clamp(raw.ticketsLeft)]
  BY DEF Collected, RawQueue
<1> QED
  BY <1>1, <1>2 DEF RawQueue, Queues

\* Among any numbers there is a least one.
LEMMA LeastOf ==
  ASSUME NEW T, T \subseteq Nat, T # {}
  PROVE  \E t \in T : \A u \in T : t <= u
<1>1. PICK t \in T : \A u \in T : <<u, t>> \notin OpToRel(<, Nat)
  BY WFMin, NatLessThanWellFounded, Zenon
<1>2. ASSUME NEW u \in T PROVE t <= u
  <2>1. u \in Nat /\ t \in Nat
    OBVIOUS
  <2>2. ASSUME u < t PROVE <<u, t>> \in OpToRel(<, Nat)
    BY <2>1, <2>2 DEF OpToRel
  <2>3. ~(u < t)
    BY <1>1, <2>2, Zenon
  <2> QED
    BY <2>1, <2>3
<1> QED
  BY <1>2

\* Wherever the monitored queue is in the answer, and whatever is around it,
\* a poll hands on its status or nothing.
LEMMA ReadingIsOfMonitored ==
  ASSUME NEW raw \in Statuses, NEW read \in Readings[raw] \ {NoQueue}
  PROVE  read = Collected(raw)
<1>1. PICK answer \in Answers(raw) : read = GetQueueStatus(answer)
  BY DEF Readings
<1> DEFINE found == {i \in DOMAIN answer : answer[i].monitored}
<1> DEFINE first == CHOOSE i \in found : \A j \in found : i <= j
<1>2. found # {} /\ read = Collected(answer[first].raw)
  BY <1>1 DEF GetQueueStatus
<1>3. found \subseteq Nat
  BY MaxListedAssumption DEF Answers
<1>4. first \in found
  <2>1. \E i \in found : \A j \in found : i <= j
    <3> HIDE DEF found
    <3> QED
      BY <1>2, <1>3, LeastOf
  <2> HIDE DEF found
  <2> QED
    BY <2>1
<1>5. answer[first].raw = raw
  <2> HIDE DEF first
  <2> QED
    BY <1>4 DEF Answers
<1> QED
  BY <1>2, <1>5

\* The state that describes a collected queue is one a check can end in.
LEMMA DescribesIsSettled ==
  ASSUME NEW q \in Queues
  PROVE  Describes(q) \in Settled
BY DEF Describes, Opened, Settled, Queues, Inactive, ActiveDisabled, ActiveEnabled

\* Whatever state it is in, Handle moves to the state that describes the
\* queue it was given.
LEMMA HandleDescribes ==
  ASSUME NEW s \in Settled, NEW q \in Queues
  PROVE  Handle(s, q).next = Describes(q)
<1> USE DEF Handle, Describes, Opened, Move, Inactive, ActiveDisabled, ActiveEnabled
<1>1. CASE s = Inactive
  BY <1>1 DEF HandleInactive
<1>2. CASE s = ActiveDisabled
  BY <1>2 DEF HandleActiveDisabled
<1>3. ASSUME NEW n \in Counts, s = ActiveEnabled(n)
      PROVE  Handle(s, q).next = Describes(q)
  BY <1>3 DEF HandleActiveEnabled
<1> QED
  BY <1>1, <1>2, <1>3 DEF Settled

\* The alert of a move announces the state moved to, and there is none
\* exactly when the state stays.
LEMMA HandleAnnounces ==
  ASSUME NEW s \in Settled, NEW q \in Queues
  PROVE  Handle(s, q).alert = IF Describes(q) = s THEN Silent
                              ELSE Announcement(Describes(q))
<1> USE DEF Handle, Describes, Opened, Move, Inactive, ActiveDisabled, ActiveEnabled,
            Announcement, Silent, ClosedAlert, UnavailableAlert, AvailableAlert,
            sendNotification, buildQueueAvailableMsg
<1>1. CASE s = Inactive
  BY <1>1 DEF HandleInactive
<1>2. CASE s = ActiveDisabled
  BY <1>2 DEF HandleActiveDisabled
<1>3. ASSUME NEW n \in Counts, s = ActiveEnabled(n)
      PROVE  Handle(s, q).alert = IF Describes(q) = s THEN Silent
                                  ELSE Announcement(Describes(q))
  BY <1>3 DEF HandleActiveEnabled
<1> QED
  BY <1>1, <1>2, <1>3 DEF Settled

\* Announcements are alerts, and tell any two states apart.
LEMMA AnnouncementIsAlert ==
  ASSUME NEW s \in Settled
  PROVE  Announcement(s) \in Alerts /\ Announcement(s) # Silent
BY DEF Settled, Inactive, ActiveDisabled, ActiveEnabled, Announcement, Alerts,
       Silent, ClosedAlert, UnavailableAlert, AvailableAlert

LEMMA AnnouncementIsInjective ==
  ASSUME NEW s \in Settled, NEW t \in Settled, Announcement(s) = Announcement(t)
  PROVE  s = t
BY DEF Settled, Inactive, ActiveDisabled, ActiveEnabled, Announcement,
       Silent, ClosedAlert, UnavailableAlert, AvailableAlert

\* Every record that does not name the Uninitialized state restores a state
\* a check can end in, whichever version of the program wrote it.
LEMMA RecordRestoresSettled ==
  ASSUME NEW r \in MonitorState, r.stateName # "Uninitialized"
  PROVE  StateFromPersistence(r) \in Settled
<1>1. r.stateName \in {"Inactive", "ActiveDisabled", "ActiveEnabled", ""}
  <2>1. \A s \in States : s.name \in {"Inactive", "ActiveDisabled", "ActiveEnabled", "Uninitialized"}
    BY SettledShape DEF States, Uninitialized
  <2> QED
    BY <2>1 DEF MonitorState
<1>2. r.queueActive \in BOOLEAN /\ r.queueEnabled \in BOOLEAN /\ r.ticketsLeft \in Counts
  BY DEF MonitorState
<1> QED
  BY <1>1, <1>2 DEF StateFromPersistence, Settled, Inactive, ActiveDisabled, ActiveEnabled

\* Saving a state and restoring it gives the state back, with or without a
\* last queue, as long as the last queue is one the state describes.
LEMMA SavedStateIsRestored ==
  ASSUME NEW s \in Settled, NEW q \in Queues \cup {NoQueue},
         q # NoQueue => s = Describes(q)
  PROVE  /\ StateToPersistence(s, q) \in MonitorState
         /\ StateToPersistence(s, q).stateName # "Uninitialized"
         /\ StateFromPersistence(StateToPersistence(s, q)) = s
<1> DEFINE r == StateToPersistence(s, q)
<1>1. s.name \in {"Inactive", "ActiveDisabled", "ActiveEnabled"} /\ s.ticketsLeft \in Counts
  BY SettledShape
<1>2. r.ticketsLeft \in Counts
  BY <1>1 DEF StateToPersistence, Queues
<1>3. r \in MonitorState /\ r.stateName = s.name
  <2>1. r.stateName = s.name /\ r.queueActive \in BOOLEAN /\ r.queueEnabled \in BOOLEAN
    BY DEF StateToPersistence
  <2>2. s.name \in {t.name : t \in States}
    BY DEF States
  <2> QED
    BY <1>2, <2>1, <2>2 DEF StateToPersistence, MonitorState
<1>4. CASE s = Inactive
  BY <1>1, <1>3, <1>4 DEF StateFromPersistence, Inactive
<1>5. CASE s = ActiveDisabled
  BY <1>1, <1>3, <1>5 DEF StateFromPersistence, ActiveDisabled
<1>6. ASSUME NEW n \in Counts, s = ActiveEnabled(n)
      PROVE  StateFromPersistence(r) = s
  <2>1. r.ticketsLeft = n
    BY <1>6 DEF StateToPersistence, Describes, Opened, Inactive, ActiveDisabled, ActiveEnabled
  <2> QED
    BY <1>3, <1>6, <2>1 DEF StateFromPersistence, ActiveEnabled
<1> QED
  BY <1>1, <1>3, <1>4, <1>5, <1>6 DEF Settled
=============================================================================
