----------------------------- MODULE TelegramBot -----------------------------
(***************************************************************************)
(* The bot of cmd/telegrambot: users, Telegram's queue of updates, and the *)
(* handlers of the running process, each in a goroutine of its own.        *)
(*                                                                         *)
(* A user who sends /feedback is told how opinions are used and then shown *)
(* a prompt.  A message that quotes the prompt is an opinion: its author   *)
(* is thanked, and it is forwarded to the chat of the administrators.      *)
(* Whatever else a user writes is answered with the menu.                  *)
(*                                                                         *)
(* The library fetches updates with a long poll.  Telegram forgets the     *)
(* updates below the offset of a poll and delivers the others again.       *)
(***************************************************************************)
EXTENDS Integers

CONSTANTS
  Updates,      \* what users may send
  MaxUpdates,   \* bound: updates sent
  MaxAttempts,  \* attempts of one SendMessage call of the notifier
  NoUpdate,     \* not sent yet
  Faults        \* out of {"crash"}

Ids == 1 .. MaxUpdates

\* "refused": Telegram does not take the text within the HTML of the
\* notifier, as with markup of the user's own.  "none": a photo or a voice.
Contents == {"plain", "refused", "none"}

\* A quote of the prompt that the bot has shown in this chat, and one of a
\* message with the same text that is not the bot's or not of this chat, such
\* as a copied or forwarded prompt.
PromptTexts == {"prompt", "copy"}

\* An update that is not a new message has no chat the bot looks at.
Update == [chat: Nat, isMessage: BOOLEAN, isCommand: BOOLEAN,
           quotes: {"nothing", "other"} \cup PromptTexts, content: Contents]

ASSUME UpdatesAssumption == Updates \subseteq Update /\ NoUpdate \notin Update
ASSUME BoundsAssumption == MaxUpdates \in Nat /\ MaxAttempts \in Nat \ {0}
ASSUME BotFaultsAssumption == Faults \subseteq {"crash"}

VARIABLES
  inbox,        \* the updates by update_id
  confirmed,    \* the updates up to here are forgotten by Telegram
  fetched,      \* the last update the process has fetched
  proc,         \* "down", "profile" (starting), "up"
  cancelled,    \* the context of the process is done
  work,         \* the handler of each update: its next step
  attempts,     \* attempts of its SendMessage call to the administrators
  shown,        \* how often each text was shown on account of each update
  failed,       \* history: the texts a handler got an error for
  interrupted   \* history: updates in the process when one ended

outside == <<inbox, confirmed>>
handlers == <<work, attempts, shown, failed>>
vars == <<outside, fetched, proc, cancelled, handlers, interrupted>>

\* The last two are for the administrators: an opinion, and the template
\* around nothing, which is what they get of a photo.
Texts == {"info", "prompt", "thanks", "menu", "opinion", "blank"}
Steps == {"out", "info", "prompt", "thank", "forward", "menu", "done"}

Forwarded(u) == IF u.content = "none" THEN "blank" ELSE "opinion"

Init ==
  /\ inbox = [i \in Ids |-> NoUpdate]
  /\ confirmed = 0 /\ fetched = 0
  /\ proc = "down" /\ cancelled = FALSE
  /\ work = [i \in Ids |-> "out"] /\ attempts = [i \in Ids |-> 0]
  /\ shown = [i \in Ids |-> [t \in Texts |-> 0]]
  /\ failed = [i \in Ids |-> {}] /\ interrupted = {}

-----------------------------------------------------------------------------
(* Users, and the life of the process. *)

\* Users may send anything at any time.  By its meaning a quote of "prompt"
\* needs a prompt in the same chat; a "copy" needs nothing.
UserSends ==
  \E i \in Ids, u \in Updates :
    /\ inbox[i] = NoUpdate
    /\ \A j \in 1 .. i - 1 : inbox[j] # NoUpdate
    /\ u.quotes = "prompt" =>
         \E j \in 1 .. i - 1 : inbox[j].chat = u.chat /\ shown[j]["prompt"] > 0
    /\ inbox' = [inbox EXCEPT ![i] = u]
    /\ UNCHANGED <<confirmed, fetched, proc, cancelled, handlers, interrupted>>

Start ==
  /\ proc = "down"
  /\ proc' = "profile"
  /\ UNCHANGED <<outside, fetched, cancelled, handlers, interrupted>>

SetProfile ==
  /\ proc = "profile"
  /\ ~cancelled
  /\ proc' = "up"
  /\ UNCHANGED <<outside, fetched, cancelled, handlers, interrupted>>

\* The process is gone with its goroutines, in whatever step they are.  The
\* updates it has not confirmed will be delivered again.
End ==
  /\ proc' = "down" /\ cancelled' = FALSE
  /\ fetched' = confirmed
  /\ work' = [i \in Ids |-> IF work[i] = "done" THEN "done" ELSE "out"]
  /\ attempts' = [i \in Ids |-> 0]
  /\ interrupted' = interrupted \cup
       {i \in 1 .. fetched : i > confirmed \/ work[i] # "done"}
  /\ UNCHANGED <<outside, shown, failed>>

ProfileFails == proc = "profile" /\ End

Signal ==
  /\ proc # "down"
  /\ ~cancelled
  /\ cancelled' = TRUE
  /\ UNCHANGED <<outside, fetched, proc, handlers, interrupted>>

\* main waits for the context only, and neither for Start nor for a handler.
Exit == proc = "up" /\ cancelled /\ End

Crash == "crash" \in Faults /\ proc # "down" /\ End

-----------------------------------------------------------------------------
(* Dispatching. *)

\* What Register leaves with the library, which asks it before the default
\* handler, and in the registry of replies.  The registry compares texts: it
\* cannot tell a prompt of the bot's from a copy of one.
IsFeedbackCommand(u) == u.isMessage /\ u.isCommand
FindHandler(quoted) == quoted \in PromptTexts

\* The first step of the handler an update is dispatched to.
FirstStep(u) ==
  CASE IsFeedbackCommand(u) -> "info"
    [] u.isMessage /\ ~IsFeedbackCommand(u) /\ FindHandler(u.quotes) -> "thank"
    [] u.isMessage /\ ~IsFeedbackCommand(u) /\ ~FindHandler(u.quotes) -> "menu"
    [] ~u.isMessage -> "done"

\* A mutant: a poll confirms what it is answered with.
ConfirmAtOnce(last) == confirmed' = last

\* A poll confirms what the process has fetched before.
Confirm(last) == confirmed' = fetched

\* The answer holds any number of updates, and may get lost.
Poll ==
  /\ proc = "up"
  /\ ~cancelled
  /\ \E last \in fetched .. MaxUpdates :
       LET new == fetched + 1 .. last IN
       /\ \A i \in new : inbox[i] # NoUpdate
       /\ Confirm(last)
       /\ \/ /\ fetched' = last
             /\ work' = [i \in Ids |-> IF i \in new THEN FirstStep(inbox[i]) ELSE work[i]]
          \/ UNCHANGED <<fetched, work>>
  /\ UNCHANGED <<inbox, proc, cancelled, attempts, shown, failed, interrupted>>

-----------------------------------------------------------------------------
(* Handlers. *)

\* 2 stands for more than once.
Again(n) == IF n = 0 THEN 1 ELSE 2
Show(i, t) == shown' = [shown EXCEPT ![i][t] = Again(@)]

Errs(i, t) == failed' = [failed EXCEPT ![i] = @ \cup {t}]
Goes(i, step) == work' = [work EXCEPT ![i] = step]

\* One call of the library's SendMessage.  A message may be shown although
\* the call returns an error.
Send(i, t, onSuccess, onError) ==
  /\ \/ ~cancelled /\ Show(i, t) /\ Goes(i, onSuccess) /\ UNCHANGED failed
     \/ /\ UNCHANGED shown \/ (~cancelled /\ Show(i, t))
        /\ Errs(i, t) /\ Goes(i, onError)
  /\ UNCHANGED <<outside, fetched, proc, cancelled, attempts, interrupted>>

\* Mutants: the prompt follows although the information failed; an opinion
\* is forwarded only when the thanks arrived; thanks are sent until they
\* arrive.
TellAndGoOn(i) == work[i] = "info" /\ Send(i, "info", "prompt", "prompt")
ThankOrStop(i) == work[i] = "thank" /\ Send(i, "thanks", "forward", "done")
ThankUntilDone(i) == work[i] = "thank" /\ Send(i, "thanks", "forward", "thank")

Tell(i) == work[i] = "info" /\ Send(i, "info", "prompt", "done")
Prompt(i) == work[i] = "prompt" /\ Send(i, "prompt", "done", "done")
Menu(i) == work[i] = "menu" /\ Send(i, "menu", "done", "done")
Thank(i) == work[i] = "thank" /\ Send(i, "thanks", "forward", "forward")

\* One attempt of the notifier (RetryLoop).
ForwardAttempt(i) ==
  /\ work[i] = "forward"
  /\ ~cancelled
  /\ attempts[i] < MaxAttempts
  /\ LET t == Forwarded(inbox[i])
         shows == inbox[i].content # "refused" /\ Show(i, t)
     IN \/ /\ shows /\ Goes(i, "done")
           /\ attempts' = [attempts EXCEPT ![i] = 0]
           /\ UNCHANGED failed
        \/ /\ shows \/ UNCHANGED shown
           /\ attempts' = [attempts EXCEPT ![i] = @ + 1]
           /\ Errs(i, t) /\ UNCHANGED work
  /\ UNCHANGED <<outside, fetched, proc, cancelled, interrupted>>

\* A mutant: the attempts are not counted.
ForwardFailsWhenCancelled(i) ==
  /\ work[i] = "forward"
  /\ cancelled
  /\ attempts' = [attempts EXCEPT ![i] = 0]
  /\ Errs(i, Forwarded(inbox[i])) /\ Goes(i, "done")
  /\ UNCHANGED <<outside, fetched, proc, cancelled, shown, interrupted>>

\* The error is logged and the handler ends.
ForwardFails(i) ==
  /\ work[i] = "forward"
  /\ cancelled \/ attempts[i] > 0
  /\ attempts' = [attempts EXCEPT ![i] = 0]
  /\ Errs(i, Forwarded(inbox[i])) /\ Goes(i, "done")
  /\ UNCHANGED <<outside, fetched, proc, cancelled, shown, interrupted>>

Handler(i) ==
  \/ Tell(i) \/ Prompt(i) \/ Menu(i) \/ Thank(i)
  \/ ForwardAttempt(i) \/ ForwardFails(i)

Next ==
  \/ UserSends \/ Start \/ SetProfile \/ ProfileFails
  \/ Signal \/ Exit \/ Crash
  \/ Poll \/ \E i \in Ids : Handler(i)

Spec == Init /\ [][Next]_vars

(***************************************************************************)
(* Every call of a handler has a timeout.  A poll that is repeated brings  *)
(* what there is some day.                                                 *)
(***************************************************************************)
FairSpec ==
  Spec /\ SF_vars(Poll /\ fetched' > fetched) /\ \A i \in Ids : WF_vars(Handler(i))

-----------------------------------------------------------------------------
(***************************************************************************)
(* Properties.                                                             *)
(***************************************************************************)

\* Every variable has its type.
TypeOK ==
  /\ inbox \in [Ids -> Updates \cup {NoUpdate}]
  /\ confirmed \in 0 .. MaxUpdates /\ fetched \in confirmed .. MaxUpdates
  /\ proc \in {"down", "profile", "up"} /\ cancelled \in BOOLEAN
  /\ work \in [Ids -> Steps] /\ attempts \in [Ids -> 0 .. MaxAttempts]
  /\ shown \in [Ids -> [Texts -> 0 .. 2]]
  /\ failed \in [Ids -> SUBSET Texts] /\ interrupted \subseteq Ids

\* What an update should lead to.
Answer(u) ==
  CASE ~u.isMessage -> {}
    [] u.isMessage /\ u.isCommand -> {"info", "prompt"}
    [] u.isMessage /\ ~u.isCommand /\ u.quotes \in PromptTexts -> {"thanks", Forwarded(u)}
    [] u.isMessage /\ ~u.isCommand /\ u.quotes \notin PromptTexts -> {"menu"}

\* A handler that came to its end without a process ending under it has sent
\* every text of the answer exactly once, those excepted that it got an error
\* for, and nothing else: neither a failed thanks nor another handler keeps
\* an opinion from being forwarded, and a user who could not be told how
\* opinions are used is not asked for one.
AnsweredOnce ==
  \A i \in Ids : work[i] = "done" /\ i \notin interrupted =>
    \A t \in Texts :
      IF t \notin Answer(inbox[i]) \/ (t = "prompt" /\ "info" \in failed[i])
        THEN shown[i][t] = 0
        ELSE t \in failed[i] \/ shown[i][t] = 1

\* An update Telegram has forgotten has reached a handler, unless the process
\* ended with it.
NothingSlipsThrough ==
  \A i \in 1 .. confirmed : i \in interrupted \/ work[i] # "out"

\* A copied prompt is the only way round the information: the opinion of
\* anyone else is forwarded only if he was told before, in the same chat, how
\* opinions are used, over errors, unconfirmed messages, conversations that
\* overlap, and restarts in between.
ToldUnlessCopied ==
  \A i \in Ids : shown[i]["opinion"] > 0 =>
    \/ inbox[i].quotes = "copy"
    \/ \E j \in 1 .. i - 1 : inbox[j].chat = inbox[i].chat /\ shown[j]["info"] > 0

\* While the process stays up every update is handled to its end, unless it
\* was confirmed by a process that ended before handling it.
EveryUpdateIsHandled ==
  <>[](proc = "up" /\ ~cancelled) =>
    \A i \in Ids : [](inbox[i] # NoUpdate =>
      <>(work[i] = "done" \/ (i \in interrupted /\ i <= confirmed)))

\* How many calls the handler of an update can still make, its last report
\* of an error included.
CallsLeft(i) ==
  CASE work[i] = "thank" -> MaxAttempts + 2
    [] work[i] = "forward" -> MaxAttempts + 1 - attempts[i]
    [] work[i] = "info" -> 2
    [] work[i] \in {"prompt", "menu"} -> 1
    [] work[i] \in {"out", "done"} -> 0

\* Every step of a handler brings it nearer to its end, and neither users nor
\* other handlers, polls or signals set it back: no chain of errors makes it
\* go on for ever.
HandlersAreFinite ==
  [][\A i \in Ids : work[i] \notin {"out", "done"} =>
       CallsLeft(i)' < CallsLeft(i)
         \/ UNCHANGED <<work[i], attempts[i], shown[i], failed[i]>>]_vars

\* How far each update has come.
Status ==
  [i \in Ids |->
     CASE inbox[i] = NoUpdate -> "unsent"
       [] inbox[i] # NoUpdate /\ i > fetched -> "waiting"
       [] inbox[i] # NoUpdate /\ i <= fetched /\ work[i] = "out" -> "lost"
       [] inbox[i] # NoUpdate /\ i <= fetched /\ work[i] = "done" -> "done"
       [] OTHER -> "handling"]

\* Polls, handlers and restarts deliver every update at least once, in order
\* and never again once it is forgotten, with one exception: the updates
\* that are forgotten while their handler runs, if the process ends then.
Delivery == INSTANCE UpdateDelivery WITH status <- Status, forgotten <- 1 .. confirmed

ImplementsDelivery == Delivery!Spec

(***************************************************************************)
(* What the bot tells its users and does not keep.                         *)
(***************************************************************************)

\* A user who was thanked for an opinion that "has been sent to us"
\* (feedback.go:14) has it forwarded by the time its handler is through, at
\* least while nobody ends the process.
ThankedIsForwarded ==
  \A i \in Ids : work[i] = "done" /\ shown[i]["thanks"] > 0 /\ ~cancelled =>
    shown[i]["opinion"] > 0
-----------------------------------------------------------------------------
(***************************************************************************)
(* The inductive invariant.                                                *)
(***************************************************************************)

\* The steps an update may take.
StepsOf(u) ==
  CASE ~u.isMessage -> {"done"}
    [] u.isMessage /\ u.isCommand -> {"info", "prompt", "done"}
    [] u.isMessage /\ ~u.isCommand /\ u.quotes \in PromptTexts -> {"thank", "forward", "done"}
    [] u.isMessage /\ ~u.isCommand /\ u.quotes \notin PromptTexts -> {"menu", "done"}

\* The texts whose turn is still to come, or is now.
Ahead(step) ==
  CASE step = "info" -> {"info", "prompt"}
    [] step = "prompt" -> {"prompt"}
    [] step = "thank" -> {"thanks", "opinion", "blank"}
    [] step = "forward" -> {"opinion", "blank"}
    [] step = "menu" -> {"menu"}
    [] step = "done" -> {}

\* A handler takes the steps of its own update.
Routed ==
  \A i \in Ids :
    /\ i <= fetched \/ work[i] # "out" => inbox[i] # NoUpdate
    /\ work[i] # "out" => work[i] \in StepsOf(inbox[i])

\* How often a text has been sent, when its handler is at some step.
Turn(i, t) ==
  IF t \notin Answer(inbox[i]) \/ (t = "prompt" /\ "info" \in failed[i])
    THEN shown[i][t] = 0
    ELSE t \in failed[i] \/ shown[i][t] = IF t \in Ahead(work[i]) THEN 0 ELSE 1

\* A handler that never saw its process end.
Progress(i) ==
  /\ (work[i] = "out") <=> (i > fetched)
  /\ work[i] \in {"out", "info", "prompt"} => failed[i] = {}
  /\ \A t \in Texts : IF work[i] = "out" THEN shown[i][t] = 0 ELSE Turn(i, t)

SentSoFar == \A i \in Ids \ interrupted : Progress(i)

\* Whoever quotes a prompt of the bot's was told first.
Told ==
  \A i \in Ids :
    /\ work[i] = "prompt" \/ shown[i]["prompt"] > 0 => shown[i]["info"] > 0
    /\ shown[i]["info"] > 0 => inbox[i] # NoUpdate
    /\ shown[i]["opinion"] > 0 => inbox[i] # NoUpdate /\ inbox[i].quotes \in PromptTexts
    /\ inbox[i] # NoUpdate /\ inbox[i].quotes = "prompt" =>
         \E j \in 1 .. i - 1 :
           inbox[j] # NoUpdate /\ inbox[j].chat = inbox[i].chat /\ shown[j]["info"] > 0

\* A handler that runs has its update, and an update that is not forgotten
\* keeps its handler.
TakenAreHeld ==
  \A i \in Ids :
    /\ work[i] \notin {"out", "done"} => i <= fetched
    /\ confirmed < i /\ i <= fetched => work[i] # "out"

IInv == TypeOK /\ Routed /\ SentSoFar /\ Told /\ TakenAreHeld
=============================================================================
