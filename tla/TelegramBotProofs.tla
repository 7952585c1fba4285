-------------------------- MODULE TelegramBotProofs --------------------------
(***************************************************************************)
(* Theorems about TelegramBot, for any number of users, updates, attempts  *)
(* and restarts.                                                           *)
(***************************************************************************)
EXTENDS TelegramBot, TLAPS

LEMMA InitEstablishesIInv == Init => IInv
<1> USE UpdatesAssumption, BoundsAssumption
<1> SUFFICES ASSUME Init PROVE IInv
  OBVIOUS
<1>1. TypeOK
  <2>1. cancelled \in BOOLEAN
    BY Zenon DEF Init
  <2> QED
    BY <2>1 DEF Init, TypeOK, Steps, Texts, Ids
<1>2. Routed
  BY DEF Init, Routed, Ids
<1>3. SentSoFar
  BY DEF Init, SentSoFar, Progress, Ids
<1>4. Told
  BY DEF Init, Told, Ids, Texts
<1> QED
  BY <1>1, <1>2, <1>3, <1>4 DEF IInv, Init, TakenAreHeld, Ids

\* What an update may lead to follows from what it is.
LEMMA RouteOfUpdate ==
  ASSUME NEW u \in Updates
  PROVE  /\ FirstStep(u) \in StepsOf(u) /\ FirstStep(u) \notin {"out", "prompt"}
         /\ StepsOf(u) \subseteq Steps /\ "out" \notin StepsOf(u)
         /\ Answer(u) \subseteq Texts /\ Answer(u) \subseteq Ahead(FirstStep(u))
         /\ Forwarded(u) \in {"opinion", "blank"}
         /\ "thank" \in StepsOf(u) \/ "forward" \in StepsOf(u) => u.quotes \in PromptTexts
BY UpdatesAssumption
   DEF Update, PromptTexts, FirstStep, IsFeedbackCommand, FindHandler, StepsOf, Answer, Ahead, Forwarded, Steps, Texts

-----------------------------------------------------------------------------
LEMMA ShownIsTyped ==
  ASSUME shown \in [Ids -> [Texts -> 0 .. 2]], NEW i \in Ids, NEW t \in Texts, Show(i, t)
  PROVE  shown' \in [Ids -> [Texts -> 0 .. 2]]
<1>1. Again(shown[i][t]) \in 0 .. 2
  BY DEF Again
<1>2. [shown[i] EXCEPT ![t] = Again(@)] \in [Texts -> 0 .. 2]
  BY <1>1
<1> QED
  BY <1>2 DEF Show

LEMMA TypeOKIsKept == TypeOK /\ Routed /\ [Next]_vars => TypeOK'
<1> USE UpdatesAssumption, BoundsAssumption DEF TypeOK, outside, handlers, Ids
<1> SUFFICES ASSUME TypeOK, Routed, [Next]_vars PROVE TypeOK'
  OBVIOUS
<1>1. CASE UserSends
  BY <1>1 DEF UserSends
<1>2. CASE Start \/ SetProfile \/ Signal
  BY <1>2 DEF Start, SetProfile, Signal
<1>3. CASE ProfileFails \/ Exit \/ Crash
  <2>1. End
    BY <1>3 DEF ProfileFails, Exit, Crash
  <2>2. cancelled' \in BOOLEAN
    BY <2>1, Zenon DEF End
  <2>3. /\ fetched' \in confirmed' .. MaxUpdates /\ confirmed' \in 0 .. MaxUpdates
        /\ proc' \in {"down", "profile", "up"}
    BY <2>1 DEF End
  <2>4. work' \in [Ids -> Steps] /\ attempts' \in [Ids -> 0 .. MaxAttempts]
    BY <2>1 DEF End, Steps
  <2>5. ASSUME NEW i \in interrupted' PROVE i \in Ids
    <3>1. i \in interrupted \/ i \in 1 .. fetched
      BY <2>1 DEF End
    <3>2. CASE i \in interrupted
      BY <3>2
    <3>3. CASE i \in 1 .. fetched
      BY <3>3
    <3> QED
      BY <3>1, <3>2, <3>3
  <2>6. UNCHANGED <<inbox, shown, failed>>
    BY <2>1 DEF End
  <2> QED
    BY <2>2, <2>3, <2>4, <2>5, <2>6
<1>4. CASE Poll
  <2>1. PICK last \in fetched .. MaxUpdates :
          LET new == fetched + 1 .. last IN
          /\ \A i \in new : inbox[i] # NoUpdate
          /\ confirmed' = fetched
          /\ \/ /\ fetched' = last
                /\ work' = [i \in Ids |-> IF i \in new THEN FirstStep(inbox[i]) ELSE work[i]]
             \/ UNCHANGED <<fetched, work>>
    BY <1>4 DEF Poll, Confirm
  <2>2. \A i \in fetched + 1 .. last : FirstStep(inbox[i]) \in Steps
    BY <2>1, RouteOfUpdate
  <2>3. work' \in [Ids -> Steps]
    BY <2>1, <2>2
  <2> QED
    BY <1>4, <2>1, <2>3 DEF Poll
<1>5. ASSUME NEW i \in Ids, Handler(i) PROVE TypeOK'
  <2>1. CASE Tell(i) \/ Prompt(i) \/ Menu(i) \/ Thank(i)
    <3>1. PICK t \in Texts, next \in Steps, onError \in Steps : Send(i, t, next, onError)
      BY <2>1 DEF Tell, Prompt, Menu, Thank, Texts, Steps
    <3>2. shown' \in [Ids -> [Texts -> 0 .. 2]]
      BY <3>1, ShownIsTyped DEF Send
    <3>3. failed' \in [Ids -> SUBSET Texts]
      BY <3>1 DEF Send, Errs
    <3>4. work' \in [Ids -> Steps]
      BY <3>1 DEF Send, Goes
    <3> QED
      BY <3>1, <3>2, <3>3, <3>4 DEF Send
  <2>2. CASE ForwardAttempt(i)
    <3>1. Forwarded(inbox[i]) \in {"opinion", "blank"}
      BY DEF Forwarded
    <3>2. shown' \in [Ids -> [Texts -> 0 .. 2]]
      BY <2>2, <3>1, ShownIsTyped DEF ForwardAttempt, Texts
    <3>3. failed' \in [Ids -> SUBSET Texts]
      BY <2>2, <3>1 DEF ForwardAttempt, Errs, Texts
    <3>4. work' \in [Ids -> Steps] /\ attempts' \in [Ids -> 0 .. MaxAttempts]
      BY <2>2 DEF ForwardAttempt, Goes, Steps
    <3> QED
      BY <2>2, <3>2, <3>3, <3>4 DEF ForwardAttempt
  <2>3. CASE ForwardFails(i)
    <3>1. Forwarded(inbox[i]) \in {"opinion", "blank"}
      BY DEF Forwarded
    <3> QED
      BY <2>3, <3>1 DEF ForwardFails, Errs, Goes, Steps, Texts
  <2> QED
    BY <1>5, <2>1, <2>2, <2>3 DEF Handler
<1>6. CASE UNCHANGED vars
  BY <1>6 DEF vars
<1> QED
  BY <1>1, <1>2, <1>3, <1>4, <1>5, <1>6 DEF Next

-----------------------------------------------------------------------------
LEMMA RoutedIsKept == TypeOK /\ Routed /\ [Next]_vars => Routed'
<1> USE UpdatesAssumption, BoundsAssumption DEF TypeOK, Routed, outside, handlers, Ids
<1> SUFFICES ASSUME TypeOK, Routed, [Next]_vars PROVE Routed'
  OBVIOUS
<1>1. CASE UserSends
  BY <1>1 DEF UserSends
<1>2. CASE Start \/ SetProfile \/ Signal
  BY <1>2 DEF Start, SetProfile, Signal
<1>3. CASE ProfileFails \/ Exit \/ Crash
  BY <1>3 DEF ProfileFails, Exit, Crash, End
<1>4. CASE Poll
  <2>1. PICK last \in fetched .. MaxUpdates :
          LET new == fetched + 1 .. last IN
          /\ \A i \in new : inbox[i] # NoUpdate
          /\ \/ /\ fetched' = last
                /\ work' = [i \in Ids |-> IF i \in new THEN FirstStep(inbox[i]) ELSE work[i]]
             \/ UNCHANGED <<fetched, work>>
    BY <1>4 DEF Poll
  <2>2. UNCHANGED inbox
    BY <1>4 DEF Poll
  <2> QED
    BY <2>1, <2>2, RouteOfUpdate
<1>5. ASSUME NEW i \in Ids, Handler(i) PROVE Routed'
  <2>1. /\ UNCHANGED <<inbox, fetched>>
        /\ \/ UNCHANGED work
           \/ /\ work[i] \in {"info", "prompt", "menu", "thank", "forward"}
              /\ \/ Goes(i, "done")
                 \/ work[i] = "info" /\ Goes(i, "prompt")
                 \/ work[i] = "thank" /\ Goes(i, "forward")
    BY <1>5 DEF Handler, Tell, Prompt, Menu, Thank, Send, ForwardAttempt, ForwardFails
  <2> QED
    BY <2>1 DEF Goes, StepsOf
<1>6. CASE UNCHANGED vars
  BY <1>6 DEF vars
<1> QED
  BY <1>1, <1>2, <1>3, <1>4, <1>5, <1>6 DEF Next

-----------------------------------------------------------------------------
LEMMA ShowMoves ==
  ASSUME TypeOK, NEW i \in Ids, NEW t \in Texts, Show(i, t)
  PROVE  /\ shown'[i][t] = Again(shown[i][t])
         /\ \A u \in Texts \ {t} : shown'[i][u] = shown[i][u]
BY DEF Show, TypeOK

\* What one call does to the texts of an update and to its next step.
LEMMA SendMoves ==
  ASSUME TypeOK, NEW i \in Ids, NEW t \in Texts, NEW good, NEW bad, Send(i, t, good, bad)
  PROVE  /\ \/ /\ work'[i] = good /\ failed'[i] = failed[i]
                /\ shown'[i][t] = Again(shown[i][t])
            \/ work'[i] = bad /\ failed'[i] = failed[i] \cup {t}
         /\ \A u \in Texts \ {t} : shown'[i][u] = shown[i][u]
         /\ shown'[i][t] \in {shown[i][t], Again(shown[i][t])}
BY DEF Send, Show, Errs, Goes, TypeOK

LEMMA OthersStay ==
  ASSUME TypeOK, NEW i \in Ids, Handler(i), NEW j \in Ids \ {i}
  PROVE  work'[j] = work[j] /\ failed'[j] = failed[j] /\ shown'[j] = shown[j]
BY DEF Handler, Tell, Prompt, Menu, Thank, ForwardAttempt, ForwardFails,
       Send, Show, Errs, Goes, TypeOK

LEMMA HandlerKeepsProgress ==
  ASSUME TypeOK, Routed, NEW i \in Ids, Handler(i), Progress(i)
  PROVE  Progress(i)'
<1> USE DEF Ids
<1>1. inbox' = inbox /\ fetched' = fetched /\ work[i] # "out"
  BY DEF Handler, Tell, Prompt, Menu, Thank, ForwardAttempt, ForwardFails, Send, outside
<1>2. inbox[i] \in Updates /\ work[i] \in StepsOf(inbox[i])
  BY <1>1 DEF Routed, TypeOK
<1> USE <1>1, <1>2
<1>3. CASE Tell(i)
  <2>1. Answer(inbox[i]) = {"info", "prompt"}
    BY <1>3 DEF Tell, Answer, StepsOf
  <2>2. /\ work[i] = "info"
        /\ \/ work'[i] = "prompt" /\ failed'[i] = failed[i] /\ shown'[i]["info"] = Again(shown[i]["info"])
           \/ work'[i] = "done" /\ failed'[i] = failed[i] \cup {"info"}
        /\ \A u \in Texts \ {"info"} : shown'[i][u] = shown[i][u]
    BY <1>3, SendMoves DEF Tell, Texts
  <2>3. ASSUME NEW u \in Texts PROVE Turn(i, u)'
    BY <2>1, <2>2 DEF Progress, Turn, Ahead, Again, Texts
  <2> QED
    BY <2>2, <2>3 DEF Progress
<1>4. CASE Prompt(i)
  <2>1. Answer(inbox[i]) = {"info", "prompt"}
    BY <1>4 DEF Prompt, Answer, StepsOf
  <2>2. /\ work[i] = "prompt"
        /\ \/ work'[i] = "done" /\ failed'[i] = failed[i] /\ shown'[i]["prompt"] = Again(shown[i]["prompt"])
           \/ work'[i] = "done" /\ failed'[i] = failed[i] \cup {"prompt"}
        /\ \A u \in Texts \ {"prompt"} : shown'[i][u] = shown[i][u]
    BY <1>4, SendMoves DEF Prompt, Texts
  <2>3. ASSUME NEW u \in Texts PROVE Turn(i, u)'
    BY <2>1, <2>2 DEF Progress, Turn, Ahead, Again, Texts
  <2> QED
    BY <2>2, <2>3 DEF Progress
<1>5. CASE Menu(i)
  <2>1. Answer(inbox[i]) = {"menu"}
    BY <1>5 DEF Menu, Answer, StepsOf
  <2>2. /\ work[i] = "menu"
        /\ \/ work'[i] = "done" /\ failed'[i] = failed[i] /\ shown'[i]["menu"] = Again(shown[i]["menu"])
           \/ work'[i] = "done" /\ failed'[i] = failed[i] \cup {"menu"}
        /\ \A u \in Texts \ {"menu"} : shown'[i][u] = shown[i][u]
    BY <1>5, SendMoves DEF Menu, Texts
  <2>3. ASSUME NEW u \in Texts PROVE Turn(i, u)'
    BY <2>1, <2>2 DEF Progress, Turn, Ahead, Again, Texts
  <2> QED
    BY <2>2, <2>3 DEF Progress
<1>6. CASE Thank(i)
  <2>1. /\ Answer(inbox[i]) = {"thanks", Forwarded(inbox[i])}
        /\ Forwarded(inbox[i]) \in {"opinion", "blank"}
    BY <1>6 DEF Thank, Answer, StepsOf, Forwarded
  <2>2. /\ work[i] = "thank"
        /\ \/ work'[i] = "forward" /\ failed'[i] = failed[i] /\ shown'[i]["thanks"] = Again(shown[i]["thanks"])
           \/ work'[i] = "forward" /\ failed'[i] = failed[i] \cup {"thanks"}
        /\ \A u \in Texts \ {"thanks"} : shown'[i][u] = shown[i][u]
    BY <1>6, SendMoves DEF Thank, Texts
  <2>3. ASSUME NEW u \in Texts PROVE Turn(i, u)'
    BY <2>1, <2>2 DEF Progress, Turn, Ahead, Again, Texts
  <2> QED
    BY <2>2, <2>3 DEF Progress
<1>7. CASE ForwardAttempt(i) \/ ForwardFails(i)
  <2> DEFINE t == Forwarded(inbox[i])
  <2>1. work[i] = "forward"
    BY <1>7 DEF ForwardAttempt, ForwardFails
  <2>2. Answer(inbox[i]) = {"thanks", t} /\ t \in {"opinion", "blank"}
    BY <2>1 DEF Answer, StepsOf, Forwarded
  <2>3. \/ /\ work'[i] = "done" /\ failed'[i] = failed[i]
           /\ shown'[i][t] = Again(shown[i][t])
        \/ work'[i] \in {"forward", "done"} /\ failed'[i] = failed[i] \cup {t}
    <3>1. CASE ForwardFails(i)
      BY <3>1 DEF ForwardFails, Errs, Goes, TypeOK
    <3>2. CASE ForwardAttempt(i)
      <4>1. \/ Show(i, t) /\ Goes(i, "done") /\ UNCHANGED failed
            \/ Errs(i, t) /\ UNCHANGED work
        BY <3>2 DEF ForwardAttempt
      <4>2. CASE Show(i, t) /\ Goes(i, "done") /\ UNCHANGED failed
        BY <4>2, <2>2, ShowMoves DEF Goes, TypeOK, Texts
      <4>3. CASE Errs(i, t) /\ UNCHANGED work
        BY <4>3, <2>1 DEF Errs, TypeOK
      <4> QED
        BY <4>1, <4>2, <4>3
    <3> QED
      BY <1>7, <3>1, <3>2
  <2>4. ASSUME NEW u \in Texts \ {t} PROVE shown'[i][u] = shown[i][u]
    <3>1. UNCHANGED shown \/ Show(i, t)
      BY <1>7 DEF ForwardAttempt, ForwardFails
    <3> QED
      BY <3>1, <2>2, ShowMoves DEF Texts
  <2>5. ASSUME NEW u \in Texts PROVE Turn(i, u)'
    BY <2>1, <2>2, <2>3, <2>4 DEF Progress, Turn, Ahead, Again, Texts
  <2> QED
    BY <2>1, <2>3, <2>5 DEF Progress
<1> QED
  BY <1>3, <1>4, <1>5, <1>6, <1>7 DEF Handler

LEMMA SentSoFarIsKept == TypeOK /\ Routed /\ SentSoFar /\ [Next]_vars => SentSoFar'
<1> USE UpdatesAssumption, BoundsAssumption DEF SentSoFar, outside, handlers, Ids
<1> SUFFICES ASSUME TypeOK, Routed, SentSoFar, [Next]_vars,
                    NEW i \in Ids, i \notin interrupted'
             PROVE  Progress(i)'
  OBVIOUS
<1>1. CASE UserSends
  <2>1. PICK n \in Ids, u \in Updates : inbox[n] = NoUpdate /\ inbox' = [inbox EXCEPT ![n] = u]
    BY <1>1 DEF UserSends
  <2>2. UNCHANGED <<fetched, work, failed, shown, interrupted>>
    BY <1>1 DEF UserSends
  <2>3. CASE i = n
    BY <2>1, <2>2, <2>3 DEF Routed, Progress
  <2>4. CASE i # n
    BY <2>1, <2>2, <2>4 DEF TypeOK, Progress, Turn
  <2> QED
    BY <2>3, <2>4
<1>2. CASE Start \/ SetProfile \/ Signal
  BY <1>2 DEF Start, SetProfile, Signal, Progress, Turn
<1>3. CASE ProfileFails \/ Exit \/ Crash
  <2>1. End
    BY <1>3 DEF ProfileFails, Exit, Crash
  <2>2. i \notin interrupted /\ UNCHANGED <<inbox, shown, failed>> /\ fetched' = confirmed
    BY <2>1 DEF End
  <2>3. i <= fetched => i <= confirmed /\ work[i] = "done"
    BY <2>1 DEF End, TypeOK
  <2>4. work'[i] = work[i]
    <3>1. work'[i] = IF work[i] = "done" THEN "done" ELSE "out"
      BY <2>1 DEF End
    <3>2. i > fetched => work[i] = "out"
      BY <2>2 DEF Progress
    <3>3. i > fetched \/ i <= fetched
      BY DEF TypeOK
    <3> QED
      BY <2>3, <3>1, <3>2, <3>3
  <2>5. confirmed <= fetched
    BY DEF TypeOK
  <2> QED
    BY <2>2, <2>3, <2>4, <2>5 DEF Progress, Turn, TypeOK
<1>4. CASE Poll
  <2>1. PICK last \in fetched .. MaxUpdates :
          LET new == fetched + 1 .. last IN
          /\ \A n \in new : inbox[n] # NoUpdate
          /\ \/ /\ fetched' = last
                /\ work' = [n \in Ids |-> IF n \in new THEN FirstStep(inbox[n]) ELSE work[n]]
             \/ UNCHANGED <<fetched, work>>
    BY <1>4 DEF Poll
  <2>2. UNCHANGED <<inbox, shown, failed, interrupted>>
    BY <1>4 DEF Poll
  <2>3. CASE i \in fetched + 1 .. fetched'
    <3>1. work[i] = "out" /\ work'[i] = FirstStep(inbox[i]) /\ inbox[i] \in Updates
      BY <2>1, <2>2, <2>3 DEF Progress, TypeOK
    <3>2. /\ work'[i] \notin {"out", "prompt"} /\ failed'[i] = {}
          /\ \A t \in Texts : shown'[i][t] = 0
          /\ Answer(inbox[i]) \subseteq Ahead(work'[i])
      BY <3>1, <2>2, RouteOfUpdate DEF Progress
    <3>3. ASSUME NEW t \in Texts PROVE Turn(i, t)'
      BY <3>2, <2>2 DEF Turn
    <3>4. ~(i > fetched') /\ work'[i] # "out"
      BY <2>1, <2>3, <3>2 DEF TypeOK
    <3> QED
      BY <3>2, <3>3, <3>4 DEF Progress
  <2>4. CASE i \notin fetched + 1 .. fetched'
    <3>1. work'[i] = work[i] /\ (i > fetched <=> i > fetched')
      BY <2>1, <2>4 DEF TypeOK
    <3> QED
      BY <2>2, <3>1 DEF Progress, Turn
  <2> QED
    BY <2>3, <2>4
<1>5. ASSUME NEW n \in Ids, Handler(n) PROVE Progress(i)'
  <2>1. UNCHANGED <<inbox, fetched, interrupted>>
    BY <1>5 DEF Handler, Tell, Prompt, Menu, Thank, ForwardAttempt, ForwardFails, Send
  <2>2. CASE i = n
    BY <1>5, <2>1, <2>2, HandlerKeepsProgress
  <2>3. CASE i # n
    BY <1>5, <2>1, <2>3, OthersStay DEF Progress, Turn
  <2> QED
    BY <2>2, <2>3
<1>6. CASE UNCHANGED vars
  BY <1>6 DEF vars, Progress, Turn
<1> QED
  BY <1>1, <1>2, <1>3, <1>4, <1>5, <1>6 DEF Next

-----------------------------------------------------------------------------
LEMMA HandlerShows ==
  ASSUME TypeOK, NEW i \in Ids, Handler(i)
  PROVE  /\ \A t \in Texts : shown[i][t] > 0 => shown'[i][t] > 0
         /\ shown'[i]["prompt"] # shown[i]["prompt"] => work[i] = "prompt"
         /\ shown'[i]["opinion"] # shown[i]["opinion"] => work[i] = "forward"
         /\ work'[i] = "prompt" => shown'[i]["info"] > 0
<1>1. CASE Tell(i) \/ Prompt(i) \/ Menu(i) \/ Thank(i)
  <2> DEFINE At(step, t, good, bad) == work[i] = step /\ Send(i, t, good, bad)
  <2>1. \/ At("info", "info", "prompt", "done") \/ At("prompt", "prompt", "done", "done")
        \/ At("menu", "menu", "done", "done") \/ At("thank", "thanks", "forward", "forward")
    BY <1>1 DEF Tell, Prompt, Menu, Thank
  <2>2. PICK t \in Texts, step \in {"info", "prompt", "menu", "thank"},
             good \in Steps, bad \in Steps :
          /\ At(step, t, good, bad) /\ bad # "prompt"
          /\ good = "prompt" => t = "info"
          /\ t = "prompt" => step = "prompt"
          /\ t # "opinion"
    BY <2>1 DEF Texts, Steps
  <2> HIDE DEF At
  <2>3. /\ \/ work'[i] = good /\ shown'[i][t] = Again(shown[i][t])
           \/ work'[i] = bad
        /\ \A u \in Texts \ {t} : shown'[i][u] = shown[i][u]
        /\ shown'[i][t] \in {shown[i][t], Again(shown[i][t])}
    BY <2>2, SendMoves DEF At
  <2>4. work[i] = step
    BY <2>2 DEF At
  <2>5. shown[i][t] \in 0 .. 2 /\ Again(shown[i][t]) > 0
    BY DEF TypeOK, Again
  <2> QED
    BY <2>2, <2>3, <2>4, <2>5 DEF Texts
<1>2. CASE ForwardAttempt(i) \/ ForwardFails(i)
  <2> DEFINE t == Forwarded(inbox[i])
  <2>1. work[i] = "forward" /\ (UNCHANGED shown \/ Show(i, t)) /\ t \in {"opinion", "blank"}
    BY <1>2 DEF ForwardAttempt, ForwardFails, Forwarded
  <2>2. work'[i] # "prompt"
    BY <1>2 DEF ForwardAttempt, ForwardFails, Goes, TypeOK
  <2>3. shown'[i][t] \in {shown[i][t], Again(shown[i][t])}
    BY <2>1, ShowMoves DEF Texts
  <2>4. \A u \in Texts \ {t} : shown'[i][u] = shown[i][u]
    BY <2>1, ShowMoves DEF Texts
  <2>5. Again(shown[i][t]) > 0
    BY DEF Again
  <2> QED
    BY <2>1, <2>2, <2>3, <2>4, <2>5 DEF Texts
<1> QED
  BY <1>1, <1>2 DEF Handler

LEMMA ToldIsKept == TypeOK /\ Routed /\ Told /\ [Next]_vars => Told'
<1> USE UpdatesAssumption, BoundsAssumption DEF Told, outside, handlers, Ids
<1> SUFFICES ASSUME TypeOK, Routed, Told, [Next]_vars PROVE Told'
  OBVIOUS
<1>1. CASE UserSends
  <2>1. PICK n \in Ids, u \in Updates :
          /\ inbox[n] = NoUpdate
          /\ \A j \in 1 .. n - 1 : inbox[j] # NoUpdate
          /\ u.quotes = "prompt" =>
               \E j \in 1 .. n - 1 : inbox[j].chat = u.chat /\ shown[j]["prompt"] > 0
          /\ inbox' = [inbox EXCEPT ![n] = u]
    BY <1>1 DEF UserSends
  <2>2. UNCHANGED <<work, shown>>
    BY <1>1 DEF UserSends
  <2>3. inbox' \in [Ids -> Updates \cup {NoUpdate}] /\ inbox'[n] = u /\ u # NoUpdate
    BY <2>1 DEF TypeOK
  <2>4. \A j \in Ids \ {n} : inbox'[j] = inbox[j]
    BY <2>1 DEF TypeOK
  <2>5. ASSUME u.quotes = "prompt"
        PROVE  \E j \in 1 .. n - 1 :
                 inbox'[j] # NoUpdate /\ inbox'[j].chat = u.chat /\ shown'[j]["info"] > 0
    <3>1. PICK j \in 1 .. n - 1 : inbox[j].chat = u.chat /\ shown[j]["prompt"] > 0
      BY <2>1, <2>5
    <3>2. j \in Ids \ {n} /\ inbox[j] # NoUpdate /\ shown[j]["info"] > 0
      BY <2>1, <3>1
    <3> QED
      BY <2>2, <2>4, <3>1, <3>2
  <2> QED
    BY <2>1, <2>2, <2>3, <2>4, <2>5
<1>2. CASE Start \/ SetProfile \/ Signal
  BY <1>2 DEF Start, SetProfile, Signal
<1>3. CASE ProfileFails \/ Exit \/ Crash
  BY <1>3 DEF ProfileFails, Exit, Crash, End
<1>4. CASE Poll
  <2>1. UNCHANGED <<inbox, shown>> /\ \A i \in Ids : work'[i] # "prompt" \/ work'[i] = work[i]
    BY <1>4, RouteOfUpdate DEF Poll, TypeOK
  <2> QED
    BY <2>1
<1>5. ASSUME NEW i \in Ids, Handler(i) PROVE Told'
  <2>1. UNCHANGED inbox /\ inbox[i] \in Updates /\ work[i] \in StepsOf(inbox[i])
    BY <1>5 DEF Handler, Tell, Prompt, Menu, Thank, ForwardAttempt, ForwardFails,
                Send, Routed, TypeOK
  <2>2. \A j \in Ids : \A t \in Texts : shown[j][t] > 0 => shown'[j][t] > 0
    BY <1>5, HandlerShows, OthersStay
  <2>3. work'[i] = "prompt" \/ shown'[i]["prompt"] > 0 => shown'[i]["info"] > 0
    BY <1>5, <2>2, HandlerShows DEF Texts
  <2>4. shown'[i]["opinion"] > 0 => inbox[i].quotes \in PromptTexts
    <3>1. work[i] = "forward" => inbox[i].quotes \in PromptTexts
      BY <2>1, RouteOfUpdate DEF StepsOf
    <3> QED
      BY <1>5, <3>1, HandlerShows
  <2>5. ASSUME NEW j \in Ids
        PROVE  /\ work'[j] = "prompt" \/ shown'[j]["prompt"] > 0 => shown'[j]["info"] > 0
               /\ shown'[j]["info"] > 0 => inbox[j] # NoUpdate
               /\ shown'[j]["opinion"] > 0 => inbox[j] # NoUpdate /\ inbox[j].quotes \in PromptTexts
    <3>1. CASE j = i
      BY <2>1, <2>3, <2>4, <3>1
    <3>2. CASE j # i
      BY <1>5, <3>2, OthersStay
    <3> QED
      BY <3>1, <3>2
  <2>6. ASSUME NEW j \in Ids, inbox[j] # NoUpdate, inbox[j].quotes = "prompt"
        PROVE  \E k \in 1 .. j - 1 :
                 inbox[k] # NoUpdate /\ inbox[k].chat = inbox[j].chat /\ shown'[k]["info"] > 0
    BY <2>2, <2>6 DEF Texts
  <2> QED
    BY <2>1, <2>5, <2>6
<1>6. CASE UNCHANGED vars
  BY <1>6 DEF vars
<1> QED
  BY <1>1, <1>2, <1>3, <1>4, <1>5, <1>6 DEF Next

-----------------------------------------------------------------------------
\* A step of a handler goes on with its own update, or ends there.
LEMMA HandlerMoves ==
  ASSUME TypeOK, NEW i \in Ids, Handler(i)
  PROVE  /\ UNCHANGED <<inbox, confirmed, fetched>>
         /\ work[i] \notin {"out", "done"}
         /\ work'[i] # "out"
         /\ work' = [work EXCEPT ![i] = work'[i]]
<1>1. /\ UNCHANGED <<inbox, confirmed, fetched>>
      /\ work[i] \in {"info", "prompt", "menu", "thank", "forward"}
      /\ UNCHANGED work \/ Goes(i, "done") \/ Goes(i, "prompt") \/ Goes(i, "forward")
  BY DEF Handler, Tell, Prompt, Menu, Thank, Send, ForwardAttempt, ForwardFails, outside
<1> QED
  BY <1>1 DEF Goes, TypeOK

\* What a poll brings, and what it makes Telegram forget.
LEMMA PollMoves ==
  ASSUME TypeOK, Poll
  PROVE  \E last \in fetched .. MaxUpdates :
           /\ \A i \in fetched + 1 .. last : inbox[i] \in Updates
           /\ UNCHANGED inbox
           /\ confirmed' = fetched /\ fetched' = last
           /\ work' = [i \in Ids |->
                IF i \in fetched + 1 .. last THEN FirstStep(inbox[i]) ELSE work[i]]
<1> USE BoundsAssumption DEF TypeOK, Ids
<1>1. PICK last \in fetched .. MaxUpdates :
        LET new == fetched + 1 .. last IN
        /\ \A i \in new : inbox[i] # NoUpdate
        /\ Confirm(last)
        /\ \/ /\ fetched' = last
              /\ work' = [i \in Ids |-> IF i \in new THEN FirstStep(inbox[i]) ELSE work[i]]
           \/ UNCHANGED <<fetched, work>>
  BY DEF Poll
<1>2. UNCHANGED inbox /\ confirmed' = fetched
  BY <1>1 DEF Poll, Confirm
<1>3. CASE fetched' = last /\ work' = [i \in Ids |-> IF i \in fetched + 1 .. last THEN FirstStep(inbox[i]) ELSE work[i]]
  BY <1>1, <1>2, <1>3
<1>4. CASE UNCHANGED <<fetched, work>>
  <2>1. fetched + 1 .. fetched = {} /\ fetched \in fetched .. MaxUpdates
    OBVIOUS
  <2>2. work' = [i \in Ids |-> IF i \in fetched + 1 .. fetched THEN FirstStep(inbox[i]) ELSE work[i]]
    BY <2>1, <1>4
  <2> QED
    BY <1>2, <1>4, <2>1, <2>2
<1> QED
  BY <1>1, <1>3, <1>4

LEMMA TakenAreHeldIsKept == TypeOK /\ Routed /\ TakenAreHeld /\ [Next]_vars => TakenAreHeld'
<1> USE UpdatesAssumption, BoundsAssumption DEF TypeOK, TakenAreHeld, outside, handlers, Ids
<1> SUFFICES ASSUME TypeOK, Routed, TakenAreHeld, [Next]_vars PROVE TakenAreHeld'
  OBVIOUS
<1>1. CASE ProfileFails \/ Exit \/ Crash
  BY <1>1 DEF ProfileFails, Exit, Crash, End
<1>2. CASE Poll
  <2>1. PICK last \in fetched .. MaxUpdates :
          /\ \A i \in fetched + 1 .. last : inbox[i] \in Updates
          /\ confirmed' = fetched /\ fetched' = last
          /\ work' = [i \in Ids |->
               IF i \in fetched + 1 .. last THEN FirstStep(inbox[i]) ELSE work[i]]
    BY <1>2, PollMoves
  <2>2. \A i \in fetched + 1 .. last : FirstStep(inbox[i]) # "out"
    BY <2>1, RouteOfUpdate
  <2> QED
    BY <2>1, <2>2
<1>3. ASSUME NEW i \in Ids, Handler(i) PROVE TakenAreHeld'
  BY <1>3, HandlerMoves
<1>4. CASE UserSends \/ Start \/ SetProfile \/ Signal \/ UNCHANGED vars
  BY <1>4 DEF UserSends, Start, SetProfile, Signal, vars
<1> QED
  BY <1>1, <1>2, <1>3, <1>4 DEF Next

-----------------------------------------------------------------------------
(* The refinement of UpdateDelivery. *)

\* The status of an update, case by case.
LEMMA StatusOf ==
  ASSUME NEW i \in Ids, fetched \in Int
  PROVE  /\ inbox[i] = NoUpdate => Status[i] = "unsent"
         /\ inbox[i] # NoUpdate /\ i > fetched => Status[i] = "waiting"
         /\ inbox[i] # NoUpdate /\ i <= fetched =>
              /\ work[i] = "out" => Status[i] = "lost"
              /\ work[i] = "done" => Status[i] = "done"
              /\ work[i] \notin {"out", "done"} => Status[i] = "handling"
BY BoundsAssumption DEF Status, Ids

LEMMA StatusOfPrime ==
  ASSUME NEW i \in Ids, fetched' \in Int
  PROVE  /\ inbox'[i] = NoUpdate => Status'[i] = "unsent"
         /\ inbox'[i] # NoUpdate /\ i > fetched' => Status'[i] = "waiting"
         /\ inbox'[i] # NoUpdate /\ i <= fetched' =>
              /\ work'[i] = "out" => Status'[i] = "lost"
              /\ work'[i] = "done" => Status'[i] = "done"
              /\ work'[i] \notin {"out", "done"} => Status'[i] = "handling"
BY BoundsAssumption DEF Status, Ids

LEMMA StepIsDeliveryStep ==
  ASSUME IInv, [Next]_vars
  PROVE  [Delivery!Next]_<<Status, 1 .. confirmed>>
<1> USE UpdatesAssumption, BoundsAssumption DEF IInv, TypeOK, Routed, TakenAreHeld, Ids
<1>a. Status = [i \in Ids |-> Status[i]] /\ Status' = [i \in Ids |-> Status'[i]]
  BY DEF Status
<1>b. fetched \in Int /\ fetched' \in Int
  BY TypeOKIsKept
<1>1. CASE UserSends
  <2>1. PICK n \in Ids, u \in Updates :
          /\ inbox[n] = NoUpdate
          /\ \A j \in 1 .. n - 1 : inbox[j] # NoUpdate
          /\ inbox' = [inbox EXCEPT ![n] = u]
    BY <1>1 DEF UserSends
  <2>2. UNCHANGED <<confirmed, fetched, work>> /\ n > fetched
    BY <1>1, <2>1 DEF UserSends, handlers
  <2>3. Status[n] = "unsent" /\ Status'[n] = "waiting"
    BY <2>1, <2>2, <1>b, StatusOf, StatusOfPrime
  <2>4. \A i \in Ids \ {n} : Status'[i] = Status[i]
    BY <2>1, <2>2 DEF Status
  <2>5. ASSUME NEW j \in Ids, j < n PROVE Status[j] # "unsent"
    <3>1. inbox[j] # NoUpdate
      BY <2>1, <2>5
    <3>2. Status[j] \in {"waiting", "lost", "done", "handling"}
      BY <3>1, <1>b, StatusOf
    <3> QED
      BY <3>2
  <2>6. Status' = [Status EXCEPT ![n] = "waiting"]
    BY <1>a, <2>3, <2>4
  <2> QED
    BY <2>2, <2>3, <2>5, <2>6 DEF Delivery!Next, Delivery!Send, Delivery!Changes
<1>2. CASE ProfileFails \/ Exit \/ Crash
  <2>1. End
    BY <1>2 DEF ProfileFails, Exit, Crash
  <2>2. /\ fetched' = confirmed /\ UNCHANGED <<inbox, confirmed>>
        /\ \A i \in Ids : work'[i] = IF work[i] = "done" THEN "done" ELSE "out"
    BY <2>1 DEF End, outside
  <2>3. ASSUME NEW i \in Ids
        PROVE  Status'[i] = CASE Status[i] = "handling" /\ i \in 1 .. confirmed -> "lost"
                              [] Status[i] \in {"handling", "done"} /\ i \notin 1 .. confirmed -> "waiting"
                              [] OTHER -> Status[i]
    <3>1. CASE inbox[i] = NoUpdate
      BY <2>2, <3>1, <1>b, StatusOf, StatusOfPrime
    <3>2. CASE inbox[i] # NoUpdate /\ i <= confirmed
      BY <2>2, <3>2, <1>b, StatusOf, StatusOfPrime
    <3>3. CASE inbox[i] # NoUpdate /\ confirmed < i
      BY <2>2, <3>3, <1>b, StatusOf, StatusOfPrime
    <3> QED
      BY <3>1, <3>2, <3>3
  <2> QED
    BY <1>a, <2>2, <2>3 DEF Delivery!Next, Delivery!End
<1>3. CASE Poll
  <2>1. PICK last \in fetched .. MaxUpdates :
          /\ \A i \in fetched + 1 .. last : inbox[i] \in Updates
          /\ UNCHANGED inbox
          /\ confirmed' = fetched /\ fetched' = last
          /\ work' = [i \in Ids |->
               IF i \in fetched + 1 .. last THEN FirstStep(inbox[i]) ELSE work[i]]
    BY <1>3, PollMoves
  <2> DEFINE new == fetched + 1 .. last
             trivial == {i \in Ids : i \in new /\ FirstStep(inbox[i]) = "done"}
  <2>2. 1 .. confirmed' = 1 .. confirmed \cup {i \in Ids : Status[i] \in {"handling", "done"}}
    <3>1. ASSUME NEW i \in Ids
          PROVE  i \in 1 .. fetched <=>
                   i \in 1 .. confirmed \/ Status[i] \in {"handling", "done"}
      BY <1>b, StatusOf
    <3>2. 1 .. fetched \subseteq Ids /\ 1 .. confirmed \subseteq 1 .. fetched
      OBVIOUS
    <3> QED
      BY <2>1, <3>1, <3>2
  <2>3. ASSUME NEW i \in Ids
        PROVE  /\ i \in new => Status[i] = "waiting"
               /\ Status[i] = "waiting" /\ i <= last => i \in new
               /\ Status'[i] = IF i \notin new THEN Status[i]
                               ELSE IF i \in trivial THEN "done" ELSE "handling"
    <3>1. CASE i \in new
      <4>1. inbox[i] \in Updates /\ work'[i] = FirstStep(inbox[i]) /\ FirstStep(inbox[i]) # "out"
        BY <2>1, <3>1, RouteOfUpdate
      <4> QED
        BY <2>1, <3>1, <4>1, <1>b, StatusOf, StatusOfPrime
    <3>2. CASE i \notin new
      <4>1. work'[i] = work[i] /\ inbox'[i] = inbox[i] /\ (i <= fetched <=> i <= fetched')
        BY <2>1, <3>2
      <4>2. Status'[i] = Status[i]
        BY <4>1, <1>b DEF Status
      <4>3. Status[i] = "waiting" => i > fetched'
        BY <4>1, <1>b, StatusOf
      <4> QED
        BY <2>1, <3>2, <4>2, <4>3
    <3> QED
      BY <3>1, <3>2
  <2> HIDE DEF trivial
  <2>4. /\ new \in SUBSET {i \in Ids : Status[i] = "waiting"}
        /\ \A i \in new, j \in Ids : j < i => Status[j] # "waiting" \/ j \in new
    BY <2>3
  <2>5. trivial \in SUBSET Ids
    BY DEF trivial
  <2>6. Status' = [i \in Ids |->
          IF i \notin new THEN Status[i] ELSE IF i \in trivial THEN "done" ELSE "handling"]
    BY <1>a, <2>3
  <2> HIDE DEF new
  <2>7. Delivery!Poll
    BY ONLY <2>2, <2>4, <2>5, <2>6 DEF Delivery!Poll
  <2> QED
    BY <2>7 DEF Delivery!Next
<1>4. ASSUME NEW i \in Ids, Handler(i) PROVE [Delivery!Next]_<<Status, 1 .. confirmed>>
  <2>1. /\ UNCHANGED <<inbox, confirmed, fetched>>
        /\ work[i] \notin {"out", "done"} /\ work'[i] # "out"
        /\ \A j \in Ids \ {i} : work'[j] = work[j]
    BY <1>4, HandlerMoves
  <2>2. i <= fetched /\ inbox[i] # NoUpdate
    BY <2>1
  <2>3. Status[i] = "handling" /\ Status'[i] \in {"handling", "done"}
    BY <2>1, <2>2, <1>b, StatusOf, StatusOfPrime
  <2>4. \A j \in Ids \ {i} : Status'[j] = Status[j]
    BY <2>1 DEF Status
  <2>5. CASE Status'[i] = "done"
    <3>1. Status' = [Status EXCEPT ![i] = "done"]
      BY <1>a, <2>4, <2>5
    <3> QED
      BY <2>1, <2>3, <3>1 DEF Delivery!Next, Delivery!Finish, Delivery!Changes
  <2>6. CASE Status'[i] = "handling"
    BY <1>a, <2>1, <2>3, <2>4, <2>6
  <2> QED
    BY <2>3, <2>5, <2>6
<1>5. CASE Start \/ SetProfile \/ Signal \/ UNCHANGED vars
  BY <1>5 DEF Start, SetProfile, Signal, vars, outside, handlers, Status
<1> QED
  BY <1>1, <1>2, <1>3, <1>4, <1>5 DEF Next

-----------------------------------------------------------------------------
\* The invariant behind the theorems below holds in every reachable state.
THEOREM BotInvariant == Spec => []IInv
<1>1. IInv /\ [Next]_vars => IInv'
  BY TypeOKIsKept, RoutedIsKept, SentSoFarIsKept, ToldIsKept, TakenAreHeldIsKept DEF IInv
<1> QED
  BY InitEstablishesIInv, <1>1, PTL DEF Spec

\* Every variable keeps its type.
THEOREM TypeCorrectness == Spec => []TypeOK
<1>1. IInv => TypeOK
  BY DEF IInv
<1> QED
  BY BotInvariant, <1>1, PTL

\* A handler that comes to its end in a process that lives sends every text
\* of the answer exactly once, but for those it got an error for.
THEOREM AnswersAreComplete == Spec => []AnsweredOnce
<1>1. IInv => AnsweredOnce
  BY DEF IInv, AnsweredOnce, SentSoFar, Progress, Turn, Ahead
<1> QED
  BY BotInvariant, <1>1, PTL

\* Telegram forgets an update only after it has reached a handler, or the
\* process has ended with it.
THEOREM UpdatesReachHandlers == Spec => []NothingSlipsThrough
<1>1. IInv => NothingSlipsThrough
  <2> SUFFICES ASSUME IInv, NEW i \in 1 .. confirmed, i \notin interrupted
               PROVE  work[i] # "out"
    BY DEF NothingSlipsThrough
  <2>1. i \in Ids /\ ~(i > fetched)
    BY BoundsAssumption DEF IInv, TypeOK, Ids
  <2> QED
    BY <2>1 DEF IInv, SentSoFar, Progress
<1> QED
  BY BotInvariant, <1>1, PTL

\* Whoever does not quote a copied prompt was told how opinions are used
\* before his is forwarded, in the same chat (feedback.go, default.go).
THEOREM OpinionsAreInformed == Spec => []ToldUnlessCopied
<1>1. IInv => ToldUnlessCopied
  BY DEF IInv, Told, ToldUnlessCopied, PromptTexts
<1> QED
  BY BotInvariant, <1>1, PTL

\* However polls, handlers and ends of the process interleave, an update is
\* handled in its turn, again if it was not forgotten, never if it was, and
\* lost only when the process ends under its handler.
THEOREM UpdatesAreDelivered == Spec => ImplementsDelivery
<1>1. Init => Delivery!Init
  <2> SUFFICES ASSUME Init PROVE Delivery!Init
    OBVIOUS
  <2>1. \A i \in Ids : Status[i] = "unsent"
    BY StatusOf, BoundsAssumption DEF Init
  <2>2. Status = [i \in Ids |-> "unsent"]
    BY <2>1 DEF Status
  <2>3. 1 .. confirmed = {}
    BY DEF Init
  <2> QED
    BY <2>2, <2>3 DEF Delivery!Init
<1>2. IInv /\ [Next]_vars => [Delivery!Next]_<<Status, 1 .. confirmed>>
  BY StepIsDeliveryStep
<1> QED
  BY <1>1, <1>2, BotInvariant, PTL DEF Spec, ImplementsDelivery, Delivery!Spec, Delivery!vars
-----------------------------------------------------------------------------
(* Handlers come to an end. *)

\* A step of a handler costs it a call, and touches no other.
LEMMA HandlerGoesForward ==
  ASSUME TypeOK, NEW i \in Ids, Handler(i)
  PROVE  CallsLeft(i)' < CallsLeft(i)
<1> USE BoundsAssumption DEF TypeOK, CallsLeft
<1>1. CASE Tell(i) \/ Prompt(i) \/ Menu(i)
  <2>1. \/ work[i] = "info" /\ work'[i] \in {"prompt", "done"}
        \/ work[i] \in {"prompt", "menu"} /\ work'[i] = "done"
    BY <1>1 DEF Tell, Prompt, Menu, Send, Goes
  <2> QED
    BY <2>1
<1>2. CASE Thank(i)
  <2>1. work[i] = "thank" /\ work'[i] = "forward" /\ attempts'[i] \in Nat
    BY <1>2 DEF Thank, Send, Goes
  <2> QED
    BY <2>1
<1>3. CASE ForwardAttempt(i)
  <2>1. /\ work[i] = "forward" /\ attempts[i] < MaxAttempts
        /\ work'[i] = "done" \/ (work'[i] = "forward" /\ attempts'[i] = attempts[i] + 1)
    BY <1>3 DEF ForwardAttempt, Goes
  <2> QED
    BY <2>1
<1>4. CASE ForwardFails(i)
  BY <1>4 DEF ForwardFails, Goes
<1> QED
  BY <1>1, <1>2, <1>3, <1>4 DEF Handler

\* What is not a step of the handler of j leaves it alone, or ends it.
LEMMA HandlersAreApart ==
  ASSUME TypeOK, Routed, Next, NEW j \in Ids, work[j] \notin {"out", "done"}, ~Handler(j),
         j <= fetched
  PROVE  \/ CallsLeft(j)' < CallsLeft(j)
         \/ UNCHANGED <<work[j], attempts[j], shown[j], failed[j]>>
<1> USE BoundsAssumption DEF TypeOK
<1>1. CASE UserSends \/ Start \/ SetProfile \/ Signal
  BY <1>1 DEF UserSends, Start, SetProfile, Signal, handlers
<1>2. CASE ProfileFails \/ Exit \/ Crash
  <2>1. work'[j] = "out"
    BY <1>2 DEF ProfileFails, Exit, Crash, End
  <2> QED
    BY <2>1 DEF CallsLeft, Steps
<1>3. CASE Poll
  <2>1. work'[j] = work[j]
    BY <1>3, PollMoves DEF Ids
  <2> QED
    BY <2>1, <1>3 DEF Poll
<1>4. ASSUME NEW i \in Ids, Handler(i)
      PROVE  UNCHANGED <<work[j], attempts[j], shown[j], failed[j]>>
  BY <1>4 DEF Handler, Tell, Prompt, Menu, Thank, Send, ForwardAttempt, ForwardFails,
    Goes, Show, Errs
<1> QED
  BY <1>1, <1>2, <1>3, <1>4 DEF Next

\* No chain of errors keeps a handler going (feedback.go, default.go).
THEOREM EveryHandlerEnds == Spec => HandlersAreFinite
<1>1. ASSUME IInv, Next
      PROVE  \A i \in Ids : work[i] \notin {"out", "done"} =>
               \/ CallsLeft(i)' < CallsLeft(i)
               \/ UNCHANGED <<work[i], attempts[i], shown[i], failed[i]>>
  BY <1>1, HandlerGoesForward, HandlersAreApart DEF IInv, TakenAreHeld
<1>2. IInv /\ [Next]_vars =>
        [\A i \in Ids : work[i] \notin {"out", "done"} =>
           CallsLeft(i)' < CallsLeft(i)
             \/ UNCHANGED <<work[i], attempts[i], shown[i], failed[i]>>]_vars
  BY <1>1
<1> QED
  BY <1>2, BotInvariant, PTL DEF Spec, HandlersAreFinite
-----------------------------------------------------------------------------
(* What follows from UpdateDelivery alone. *)

Taken == {i \in Ids : Status[i] \notin {"unsent", "waiting"}}

\* Updates are taken in the order they were sent, none is forgotten that was
\* not taken, and none is lost that was not forgotten.
InOrder ==
  /\ 1 .. confirmed \subseteq Taken
  /\ \A i \in Ids : Status[i] = "lost" => i \in 1 .. confirmed
  /\ \A i \in Ids, j \in Ids : j < i =>
       /\ Status[i] # "unsent" => Status[j] # "unsent"
       /\ i \in Taken => j \in Taken

LEMMA DeliveryKeepsOrder ==
  ASSUME TypeOK, TypeOK', InOrder, [Delivery!Next]_<<Status, 1 .. confirmed>>
  PROVE  InOrder'
<1> USE BoundsAssumption DEF Ids, TypeOK
<1>0. CASE UNCHANGED <<Status, 1 .. confirmed>>
  BY <1>0 DEF InOrder, Taken
<1>1. ASSUME NEW n \in Ids, Delivery!Send(n) PROVE InOrder'
  <2>1. /\ \A j \in Ids : j < n => Status[j] # "unsent"
        /\ Status[n] = "unsent" /\ Status' = [Status EXCEPT ![n] = "waiting"]
        /\ (1 .. confirmed)' = 1 .. confirmed
    BY <1>1 DEF Delivery!Send, Delivery!Changes
  <2>2. Status'[n] = "waiting" /\ \A j \in Ids \ {n} : Status'[j] = Status[j]
    BY <2>1 DEF Status
  <2>3. Taken' = Taken
    BY <2>1, <2>2 DEF Taken
  <2> QED
    BY <2>1, <2>2, <2>3 DEF InOrder
<1>2. ASSUME NEW n \in Ids, Delivery!Finish(n) PROVE InOrder'
  <2>1. /\ Status[n] = "handling" /\ Status' = [Status EXCEPT ![n] = "done"]
        /\ (1 .. confirmed)' = 1 .. confirmed
    BY <1>2 DEF Delivery!Finish, Delivery!Changes
  <2>2. Status'[n] = "done" /\ \A j \in Ids \ {n} : Status'[j] = Status[j]
    BY <2>1 DEF Status
  <2>3. Taken' = Taken
    BY <2>1, <2>2 DEF Taken
  <2> QED
    BY <2>1, <2>2, <2>3 DEF InOrder
<1>3. CASE Delivery!Poll
  <2>1. PICK new \in SUBSET {i \in Ids : Status[i] = "waiting"}, trivial \in SUBSET Ids :
          /\ \A i \in new, j \in Ids : j < i => Status[j] # "waiting" \/ j \in new
          /\ Status' = [i \in Ids |->
               IF i \notin new THEN Status[i] ELSE IF i \in trivial THEN "done" ELSE "handling"]
    BY <1>3 DEF Delivery!Poll
  <2>2. \A i \in Ids : IF i \in new THEN Status'[i] \in {"done", "handling"} ELSE Status'[i] = Status[i]
    BY <2>1
  <2>3. Taken' = Taken \cup new
    BY <2>2 DEF Taken
  <2>4. (1 .. confirmed)' \subseteq 1 .. confirmed \cup {i \in Ids : Status[i] \in {"handling", "done"}}
    BY <1>3 DEF Delivery!Poll
  <2>5. (1 .. confirmed)' \subseteq Taken'
    BY <2>3, <2>4 DEF InOrder, Taken
  <2>6. \A i \in Ids : Status'[i] = "unsent" <=> Status[i] = "unsent"
    BY <2>1, <2>2
  <2>7. ASSUME NEW i \in Ids, NEW j \in Ids, j < i, i \in Taken' PROVE j \in Taken'
    BY <2>1, <2>3, <2>7 DEF InOrder, Taken
  <2>8. 1 .. confirmed \subseteq (1 .. confirmed)'
    BY <1>3 DEF Delivery!Poll
  <2>9. \A i \in Ids : Status'[i] = "lost" => Status[i] = "lost"
    BY <2>2
  <2> QED
    BY <2>5, <2>6, <2>7, <2>8, <2>9 DEF InOrder
<1>4. CASE Delivery!End
  <2>1. /\ (1 .. confirmed)' = 1 .. confirmed
        /\ \A i \in Ids : Status'[i] =
             CASE Status[i] = "handling" /\ i \in 1 .. confirmed -> "lost"
               [] Status[i] \in {"handling", "done"} /\ i \notin 1 .. confirmed -> "waiting"
               [] OTHER -> Status[i]
    BY <1>4 DEF Delivery!End
  <2>2. \A i \in Ids : Status'[i] = "unsent" <=> Status[i] = "unsent"
    BY <2>1
  <2>3. \A i \in Ids : i \in 1 .. confirmed =>
          /\ i \in Taken' <=> i \in Taken
          /\ Status'[i] = "lost" => Status[i] \in {"handling", "lost"}
    BY <2>1 DEF Taken
  <2>4. \A i \in Ids : i \notin 1 .. confirmed =>
          /\ Status[i] # "lost"
          /\ Status'[i] # "lost" /\ i \notin Taken'
    <3> SUFFICES ASSUME NEW i \in Ids, i \notin 1 .. confirmed
                 PROVE  Status[i] # "lost" /\ Status'[i] # "lost" /\ i \notin Taken'
      OBVIOUS
    <3>1. Status[i] \in {"unsent", "waiting", "handling", "done"}
      <4>1. fetched \in Int
        OBVIOUS
      <4>2. Status[i] # "lost"
        BY DEF InOrder
      <4> QED
        BY StatusOf, <4>1, <4>2
    <3> QED
      BY <3>1, <2>1 DEF Taken
  <2>5. (1 .. confirmed)' \subseteq Taken'
    BY <2>1, <2>3 DEF InOrder
  <2>6. \A i \in Ids : Status'[i] = "lost" => i \in (1 .. confirmed)'
    BY <2>1, <2>4
  <2>7. ASSUME NEW i \in Ids, NEW j \in Ids, j < i, i \in Taken' PROVE j \in Taken'
    <3>1. i \in 1 .. confirmed /\ j \in 1 .. confirmed
      BY <2>7, <2>4
    <3> QED
      BY <3>1, <2>1, <2>5
  <2> QED
    BY <2>2, <2>5, <2>6, <2>7 DEF InOrder
<1> QED
  BY <1>0, <1>1, <1>2, <1>3, <1>4 DEF Delivery!Next

\* Over polls whose answers are lost, crashes and restarts, no update is
\* dispatched before one that was sent earlier, and Telegram forgets none
\* that no handler has had (the polling loop that main.go starts).
THEOREM UpdatesAreTakenInOrder == Spec => []InOrder
<1>1. Init => InOrder
  <2> SUFFICES ASSUME Init PROVE InOrder
    OBVIOUS
  <2>1. \A i \in Ids : Status[i] = "unsent"
    BY StatusOf, BoundsAssumption DEF Init
  <2>2. 1 .. confirmed = {}
    BY DEF Init
  <2> QED
    BY <2>1, <2>2 DEF InOrder, Taken
<1>2. TypeOK /\ TypeOK' /\ InOrder /\ [Delivery!Next]_<<Status, 1 .. confirmed>> => InOrder'
  BY DeliveryKeepsOrder
<1> QED
  BY <1>1, <1>2, TypeCorrectness, UpdatesAreDelivered, PTL
    DEF Spec, ImplementsDelivery, Delivery!Spec, Delivery!vars

\* What is over for an update that Telegram has forgotten.
ForgottenAreOver ==
  \A i \in 1 .. confirmed : Status[i] \in {"done", "lost"} => Status'[i] = Status[i]

\* An update that was handled and is forgotten is not handled again, whatever
\* happens to the process afterwards (the polling loop that main.go starts).
THEOREM ForgottenIsNotHandledAgain == Spec => [][ForgottenAreOver]_<<Status, 1 .. confirmed>>
<1>1. ASSUME TypeOK, Delivery!Next PROVE ForgottenAreOver
  <2> SUFFICES ASSUME NEW i \in Ids, i \in 1 .. confirmed, Status[i] \in {"done", "lost"}
               PROVE  Status'[i] = Status[i]
    BY <1>1, BoundsAssumption DEF ForgottenAreOver, TypeOK, Ids
  <2>1. CASE \E n \in Ids : Delivery!Send(n) \/ Delivery!Finish(n)
    <3>1. PICK n \in Ids, to \in {"waiting", "done"} :
            /\ Status[n] \in {"unsent", "handling"}
            /\ Status' = [Status EXCEPT ![n] = to]
      BY <2>1 DEF Delivery!Send, Delivery!Finish, Delivery!Changes
    <3> QED
      BY <3>1 DEF Status
  <2>2. CASE Delivery!Poll
    BY <2>2 DEF Delivery!Poll
  <2>3. CASE Delivery!End
    BY <2>3 DEF Delivery!End
  <2> QED
    BY <1>1, <2>1, <2>2, <2>3 DEF Delivery!Next
<1>2. TypeOK /\ [Delivery!Next]_<<Status, 1 .. confirmed>>
        => [ForgottenAreOver]_<<Status, 1 .. confirmed>>
  BY <1>1
<1> QED
  BY <1>2, TypeCorrectness, UpdatesAreDelivered, PTL
    DEF ImplementsDelivery, Delivery!Spec, Delivery!vars
=============================================================================
