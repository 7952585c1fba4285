---------------------------- MODULE MCTelegramBot ----------------------------
(***************************************************************************)
(* Small instances of TelegramBot for TLC.                                 *)
(***************************************************************************)
EXTENDS TelegramBot

Says(chat, command, quotes, content) ==
  [chat |-> chat, isMessage |-> TRUE, isCommand |-> command,
   quotes |-> quotes, content |-> content]

\* A user who asks to be asked, also within a reply to the prompt; opinions
\* of every kind, and from a second chat that was never told and quotes a
\* copied prompt; a reply to something else; an update that is no message.
MCUpdates ==
  {Says(1, TRUE, "nothing", "plain"), Says(1, TRUE, "prompt", "plain"),
   Says(1, FALSE, "other", "plain"), Says(2, FALSE, "copy", "plain"),
   [Says(1, FALSE, "nothing", "plain") EXCEPT !.isMessage = FALSE]}
    \cup {Says(1, FALSE, "prompt", c) : c \in Contents}

\* One chat with an opinion that has markup of its own.
MCConversation ==
  {Says(1, TRUE, "nothing", "plain"), Says(1, FALSE, "prompt", "refused")}
=============================================================================
