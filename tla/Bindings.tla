------------------------------ MODULE Bindings ------------------------------
(***************************************************************************)
(* The chats of one messenger that users have linked to receive their      *)
(* messages there.  A user gets a code from the service and sends it from  *)
(* his chat to the bot, which is told so by the messenger.  Bots read what *)
(* the messenger tells them, in every instance of the service; deliveries  *)
(* send to the chats meanwhile.                                            *)
(*                                                                         *)
(* What the messenger tells may come again, after a restart of the bot or  *)
(* to another instance, and people repeat their messages: any update may   *)
(* come at any time.                                                       *)
(***************************************************************************)
EXTENDS Naturals, FiniteSets

CONSTANTS
  Users, Chats,
  Codes,          \* random: each is given out once
  Nothing,        \* no chat, no code, nobody
  Bots, Senders

VARIABLES
  binding,  \* table messenger_binding: the row of each user
  issued,   \* the user each code was given to
  linked,   \* which chat has been linked by which code
  update,   \* what each bot is handling
  sending   \* what each delivery is sending

vars == <<binding, issued, linked, update, sending>>

NoBinding == [chat |-> Nothing, blocked |-> FALSE, code |-> Nothing]
Binding == [chat : Chats \cup {Nothing}, blocked : BOOLEAN, code : Codes \cup {Nothing}]

\* A message with or without a code, or a start with one, or a stop.  Not
\* every messenger tells of starts and stops.
Update == [kind : {"MESSAGE", "STARTED", "STOPPED"}, chat : Chats, code : Codes \cup {Nothing}]
NoUpdate == [kind |-> "NONE"]
NoSend == [at |-> "idle"]

TypeOK ==
  /\ binding \in [Users -> Binding]
  /\ issued \in [Codes -> Users \cup {Nothing}]
  /\ linked \subseteq Codes \X Chats
  /\ update \in [Bots -> {NoUpdate} \cup Update]
  /\ sending \in [Senders -> {NoSend} \cup
                   [at : {"sending", "refused"}, user : Users, chat : Chats]]

Init ==
  /\ binding = [u \in Users |-> NoBinding]
  /\ issued = [k \in Codes |-> Nothing]
  /\ linked = {}
  /\ update = [b \in Bots |-> NoUpdate]
  /\ sending = [s \in Senders |-> NoSend]

-----------------------------------------------------------------------------
(* Codes.                                                                  *)

\* The chat that was linked before stays so until the code is used.
StartMessengerBinding(u, k) == binding' = [binding EXCEPT ![u].code = k]

LinkMessenger(u, k) ==
  /\ issued[k] = Nothing
  /\ issued' = [issued EXCEPT ![k] = u]
  /\ StartMessengerBinding(u, k)
  /\ UNCHANGED <<linked, update, sending>>

\* An expired code is as good as none.
Expire(u) ==
  /\ binding[u].code # Nothing
  /\ binding' = [binding EXCEPT ![u].code = Nothing]
  /\ UNCHANGED <<issued, linked, update, sending>>

-----------------------------------------------------------------------------
(* The bot.                                                                *)

\* A code that comes was given to somebody, and may be used up or replaced.
Updates(b, e) ==
  /\ update[b] = NoUpdate
  /\ e.code # Nothing => issued[e.code] # Nothing
  /\ e.kind = "STOPPED" => e.code = Nothing
  /\ update' = [update EXCEPT ![b] = e]
  /\ UNCHANGED <<binding, issued, linked, sending>>

SetMessengerBlocked(chat, blocked) ==
  binding' = [u \in Users |-> IF binding[u].chat = chat
                              THEN [binding[u] EXCEPT !.blocked = blocked] ELSE binding[u]]

Handled(b) == update' = [update EXCEPT ![b] = NoUpdate]

\* The mark may fail to be written: that is logged, and the update is over.
Stopped(b) ==
  /\ update[b].kind = "STOPPED"
  /\ SetMessengerBlocked(update[b].chat, TRUE) \/ UNCHANGED binding
  /\ Handled(b)
  /\ UNCHANGED <<issued, linked, sending>>

\* A start is then handled like the command it comes with.
Started(b) ==
  /\ update[b].kind = "STARTED"
  /\ SetMessengerBlocked(update[b].chat, FALSE) \/ UNCHANGED binding
  /\ update' = [update EXCEPT ![b].kind = "MESSAGE"]
  /\ UNCHANGED <<issued, linked, sending>>

\* Two users cannot have one chat: it stays with the one who has it.
ChatTaken(u, chat) == \E v \in Users \ {u} : binding[v].chat = chat

\* Mutant of Completed: the code can be used again.
CompletedAgain(u, chat) == [binding[u] EXCEPT !.chat = chat, !.blocked = FALSE]

Completed(u, chat) == [chat |-> chat, blocked |-> FALSE, code |-> Nothing]

CompleteMessengerBinding(k, chat) ==
  \E u \in Users :
    /\ binding[u].code = k /\ ~ChatTaken(u, chat)
    /\ binding' = [binding EXCEPT ![u] = Completed(u, chat)]
    /\ linked' = linked \cup {<<k, chat>>}

HandleCommand(b) ==
  /\ update[b].kind = "MESSAGE"
  /\ \/ /\ update[b].code # Nothing
        /\ CompleteMessengerBinding(update[b].code, update[b].chat)
     \/ UNCHANGED <<binding, linked>>
  /\ Handled(b)
  /\ UNCHANGED <<issued, sending>>

\* The bot stops with what it had read; it will be told so again, or not.
Stop(b) ==
  /\ update[b] # NoUpdate
  /\ Handled(b)
  /\ UNCHANGED <<binding, issued, linked, sending>>

-----------------------------------------------------------------------------
(* Deliveries.                                                             *)

MessengerBinding(s, u) ==
  /\ sending[s] = NoSend
  /\ binding[u].chat # Nothing /\ ~binding[u].blocked
  /\ sending' = [sending EXCEPT ![s] = [at |-> "sending", user |-> u, chat |-> binding[u].chat]]
  /\ UNCHANGED <<binding, issued, linked, update>>

\* The message arrives, or there is no answer.
Send(s) ==
  /\ sending[s].at = "sending"
  /\ sending' = [sending EXCEPT ![s] = NoSend]
  /\ UNCHANGED <<binding, issued, linked, update>>

\* The chat refuses what the bot sends.
Refuse(s) ==
  /\ sending[s].at = "sending"
  /\ sending' = [sending EXCEPT ![s].at = "refused"]
  /\ UNCHANGED <<binding, issued, linked, update>>

\* The mark is the user's, whatever chat he has linked meanwhile.
BlockMessenger(s) ==
  /\ sending[s].at = "refused"
  /\ \/ binding' = [binding EXCEPT ![sending[s].user].blocked = TRUE]
     \/ UNCHANGED binding
  /\ sending' = [sending EXCEPT ![s] = NoSend]
  /\ UNCHANGED <<issued, linked, update>>

Next ==
  \/ \E u \in Users :
       \/ \E k \in Codes : LinkMessenger(u, k)
       \/ Expire(u)
       \/ \E s \in Senders : MessengerBinding(s, u)
  \/ \E b \in Bots :
       \/ \E e \in Update : Updates(b, e)
       \/ Stopped(b) \/ Started(b) \/ HandleCommand(b) \/ Stop(b)
  \/ \E s \in Senders : Send(s) \/ Refuse(s) \/ BlockMessenger(s)

Spec == Init /\ [][Next]_vars

-----------------------------------------------------------------------------

\* A message goes to a chat that was linked by a code of its own user, and no
\* code has linked two chats, though codes are replaced, updates come twice
\* and chats change hands while a message is on its way.
MessagesFindTheirOwner ==
  /\ \A s \in Senders : sending[s] # NoSend =>
       \E k \in Codes : issued[k] = sending[s].user /\ <<k, sending[s].chat>> \in linked
  /\ \A l, m \in linked : l[1] = m[1] => l = m

=============================================================================
