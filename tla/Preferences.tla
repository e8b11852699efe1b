---------------------------- MODULE Preferences ----------------------------
(***************************************************************************)
(* What a user wants to be told of, and where.  He sets preferences in the *)
(* application and unsubscribes from e-mail by the link in every letter;   *)
(* each is a loop of statements, run by any instance, that may fail on its *)
(* way.  An event is queued for the channels that were on when its         *)
(* publication looked.  One user: users share nothing.                     *)
(***************************************************************************)
EXTENDS Naturals, Sequences

CONSTANTS
  EventTypes,   \* a sequence
  Confirmations,\* the types that carry a confirmation code or link
  Channels,     \* "EMAIL" among them
  Calls,
  MaxSettings   \* bound: settings in one request

VARIABLES
  preference,   \* table preference: its rows
  call,         \* what each call of the service has to do
  quiet,        \* the user was told that letters are off, and has asked for none since
  letters       \* table delivery, the letters: the type of each, whether its
                \* publication was called when the user was promised quiet

vars == <<preference, call, quiet, letters>>

Types == {EventTypes[i] : i \in 1..Len(EventTypes)}
Messengers == {"TELEGRAM", "MAX"}
Setting == [type : Types, channel : Channels, enabled : BOOLEAN]
Lists == UNION {[1..n -> Setting] : n \in 0..MaxSettings}
NoCall == [at |-> "idle"]

TypeOK ==
  /\ preference \subseteq Setting
  /\ \A r, s \in preference : r.type = s.type /\ r.channel = s.channel => r = s
  /\ quiet \in BOOLEAN
  /\ letters \subseteq [type : Types, quiet : BOOLEAN]
  /\ call \in [Calls -> {NoCall}
       \cup [at : {"setting"}, left : Seq(Setting)]
       \cup [at : {"unsubscribing"}, alone : BOOLEAN, left : Seq(Setting)]
       \cup [at : {"publishing"}, type : Types, quiet : BOOLEAN, channels : SUBSET Channels]]

Init ==
  /\ preference = {}
  /\ call = [p \in Calls |-> NoCall]
  /\ quiet = FALSE /\ letters = {}

-----------------------------------------------------------------------------

\* A code gives access to the account, and the bot may be somebody else's.
DefaultEnabled(type, channel) == type \in Confirmations => channel \notin Messengers

RowsOf(type, channel) == {r \in preference : r.type = type /\ r.channel = channel}

\* All switches, those the user never touched included.
CurrentPreferences ==
  [s \in Types \X Channels |->
     IF RowsOf(s[1], s[2]) = {} THEN DefaultEnabled(s[1], s[2])
     ELSE \E r \in RowsOf(s[1], s[2]) : r.enabled]

EnabledChannels(type) == {c \in Channels : CurrentPreferences[type, c]}

\* Mutants of Written: a row is added; a row that is there is left alone.
WrittenBeside(s) == preference \cup {s}
WrittenOnce(s) == preference \cup (IF RowsOf(s.type, s.channel) = {} THEN {s} ELSE {})

Written(s) == (preference \ RowsOf(s.type, s.channel)) \cup {s}

AsksForLetters(list) == \E i \in 1..Len(list) : list[i].channel = "EMAIL" /\ list[i].enabled

\* What is still to be written may ask for letters.
LettersAsked == \E p \in Calls : call[p].at = "setting" /\ AsksForLetters(call[p].left)

-----------------------------------------------------------------------------

Begin(p, todo) == call[p] = NoCall /\ call' = [call EXCEPT ![p] = todo]

\* An unsubscription under way is then overtaken: nothing is promised.
SetPreferences(p, list) ==
  /\ call[p] = NoCall
  /\ call' = [q \in Calls |->
       IF q = p THEN [at |-> "setting", left |-> list]
       ELSE IF call[q].at = "unsubscribing" /\ AsksForLetters(list)
            THEN [call[q] EXCEPT !.alone = FALSE] ELSE call[q]]
  /\ quiet' = (quiet /\ ~AsksForLetters(list))
  /\ UNCHANGED <<preference, letters>>

\* E-mail is switched off for every type.
Unsubscribe(p) ==
  /\ Begin(p, [at |-> "unsubscribing", alone |-> ~LettersAsked,
               left |-> [i \in 1..Len(EventTypes) |->
                 [type |-> EventTypes[i], channel |-> "EMAIL", enabled |-> FALSE]]])
  /\ UNCHANGED <<preference, quiet, letters>>

SetPreference(p) ==
  /\ call[p].at \in {"setting", "unsubscribing"} /\ call[p].left # <<>>
  /\ preference' = Written(Head(call[p].left))
  /\ call' = [call EXCEPT ![p].left = Tail(@)]
  /\ UNCHANGED <<quiet, letters>>

Finish(p) == call' = [call EXCEPT ![p] = NoCall]

\* "Letters are off": the page that answers an unsubscription.
Answer(p) ==
  /\ call[p].at \in {"setting", "unsubscribing"} /\ call[p].left = <<>>
  /\ quiet' = (quiet \/ (call[p].at = "unsubscribing" /\ call[p].alone))
  /\ Finish(p)
  /\ UNCHANGED <<preference, letters>>

\* The database fails, or the service stops: what was written stays.
Fail(p) ==
  /\ call[p] # NoCall
  /\ Finish(p)
  /\ UNCHANGED <<preference, quiet, letters>>

-----------------------------------------------------------------------------

PublishEvent(p, type) ==
  /\ Begin(p, [at |-> "publishing", type |-> type, quiet |-> quiet,
               channels |-> EnabledChannels(type)])
  /\ UNCHANGED <<preference, quiet, letters>>

\* The channels may have been switched off meanwhile.
Publish(p) ==
  /\ call[p].at = "publishing"
  /\ letters' = letters \cup
       {[type |-> call[p].type, quiet |-> call[p].quiet] : c \in call[p].channels \cap {"EMAIL"}}
  /\ Finish(p)
  /\ UNCHANGED <<preference, quiet>>

Next ==
  \E p \in Calls :
    \/ \E list \in Lists : SetPreferences(p, list)
    \/ Unsubscribe(p) \/ SetPreference(p) \/ Answer(p) \/ Fail(p)
    \/ \E type \in Types : PublishEvent(p, type)
    \/ Publish(p)

Spec == Init /\ [][Next]_vars

-----------------------------------------------------------------------------

\* A user who was told that letters are off, and has not asked for them since
\* he asked to be left alone, sees them off, and no event published from then
\* on queues a letter, whatever overlaps or fails on the way.
UnsubscribedStays ==
  /\ quiet => \A t \in Types : "EMAIL" \notin EnabledChannels(t)
  /\ \A l \in letters : ~l.quiet

=============================================================================
