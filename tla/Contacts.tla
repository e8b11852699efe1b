------------------------------ MODULE Contacts ------------------------------
(***************************************************************************)
(* Profiles and the confirmation of their contacts by codes.  A request    *)
(* loads the user's row first and works with what it has read; the codes   *)
(* are counted, made, looked up, failed and confirmed by statements of     *)
(* their own.  Addresses that differ in case alone are one address, and    *)
(* what a profile has besides its contacts is left out.                    *)
(*                                                                         *)
(* A code is published as an event, which names the user and no address:   *)
(* the letter goes to what the e-mail address is when it is delivered, and *)
(* the application shows the code as well.  Codes are not guessed.         *)
(***************************************************************************)
EXTENDS Naturals, FiniteSets

CONSTANTS
  Users, Addresses, NoAddress,
  Kinds,         \* PHONE and EMAIL; EMAIL is one of them
  Required,      \* kinds a registration must have and a profile keeps
  Calls,
  MaxAttempts, RateLimit,
  MaxCodes       \* bound: codes ever made

VARIABLES
  users,   \* table users; NoUser before the registration
  codes,   \* table confirmation, by number in the order of creation
  call     \* what each request has read

vars == <<users, codes, call>>

NoUser == [k \in {} |-> NoAddress]
NoCall == [at |-> "idle"]

Contact == [address : Addresses \cup {NoAddress}, confirmed : BOOLEAN]

\* With the times the configuration has by default, a code first cools, then
\* expires, and then leaves the window of the rate: its age counts the three.
\* reached: where its message came first.
Code == [user : Users, kind : Kinds, target : Addresses, attempts : Nat,
         age : 0..3, confirmed : BOOLEAN, reached : {"nobody", "elsewhere", "target"}]

TypeOK ==
  /\ users \in [Users -> {NoUser} \cup [Kinds -> Contact]]
  /\ \E n \in 0..MaxCodes : DOMAIN codes = 1..n /\ codes \in [1..n -> Code]
  /\ call \in [Calls -> {NoCall} \cup
       [at : {"requested", "counted", "presented", "found"}, user : Users, kind : Kinds,
        target : Addresses \cup {NoAddress}, code : 0..MaxCodes]]

Init ==
  /\ users = [u \in Users |-> NoUser]
  /\ codes = [n \in {} |-> NoUser]
  /\ call = [p \in Calls |-> NoCall]

Taken(k, a, u) == a # NoAddress /\ \E v \in Users \ {u} : users[v] # NoUser /\ users[v][k].address = a

-----------------------------------------------------------------------------
(* Profiles.                                                               *)

\* Neither contact is confirmed; both are unique.
Register(u, contacts) ==
  /\ users[u] = NoUser
  /\ \A k \in Required : contacts[k] # NoAddress
  /\ \A k \in Kinds : ~Taken(k, contacts[k], u)
  /\ users' = [users EXCEPT ![u] = [k \in Kinds |-> [address |-> contacts[k], confirmed |-> FALSE]]]
  /\ UNCHANGED <<codes, call>>

\* What the statement makes of one contact: an empty value reaches it as NULL
\* and leaves the contact as it was, like one that was not given.
\* Mutant of Updated: the mark of the old address stays.
UpdatedOnly(contact, a) ==
  IF a = NoAddress THEN contact ELSE [contact EXCEPT !.address = a]
Updated(contact, a) ==
  IF a \in {NoAddress, contact.address} THEN contact
  ELSE [address |-> a, confirmed |-> FALSE]

UpdateProfile(u, k, a) ==
  /\ users[u] # NoUser
  /\ a = NoAddress => k \notin Required
  /\ ~Taken(k, a, u)
  /\ users' = [users EXCEPT ![u][k] = Updated(@, a)]
  /\ UNCHANGED <<codes, call>>

-----------------------------------------------------------------------------
(* A code is requested: counted, made and published.                       *)

CodesOf(u, k) == {n \in DOMAIN codes : codes[n].user = u /\ codes[n].kind = k}

RequestConfirmation(p, u, k) ==
  /\ call[p] = NoCall /\ users[u] # NoUser
  /\ users[u][k].address # NoAddress /\ ~users[u][k].confirmed
  /\ call' = [call EXCEPT ![p] =
       [at |-> "requested", user |-> u, kind |-> k, target |-> users[u][k].address, code |-> 0]]
  /\ UNCHANGED <<users, codes>>

Recent(u, k) == {n \in CodesOf(u, k) : codes[n].age < 3}

MayRequest(u, k) ==
  /\ Cardinality(Recent(u, k)) < RateLimit
  /\ \A n \in Recent(u, k) : codes[n].age > 0

CountConfirmations(p) ==
  /\ call[p].at = "requested"
  /\ MayRequest(call[p].user, call[p].kind)
  /\ call' = [call EXCEPT ![p].at = "counted"]
  /\ UNCHANGED <<users, codes>>

Next0 == Cardinality(DOMAIN codes) + 1

\* An event that cannot be published leaves the code as it is.
CreateConfirmation(p) ==
  /\ call[p].at = "counted" /\ Next0 <= MaxCodes
  /\ codes' = [n \in 1..Next0 |-> IF n < Next0 THEN codes[n] ELSE
       [user |-> call[p].user, kind |-> call[p].kind, target |-> call[p].target, attempts |-> 0,
        age |-> 0, confirmed |-> FALSE, reached |-> "nobody"]]
  /\ call' = [call EXCEPT ![p] = NoCall]
  /\ UNCHANGED users

\* The message of a code comes, at any time: by letter, or where the user reads
\* his messages in the application.
Places(n) ==
  {"elsewhere"} \cup
    {place \in {"target"} : /\ codes[n].kind = "EMAIL"
                           /\ codes[n].target = users[codes[n].user]["EMAIL"].address}

Deliver(n) ==
  /\ n \in DOMAIN codes /\ codes[n].reached = "nobody"
  /\ \E place \in Places(n) : codes' = [codes EXCEPT ![n].reached = place]
  /\ UNCHANGED <<users, call>>

-----------------------------------------------------------------------------
(* A code is presented.                                                    *)

VerifyConfirmation(p, u, k) ==
  /\ call[p] = NoCall /\ users[u] # NoUser
  /\ ~users[u][k].confirmed
  /\ call' = [call EXCEPT ![p] =
       [at |-> "presented", user |-> u, kind |-> k, target |-> users[u][k].address, code |-> 0]]
  /\ UNCHANGED <<users, codes>>

Active(u, k) == {n \in CodesOf(u, k) : /\ ~codes[n].confirmed /\ codes[n].age < 2
                                       /\ codes[n].attempts < MaxAttempts}

\* The newest active code, if it was sent to what the contact was read to be.
ActiveConfirmation(p) ==
  /\ call[p].at = "presented"
  /\ \E n \in Active(call[p].user, call[p].kind) :
       /\ \A m \in Active(call[p].user, call[p].kind) : m <= n
       /\ codes[n].target = call[p].target
       /\ call' = [call EXCEPT ![p].at = "found", ![p].code = n]
  /\ UNCHANGED <<users, codes>>

\* It does not match.  The failure is not counted if its statement fails.
FailConfirmation(p) ==
  /\ call[p].at = "found"
  /\ \/ codes' = [codes EXCEPT ![call[p].code].attempts = @ + 1]
     \/ UNCHANGED codes
  /\ call' = [call EXCEPT ![p] = NoCall]
  /\ UNCHANGED users

\* It matches, for it was seen: one transaction, with the user's row locked and
\* read again.
ConfirmContact(p) ==
  /\ call[p].at = "found"
  /\ codes[call[p].code].reached # "nobody"
  /\ users[call[p].user][call[p].kind].address = call[p].target
  /\ users' = [users EXCEPT ![call[p].user][call[p].kind].confirmed = TRUE]
  /\ codes' = [codes EXCEPT ![call[p].code].confirmed = TRUE]
  /\ call' = [call EXCEPT ![p] = NoCall]

\* Too often, no active code, another contact meanwhile; or the service stops.
Refuse(p) ==
  /\ call[p] # NoCall
  /\ call' = [call EXCEPT ![p] = NoCall]
  /\ UNCHANGED <<users, codes>>

\* All codes live equally long: the older ones are ahead.
Age(n) ==
  /\ n \in DOMAIN codes /\ codes[n].age < 3
  /\ \A m \in 1..(n - 1) : codes[m].age > codes[n].age
  /\ codes' = [codes EXCEPT ![n].age = @ + 1]
  /\ UNCHANGED <<users, call>>

Next ==
  \/ \E u \in Users :
       \/ \E contacts \in [Kinds -> Addresses \cup {NoAddress}] : Register(u, contacts)
       \/ \E k \in Kinds :
            \/ \E a \in Addresses \cup {NoAddress} : UpdateProfile(u, k, a)
            \/ \E p \in Calls : RequestConfirmation(p, u, k) \/ VerifyConfirmation(p, u, k)
  \/ \E p \in Calls :
       \/ CountConfirmations(p) \/ CreateConfirmation(p)
       \/ ActiveConfirmation(p) \/ FailConfirmation(p) \/ ConfirmContact(p) \/ Refuse(p)
  \/ \E n \in DOMAIN codes : Age(n) \/ Deliver(n)

Spec == Init /\ [][Next]_vars

-----------------------------------------------------------------------------

\* A confirmed contact is one its owner presented a code for that had come to
\* him and was made while this very address stood in his profile: whoever
\* changes the address, while a code is under way or between its check and its
\* mark, has to confirm the new one.  (Not that the code came to the address.)
ConfirmedByItsCode ==
  \A u \in Users, k \in Kinds :
    (users[u] # NoUser /\ users[u][k].confirmed) =>
      \E n \in CodesOf(u, k) :
        codes[n].confirmed /\ codes[n].target = users[u][k].address /\ codes[n].reached # "nobody"

=============================================================================
