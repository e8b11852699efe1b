----------------------------- MODULE Identities -----------------------------
(***************************************************************************)
(* Login through external providers.  A login is started here, goes on at  *)
(* the provider and comes back, to any instance, as a callback, which takes *)
(* the state of the login, asks the provider for the account and finds or  *)
(* makes its owner.  A user may link several accounts and unlink them.     *)
(***************************************************************************)
EXTENDS Naturals, FiniteSets

CONSTANTS
  Accounts,        \* at the providers
  Provider,        \* of each account
  Registered,      \* users who registered with a password
  NoUser,
  States,          \* of logins; random, never used again
  Callbacks

\* The user who comes of the first login with an account is named after it:
\* his name is provider:external_id, and names are unique.
Everybody == Registered \cup Accounts

VARIABLES
  users,      \* those that exist
  identity,   \* table identity: the owner of each account
  logins,     \* table social_login
  used,       \* states that were ever started
  callback    \* what each callback has come to

vars == <<users, identity, logins, used, callback>>

Providers == {Provider[a] : a \in Accounts}
Login == [state : States, provider : Providers, link : Everybody \cup {NoUser}]
NoCallback == [at |-> "idle"]

TypeOK ==
  /\ users \subseteq Everybody /\ Registered \subseteq users
  /\ identity \in [Accounts -> Everybody \cup {NoUser}]
  /\ logins \subseteq Login /\ used \subseteq States
  /\ callback \in [Callbacks -> {NoCallback} \cup
       [at : {"taken", "named", "known", "unknown"}, provider : Providers,
        link : Everybody \cup {NoUser}, account : Accounts \cup {NoUser}]]

Init ==
  /\ users = Registered
  /\ identity = [a \in Accounts |-> NoUser]
  /\ logins = {} /\ used = {}
  /\ callback = [p \in Callbacks |-> NoCallback]

Of(u) == {a \in Accounts : identity[a] = u}

PasswordSet(u) == u \in Registered

-----------------------------------------------------------------------------

InsertLogin(login) == logins' = logins \cup {login}

\* A visitor wants to log in, or a user to link another account.
StartSocialLogin(state, provider, link) ==
  /\ state \notin used
  /\ link # NoUser => link \in users
  /\ InsertLogin([state |-> state, provider |-> provider, link |-> link])
  /\ used' = used \cup {state}
  /\ UNCHANGED <<users, identity, callback>>

\* The state is taken by the first callback that brings it; nobody's login
\* goes on with another provider.
TakeSocialLogin(p, login, provider) ==
  /\ callback[p] = NoCallback
  /\ login \in logins
  /\ logins' = logins \ {login}
  /\ callback' = [callback EXCEPT ![p] =
       IF login.provider = provider
       THEN [at |-> "taken", provider |-> provider, link |-> login.link, account |-> NoUser]
       ELSE NoCallback]
  /\ UNCHANGED <<users, identity, used>>

\* The provider says whose login it was.
Profile(p, a) ==
  /\ callback[p].at = "taken" /\ Provider[a] = callback[p].provider
  /\ callback' = [callback EXCEPT ![p].account = a, ![p].at = "named"]
  /\ UNCHANGED <<users, identity, logins, used>>

IdentityUser(p) ==
  /\ callback[p].at = "named"
  /\ callback' = [callback EXCEPT ![p].at =
                    IF identity[callback[p].account] = NoUser THEN "unknown" ELSE "known"]
  /\ UNCHANGED <<users, identity, logins, used>>

Done(p) == callback' = [callback EXCEPT ![p] = NoCallback]

\* An account that was given to somebody meanwhile stays his.
LinkIdentity(a, u) ==
  identity' = [identity EXCEPT ![a] = IF @ = NoUser THEN u ELSE @]

\* An account nobody has is linked to the user who asked for it.
ResolveIdentity(p) ==
  /\ callback[p].at = "unknown" /\ callback[p].link # NoUser
  /\ LinkIdentity(callback[p].account, callback[p].link)
  /\ Done(p)
  /\ UNCHANGED <<users, logins, used>>

\* One transaction: the user and his identity.  It fails if either is there.
CreateSocialUser(p) ==
  /\ callback[p].at = "unknown" /\ callback[p].link = NoUser
  /\ callback[p].account \notin users
  /\ identity[callback[p].account] = NoUser
  /\ users' = users \cup {callback[p].account}
  /\ identity' = [identity EXCEPT ![callback[p].account] = callback[p].account]
  /\ Done(p)
  /\ UNCHANGED <<logins, used>>

\* The account is known: the login is its owner's, or it is not for linking.
\* Or the provider fails, a constraint is violated, the service stops.
Answer(p) ==
  /\ callback[p] # NoCallback
  /\ Done(p)
  /\ UNCHANGED <<users, identity, logins, used>>

\* Mutant of Remaining: the accounts that are unlinked are counted.
RemainingAll(u, provider) == Of(u)
Remaining(u, provider) == {a \in Of(u) : Provider[a] # provider}

MayUnlink(u, provider) == PasswordSet(u) \/ Remaining(u, provider) # {}

\* All accounts of one provider go, with the user's row locked.
UnlinkIdentity(u, provider) ==
  /\ u \in users
  /\ \E a \in Of(u) : Provider[a] = provider
  /\ MayUnlink(u, provider)
  /\ identity' = [a \in Accounts |->
       IF identity[a] = u /\ Provider[a] = provider THEN NoUser ELSE identity[a]]
  /\ UNCHANGED <<users, logins, used, callback>>

DeleteExpiredSocialLogins(expired) ==
  /\ expired # {} /\ expired \subseteq logins
  /\ logins' = logins \ expired
  /\ UNCHANGED <<users, identity, used, callback>>

Next ==
  \/ \E state \in States, provider \in Providers, link \in Everybody \cup {NoUser} :
       StartSocialLogin(state, provider, link)
  \/ \E p \in Callbacks :
       \/ \E login \in logins, provider \in Providers : TakeSocialLogin(p, login, provider)
       \/ \E a \in Accounts : Profile(p, a)
       \/ IdentityUser(p) \/ ResolveIdentity(p) \/ CreateSocialUser(p) \/ Answer(p)
  \/ \E u \in Everybody, provider \in Providers : UnlinkIdentity(u, provider)
  \/ \E expired \in SUBSET logins : DeleteExpiredSocialLogins(expired)

Spec == Init /\ [][Next]_vars

-----------------------------------------------------------------------------

\* Every user has a way to log in: a password, or an account that is his,
\* however first logins, links and unlinks overlap.
EverybodyCanLogIn ==
  \A u \in users : PasswordSet(u) \/ Of(u) # {}

=============================================================================
