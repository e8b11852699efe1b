------------------------------- MODULE Tokens -------------------------------
(***************************************************************************)
(* Authorisation codes and pairs of tokens, as rows of oauth_tokens.  The  *)
(* OAuth2 library decides which of the storage's statements a request      *)
(* makes and in which order; each of them is a step of its own, between    *)
(* which other requests come and the service may stop.                     *)
(*                                                                         *)
(* A code is of the session it was given for, and so are all the tokens    *)
(* that come of it.  A row lapses when its time has come; the times of the *)
(* kinds are left out.                                                     *)
(***************************************************************************)
EXTENDS Naturals, FiniteSets

CONSTANTS
  Sessions,   \* ids of authorisation requests
  Requests,   \* to the token endpoint, served at the same time
  MaxPairs    \* bound: pairs of tokens issued

VARIABLES
  tokens,   \* rows of oauth_tokens
  issued,   \* how many pairs have been numbered
  spent,    \* sessions whose code was answered with a pair
  request   \* what each request has come to

vars == <<tokens, issued, spent, request>>

RowKinds == {"code", "pkce", "access", "refresh"}

\* pair: 0 for codes; from: the pair a refresh replaced, 0 for a code.
Row == [session : Sessions, kind : RowKinds, pair : 0..MaxPairs, from : 0..MaxPairs,
        used : BOOLEAN, expired : BOOLEAN, pkce : BOOLEAN]

NoRequest == [at |-> "idle"]

\* late: the code had been answered before this request came.
RequestRow == [at : {"handled", "found", "checked", "fetched", "issue", "access",
                     "refreshing", "refetched", "revoked", "reused", "reusedAccess"},
               session : Sessions, from : 0..MaxPairs, pair : 0..MaxPairs, late : BOOLEAN]

TypeOK ==
  /\ tokens \subseteq Row
  /\ issued \in 0..MaxPairs
  /\ spent \subseteq Sessions
  /\ request \in [Requests -> {NoRequest} \cup RequestRow]

Init ==
  /\ tokens = {} /\ issued = 0 /\ spent = {}
  /\ request = [q \in Requests |-> NoRequest]

-----------------------------------------------------------------------------
(* Statements of the storage.                                              *)

OfKind(s, kind) == {t \in tokens : t.session = s /\ t.kind = kind}

NewRow(s, kind, pair, from, pkce) ==
  [session |-> s, kind |-> kind, pair |-> pair, from |-> from,
   used |-> FALSE, expired |-> FALSE, pkce |-> pkce]

CreateTokenSession(row) == tokens' = tokens \cup {row}

\* A used code is told from one that is not there, and from an expired one.
CodeIsUsed(s) == \E t \in OfKind(s, "code") : t.used
CodeIsValid(s) == \E t \in OfKind(s, "code") : ~CodeIsUsed(s) /\ ~t.expired

Invalidate(s) ==
  /\ OfKind(s, "code") # {}
  /\ tokens' = (tokens \ OfKind(s, "code"))
                 \cup {[t EXCEPT !.used = TRUE] : t \in OfKind(s, "code")}

GetRefresh(s, pair) == \E t \in OfKind(s, "refresh") : t.pair = pair /\ ~t.expired

RevokeRefreshToken(s) == tokens' = tokens \ OfKind(s, "refresh")

\* Mutant of RevokeAccessToken: the access token is left to expire.
LeaveAccessToken(s) == UNCHANGED tokens
RevokeAccessToken(s) == tokens' = tokens \ OfKind(s, "access")

-----------------------------------------------------------------------------
(* The form of login was sent: a code, with a challenge if the client is   *)
(* public.                                                                 *)

Authorization(s, pkce) ==
  /\ OfKind(s, "code") = {} /\ s \notin spent
  /\ \A q \in Requests : request[q] # NoRequest => request[q].session # s
  /\ tokens' = tokens \cup {NewRow(s, "code", 0, 0, pkce)}
                 \cup (IF pkce THEN {NewRow(s, "pkce", 0, 0, TRUE)} ELSE {})
  /\ UNCHANGED <<issued, spent, request>>

Becomes(q, at) == request' = [request EXCEPT ![q].at = at]

Serve(q, at, s, from) ==
  /\ request[q] = NoRequest
  /\ request' = [request EXCEPT ![q] =
       [at |-> at, session |-> s, from |-> from, pair |-> 0, late |-> at = "handled" /\ s \in spent]]

\* A code is presented, and is read.
HandleCode(q, s) ==
  /\ CodeIsValid(s)
  /\ Serve(q, "handled", s, 0)
  /\ UNCHANGED <<tokens, issued, spent>>

\* The challenge of a public client is read, then its row goes, then it is
\* compared: two requests may have read the same row.
FindChallenge(q) ==
  /\ request[q].at = "handled"
  /\ \E t \in OfKind(request[q].session, "pkce") : ~t.expired
  /\ Becomes(q, "found")
  /\ UNCHANGED <<tokens, issued, spent>>

AnswerChallenge(q) ==
  /\ request[q].at = "found"
  /\ tokens' = tokens \ OfKind(request[q].session, "pkce")
  /\ Becomes(q, "checked")
  /\ UNCHANGED <<issued, spent>>

\* A used code is presented again: everything it has led to is revoked.
HandleUsedCode(q, s) ==
  /\ CodeIsUsed(s)
  /\ Serve(q, "reused", s, 0)
  /\ UNCHANGED <<tokens, issued, spent>>

\* The code is read again before the answer is made.
FetchCode(q) ==
  /\ \/ request[q].at = "checked"
     \/ /\ request[q].at = "handled"
        /\ \A t \in OfKind(request[q].session, "code") : ~t.pkce
  /\ CodeIsValid(request[q].session)
  /\ Becomes(q, "fetched")
  /\ UNCHANGED <<tokens, issued, spent>>

InvalidateCode(q) ==
  /\ request[q].at = "fetched"
  /\ Invalidate(request[q].session)
  /\ Becomes(q, "issue")
  /\ UNCHANGED <<issued, spent>>

-----------------------------------------------------------------------------
(* A refresh token for another pair.                                       *)

HandleRefresh(q, s, pair) ==
  /\ GetRefresh(s, pair)
  /\ Serve(q, "refreshing", s, pair)
  /\ UNCHANGED <<tokens, issued, spent>>

FetchRefresh(q) ==
  /\ request[q].at = "refreshing"
  /\ GetRefresh(request[q].session, request[q].from)
  /\ Becomes(q, "refetched")
  /\ UNCHANGED <<tokens, issued, spent>>

\* RotateRefreshToken: two statements without a transaction.
Rotate(q) ==
  /\ request[q].at = "refetched"
  /\ RevokeRefreshToken(request[q].session)
  /\ Becomes(q, "revoked")
  /\ UNCHANGED <<issued, spent>>

RotateAccess(q) ==
  /\ request[q].at = "revoked"
  /\ RevokeAccessToken(request[q].session)
  /\ Becomes(q, "issue")
  /\ UNCHANGED <<issued, spent>>

-----------------------------------------------------------------------------
(* The new pair, and its answer.                                           *)

CreateAccess(q) ==
  /\ request[q].at = "issue" /\ issued < MaxPairs
  /\ issued' = issued + 1
  /\ CreateTokenSession(NewRow(request[q].session, "access", issued', request[q].from, FALSE))
  /\ request' = [request EXCEPT ![q].at = "access", ![q].pair = issued']
  /\ UNCHANGED spent

CreateRefresh(q) ==
  /\ request[q].at = "access"
  /\ CreateTokenSession(
       NewRow(request[q].session, "refresh", request[q].pair, request[q].from, FALSE))
  /\ spent' = spent \cup {request[q].session}
  /\ request' = [request EXCEPT ![q] = NoRequest]
  /\ UNCHANGED issued

\* A client revokes one of its tokens: its session loses all of them.
HandleRevoke(q, s) ==
  /\ OfKind(s, "access") \cup OfKind(s, "refresh") # {}
  /\ Serve(q, "reused", s, 0)
  /\ UNCHANGED <<tokens, issued, spent>>

RevokeReused(q) ==
  /\ request[q].at = "reused"
  /\ RevokeAccessToken(request[q].session)
  /\ Becomes(q, "reusedAccess")
  /\ UNCHANGED <<issued, spent>>

RevokeReusedRefresh(q) ==
  /\ request[q].at = "reusedAccess"
  /\ RevokeRefreshToken(request[q].session)
  /\ request' = [request EXCEPT ![q] = NoRequest]
  /\ UNCHANGED <<issued, spent>>

\* Refused at the second reading, or stopped between two statements.
Abandon(q) ==
  /\ request[q] # NoRequest
  /\ request' = [request EXCEPT ![q] = NoRequest]
  /\ UNCHANGED <<tokens, issued, spent>>

-----------------------------------------------------------------------------
(* Time.                                                                   *)

Lapse(t) ==
  /\ t \in tokens /\ ~t.expired
  /\ tokens' = (tokens \ {t}) \cup {[t EXCEPT !.expired = TRUE]}
  /\ UNCHANGED <<issued, spent, request>>

\* Expired rows go, used codes among them.
DeleteExpiredTokens ==
  /\ \E t \in tokens : t.expired
  /\ tokens' = {t \in tokens : ~t.expired}
  /\ UNCHANGED <<issued, spent, request>>

\* A request with a token is served if its row is there (protect).
Introspected(t) == t \in tokens /\ t.kind = "access" /\ ~t.expired

Next ==
  \/ \E s \in Sessions, pkce \in BOOLEAN : Authorization(s, pkce)
  \/ \E q \in Requests :
       \/ \E s \in Sessions :
            \/ HandleCode(q, s) \/ HandleUsedCode(q, s) \/ HandleRevoke(q, s)
            \/ \E pair \in 1..MaxPairs : HandleRefresh(q, s, pair)
       \/ FindChallenge(q) \/ AnswerChallenge(q) \/ FetchCode(q) \/ InvalidateCode(q)
       \/ FetchRefresh(q) \/ Rotate(q) \/ RotateAccess(q)
       \/ CreateAccess(q) \/ CreateRefresh(q)
       \/ RevokeReused(q) \/ RevokeReusedRefresh(q) \/ Abandon(q)
  \/ \E t \in tokens : Lapse(t)
  \/ DeleteExpiredTokens

Spec == Init /\ [][Next]_vars

-----------------------------------------------------------------------------

\* A code that was answered with a pair leads to no other by a request that
\* comes afterwards, whether the row of the code is still there, has expired
\* or was deleted.  (Two requests that overlap may both be answered.)
SpentCodeIsDead ==
  \A q \in Requests : request[q] # NoRequest =>
    (request[q].late => request[q].at \notin {"fetched", "issue", "access"})

\* When a refresh has led to a new token, nothing of the pair it replaced is
\* accepted any more where its row is asked for, though the pair goes by two
\* statements and others refresh, revoke or exchange at the same time.
OldPairIsGone ==
  \A new, old \in tokens :
    (new.from # 0 /\ old.session = new.session /\ old.pair = new.from)
      => ~Introspected(old) /\ old.kind # "refresh"

\* What was used up is accepted no more: a code by a request that comes after
\* its pair, a pair after the one that replaced it.  (The gateway, which checks
\* the signature alone, asks for no row.)
UsedUpIsDead == SpentCodeIsDead /\ OldPairIsGone

=============================================================================
