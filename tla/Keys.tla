-------------------------------- MODULE Keys --------------------------------
(***************************************************************************)
(* Signing keys.  Every instance of the service remembers which key is     *)
(* current and reads its bytes from the database; a rotation on one        *)
(* instance tells the others nothing.                                      *)
(*                                                                         *)
(* The header of a token names a key: the one that was current where the   *)
(* login was made.  It is stored with the code, and then with every        *)
(* refresh token, and put over the header of the request that exchanges    *)
(* them, on whatever instance; the signature is made with the key that is  *)
(* current there.  So the two need not be the same key: after a rotation   *)
(* on either instance the gateway, which looks for the key that the header *)
(* names, refuses the token.                                               *)
(***************************************************************************)
EXTENDS Naturals, FiniteSets

CONSTANTS
  Instances,
  Sessions,   \* ids of authorisation requests
  MaxKeys     \* bound: keys ever made; a key's number is its age

VARIABLES
  table,      \* table keys
  made,       \* keys ever made
  current,    \* currentKeyId of each instance; 0 when it is not running
  rotation,   \* where each instance is in RotateKeys
  header,     \* the key id stored with each session; 0 before its login
  token       \* the last token of each session: key id of its header, signer

vars == <<table, made, current, rotation, header, token>>

Ids == 1..MaxKeys
NoToken == [kid |-> 0, key |-> 0]

TypeOK ==
  /\ table \subseteq Ids /\ made \in 0..MaxKeys
  /\ current \in [Instances -> 0..MaxKeys]
  /\ rotation \in [Instances -> [at : {"idle", "made", "current", "limited"}, key : 0..MaxKeys]]
  /\ header \in [Sessions -> 0..MaxKeys]
  /\ token \in [Sessions -> [kid : 0..MaxKeys, key : 0..MaxKeys]]

Init ==
  /\ table = {} /\ made = 0
  /\ current = [i \in Instances |-> 0]
  /\ rotation = [i \in Instances |-> [at |-> "idle", key |-> 0]]
  /\ header = [s \in Sessions |-> 0]
  /\ token = [s \in Sessions |-> NoToken]

Newer(k, keys) == {j \in keys : j > k}

\* Mutant of Latest: the newest alone.
LatestOne(keys) == {k \in keys : Cardinality(Newer(k, keys)) < 1}

\* ORDER BY created_at DESC LIMIT 2.
Latest(keys) == {k \in keys : Cardinality(Newer(k, keys)) < 2}

-----------------------------------------------------------------------------
(* Rotation, three steps; the first run of the service does it at start.   *)

At(i, at, key) == rotation' = [rotation EXCEPT ![i] = [at |-> at, key |-> key]]

CreateKey(i) ==
  /\ made < MaxKeys
  /\ made' = made + 1
  /\ table' = table \cup {made'}
  /\ At(i, "made", made')

\* An instance starts with the last key there is, or makes one: several may.
Initialize(i) ==
  /\ current[i] = 0 /\ rotation[i].at = "idle"
  /\ IF table = {}
     THEN CreateKey(i) /\ UNCHANGED <<current, header, token>>
     ELSE /\ \E k \in table : /\ Newer(k, table) = {}
                              /\ current' = [current EXCEPT ![i] = k]
          /\ UNCHANGED <<table, made, rotation, header, token>>

\* One rotation at a time in an instance, and not again for a while.
RotateKeys(i) ==
  /\ current[i] # 0 /\ rotation[i].at = "idle"
  /\ CreateKey(i)
  /\ UNCHANGED <<current, header, token>>

MakeCurrent(i) ==
  /\ rotation[i].at = "made"
  /\ current' = [current EXCEPT ![i] = rotation[i].key]
  /\ At(i, "current", 0)
  /\ UNCHANGED <<table, made, header, token>>

ClearKeys(i) ==
  /\ rotation[i].at = "current"
  /\ table' = Latest(table)
  /\ At(i, "limited", 0)
  /\ UNCHANGED <<made, current, header, token>>

\* The statement fails, and so does the request: what was done stays.
FailRotation(i) ==
  /\ rotation[i].at = "current"
  /\ At(i, "idle", 0)
  /\ UNCHANGED <<table, made, current, header, token>>

\* KeyRotationMinInterval has passed.
Allow(i) ==
  /\ rotation[i].at = "limited"
  /\ At(i, "idle", 0)
  /\ UNCHANGED <<table, made, current, header, token>>

Stop(i) ==
  /\ current[i] # 0 \/ rotation[i].at # "idle"
  /\ current' = [current EXCEPT ![i] = 0]
  /\ At(i, "idle", 0)
  /\ UNCHANGED <<table, made, header, token>>

-----------------------------------------------------------------------------
(* Logins and tokens.                                                      *)

\* newSession, stored with the code.
NewSession(i, s) ==
  /\ current[i] # 0 /\ header[s] = 0
  /\ header' = [header EXCEPT ![s] = current[i]]
  /\ UNCHANGED <<table, made, current, rotation, token>>

\* A code or a refresh token is exchanged.  GetPrivateKey: an error if the row
\* of the current key is no more there.
Sign(i, s) ==
  /\ current[i] # 0 /\ header[s] # 0
  /\ current[i] \in table
  /\ token' = [token EXCEPT ![s] = [kid |-> header[s], key |-> current[i]]]
  /\ UNCHANGED <<table, made, current, rotation, header>>

\* What handleJWKS shows.
Published == Latest(table)

Next ==
  \E i \in Instances :
    \/ Initialize(i) \/ RotateKeys(i) \/ MakeCurrent(i) \/ ClearKeys(i)
    \/ FailRotation(i) \/ Allow(i) \/ Stop(i)
    \/ \E s \in Sessions : NewSession(i, s) \/ Sign(i, s)

Spec == Init /\ [][Next]_vars

-----------------------------------------------------------------------------

RotationsSince(k) == made - k

\* The keys that somebody relies on: what an instance signs with, what has
\* signed a token, and what a header names.
InUse ==
  ({current[i] : i \in Instances} \cup {header[s] : s \in Sessions}
     \cup {token[s].key : s \in Sessions} \cup {token[s].kid : s \in Sessions}) \ {0}

\* A key outlives one rotation, on whatever instance: till the second one those
\* that know it can sign with it, and it is published for the tokens it has
\* signed and for those that name it, though instances rotate together, clear
\* each other's keys, fail half way and start anew.  (That a token names the
\* key that signed it is another matter, and not so after a rotation.)
KeyOutlivesRotation == \A k \in InUse : RotationsSince(k) <= 1 => k \in Published

=============================================================================
