------------------------------ MODULE MCWallet ------------------------------
(***************************************************************************)
(* Small instances of Wallet for TLC: two users, one of whom is paid into, *)
(* spends, reserves and transfers, and requests that share keys.           *)
(***************************************************************************)
EXTENDS Wallet, TLC, FiniteSetsExt

CONSTANTS a, b, k1, k2, k3

\* One operation on u's wallet; a transfer has two wallets.
On(op, u, named, value, key, ttl) ==
  [op |-> op, owner |-> u, named |-> named, source |-> u, target |-> u,
   value |-> value, key |-> key, ttl |-> ttl]
Move(u, v, value, key) ==
  [op |-> "SWAP", owner |-> u, named |-> TRUE, source |-> u, target |-> v,
   value |-> value, key |-> key, ttl |-> 0]

\* Every operation, by default wallet or by id, on each key.
AllCalls ==
  { On("DEBIT", a, FALSE, 2, k1, 0), On("CREDIT", a, TRUE, 1, k2, 0),
    On("RESERVE", a, FALSE, 2, k2, 0), On("RESERVE", a, TRUE, 1, k1, 0),
    Move(a, b, 2, k2), Move(b, a, 1, k1) }

\* One wallet that is paid into once and reserved from again and again.
ReserveCalls ==
  { On("DEBIT", a, FALSE, 2, k1, 0), On("RESERVE", a, FALSE, 2, k2, 0),
    On("RESERVE", a, FALSE, 2, k3, 0), On("RESERVE", a, FALSE, 1, k3, 2) }

\* A short and a long reservation, side by side.
TermCalls ==
  { On("DEBIT", a, FALSE, 3, k1, 0), On("RESERVE", a, FALSE, 2, k2, 0),
    On("RESERVE", a, FALSE, 1, k3, 2) }

\* Requests are interchangeable: no definition tells one from another.
RequestSymmetry == Permutations(Requests)

\* Total counts what a sum of the values would give.
ASSUME TotalIsSum ==
  \A f \in [1..3 -> 0..3] :
    \A S \in SUBSET (1..3) : Total(S, f) = MapThenSumSet(LAMBDA i : f[i], S)
=============================================================================
