-------------------------------- MODULE Pick --------------------------------
(***************************************************************************)
(* The choice that a seed determines, shared by the draw of a caldron and  *)
(* the shopping runs.  A stream of random values is a sequence that is     *)
(* read round and round; the values have Width bits.  Keys of the items    *)
(* are numbers.                                                            *)
(***************************************************************************)
EXTENDS Integers, Sequences, SequencesExt, FiniteSets

CONSTANT Width

Values == 0..2^Width - 1

\* Mutant of Accepted: the tail of the range counts as well.
AcceptedAlways(n, value) == value >= 0

\* A value of the tail, which has fewer of some remainders, is thrown away.
Accepted(n, value) == value <= (2^Width - 1) - ((2^Width - 1) % n) - 1

\* The next index below n, and what is left of the stream.
Index(n, stream) ==
  IF n <= 1 THEN [at |-> 0, rest |-> stream]
  ELSE LET k == SelectInSeq(stream, LAMBDA v : Accepted(n, v)) IN
       [at |-> stream[k] % n,
        rest |-> SubSeq(stream, k + 1, Len(stream)) \o SubSeq(stream, 1, k)]

\* A stream does not end before a number of indices up to "most" is found.
Lasts(stream, most) ==
  /\ stream \in Seq(Values)
  /\ \A n \in 2..most : \E k \in DOMAIN stream : Accepted(n, stream[k])

\* Mutant of Canonical: the items stay as the database returned them.
AsRead(items) == items

\* The place of an item in the order of the keys; of equal ones, the first.
Place(items, i) ==
  Cardinality({j \in DOMAIN items : items[j] < items[i] \/ (items[j] = items[i] /\ j <= i)})

\* The order that the items are put into first.
Canonical(items) ==
  [k \in DOMAIN items |-> items[CHOOSE i \in DOMAIN items : Place(items, i) = k]]

Exchange(items, i, j) == [items EXCEPT ![i] = items[j], ![j] = items[i]]

\* Fisher and Yates: from the last position down to the second.
Exchanges(stream, items) ==
  LET n == Len(items)
      after[k \in 0..n - 1] ==
        IF k = 0 THEN [items |-> items, stream |-> stream]
        ELSE LET before == after[k - 1]
                 index  == Index(n + 1 - k, before.stream)
             IN [items  |-> Exchange(before.items, n + 1 - k, index.at + 1),
                 stream |-> index.rest]
  IN after

Shuffle(stream, items) == Exchanges(stream, Canonical(items))[Len(items) - 1].items

\* Mutant of Fits: each item is compared with the budget by itself.
FitsAlone(cost, total, budget) == cost > 0 /\ cost <= budget
Fits(cost, total, budget) == cost > 0 /\ total + cost <= budget

NoItems == [chosen |-> <<>>, total |-> 0]

\* Items taken one after the other, as long as each of them fits.
Takes(items, price, budget) ==
  LET after[k \in 0..Len(items)] ==
        IF k = 0 THEN NoItems
        ELSE LET before == after[k - 1]
                 cost   == price[items[k]]
             IN IF Fits(cost, before.total, budget)
                THEN [chosen |-> Append(before.chosen, items[k]), total |-> before.total + cost]
                ELSE before
  IN after

\* The order is that of the shuffle.
Within(stream, items, price, budget) ==
  IF items = <<>> \/ budget <= 0 THEN NoItems
  ELSE Takes(Shuffle(stream, items), price, budget)[Len(items)]

=============================================================================
