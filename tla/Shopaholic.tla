----------------------------- MODULE Shopaholic -----------------------------
(***************************************************************************)
(* Shopping runs: a random choice of products within a budget, each of     *)
(* which is ordered on the marketplace and then paid for by a transfer in  *)
(* the wallet service.  A run may stop between any two of these steps, and *)
(* a call to another service may be carried out and not be answered.       *)
(***************************************************************************)
EXTENDS Pick, Amounts

CONSTANTS
  Runs,
  Products, Price,   \* numbers, and what each of them costs
  Budgets,
  Streams,           \* of values a seed may give
  MaxItems,          \* in a request, the same product twice among them
  MaxFunds           \* bound: in the buyer's wallet

VARIABLES
  run,        \* table shopping_run, and how far each run has come
  purchases,  \* table purchase: the rows of each run
  orders,     \* on the marketplace, of each run and product
  charged,    \* transfers of the wallet service by their keys
  funds       \* available in the wallet of the buyer

vars == <<run, purchases, orders, charged, funds>>

NoRun == [at |-> "none"]

Places == {"chosen", "buying", "recorded", "ordered", "paid", "unpaid", "over"}

RunRow == [at : Places, budget : Budgets, chosen : Seq(Products), left : Seq(Products),
           total : Nat, spent : Nat, ordered : 0..MaxItems,
           state : {"PENDING", "DONE", "PARTIAL", "EMPTY"}]

TypeOK ==
  /\ run \in [Runs -> {NoRun} \cup RunRow]
  /\ purchases \in [Runs -> Seq([product : Products, ordered : BOOLEAN, paid : BOOLEAN])]
  /\ orders \in [Runs \X Products -> Nat]
  /\ charged \subseteq Runs \X Products
  /\ funds \in 0..MaxFunds

Init ==
  /\ run = [r \in Runs |-> NoRun]
  /\ purchases = [r \in Runs |-> <<>>]
  /\ orders = [key \in Runs \X Products |-> 0]
  /\ charged = {}
  /\ funds \in 0..MaxFunds

-----------------------------------------------------------------------------
(* The choice.                                                             *)

Validate(items) == items # <<>> /\ Len(items) <= MaxItems

\* The products the marketplace still has are shuffled and chosen from.
StartRun(r, budget, items, stream) ==
  /\ run[r] = NoRun /\ Validate(items)
  /\ LET set == Within(stream, items, Price, budget) IN
       run' = [run EXCEPT ![r] =
         [at |-> "chosen", budget |-> budget, chosen |-> set.chosen, left |-> set.chosen,
          total |-> set.total, spent |-> 0, ordered |-> 0, state |-> "PENDING"]]
  /\ UNCHANGED <<purchases, orders, charged, funds>>

\* Nothing is chosen, or the wallet has too little for it all.
ChooseNothing(r) ==
  /\ run[r].at = "chosen"
  /\ run[r].chosen = <<>> \/ funds < run[r].total
  /\ run' = [run EXCEPT ![r].at = "over", ![r].state = "EMPTY"]
  /\ UNCHANGED <<purchases, orders, charged, funds>>

GoShopping(r) ==
  /\ run[r].at = "chosen"
  /\ run[r].chosen # <<>> /\ funds >= run[r].total
  /\ run' = [run EXCEPT ![r].at = "buying"]
  /\ UNCHANGED <<purchases, orders, charged, funds>>

-----------------------------------------------------------------------------
(* One product after another.                                              *)

Current(r) == Head(run[r].left)

NextProduct(r) == [run EXCEPT ![r].at = "buying", ![r].left = Tail(@)]

\* Without its row, a product is passed over.
AddPurchase(r) ==
  /\ run[r].at = "buying" /\ run[r].left # <<>>
  /\ LET added == Append(purchases[r],
           [product |-> Current(r), ordered |-> FALSE, paid |-> FALSE]) IN
     \/ /\ purchases' = [purchases EXCEPT ![r] = added]
        /\ run' = [run EXCEPT ![r].at = "recorded"]
     \/ /\ purchases' \in {purchases, [purchases EXCEPT ![r] = added]}
        /\ run' = NextProduct(r)
  /\ UNCHANGED <<orders, charged, funds>>

Ordered(r) == [orders EXCEPT ![<<r, Current(r)>>] = @ + 1]

\* The row of a product that was refused stays as it is.
Order(r) ==
  /\ run[r].at = "recorded"
  /\ \/ orders' = Ordered(r) /\ run' = [run EXCEPT ![r].at = "ordered"]
     \/ orders' \in {orders, Ordered(r)} /\ run' = NextProduct(r)
  /\ UNCHANGED <<purchases, charged, funds>>

\* The wallet finds the key of the run and the product, or moves the price.
Moved(r) ==
  LET key == <<r, Current(r)>> IN
  \/ key \in charged /\ UNCHANGED <<charged, funds>>
  \/ /\ key \notin charged /\ funds >= Price[Current(r)]
     /\ charged' = charged \cup {key}
     /\ funds' = funds - Price[Current(r)]

Transfer(r) ==
  /\ run[r].at = "ordered"
  /\ \/ Moved(r) /\ run' = [run EXCEPT ![r].at = "paid"]
     \/ /\ Moved(r) \/ UNCHANGED <<charged, funds>>
        /\ run' = [run EXCEPT ![r].at = "unpaid"]
  /\ UNCHANGED <<purchases, orders>>

\* The row may fail to be changed, which is only logged.
SettlePurchase(r, paid) ==
  purchases' \in {purchases, [purchases EXCEPT ![r][Len(purchases[r])].ordered = TRUE,
                                               ![r][Len(purchases[r])].paid = paid]}

SettlePaid(r) ==
  /\ run[r].at = "paid"
  /\ SettlePurchase(r, TRUE)
  /\ run' = [NextProduct(r) EXCEPT ![r].spent = @ + Price[Current(r)], ![r].ordered = @ + 1]
  /\ UNCHANGED <<orders, charged, funds>>

\* It is the money that is wrong: nothing more is bought.
SettleUnpaid(r) ==
  /\ run[r].at = "unpaid"
  /\ SettlePurchase(r, FALSE)
  /\ run' = [run EXCEPT ![r].at = "buying", ![r].left = <<>>, ![r].ordered = @ + 1]
  /\ UNCHANGED <<orders, charged, funds>>

Outcome(ordered, chosen) ==
  CASE ordered = 0           -> "EMPTY"
    [] ordered \in 1..chosen - 1 -> "PARTIAL"
    [] OTHER                 -> "DONE"

FinishRun(r) ==
  /\ run[r].at = "buying" /\ run[r].left = <<>>
  /\ run' = [run EXCEPT ![r].at = "over",
                        ![r].state = Outcome(run[r].ordered, Len(run[r].chosen))]
  /\ UNCHANGED <<purchases, orders, charged, funds>>

\* The service stops: the row stays pending, and what was spent is not told.
Stop(r) ==
  /\ run[r].at \in Places \ {"over"}
  /\ run' = [run EXCEPT ![r].at = "over", ![r].spent = 0]
  /\ UNCHANGED <<purchases, orders, charged, funds>>

\* The buyer spends elsewhere meanwhile.
SpendElsewhere ==
  /\ funds > 0 /\ funds' = funds - 1
  /\ UNCHANGED <<run, purchases, orders, charged>>

Next ==
  \/ \E r \in Runs :
       \/ \E budget \in Budgets, stream \in Streams,
             items \in UNION {[1..n -> Products] : n \in 1..MaxItems} :
            StartRun(r, budget, items, stream)
       \/ ChooseNothing(r) \/ GoShopping(r)
       \/ AddPurchase(r) \/ Order(r) \/ Transfer(r) \/ SettlePaid(r) \/ SettleUnpaid(r)
       \/ FinishRun(r) \/ Stop(r)
  \/ SpendElsewhere

Spec == Init /\ [][Next]_vars

-----------------------------------------------------------------------------

ChargedFor(r) == Total({p \in Products : <<r, p>> \in charged}, Price)

\* A run never costs its buyer more than the budget, and says so, whatever
\* fails, stops or is not answered.  Only what was ordered is paid for; a row
\* that says paid was charged; an empty run has cost nothing, and a run that
\* is done has ordered everything.
BudgetKept ==
  \A r \in Runs : run[r] # NoRun =>
    /\ ChargedFor(r) <= run[r].budget
    /\ run[r].spent <= run[r].budget
    /\ \A p \in Products : <<r, p>> \in charged => orders[<<r, p>>] > 0
    /\ \A i \in DOMAIN purchases[r] :
         purchases[r][i].paid => <<r, purchases[r][i].product>> \in charged
    /\ run[r].state = "EMPTY" => ChargedFor(r) = 0
    /\ run[r].state = "DONE" =>
         \A i \in DOMAIN run[r].chosen : orders[<<r, run[r].chosen[i]>>] > 0

=============================================================================
