----------------------------- MODULE StockLedger -----------------------------
(* What the point of sale promises about stock, with no requests, rows or locks:
   a sale takes its basket out of stock once, a void or a refund puts that basket
   back, and everything else that moves stock is a correction.  A correction through
   the API changes the stock by what it reports; one made on a page changes a level
   the item has had, which others may have changed since. *)
EXTENDS Integers

CONSTANTS Item,     \* inventory items of one tenant
          Sale,     \* identities a sale can get
          Basket,   \* what one sale can take: units of each item
          Level,    \* stock levels a correction can leave
          Opening,  \* Opening[i]: units of i in stock at the start
          NoSale

VARIABLES stock,     \* stock[i]: units of item i on the shelf
          sold,      \* sold[s]: what sale s took, item by item, or NoSale
          returned,  \* returned[s]: how often that has been put back
          corrected, \* corrected[i]: net effect of the stock corrections, as reported
          levels     \* levels[i]: what the stock of i has been

vars == <<stock, sold, returned, corrected, levels>>

Init == /\ stock = Opening
        /\ sold = [s \in Sale |-> NoSale]
        /\ returned = [s \in Sale |-> 0]
        /\ corrected = [i \in Item |-> 0]
        /\ levels = [i \in Item |-> {Opening[i]}]

Sell(s, b) == /\ sold[s] = NoSale
              /\ \A i \in Item : b[i] <= stock[i]
              /\ stock' = [i \in Item |-> stock[i] - b[i]]
              /\ sold' = [sold EXCEPT ![s] = b]
              /\ UNCHANGED <<returned, corrected>>

Reverse(s) == /\ sold[s] # NoSale
              /\ stock' = [i \in Item |-> stock[i] + sold[s][i]]
              /\ returned' = [returned EXCEPT ![s] = @ + 1]
              /\ UNCHANGED <<sold, corrected>>

Correct(i, from, n) == /\ stock' = [stock EXCEPT ![i] = n]
                       /\ corrected' = [corrected EXCEPT ![i] = @ + n - from]
                       /\ UNCHANGED <<sold, returned>>

Next == /\ \/ \E s \in Sale, b \in Basket : Sell(s, b)
           \/ \E s \in Sale : Reverse(s)
           \/ \E i \in Item, n \in Level : Correct(i, stock[i], n)
           \/ \E i \in Item, n \in Level : \E from \in levels[i] : Correct(i, from, n)
        /\ levels' = [i \in Item |-> levels[i] \cup {stock'[i]}]

Spec == Init /\ [][Next]_vars
=============================================================================
