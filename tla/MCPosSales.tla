----------------------------- MODULE MCPosSales -----------------------------
(* Small instances of PosSales for TLC. *)
EXTENDS PosSales, TLC

CONSTANTS i1, i2

\* One unit of each item, or two of the first alone: the second can run out of
\* stock, the first after one sale.
MCBasket == {i1 :> 1 @@ i2 :> 1, i1 :> 2 @@ i2 :> 0}
MCOpening == i1 :> 2 @@ i2 :> 1

\* Enough for two sales, so that the second can be refused for its number.
Plenty == i1 :> 2 @@ i2 :> 2

Workers == Permutations(Worker)
=============================================================================
