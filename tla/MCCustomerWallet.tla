-------------------------- MODULE MCCustomerWallet --------------------------
(* Small instances of CustomerWallet for TLC. *)
EXTENDS CustomerWallet, TLC

CONSTANTS g1, g2

\* One point and one unit of credit; enough purchases for the tier, whose
\* points count double.
MCOpening == [points |-> 1, credit |-> 1, purchases |-> 2, tier |-> 0]
MCMultiplier == 0 :> 1 @@ 1 :> 2
=============================================================================
