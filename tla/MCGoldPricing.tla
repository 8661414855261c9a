---------------------------- MODULE MCGoldPricing ----------------------------
(* Small instances of GoldPricing for TLC. *)
EXTENDS GoldPricing, TLC

\* Two items, the first with a rule.  From a price of 1, one of 3 does not fit the log;
\* from 2 it does.
MCKarat == 1 :> 18 @@ 2 :> 18
MCWeight == 1 :> 1 @@ 2 :> 1
MCOpening == 1 :> 1 @@ 2 :> 2
=============================================================================
