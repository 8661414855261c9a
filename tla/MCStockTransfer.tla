--------------------------- MODULE MCStockTransfer ---------------------------
(* Small instances of StockTransfer for TLC. *)
EXTENDS StockTransfer, TLC

CONSTANTS i1, i2, i3

\* Two transfers share the items outside Quiet, and can ask for more than there is.
MCLines == {i1 :> 1 @@ i2 :> 1 @@ i3 :> 1, i1 :> 0 @@ i2 :> 2 @@ i3 :> 1}
\* Nothing arrived of a line, or a slip of the pen.
MCReported == {0, -1}
MCOpening == i1 :> 1 @@ i2 :> 2 @@ i3 :> 1
=============================================================================
