---------------------------- MODULE TransitLedger ----------------------------
(* What transfers between branches promise of the stock of their items: goods
   that are shipped leave the stock, goods that are received enter it, each once,
   and only sales move stock besides. *)
EXTENDS Integers

CONSTANTS Item, Transfer, Opening

VARIABLES stock,    \* stock[i]: units of i on the books
          lines,    \* lines[t]: units of each item transfer t sends
          counted,  \* counted[t]: units of each item that were received
          place     \* place[t]: whether the goods of t have left, or arrived

vars == <<stock, lines, counted, place>>

Nothing == [i \in Item |-> 0]

Init == /\ stock = Opening
        /\ lines = [t \in Transfer |-> Nothing]
        /\ counted = [t \in Transfer |-> Nothing]
        /\ place = [t \in Transfer |-> "source"]

Request(t) == /\ place[t] = "source"
              /\ lines' = [lines EXCEPT ![t] = lines'[t]]
              /\ UNCHANGED <<stock, counted, place>>

Ship(t) == /\ place[t] = "source"
           /\ stock' = [i \in Item |-> stock[i] - lines[t][i]]
           /\ place' = [place EXCEPT ![t] = "road"]
           /\ UNCHANGED <<lines, counted>>

Receive(t) == /\ place[t] = "road"
              /\ counted' = [counted EXCEPT ![t] = counted'[t]]
              /\ stock' = [i \in Item |-> stock[i] + counted'[t][i]]
              /\ place' = [place EXCEPT ![t] = "arrived"]
              /\ UNCHANGED lines

Sell(i) == /\ stock[i] > 0
           /\ stock' = [stock EXCEPT ![i] = @ - 1]
           /\ UNCHANGED <<lines, counted, place>>

Next == \/ \E t \in Transfer : Request(t) \/ Ship(t) \/ Receive(t)
        \/ \E i \in Item : Sell(i)

Spec == Init /\ [][Next]_vars
=============================================================================
