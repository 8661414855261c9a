------------------------------ MODULE PosSales ------------------------------
(* The point of sale on the shared database: creating a sale, voiding and
   refunding it, holding and editing it, and the two ways of correcting stock.
   Every request is one transaction (ATOMIC_REQUESTS) of a web worker at READ
   COMMITTED.  A transaction writes a row only after locking it and keeps the
   lock until it ends, so its writes become visible together: the step that ends
   a request writes, from the copies the request holds in memory, every row the
   request wrote. *)
EXTENDS Integers, FiniteSets

CONSTANTS Item,         \* inventory items of one tenant
          Terminal,     \* POS terminals
          Worker,       \* web workers, each serving one request at a time
          Sale,         \* identities new sales get
          Basket,       \* what one sale can ask for: units of each item
          Amount,       \* amounts a stock correction can ask for
          Level,        \* bound: stock levels a correction may leave
          Opening,      \* Opening[i]: units of i at the start
          Kinds,        \* the kinds of request that arrive
          MaxRequests,  \* bound: requests served in a behaviour
          NoRow, Nobody, NoSale \* no row waited for, no lock holder, nothing sold

Row == Item \cup Terminal
Kind == {"create", "void", "refund", "hold", "edit", "adjust", "itemsave"}
Open == {"COMPLETED", "ON_HOLD"}
StatusChoices == Open \cup {"CANCELLED", "REFUNDED"}
Status == StatusChoices \cup {"none"}
Empty == [i \in Item |-> 0]

ASSUME PosAssumption == /\ Item \cap Terminal = {}
                        /\ NoRow \notin Row
                        /\ Nobody \notin Worker
                        /\ NoSale \notin [Item -> Nat]
                        /\ Basket \subseteq [Item -> Nat]
                        /\ Amount \subseteq Nat
                        /\ Level \subseteq Nat
                        /\ Opening \in [Item -> Nat]
                        /\ Sale # {}
                        /\ Kinds \subseteq Kind
                        /\ MaxRequests \in Nat

VARIABLES
  quantity,   \* quantity[i]: InventoryItem.quantity, committed
  status,     \* status[s]: Sale.status, "none" until the sale is committed
  basket,     \* basket[s]: the SaleItems of s, units of each item
  number,     \* number[s]: the sequential part of today's sale_number, 0 if none
  corrected,  \* corrected[i]: net effect of the corrections reported as done
  returned,   \* returned[s]: how often the items of s have been put back
  levels,     \* levels[i]: every quantity that i has had
  lock,       \* lock[r]: the worker whose transaction holds the lock on row r
  pc,         \* pc[w]: where the request of worker w has got to
  want,       \* want[w]: the row its SELECT ... FOR UPDATE waits for
  txn,        \* txn[w]: the request and what it read of the sale
  seen,       \* seen[w]: its in-memory copies of the item quantities
  served      \* requests taken on so far

rows == <<quantity, status, basket, number>>
past == <<corrected, returned, levels>>
vars == <<rows, past, lock, pc, want, txn, seen, served>>

Idle == [kind |-> "create", sale |-> CHOOSE s \in Sale : TRUE, status |-> "none",
         basket |-> Empty, number |-> 0, delta |-> 0]

Init == /\ quantity = Opening
        /\ status = [s \in Sale |-> "none"]
        /\ basket = [s \in Sale |-> Empty]
        /\ number = [s \in Sale |-> 0]
        /\ corrected = Empty
        /\ returned = [s \in Sale |-> 0]
        /\ levels = [i \in Item |-> {Opening[i]}]
        /\ lock = [r \in Row |-> Nobody]
        /\ pc = [w \in Worker |-> "idle"]
        /\ want = [w \in Worker |-> NoRow]
        /\ txn = [w \in Worker |-> Idle]
        /\ seen = [w \in Worker |-> Empty]
        /\ served = 0
-----------------------------------------------------------------------------
(* Helpers. *)
Existing == {s \in Sale : status[s] # "none"}
AboutSale(w) == pc[w] \in {"terminal", "number", "items", "edit"}
InFlight(s) == \E w \in Worker : AboutSale(w) /\ txn[w].sale = s
Admitted(k) == k \in Kinds /\ served < MaxRequests

CanBeCancelled(st) == st \in Open
CanBeRefunded(st) == st = "COMPLETED"
Allows(k, st) == IF k = "void" THEN CanBeCancelled(st) ELSE CanBeRefunded(st)
\* Mutant: a status the column has no choice for.
FinalMisspelt(k) == IF k = "void" THEN "VOIDED" ELSE "REFUNDED"
Final(k) == IF k = "void" THEN "CANCELLED" ELSE "REFUNDED"

Held(w) == {i \in Item : lock[i] = w}
Wanted(w) == {i \in Item : txn[w].basket[i] > 0}

\* What a commit adds to the levels on record.
Recorded == levels' = [i \in Item |-> levels[i] \cup {quantity'[i]}]

(* The end of a transaction, committed or rolled back: its locks go and the
   worker, with nothing in memory, is free for another request. *)
End(w) == /\ lock' = [r \in Row |-> IF lock[r] = w THEN Nobody ELSE lock[r]]
          /\ pc' = [pc EXCEPT ![w] = "idle"]
          /\ want' = [want EXCEPT ![w] = NoRow]
          /\ txn' = [txn EXCEPT ![w] = Idle]
          /\ seen' = [seen EXCEPT ![w] = Empty]
          /\ UNCHANGED served

Start(w, at, request) == /\ pc[w] = "idle"
                         /\ served' = served + 1
                         /\ pc' = [pc EXCEPT ![w] = at]
                         /\ txn' = [txn EXCEPT ![w] = request]
                         /\ UNCHANGED <<rows, past, lock>>
-----------------------------------------------------------------------------
(* POST a new sale, with any status there is.  Its id is new, so no other request is
   about it. *)
BeginCreate(w, s, t, b, st) ==
    /\ Admitted("create")
    /\ status[s] = "none" /\ ~InFlight(s)
    /\ Start(w, "terminal", [kind |-> "create", sale |-> s, status |-> st,
                             basket |-> b, number |-> 0, delta |-> 0])
    /\ want' = [want EXCEPT ![w] = t]
    /\ UNCHANGED seen

LockTerminal(w) ==
    /\ pc[w] = "terminal" /\ lock[want[w]] = Nobody
    /\ lock' = [lock EXCEPT ![want[w]] = w]
    /\ pc' = [pc EXCEPT ![w] = "number"]
    /\ want' = [want EXCEPT ![w] = NoRow]
    /\ UNCHANGED <<rows, past, txn, seen, served>>

(* The number after the greatest committed one of the day: the retry loop sees
   committed sales only, as the query before it did. *)
IsNextNumber(n) == /\ \A s \in Sale : number[s] < n
                   /\ n = 1 \/ \E s \in Sale : number[s] = n - 1

GenerateSaleNumber(w) ==
    /\ pc[w] = "number"
    /\ \E n \in {number[s] + 1 : s \in Sale} \cup {1} :
         /\ IsNextNumber(n)
         /\ txn' = [txn EXCEPT ![w].number = n]
    /\ pc' = [pc EXCEPT ![w] = "items"]
    /\ UNCHANGED <<rows, past, lock, want, seen, served>>

(* Void or refund a sale: the view reads it without a lock, checks the copy, and
   only then starts locking the items. *)
BeginReversal(w, k, s) ==
    /\ Admitted(k)
    /\ s \in Existing /\ Allows(k, status[s])
    /\ Start(w, "items", [kind |-> k, sale |-> s, status |-> status[s],
                          basket |-> basket[s], number |-> number[s], delta |-> 0])
    /\ UNCHANGED <<want, seen>>

(* The next line's SELECT ... FOR UPDATE; lines come in any order. *)
AskForItem(w, i) ==
    /\ pc[w] = "items" /\ want[w] = NoRow
    /\ i \in Wanted(w) \ Held(w)
    /\ want' = [want EXCEPT ![w] = i]
    /\ UNCHANGED <<rows, past, lock, pc, txn, seen, served>>

Enough(w, i) == txn[w].kind = "create" => txn[w].basket[i] <= quantity[i]

LockItem(w) ==
    /\ pc[w] = "items" /\ want[w] # NoRow
    /\ lock[want[w]] = Nobody
    /\ Enough(w, want[w])
    /\ lock' = [lock EXCEPT ![want[w]] = w]
    /\ seen' = [seen EXCEPT ![w][want[w]] = quantity[want[w]]]
    /\ want' = [want EXCEPT ![w] = NoRow]
    /\ UNCHANGED <<rows, past, pc, txn, served>>

\* Mutant: the refusal commits what the lines before have deducted.
RefuseHalfDone(w) ==
    /\ pc[w] = "items" /\ want[w] # NoRow
    /\ lock[want[w]] = Nobody
    /\ ~Enough(w, want[w])
    /\ quantity' = [i \in Item |-> IF i \in Held(w) THEN seen[w][i] - txn[w].basket[i]
                                                    ELSE quantity[i]]
    /\ Recorded /\ UNCHANGED <<status, basket, number, corrected, returned>>
    /\ End(w)

RefuseForStock(w) ==
    /\ pc[w] = "items" /\ want[w] # NoRow
    /\ lock[want[w]] = Nobody
    /\ ~Enough(w, want[w])
    /\ End(w)
    /\ UNCHANGED <<rows, past>>

AllLocked(w) == pc[w] = "items" /\ want[w] = NoRow /\ Wanted(w) \subseteq Held(w)

NumberTaken(w) == \E s \in Sale : number[s] = txn[w].number

\* Mutant: no unique_together on (tenant, sale_number).
CommitAnyNumber(w) ==
    /\ txn[w].kind = "create" /\ AllLocked(w)
    /\ quantity' = [i \in Item |-> quantity[i] - txn[w].basket[i]]
    /\ status' = [status EXCEPT ![txn[w].sale] = txn[w].status]
    /\ basket' = [basket EXCEPT ![txn[w].sale] = txn[w].basket]
    /\ number' = [number EXCEPT ![txn[w].sale] = txn[w].number]
    /\ Recorded /\ UNCHANGED <<corrected, returned>>
    /\ End(w)

(* Sale, SaleItems and deductions; every line deducts from the copy it locked. *)
CommitCreate(w) ==
    /\ txn[w].kind = "create" /\ AllLocked(w)
    /\ ~NumberTaken(w)
    /\ quantity' = [i \in Item |-> IF i \in Wanted(w) THEN seen[w][i] - txn[w].basket[i]
                                                     ELSE quantity[i]]
    /\ status' = [status EXCEPT ![txn[w].sale] = txn[w].status]
    /\ basket' = [basket EXCEPT ![txn[w].sale] = txn[w].basket]
    /\ number' = [number EXCEPT ![txn[w].sale] = txn[w].number]
    /\ Recorded /\ UNCHANGED <<corrected, returned>>
    /\ End(w)

\* Mutant: the refusal is reported without rolling the transaction back.
RefuseKeepingLocks(w) ==
    /\ txn[w].kind = "create" /\ AllLocked(w)
    /\ NumberTaken(w)
    /\ pc' = [pc EXCEPT ![w] = "idle"]
    /\ UNCHANGED <<rows, past, lock, want, txn, seen, served>>

(* unique_together (tenant, sale_number): the insert fails, the sale is refused. *)
RefuseForNumber(w) ==
    /\ txn[w].kind = "create" /\ AllLocked(w)
    /\ NumberTaken(w)
    /\ End(w)
    /\ UNCHANGED <<rows, past>>

(* The items are put back; the status is written after a check of the copy. *)
CommitReversal(w) ==
    /\ txn[w].kind \in {"void", "refund"} /\ AllLocked(w)
    /\ Allows(txn[w].kind, txn[w].status)
    /\ quantity' = [i \in Item |-> IF i \in Wanted(w) THEN seen[w][i] + txn[w].basket[i]
                                                     ELSE quantity[i]]
    /\ status' = [status EXCEPT ![txn[w].sale] = Final(txn[w].kind)]
    /\ returned' = [returned EXCEPT ![txn[w].sale] = @ + 1]
    /\ Recorded /\ UNCHANGED <<basket, number, corrected>>
    /\ End(w)

(* The edit page reads the whole row, changes some columns and saves all of it. *)
BeginEdit(w, s) ==
    /\ Admitted("edit")
    /\ s \in Existing
    /\ Start(w, "edit", [kind |-> "edit", sale |-> s, status |-> status[s],
                         basket |-> basket[s], number |-> number[s], delta |-> 0])
    /\ UNCHANGED <<want, seen>>

CommitEdit(w) ==
    /\ pc[w] = "edit"
    /\ status' = [status EXCEPT ![txn[w].sale] = txn[w].status]
    /\ UNCHANGED <<quantity, basket, number, past>>
    /\ End(w)

(* put_on_hold writes the status whatever it was. *)
PutOnHold(s) ==
    /\ Admitted("hold")
    /\ s \in Existing
    /\ status' = [status EXCEPT ![s] = "ON_HOLD"]
    /\ served' = served + 1
    /\ UNCHANGED <<quantity, basket, number, past, lock, pc, want, txn, seen>>
-----------------------------------------------------------------------------
(* Corrections of stock. *)
Adjusted(how, n, q) == CASE how = "ADD" -> q + n
                         [] how = "DEDUCT" -> q - n
                         [] how = "SET" -> n

\* Mutant: the row is read without select_for_update.
AdjustWithoutLock(i, how, n) ==
    /\ Admitted("adjust")
    /\ how = "DEDUCT" => n <= quantity[i]
    /\ Adjusted(how, n, quantity[i]) \in Level
    /\ quantity' = [quantity EXCEPT ![i] = Adjusted(how, n, @)]
    /\ corrected' = [corrected EXCEPT ![i] = @ + quantity'[i] - quantity[i]]
    /\ served' = served + 1
    /\ Recorded /\ UNCHANGED <<status, basket, number, returned, lock, pc, want, txn, seen>>

(* The API locks the row, checks and writes it: one step while the row is free. *)
AdjustStock(i, how, n) ==
    /\ Admitted("adjust")
    /\ lock[i] = Nobody
    /\ how = "DEDUCT" => n <= quantity[i]
    /\ Adjusted(how, n, quantity[i]) \in Level
    /\ quantity' = [quantity EXCEPT ![i] = Adjusted(how, n, @)]
    /\ corrected' = [corrected EXCEPT ![i] = @ + quantity'[i] - quantity[i]]
    /\ served' = served + 1
    /\ Recorded /\ UNCHANGED <<status, basket, number, returned, lock, pc, want, txn, seen>>

(* The web pages (adjustment form, item form) read the row without a lock and
   save all of it later: the new level is computed from the copy. *)
BeginItemSave(w, i, how, n) ==
    /\ Admitted("itemsave")
    /\ how = "DEDUCT" => n <= quantity[i]
    /\ Adjusted(how, n, quantity[i]) \in Level
    /\ Start(w, "itemsave", [Idle EXCEPT !.kind = "itemsave",
                                         !.delta = Adjusted(how, n, quantity[i]) - quantity[i]])
    /\ want' = [want EXCEPT ![w] = i]
    /\ seen' = [seen EXCEPT ![w][i] = quantity[i]]

CommitItemSave(w) ==
    /\ pc[w] = "itemsave" /\ lock[want[w]] = Nobody
    /\ quantity' = [quantity EXCEPT ![want[w]] = seen[w][want[w]] + txn[w].delta]
    /\ corrected' = [corrected EXCEPT ![want[w]] = @ + txn[w].delta]
    /\ Recorded /\ UNCHANGED <<status, basket, number, returned>>
    /\ End(w)
-----------------------------------------------------------------------------
(* Failures: a worker dies or times out and its transaction is rolled back; the
   database breaks a cycle of waiting transactions by aborting one of them. *)
Abort(w) == pc[w] # "idle" /\ End(w) /\ UNCHANGED <<rows, past>>

WaitsWithin(w, S) == /\ want[w] # NoRow
                     /\ lock[want[w]] \in S
Deadlocked(w) == \E S \in SUBSET Worker : w \in S /\ \A v \in S : WaitsWithin(v, S)
DeadlockVictim(w) == Deadlocked(w) /\ End(w) /\ UNCHANGED <<rows, past>>

Step(w) == \/ LockTerminal(w) \/ GenerateSaleNumber(w)
           \/ \E i \in Item : AskForItem(w, i)
           \/ LockItem(w) \/ RefuseForStock(w)
           \/ CommitCreate(w) \/ RefuseForNumber(w) \/ CommitReversal(w)
           \/ CommitEdit(w) \/ CommitItemSave(w) \/ DeadlockVictim(w)

Arrival == \/ \E w \in Worker, s \in Sale, t \in Terminal, b \in Basket, st \in StatusChoices :
                BeginCreate(w, s, t, b, st)
           \/ \E w \in Worker, s \in Sale, k \in {"void", "refund"} : BeginReversal(w, k, s)
           \/ \E w \in Worker, s \in Sale : BeginEdit(w, s)
           \/ \E s \in Sale : PutOnHold(s)
           \/ \E i \in Item, how \in {"ADD", "DEDUCT", "SET"}, n \in Amount : AdjustStock(i, how, n)
           \/ \E w \in Worker, i \in Item, how \in {"ADD", "DEDUCT", "SET"}, n \in Amount :
                BeginItemSave(w, i, how, n)

(* Nothing is left to do: every request the bound admits has been answered. *)
AllServed == /\ served = MaxRequests
             /\ \A w \in Worker : pc[w] = "idle"
             /\ UNCHANGED vars

Next == Arrival \/ AllServed \/ \E w \in Worker : Step(w) \/ Abort(w)

Spec == Init /\ [][Next]_vars

(* A worker goes on with its request, and the database breaks deadlocks. *)
FairSpec == Spec /\ \A w \in Worker : WF_vars(Step(w))
-----------------------------------------------------------------------------
PC == {"idle", "terminal", "number", "items", "edit", "itemsave"}
Txn == [kind : Kind, sale : Sale, status : Status, basket : [Item -> Nat],
        number : Nat, delta : Int]

(* The type of every variable. *)
TypeOK == /\ quantity \in [Item -> Int]
          /\ status \in [Sale -> Status]
          /\ basket \in [Sale -> [Item -> Nat]]
          /\ number \in [Sale -> Nat]
          /\ corrected \in [Item -> Int]
          /\ returned \in [Sale -> Nat]
          /\ levels \in [Item -> SUBSET Int]
          /\ lock \in [Row -> Worker \cup {Nobody}]
          /\ pc \in [Worker -> PC]
          /\ want \in [Worker -> Row \cup {NoRow}]
          /\ txn \in [Worker -> Txn]
          /\ seen \in [Worker -> [Item -> Int]]
          /\ served \in Nat

(* Stock is never sold, deducted or saved below zero, whatever the interleaving
   of sales, reversals and corrections. *)
NonNegative == \A i \in Item : quantity[i] >= 0

(* While a request holds an item's lock, the copy it will write from is the
   committed quantity: nobody can have changed it under the lock. *)
FreshWhileLocked == \A w \in Worker, i \in Item :
                      lock[i] = w => seen[w][i] = quantity[i]

(* The inductive invariant behind both: who may hold a lock, what each request
   waits for, and that the copies it will write from allow what it will write. *)
LockPhases == \A w \in Worker, r \in Row : lock[r] = w => pc[w] \in {"number", "items"}

WaitsForRow == \A w \in Worker : /\ pc[w] \in {"idle", "number", "edit"} => want[w] = NoRow
                                 /\ pc[w] = "terminal" => want[w] \in Terminal
                                 /\ pc[w] = "items" => want[w] \in Wanted(w) \cup {NoRow}
                                 /\ pc[w] = "itemsave" => want[w] \in Item

EnoughLocked == \A w \in Worker, i \in Item :
    (lock[i] = w /\ txn[w].kind = "create") => txn[w].basket[i] <= seen[w][i]

SavesNonNegative == \A w \in Worker :
    pc[w] = "itemsave" => seen[w][want[w]] + txn[w].delta >= 0

LockInvariant == /\ LockPhases /\ WaitsForRow /\ EnoughLocked /\ SavesNonNegative
                 /\ FreshWhileLocked /\ NonNegative

(* The day's sale numbers are 1, 2, 3, ... with no duplicate and no gap, although
   requests pick them concurrently and some are refused or rolled back. *)
NumbersConsecutive == \A s \in Existing :
    /\ \A r \in Existing \ {s} : number[r] # number[s]
    /\ number[s] = 1 \/ \E r \in Existing : number[r] = number[s] - 1

(* Every request that was taken on is answered: no wait for a lock lasts. *)
Answered == \A w \in Worker : pc[w] # "idle" ~> pc[w] = "idle"

(* A sale that is no longer open cannot be cancelled or refunded again: its items are
   put back once (models.py:383, 390). *)
ReversedOnce == \A s \in Sale : returned[s] <= 1

Ledger == INSTANCE StockLedger WITH
              stock <- quantity,
              sold <- [s \in Sale |-> IF status[s] = "none" THEN NoSale ELSE basket[s]]

(* Every sale takes its basket once and from stock that is there, all lines or none;
   every void or refund that is accepted gives all of it back; nothing but a
   correction moves stock otherwise, and only a page's save can start from a level
   that is no longer the current one.  Whatever overlaps (serializers.py:401,
   views.py:215, 269). *)
ImplementsLedger == Ledger!Spec
=============================================================================
