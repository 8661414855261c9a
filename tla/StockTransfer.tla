---------------------------- MODULE StockTransfer ----------------------------
(* Transfers of inventory between branches: requested, approved or rejected,
   shipped, received, cancelled.  Every request is one transaction at READ
   COMMITTED that locks the transfer's row first; the rows of the items are read
   without a lock, line by line, and locked only by the write that follows. *)
EXTENDS Integers, FiniteSets

CONSTANTS Item,      \* inventory items of one tenant
          Transfer,  \* identities new transfers get
          Worker,    \* web workers, each serving one request at a time
          Lines,     \* what a transfer can ask for: units of each item
          Reported,  \* counts the receiver can report for a line
          Opening,   \* Opening[i]: units of i at the start
          Quiet,     \* items that nothing else moves while a transfer moves them
          NoRow, Nobody \* no row waited for, no lock holder

Row == Item \cup Transfer
Nothing == [i \in Item |-> 0]

ASSUME TransferAssumption == /\ Item \cap Transfer = {}
                             /\ NoRow \notin Row
                             /\ Nobody \notin Worker
                             /\ Lines \subseteq [Item -> Nat]
                             /\ Reported \subseteq Int
                             /\ Opening \in [Item -> Nat]
                             /\ Transfer # {} /\ IsFiniteSet(Transfer)
                             /\ Quiet \subseteq Item

VARIABLES
  quantity,   \* quantity[i]: InventoryItem.quantity, committed
  status,     \* status[t]: InventoryTransfer.status, "none" until committed
  lines,      \* lines[t]: the quantities of its InventoryTransferItems
  counted,    \* counted[t]: the quantities it was received with
  number,     \* number[t]: the sequential part of its transfer_number, 0 if none
  lock,       \* lock[r]: the worker whose transaction holds the lock on row r
  pc,         \* pc[w]: where the request of worker w has got to
  want,       \* want[w]: the item it has read and is about to write
  txn,        \* txn[w]: the request
  seen        \* seen[w]: its in-memory copies of the item quantities

rows == <<quantity, status, lines, counted, number>>
vars == <<quantity, status, lines, counted, number, lock, pc, want, txn, seen>>

Free == [kind |-> "create", transfer |-> CHOOSE t \in Transfer : TRUE,
         lines |-> Nothing, number |-> 0]

Init == /\ quantity = Opening
        /\ status = [t \in Transfer |-> "none"]
        /\ lines = [t \in Transfer |-> Nothing]
        /\ counted = [t \in Transfer |-> Nothing]
        /\ number = [t \in Transfer |-> 0]
        /\ lock = [r \in Row |-> Nobody]
        /\ pc = [w \in Worker |-> "idle"]
        /\ want = [w \in Worker |-> NoRow]
        /\ txn = [w \in Worker |-> Free]
        /\ seen = [w \in Worker |-> Nothing]
-----------------------------------------------------------------------------
(* The end of a transaction, committed or rolled back. *)
End(w) == /\ lock' = [r \in Row |-> IF lock[r] = w THEN Nobody ELSE lock[r]]
          /\ pc' = [pc EXCEPT ![w] = "idle"]
          /\ want' = [want EXCEPT ![w] = NoRow]
          /\ txn' = [txn EXCEPT ![w] = Free]
          /\ seen' = [seen EXCEPT ![w] = Nothing]
-----------------------------------------------------------------------------
(* Request a transfer: the items are checked against unlocked reads, and the
   number is the count of today's transfers plus one. *)
Available(l) == \A i \in Item : l[i] <= quantity[i]
Existing == {t \in Transfer : status[t] # "none"}

BeginCreate(w, t, l) ==
    /\ pc[w] = "idle" /\ status[t] = "none"
    /\ \A v \in Worker : ~(pc[v] = "create" /\ txn[v].transfer = t)
    /\ Available(l)
    /\ pc' = [pc EXCEPT ![w] = "create"]
    /\ txn' = [txn EXCEPT ![w] = [kind |-> "create", transfer |-> t, lines |-> l,
                                  number |-> Cardinality(Existing) + 1]]
    /\ UNCHANGED <<rows, lock, want, seen>>

NumberTaken(w) == \E t \in Transfer : number[t] = txn[w].number

CommitCreate(w) ==
    /\ pc[w] = "create" /\ ~NumberTaken(w)
    /\ status' = [status EXCEPT ![txn[w].transfer] = "pending"]
    /\ lines' = [lines EXCEPT ![txn[w].transfer] = txn[w].lines]
    /\ number' = [number EXCEPT ![txn[w].transfer] = txn[w].number]
    /\ UNCHANGED <<quantity, counted>>
    /\ End(w)

(* unique_together (tenant, transfer_number): the insert fails. *)
RefuseForNumber(w) == pc[w] = "create" /\ NumberTaken(w) /\ End(w) /\ UNCHANGED rows
-----------------------------------------------------------------------------
(* Approve, reject and cancel lock the row, check its status and write it: one
   step while the row is free. *)
Decide(t, from, to) == /\ lock[t] = Nobody
                       /\ status[t] \in from
                       /\ status' = [status EXCEPT ![t] = to]
                       /\ UNCHANGED <<quantity, lines, counted, number, lock, pc, want, txn, seen>>

ApproveTransfer(t) == Decide(t, {"pending"}, "approved")
RejectTransfer(t) == Decide(t, {"pending"}, "rejected")

\* Mutant: the row is read without select_for_update.
CancelWithoutLock(t) ==
    /\ status[t] \in {"pending", "approved"}
    /\ status' = [status EXCEPT ![t] = "cancelled"]
    /\ UNCHANGED <<quantity, lines, counted, number, lock, pc, want, txn, seen>>
CancelTransfer(t) == Decide(t, {"pending", "approved"}, "cancelled")
-----------------------------------------------------------------------------
(* Ship or receive: with the transfer's row locked and its status checked, every
   line's item is read, then written. *)
From(k) == IF k = "ship" THEN "approved" ELSE "in_transit"
\* Mutant: a status the column has no choice for.
ToMisspelt(k) == IF k = "ship" THEN "shipped" ELSE "received"
\* Mutant: the receipt does not set the status that ends the transfer.
ToTransit(k) == "in_transit"
To(k) == IF k = "ship" THEN "in_transit" ELSE "received"

(* A line is received as sent unless the receiver reports another count. *)
Counts(l) == {c \in [Item -> Reported \cup {l[i] : i \in Item}] :
                \A i \in Item : c[i] = l[i] \/ (l[i] > 0 /\ c[i] \in Reported)}

Lined(w) == {i \in Item : lines[txn[w].transfer][i] > 0}
Busy(i) == \E w \in Worker : pc[w] = "moving" /\ i \in Lined(w)

BeginMove(w, k, t, l) ==
    /\ pc[w] = "idle" /\ lock[t] = Nobody
    /\ status[t] = From(k)
    /\ \A i \in Quiet : lines[t][i] > 0 => ~Busy(i)
    /\ lock' = [lock EXCEPT ![t] = w]
    /\ pc' = [pc EXCEPT ![w] = "moving"]
    /\ txn' = [txn EXCEPT ![w] = [kind |-> k, transfer |-> t, lines |-> l, number |-> 0]]
    /\ UNCHANGED <<rows, want, seen>>

Held(w) == {i \in Item : lock[i] = w}

\* Mutant: the deduction trusts the check made when the transfer was requested.
EnoughOnRequest(w, i) == TRUE
Enough(w, i) == txn[w].kind = "ship" => txn[w].lines[i] <= quantity[i]

Read(w, i) == /\ pc[w] = "moving" /\ want[w] = NoRow
              /\ i \in Lined(w) \ Held(w)

ReadItem(w, i) == /\ Read(w, i) /\ Enough(w, i)
                  /\ seen' = [seen EXCEPT ![w][i] = quantity[i]]
                  /\ want' = [want EXCEPT ![w] = i]
                  /\ UNCHANGED <<rows, lock, pc, txn>>

\* Mutant: the refused line is skipped and the request waits for its stock.
RefuseAndWait(w, i) == Read(w, i) /\ ~Enough(w, i) /\ UNCHANGED vars
RefuseForStock(w, i) == Read(w, i) /\ ~Enough(w, i) /\ End(w) /\ UNCHANGED rows

WriteItem(w) == /\ want[w] # NoRow /\ lock[want[w]] = Nobody
                /\ lock' = [lock EXCEPT ![want[w]] = w]
                /\ want' = [want EXCEPT ![w] = NoRow]
                /\ UNCHANGED <<rows, pc, txn, seen>>

AllWritten(w) == pc[w] = "moving" /\ want[w] = NoRow /\ Lined(w) \subseteq Held(w)

Moved(w, i) == IF txn[w].kind = "ship" THEN seen[w][i] - txn[w].lines[i]
                                       ELSE seen[w][i] + txn[w].lines[i]

CommitMove(w) ==
    /\ AllWritten(w)
    /\ quantity' = [i \in Item |-> IF i \in Lined(w) THEN Moved(w, i) ELSE quantity[i]]
    /\ status' = [status EXCEPT ![txn[w].transfer] = To(txn[w].kind)]
    /\ counted' = IF txn[w].kind = "receive"
                  THEN [counted EXCEPT ![txn[w].transfer] = txn[w].lines]
                  ELSE counted
    /\ UNCHANGED <<lines, number>>
    /\ End(w)
-----------------------------------------------------------------------------
(* The point of sale deducts under the item's lock: one step while it is free. *)
Sell(i) == /\ lock[i] = Nobody /\ quantity[i] > 0
           /\ i \in Quiet => ~Busy(i)
           /\ quantity' = [quantity EXCEPT ![i] = @ - 1]
           /\ UNCHANGED <<status, lines, counted, number, lock, pc, want, txn, seen>>

(* A worker dies or times out; the database breaks a cycle of waiting writes. *)
Abort(w) == pc[w] # "idle" /\ End(w) /\ UNCHANGED rows

WaitsWithin(w, S) == want[w] # NoRow /\ lock[want[w]] \in S
Deadlocked(w) == \E S \in SUBSET Worker : w \in S /\ \A v \in S : WaitsWithin(v, S)
DeadlockVictim(w) == Deadlocked(w) /\ End(w) /\ UNCHANGED rows

Step(w) == \/ CommitCreate(w) \/ RefuseForNumber(w)
           \/ \E i \in Item : ReadItem(w, i) \/ RefuseForStock(w, i)
           \/ WriteItem(w) \/ CommitMove(w) \/ DeadlockVictim(w)

Ship(w, t) == BeginMove(w, "ship", t, lines[t])
Receive(w, t) == \E c \in Counts(lines[t]) : BeginMove(w, "receive", t, c)

Next == \/ \E w \in Worker, t \in Transfer, l \in Lines : BeginCreate(w, t, l)
        \/ \E t \in Transfer : ApproveTransfer(t) \/ RejectTransfer(t) \/ CancelTransfer(t)
        \/ \E w \in Worker, t \in Transfer : Ship(w, t) \/ Receive(w, t)
        \/ \E w \in Worker : Step(w) \/ Abort(w)
        \/ \E i \in Item : Sell(i)

Spec == Init /\ [][Next]_vars

(* A worker goes on with its request, the database breaks deadlocks, and the queue
   of a row's lock is served in order: no waiting write is overtaken for ever. *)
FairSpec == Spec /\ \A w \in Worker : SF_vars(Step(w))
-----------------------------------------------------------------------------
Status == {"none", "pending", "approved", "rejected", "in_transit", "received", "cancelled"}
Request == [kind : {"create", "ship", "receive"}, transfer : Transfer,
            lines : [Item -> Int], number : Nat]

(* The type of every variable. *)
TypeOK == /\ quantity \in [Item -> Int]
          /\ status \in [Transfer -> Status]
          /\ lines \in [Transfer -> [Item -> Int]]
          /\ counted \in [Transfer -> [Item -> Int]]
          /\ number \in [Transfer -> Nat]
          /\ lock \in [Row -> Worker \cup {Nobody}]
          /\ pc \in [Worker -> {"idle", "create", "moving"}]
          /\ want \in [Worker -> Item \cup {NoRow}]
          /\ txn \in [Worker -> Request]
          /\ seen \in [Worker -> [Item -> Int]]

(* A request that ships or receives holds its transfer's lock and finds its status
   as it checked it; a transfer being requested does not exist yet. *)
HoldsTransfer == \A w \in Worker : pc[w] = "moving" =>
    /\ lock[txn[w].transfer] = w
    /\ txn[w].kind \in {"ship", "receive"}
    /\ status[txn[w].transfer] = From(txn[w].kind)

Requests == \A w \in Worker : pc[w] = "create" =>
    /\ status[txn[w].transfer] = "none" /\ txn[w].lines \in Lines
    /\ \A v \in Worker \ {w} : pc[v] = "create" => txn[v].transfer # txn[w].transfer

LocksHeld == \A w \in Worker : /\ pc[w] # "moving" => want[w] = NoRow /\ \A r \in Row : lock[r] # w
                               /\ want[w] # NoRow => want[w] \in Lined(w)
                               /\ Held(w) \subseteq Lined(w)

MovesItsLines == \A w \in Worker : pc[w] = "moving" =>
    /\ txn[w].kind = "ship" => txn[w].lines = lines[txn[w].transfer]
    /\ \A i \in Item : lines[txn[w].transfer][i] = 0 => txn[w].lines[i] = 0

(* What a shipment has read allows what it will deduct, stale or not. *)
Touched(w, i) == want[w] = i \/ lock[i] = w
EnoughRead == \A w \in Worker, i \in Item :
    (Touched(w, i) /\ txn[w].kind = "ship") => txn[w].lines[i] <= seen[w][i]

(* Of a quiet item, only one request moves it and its copy is current. *)
CurrentCopies == \A w \in Worker, i \in Quiet :
    /\ Touched(w, i) => seen[w][i] = quantity[i]
    /\ (pc[w] = "moving" /\ i \in Lined(w)) =>
          \A v \in Worker \ {w} : pc[v] = "moving" => i \notin Lined(v)

LinesNonNegative == \A t \in Transfer, i \in Item : lines[t][i] >= 0

MoveInvariant == /\ LinesNonNegative /\ HoldsTransfer /\ Requests /\ LocksHeld /\ MovesItsLines
                 /\ EnoughRead /\ CurrentCopies

\* Nothing checks what a receiver reports (models.py:729): some transfer was received with
\* fewer than no units of i.
Miscounted(i) == \E t \in Transfer : counted[t][i] < 0
CountedOnReceipt == \A t \in Transfer : status[t] # "received" => counted[t] = Nothing

(* Stock goes below zero by a receipt that was reported with a negative count, and by
   nothing else, however sales and transfers overlap and however stale the copies are
   that a shipment deducts from (models.py:425). *)
NonNegative == \A i \in Item : quantity[i] >= 0 \/ Miscounted(i)
CopiesNonNegative == \A w \in Worker, i \in Item : seen[w][i] >= 0 \/ Miscounted(i)
StockInvariant == MoveInvariant /\ CountedOnReceipt /\ NonNegative /\ CopiesNonNegative

(* A transfer goes through its workflow, "pending -> approved -> in_transit ->
   received", rejected while pending, cancelled before it is shipped, although
   approvals, cancellations and shipments of it arrive together. *)
Workflow == {<<"none", "pending">>, <<"pending", "approved">>, <<"pending", "rejected">>,
             <<"approved", "in_transit">>, <<"in_transit", "received">>,
             <<"pending", "cancelled">>, <<"approved", "cancelled">>}
FollowsWorkflow == [][\A t \in Transfer : status'[t] # status[t]
                                          => <<status[t], status'[t]>> \in Workflow]_vars

(* Every request that was taken on ends, though shipments write items in any order. *)
Answered == \A w \in Worker : pc[w] # "idle" ~> pc[w] = "idle"

Place == [t \in Transfer |-> CASE status[t] = "in_transit" -> "road"
                              [] status[t] = "received" -> "arrived"
                              [] OTHER -> "source"]
OnQuiet(amounts) == [t \in Transfer |-> [i \in Quiet |-> amounts[t][i]]]

Transit == INSTANCE TransitLedger WITH
             Item <- Quiet, Opening <- [i \in Quiet |-> Opening[i]],
             stock <- [i \in Quiet |-> quantity[i]],
             lines <- OnQuiet(lines), counted <- OnQuiet(counted), place <- Place

(* Of the items nothing else moves meanwhile, what a transfer ships leaves the
   stock once and what is received enters it once, all its lines together. *)
ImplementsTransit == Transit!Spec
=============================================================================
