------------------------- MODULE StockTransferProofs -------------------------
(* Proofs, for every value of the constants, about StockTransfer. *)
EXTENDS StockTransfer, FiniteSetTheorems, TLAPS

LEMMA RequestType ==
  ASSUME TypeOK, NEW w \in Worker
  PROVE  /\ txn[w].kind \in {"create", "ship", "receive"}
         /\ txn[w].transfer \in Transfer
         /\ txn[w].lines \in [Item -> Int]
         /\ txn[w].number \in Nat
         /\ seen[w] \in [Item -> Int]
         /\ want[w] \in Item \cup {NoRow}
         /\ pc[w] \in {"idle", "create", "moving"}
  BY DEF TypeOK, Request

LEMMA FreeType == Free \in Request
  BY TransferAssumption DEF Free, Request, Nothing

(* A worker that ends its request keeps the types of what it owns. *)
LEMMA EndType ==
  ASSUME TypeOK, NEW w \in Worker, End(w)
  PROVE  /\ lock' \in [Row -> Worker \cup {Nobody}]
         /\ pc' \in [Worker -> {"idle", "create", "moving"}]
         /\ want' \in [Worker -> Item \cup {NoRow}]
         /\ txn' \in [Worker -> Request]
         /\ seen' \in [Worker -> [Item -> Int]]
  BY FreeType DEF End, TypeOK, Nothing

(* The next number is a number. *)
LEMMA CountType == ASSUME TypeOK PROVE Cardinality(Existing) + 1 \in Nat
<1>1. IsFiniteSet(Existing)
  BY TransferAssumption, FS_Subset DEF Existing
<1> QED
  BY <1>1, FS_CardinalityType

(* What a shipment or a receipt is started with. *)
LEMMA MoveType ==
  ASSUME TypeOK, NEW w \in Worker, NEW k \in {"ship", "receive"}, NEW t \in Transfer,
         NEW l \in [Item -> Int], BeginMove(w, k, t, l)
  PROVE  TypeOK'
<1>1. [kind |-> k, transfer |-> t, lines |-> l, number |-> 0] \in Request
  BY DEF Request
<1> QED
  BY <1>1 DEF BeginMove, TypeOK, rows, Row

LEMMA CountsType ==
  ASSUME NEW l \in [Item -> Int], NEW c \in Counts(l)
  PROVE  /\ c \in [Item -> Int]
         /\ \A i \in Item : c[i] = l[i] \/ (l[i] > 0 /\ c[i] \in Reported)
<1>a. Reported \subseteq Int /\ \A i \in Item : l[i] \in Int
  BY TransferAssumption
<1>1. Reported \cup {l[i] : i \in Item} \subseteq Int
  BY <1>a
<1> QED
  BY <1>1 DEF Counts

(* The type invariant is inductive by itself. *)
LEMMA TypeStep == ASSUME TypeOK, [Next]_vars PROVE TypeOK'
<1>1. ASSUME NEW w \in Worker, NEW t \in Transfer, NEW l \in Lines, BeginCreate(w, t, l)
      PROVE  TypeOK'
  <2>1. [kind |-> "create", transfer |-> t, lines |-> l,
         number |-> Cardinality(Existing) + 1] \in Request
    BY TransferAssumption, CountType DEF Request
  <2> QED
    BY <1>1, <2>1 DEF BeginCreate, TypeOK, rows
<1>2. ASSUME NEW t \in Transfer, ApproveTransfer(t) \/ RejectTransfer(t) \/ CancelTransfer(t)
      PROVE  TypeOK'
  BY <1>2 DEF ApproveTransfer, RejectTransfer, CancelTransfer, Decide, TypeOK, Status
<1>3. ASSUME NEW w \in Worker, NEW t \in Transfer, Ship(w, t) PROVE TypeOK'
  <2>1. lines[t] \in [Item -> Int]
    BY DEF TypeOK
  <2> QED
    BY <1>3, <2>1, MoveType DEF Ship
<1>4. ASSUME NEW w \in Worker, NEW t \in Transfer, Receive(w, t) PROVE TypeOK'
  <2>1. PICK c \in Counts(lines[t]) : BeginMove(w, "receive", t, c)
    BY <1>4 DEF Receive
  <2>2. lines[t] \in [Item -> Int]
    BY DEF TypeOK
  <2> QED
    BY <2>1, <2>2, CountsType, MoveType
<1>5. ASSUME NEW w \in Worker, CommitCreate(w) PROVE TypeOK'
  <2>0. pc[w] = "create"
    BY <1>5 DEF CommitCreate
  <2> QED
    BY <1>5, EndType, RequestType DEF CommitCreate, TypeOK, Status
<1>6. ASSUME NEW w \in Worker, NEW i \in Item, ReadItem(w, i) PROVE TypeOK'
  BY <1>6 DEF ReadItem, TypeOK, rows
<1>7. ASSUME NEW w \in Worker, WriteItem(w) PROVE TypeOK'
  BY <1>7 DEF WriteItem, TypeOK, rows
<1>8. ASSUME NEW w \in Worker, CommitMove(w) PROVE TypeOK'
  <2>1. quantity' \in [Item -> Int]
    BY <1>8, RequestType DEF CommitMove, Moved, TypeOK
  <2>2. status' \in [Transfer -> Status] /\ counted' \in [Transfer -> [Item -> Int]]
    BY <1>8, RequestType DEF CommitMove, To, Status, TypeOK
  <2> QED
    BY <1>8, <2>1, <2>2, EndType DEF CommitMove, TypeOK
<1>9. ASSUME NEW w \in Worker,
             \/ RefuseForNumber(w) \/ DeadlockVictim(w) \/ Abort(w)
             \/ \E i \in Item : RefuseForStock(w, i)
      PROVE  TypeOK'
  BY <1>9, EndType DEF RefuseForNumber, RefuseForStock, DeadlockVictim, Abort, rows, TypeOK
<1>10. ASSUME NEW i \in Item, Sell(i) PROVE TypeOK'
  BY <1>10 DEF Sell, TypeOK
<1>11. CASE UNCHANGED vars
  BY <1>11 DEF vars, TypeOK
<1> QED
  BY <1>1, <1>2, <1>3, <1>4, <1>5, <1>6, <1>7, <1>8, <1>9, <1>10, <1>11 DEF Next, Step

(* Every reachable state has the types the schema and the views give. *)
THEOREM TypeCorrect == Spec => []TypeOK
<1>1. Init => TypeOK
  BY TransferAssumption, FreeType DEF Init, TypeOK, Status, Nothing
<1> QED
  BY <1>1, TypeStep, PTL DEF Spec
-----------------------------------------------------------------------------
(* Ending a request keeps the invariant if what it wrote leaves alone the
   transfers others work on and the quiet items others have touched. *)
LEMMA EndKeeps ==
  ASSUME TypeOK, TypeOK', MoveInvariant, NEW w \in Worker, End(w), LinesNonNegative',
         \A v \in Worker \ {w} :
            /\ pc[v] # "idle" => status'[txn[v].transfer] = status[txn[v].transfer]
            /\ pc[v] = "moving" => lines'[txn[v].transfer] = lines[txn[v].transfer]
            /\ \A i \in Quiet : Touched(v, i) => quantity'[i] = quantity[i]
  PROVE  MoveInvariant'
<1>0. /\ \A r \in Row : lock'[r] = IF lock[r] = w THEN Nobody ELSE lock[r]
      /\ pc'[w] = "idle" /\ want'[w] = NoRow
      /\ \A v \in Worker \ {w} : /\ pc'[v] = pc[v] /\ want'[v] = want[v]
                                 /\ txn'[v] = txn[v] /\ seen'[v] = seen[v]
  BY DEF End, TypeOK
<1>1. \A r \in Row : /\ lock'[r] # w
                     /\ \A v \in Worker \ {w} : lock'[r] = v <=> lock[r] = v
  BY <1>0, TransferAssumption
<1>2. \A v \in Worker \ {w} : /\ Held(v)' = Held(v)
                             /\ \A i \in Item : Touched(v, i)' <=> Touched(v, i)
  BY <1>0, <1>1 DEF Held, Touched, Row
<1>3. \A v \in Worker \ {w} : pc[v] = "moving" => Lined(v)' = Lined(v)
  BY <1>0 DEF Lined
<1>4. Held(w)' = {} /\ \A i \in Item : ~Touched(w, i)'
  BY <1>0, <1>1, TransferAssumption DEF Held, Touched, Row
<1>5. HoldsTransfer'
  BY <1>0, <1>1, RequestType DEF HoldsTransfer, MoveInvariant, Row
<1>6. Requests'
  BY <1>0 DEF Requests, MoveInvariant
<1>7. LocksHeld'
  <2> SUFFICES ASSUME NEW v \in Worker
               PROVE  /\ pc'[v] # "moving" => want'[v] = NoRow /\ \A r \in Row : lock'[r] # v
                      /\ want'[v] # NoRow => want'[v] \in Lined(v)'
                      /\ Held(v)' \subseteq Lined(v)'
    BY DEF LocksHeld
  <2>1. CASE v = w
    BY <2>1, <1>0, <1>1, <1>4
  <2>2. CASE v # w /\ pc[v] = "moving"
    BY <2>2, <1>0, <1>2, <1>3 DEF MoveInvariant, LocksHeld
  <2>3. CASE v # w /\ pc[v] # "moving"
    <3>1. Held(v) = {}
      BY <2>3 DEF MoveInvariant, LocksHeld, Held, Row
    <3> QED
      BY <2>3, <3>1, <1>0, <1>1, <1>2 DEF MoveInvariant, LocksHeld
  <2> QED
    BY <2>1, <2>2, <2>3
<1>8. MovesItsLines'
  BY <1>0 DEF MovesItsLines, MoveInvariant
<1>9. EnoughRead'
  BY <1>0, <1>2, <1>4 DEF EnoughRead, MoveInvariant
<1>10. CurrentCopies'
  <2>1. ASSUME NEW v \in Worker, NEW i \in Quiet, Touched(v, i)'
        PROVE  seen'[v][i] = quantity'[i]
    <3>1. v # w /\ i \in Item
      BY <2>1, <1>4, TransferAssumption
    <3>2. Touched(v, i)
      BY <2>1, <3>1, <1>2
    <3> QED
      BY <3>1, <3>2, <1>0 DEF CurrentCopies, MoveInvariant
  <2>2. ASSUME NEW v \in Worker, NEW i \in Quiet, pc'[v] = "moving", i \in Lined(v)',
               NEW u \in Worker \ {v}, pc'[u] = "moving"
        PROVE  i \notin Lined(u)'
    <3>1. u # w /\ v # w
      BY <2>2, <1>0
    <3> QED
      BY <2>2, <3>1, <1>0, <1>3 DEF CurrentCopies, MoveInvariant
  <2> QED
    BY <2>1, <2>2 DEF CurrentCopies
<1> QED
  BY <1>5, <1>6, <1>7, <1>8, <1>9, <1>10 DEF MoveInvariant
(* Two requests at work on the same transfer's goods cannot be. *)
LEMMA OwnTransfer ==
  ASSUME TypeOK, MoveInvariant, NEW v \in Worker, NEW w \in Worker \ {v},
         pc[v] = "moving", pc[w] = "moving"
  PROVE  txn[v].transfer # txn[w].transfer
  BY DEF MoveInvariant, HoldsTransfer

(* Starting to ship or receive: the transfer is free and so are its quiet items. *)
LEMMA BeginKeeps ==
  ASSUME TypeOK, TypeOK', MoveInvariant, NEW w \in Worker, NEW k \in {"ship", "receive"},
         NEW t \in Transfer, NEW l \in [Item -> Int], BeginMove(w, k, t, l),
         k = "ship" => l = lines[t],
         \A i \in Item : lines[t][i] = 0 => l[i] = 0
  PROVE  MoveInvariant'
<1>0. /\ pc[w] = "idle" /\ pc'[w] = "moving" /\ lock[t] = Nobody /\ status[t] = From(k)
      /\ txn'[w].kind = k /\ txn'[w].transfer = t /\ txn'[w].lines = l
      /\ \A r \in Row : lock'[r] = IF r = t THEN w ELSE lock[r]
      /\ \A v \in Worker \ {w} : pc'[v] = pc[v] /\ txn'[v] = txn[v]
      /\ UNCHANGED <<quantity, status, lines, want, seen>>
      /\ \A i \in Quiet : lines[t][i] > 0 => ~Busy(i)
  BY DEF BeginMove, TypeOK, rows, Row
<1>1. want[w] = NoRow /\ \A r \in Row : lock[r] # w
  BY <1>0 DEF MoveInvariant, LocksHeld
<1>2. \A v \in Worker : /\ Held(v)' = Held(v)
                       /\ \A i \in Item : Touched(v, i)' <=> Touched(v, i)
  BY <1>0, TransferAssumption DEF Held, Touched, Row
<1>3. \A v \in Worker \ {w} : Lined(v)' = Lined(v)
  BY <1>0 DEF Lined
<1>4. Held(w) = {} /\ \A i \in Item : ~Touched(w, i)
  BY <1>1, TransferAssumption DEF Held, Touched, Row
<1>5. HoldsTransfer'
  BY <1>0, RequestType, TransferAssumption DEF HoldsTransfer, MoveInvariant, Row
<1>6. Requests' /\ MovesItsLines'
  BY <1>0 DEF Requests, MovesItsLines, MoveInvariant
<1>7. LocksHeld'
  <2> SUFFICES ASSUME NEW v \in Worker
               PROVE  /\ pc'[v] # "moving" => want'[v] = NoRow /\ \A r \in Row : lock'[r] # v
                      /\ want'[v] # NoRow => want'[v] \in Lined(v)'
                      /\ Held(v)' \subseteq Lined(v)'
    BY DEF LocksHeld
  <2>1. CASE v = w
    BY <2>1, <1>0, <1>1, <1>2, <1>4
  <2>2. CASE v # w
    BY <2>2, <1>0, <1>2, <1>3 DEF MoveInvariant, LocksHeld
  <2> QED
    BY <2>1, <2>2
<1>8. EnoughRead'
  BY <1>0, <1>2, <1>4 DEF EnoughRead, MoveInvariant
<1>9. CurrentCopies'
  <2>1. ASSUME NEW v \in Worker, NEW i \in Quiet, Touched(v, i)'
        PROVE  seen'[v][i] = quantity'[i]
    <3>1. Touched(v, i)
      BY <2>1, <1>2, TransferAssumption
    <3> QED
      BY <3>1, <1>0 DEF CurrentCopies, MoveInvariant
  <2>2. ASSUME NEW v \in Worker, NEW i \in Quiet, pc'[v] = "moving", i \in Lined(v)',
               NEW u \in Worker \ {v}, pc'[u] = "moving"
        PROVE  i \notin Lined(u)'
    <3>0. i \in Item
      BY TransferAssumption
    <3>1. CASE v = w
      <4>1. ~Busy(i)
        BY <2>2, <3>0, <3>1, <1>0 DEF Lined
      <4> QED
        BY <4>1, <3>1, <2>2, <1>0, <1>3 DEF Busy
    <3>2. CASE u = w
      <4>1. i \in Lined(v) /\ pc[v] = "moving"
        BY <2>2, <3>2, <1>0, <1>3
      <4>2. Busy(i)
        BY <4>1 DEF Busy
      <4> QED
        BY <4>2, <3>0, <3>2, <1>0 DEF Lined, TypeOK
    <3>3. CASE v # w /\ u # w
      BY <2>2, <3>3, <1>0, <1>3 DEF CurrentCopies, MoveInvariant
    <3> QED
      BY <3>1, <3>2, <3>3
  <2> QED
    BY <2>1, <2>2 DEF CurrentCopies
<1> QED
  BY <1>0, <1>5, <1>6, <1>7, <1>8, <1>9 DEF MoveInvariant, LinesNonNegative
(* The last write of a move finds every line's item locked by its own request, so
   the quiet items others have touched are not among them. *)
LEMMA MoveLeavesOthers ==
  ASSUME TypeOK, MoveInvariant, NEW w \in Worker, CommitMove(w),
         NEW v \in Worker \ {w}, NEW i \in Quiet, Touched(v, i)
  PROVE  quantity'[i] = quantity[i]
<1>0. i \in Item
  BY TransferAssumption
<1>1. i \in Lined(v) /\ pc[v] = "moving"
  BY <1>0, TransferAssumption DEF MoveInvariant, LocksHeld, Touched, Held, Row
<1>2. pc[w] = "moving"
  BY DEF CommitMove, AllWritten
<1>3. i \notin Lined(w)
  BY <1>1, <1>2 DEF MoveInvariant, CurrentCopies
<1> QED
  BY <1>0, <1>3 DEF CommitMove

LEMMA MoveStep == ASSUME TypeOK, TypeOK', MoveInvariant, [Next]_vars PROVE MoveInvariant'
<1>1. ASSUME NEW w \in Worker, NEW t \in Transfer, NEW l \in Lines, BeginCreate(w, t, l)
      PROVE  MoveInvariant'
  <2>1. /\ pc[w] = "idle" /\ pc'[w] = "create" /\ txn'[w].transfer = t /\ status[t] = "none"
        /\ \A v \in Worker : ~(pc[v] = "create" /\ txn[v].transfer = t)
        /\ \A v \in Worker \ {w} : pc'[v] = pc[v] /\ txn'[v] = txn[v]
        /\ txn'[w].lines \in Lines
        /\ UNCHANGED <<quantity, status, lines, lock, want, seen>>
    BY <1>1 DEF BeginCreate, TypeOK, rows
  <2>2. /\ want[w] = NoRow /\ \A r \in Row : lock[r] # w
        /\ Held(w) = {} /\ \A i \in Item : ~Touched(w, i)
    BY <2>1, TransferAssumption DEF MoveInvariant, LocksHeld, Held, Touched, Row
  <2>3. \A v \in Worker : /\ Held(v)' = Held(v)
                         /\ \A i \in Item : Touched(v, i)' <=> Touched(v, i)
    BY <2>1 DEF Held, Touched
  <2>4. \A v \in Worker \ {w} : Lined(v)' = Lined(v)
    BY <2>1 DEF Lined
  <2>5. HoldsTransfer' /\ Requests' /\ MovesItsLines'
    BY <2>1 DEF HoldsTransfer, Requests, MovesItsLines, MoveInvariant
  <2>6. LocksHeld'
    BY <2>1, <2>2, <2>3, <2>4 DEF LocksHeld, MoveInvariant
  <2>7. EnoughRead'
    BY <2>1, <2>2, <2>3 DEF EnoughRead, MoveInvariant
  <2>8. CurrentCopies'
    BY <2>1, <2>2, <2>3, <2>4, TransferAssumption DEF CurrentCopies, MoveInvariant
  <2> QED
    BY <2>1, <2>5, <2>6, <2>7, <2>8 DEF MoveInvariant, LinesNonNegative
<1>2. ASSUME NEW t \in Transfer, ApproveTransfer(t) \/ RejectTransfer(t) \/ CancelTransfer(t)
      PROVE  MoveInvariant'
  <2>1. /\ lock[t] = Nobody /\ status[t] # "none"
        /\ \A u \in Transfer \ {t} : status'[u] = status[u]
        /\ UNCHANGED <<quantity, lines, lock, pc, want, txn, seen>>
    BY <1>2 DEF ApproveTransfer, RejectTransfer, CancelTransfer, Decide, TypeOK
  <2>2. \A w \in Worker : pc[w] = "moving" => txn[w].transfer # t
    BY <2>1, TransferAssumption DEF MoveInvariant, HoldsTransfer
  <2>3. HoldsTransfer' /\ Requests'
    BY <2>1, <2>2, RequestType DEF HoldsTransfer, Requests, MoveInvariant
  <2> QED
    BY <2>1, <2>3 DEF MoveInvariant, LinesNonNegative, LocksHeld, MovesItsLines, EnoughRead, CurrentCopies,
                      Touched, Held, Lined
<1>3. ASSUME NEW w \in Worker, NEW t \in Transfer, Ship(w, t) PROVE MoveInvariant'
  <2>1. lines[t] \in [Item -> Int]
    BY DEF TypeOK
  <2> QED
    BY <1>3, <2>1, BeginKeeps DEF Ship
<1>4. ASSUME NEW w \in Worker, NEW t \in Transfer, Receive(w, t) PROVE MoveInvariant'
  <2>1. PICK c \in Counts(lines[t]) : BeginMove(w, "receive", t, c)
    BY <1>4 DEF Receive
  <2>2. lines[t] \in [Item -> Int]
    BY DEF TypeOK
  <2>3. c \in [Item -> Int] /\ \A i \in Item : lines[t][i] = 0 => c[i] = 0
    BY <2>2, CountsType
  <2> QED
    BY <2>1, <2>3, BeginKeeps
<1>5. ASSUME NEW w \in Worker, CommitCreate(w) PROVE MoveInvariant'
  <2>1. /\ pc[w] = "create" /\ status[txn[w].transfer] = "none" /\ quantity' = quantity
        /\ \A u \in Transfer \ {txn[w].transfer} : status'[u] = status[u] /\ lines'[u] = lines[u]
    BY <1>5, RequestType DEF CommitCreate, MoveInvariant, Requests, TypeOK
  <2>2. ASSUME NEW v \in Worker \ {w}, pc[v] # "idle"
        PROVE  txn[v].transfer # txn[w].transfer
    <3>1. CASE pc[v] = "create"
      BY <2>1, <3>1 DEF MoveInvariant, Requests
    <3>2. CASE pc[v] = "moving"
      BY <2>1, <3>2 DEF MoveInvariant, HoldsTransfer, From
    <3> QED
      BY <2>2, <3>1, <3>2, RequestType
  <2>3. txn[w].lines \in Lines /\ lines' = [lines EXCEPT ![txn[w].transfer] = txn[w].lines]
    BY <1>5, <2>1 DEF CommitCreate, MoveInvariant, Requests
  <2>4. \A i \in Item : txn[w].lines[i] >= 0
    BY <2>3, TransferAssumption
  <2>5. LinesNonNegative'
    BY <2>3, <2>4, RequestType DEF LinesNonNegative, MoveInvariant, TypeOK
  <2> QED
    BY <1>5, <2>1, <2>2, <2>5, RequestType, EndKeeps DEF CommitCreate
<1>6. ASSUME NEW w \in Worker, NEW i \in Item, ReadItem(w, i) PROVE MoveInvariant'
  <2>1. /\ pc[w] = "moving" /\ want[w] = NoRow /\ want'[w] = i /\ i \in Lined(w) \ Held(w)
        /\ txn[w].kind = "ship" => txn[w].lines[i] <= quantity[i]
        /\ \A v \in Worker \ {w} : want'[v] = want[v] /\ seen'[v] = seen[v]
        /\ \A j \in Item : seen'[w][j] = IF j = i THEN quantity[i] ELSE seen[w][j]
        /\ UNCHANGED <<quantity, status, lines, lock, pc, txn>>
    BY <1>6 DEF ReadItem, Read, Enough, TypeOK, rows
  <2>2. \A j \in Item : Touched(w, j)' => j = i \/ Touched(w, j)
    BY <2>1 DEF Touched
  <2>3. \A v \in Worker \ {w}, j \in Item : Touched(v, j)' <=> Touched(v, j)
    BY <2>1 DEF Touched
  <2>4. HoldsTransfer' /\ Requests' /\ MovesItsLines'
    BY <2>1 DEF HoldsTransfer, Requests, MovesItsLines, MoveInvariant
  <2>5. LocksHeld'
    BY <2>1 DEF LocksHeld, MoveInvariant, Held, Lined
  <2>6. EnoughRead'
    BY <2>1, <2>2, <2>3 DEF EnoughRead, MoveInvariant
  <2>7. CurrentCopies'
    BY <2>1, <2>2, <2>3, TransferAssumption DEF CurrentCopies, MoveInvariant, Lined
  <2> QED
    BY <2>1, <2>4, <2>5, <2>6, <2>7 DEF MoveInvariant, LinesNonNegative
<1>7. ASSUME NEW w \in Worker, WriteItem(w) PROVE MoveInvariant'
  <2>1. /\ want[w] \in Item /\ want[w] \in Lined(w) /\ pc[w] = "moving" /\ want'[w] = NoRow
        /\ \A v \in Worker \ {w} : want'[v] = want[v]
        /\ \A r \in Row : lock'[r] = IF r = want[w] THEN w ELSE lock[r]
        /\ lock[want[w]] = Nobody
        /\ UNCHANGED <<quantity, status, lines, pc, txn, seen>>
    BY <1>7, RequestType DEF WriteItem, TypeOK, rows, MoveInvariant, LocksHeld
  <2>2. \A j \in Item : Touched(w, j)' => Touched(w, j)
    BY <2>1, TransferAssumption DEF Touched, Row
  <2>3. \A v \in Worker \ {w}, j \in Item : Touched(v, j)' => Touched(v, j)
    BY <2>1 DEF Touched, Row
  <2>4. HoldsTransfer'
    BY <2>1, RequestType, TransferAssumption DEF HoldsTransfer, MoveInvariant, Row
  <2>5. Requests' /\ MovesItsLines'
    BY <2>1 DEF Requests, MovesItsLines, MoveInvariant
  <2>6. LocksHeld'
    BY <2>1, TransferAssumption DEF LocksHeld, MoveInvariant, Held, Lined, Row
  <2>7. EnoughRead'
    BY <2>1, <2>2, <2>3 DEF EnoughRead, MoveInvariant
  <2>8. CurrentCopies'
    BY <2>1, <2>2, <2>3, TransferAssumption DEF CurrentCopies, MoveInvariant, Lined
  <2> QED
    BY <2>1, <2>4, <2>5, <2>6, <2>7, <2>8 DEF MoveInvariant, LinesNonNegative
<1>8. ASSUME NEW w \in Worker, CommitMove(w) PROVE MoveInvariant'
  <2>1. /\ pc[w] = "moving" /\ lines' = lines /\ status[txn[w].transfer] # "none"
        /\ \A u \in Transfer \ {txn[w].transfer} : status'[u] = status[u]
    BY <1>8, RequestType DEF CommitMove, AllWritten, TypeOK, MoveInvariant, HoldsTransfer, From
  <2>2. ASSUME NEW v \in Worker \ {w}, pc[v] # "idle"
        PROVE  txn[v].transfer # txn[w].transfer
    <3>1. CASE pc[v] = "create"
      BY <2>1, <3>1 DEF MoveInvariant, Requests
    <3>2. CASE pc[v] = "moving"
      BY <2>1, <3>2, OwnTransfer
    <3> QED
      BY <2>2, <3>1, <3>2, RequestType
  <2>3. LinesNonNegative'
    BY <2>1 DEF LinesNonNegative, MoveInvariant
  <2> QED
    BY <1>8, <2>1, <2>2, <2>3, RequestType, MoveLeavesOthers, EndKeeps DEF CommitMove
<1>9. ASSUME NEW w \in Worker,
             \/ RefuseForNumber(w) \/ DeadlockVictim(w) \/ Abort(w)
             \/ \E i \in Item : RefuseForStock(w, i)
      PROVE  MoveInvariant'
  <2>1. End(w) /\ UNCHANGED rows
    BY <1>9 DEF RefuseForNumber, RefuseForStock, DeadlockVictim, Abort
  <2>2. LinesNonNegative'
    BY <2>1 DEF rows, LinesNonNegative, MoveInvariant
  <2> QED
    BY <2>1, <2>2, EndKeeps DEF rows
<1>10. ASSUME NEW i \in Item, Sell(i) PROVE MoveInvariant'
  <2>1. /\ i \in Quiet => ~Busy(i)
        /\ \A j \in Item \ {i} : quantity'[j] = quantity[j]
        /\ UNCHANGED <<status, lines, lock, pc, want, txn, seen>>
    BY <1>10 DEF Sell, TypeOK
  <2>2. ASSUME NEW w \in Worker, i \in Quiet PROVE ~Touched(w, i)
    BY <2>1, <2>2, TransferAssumption
       DEF MoveInvariant, LocksHeld, Touched, Held, Busy, Row
  <2>3. CurrentCopies'
    BY <2>1, <2>2, TransferAssumption DEF MoveInvariant, CurrentCopies, Touched, Lined
  <2> QED
    BY <2>1, <2>3 DEF MoveInvariant, LinesNonNegative, HoldsTransfer, Requests, LocksHeld, MovesItsLines,
                      EnoughRead, Touched, Held, Lined
<1>11. CASE UNCHANGED vars
  BY <1>11 DEF vars, MoveInvariant, LinesNonNegative, HoldsTransfer, Requests, LocksHeld, MovesItsLines,
               EnoughRead, CurrentCopies, Touched, Held, Lined
<1> QED
  BY <1>1, <1>2, <1>3, <1>4, <1>5, <1>6, <1>7, <1>8, <1>9, <1>10, <1>11 DEF Next, Step
(* The invariant of the locks and copies, under every interleaving. *)
THEOREM MoveCorrect == Spec => []MoveInvariant
<1>1. Init => MoveInvariant
  BY TransferAssumption DEF Init, MoveInvariant, LinesNonNegative, HoldsTransfer, Requests,
     LocksHeld, MovesItsLines, EnoughRead, CurrentCopies, Touched, Held, Lined, Nothing, Row
<1> QED
  BY <1>1, TypeCorrect, MoveStep, PTL DEF Spec
-----------------------------------------------------------------------------
NonNegatives == CountedOnReceipt /\ NonNegative /\ CopiesNonNegative

(* A receipt counts lines that were not counted before: a miscount is never undone. *)
LEMMA MiscountedStays ==
  ASSUME TypeOK, TypeOK', MoveInvariant, CountedOnReceipt, [Next]_vars
  PROVE  /\ CountedOnReceipt'
         /\ \A i \in Item : Miscounted(i) => Miscounted(i)'
<1>1. ASSUME NEW w \in Worker, CommitMove(w)
      PROVE  /\ CountedOnReceipt'
             /\ \A i \in Item : Miscounted(i) => Miscounted(i)'
  <2> DEFINE u == txn[w].transfer
  <2>1. /\ u \in Transfer
        /\ status[u] = From(txn[w].kind) /\ txn[w].kind \in {"ship", "receive"}
    BY <1>1, RequestType DEF CommitMove, AllWritten, MoveInvariant, HoldsTransfer, TypeOK
  <2>2. /\ \A t \in Transfer : t # u => status'[t] = status[t] /\ counted'[t] = counted[t]
        /\ status'[u] = To(txn[w].kind)
        /\ txn[w].kind # "receive" => counted' = counted
    BY <1>1, <2>1 DEF CommitMove, TypeOK
  <2>3. counted[u] = Nothing
    BY <2>1 DEF CountedOnReceipt, From
  <2>4. CountedOnReceipt'
    BY <2>1, <2>2, <2>3 DEF CountedOnReceipt, To
  <2>5. \A t \in Transfer, i \in Item : counted[t][i] < 0 => t # u
    BY <2>3 DEF Nothing
  <2> QED
    BY <2>2, <2>4, <2>5 DEF Miscounted
<1>2. ASSUME NEW w \in Worker, CommitCreate(w)
      PROVE  \A t \in Transfer : status'[t] # "received" => status[t] # "received"
  BY <1>2, RequestType DEF CommitCreate, TypeOK, MoveInvariant, Requests
<1>3. ASSUME NEW t \in Transfer, ApproveTransfer(t) \/ RejectTransfer(t) \/ CancelTransfer(t)
      PROVE  \A u \in Transfer : status'[u] # "received" => status[u] # "received"
  BY <1>3 DEF ApproveTransfer, RejectTransfer, CancelTransfer, Decide, TypeOK
<1>4. ASSUME ~ \E w \in Worker : CommitMove(w)
      PROVE  UNCHANGED counted /\ \A t \in Transfer : status'[t] # "received" => status[t] # "received"
  <2>1. CASE \E w \in Worker : CommitCreate(w)
    BY <1>2, <2>1 DEF CommitCreate
  <2>2. CASE \E t \in Transfer : ApproveTransfer(t) \/ RejectTransfer(t) \/ CancelTransfer(t)
    BY <1>3, <2>2 DEF ApproveTransfer, RejectTransfer, CancelTransfer, Decide
  <2>3. CASE UNCHANGED <<status, counted>>
    BY <2>3
  <2> QED
    BY <1>4, <2>1, <2>2, <2>3
       DEF Next, Step, BeginCreate, Ship, Receive, BeginMove, RefuseForNumber, ReadItem,
           RefuseForStock, WriteItem, DeadlockVictim, Abort, Sell, rows, vars
<1>5. CASE ~ \E w \in Worker : CommitMove(w)
  BY <1>4, <1>5 DEF CountedOnReceipt, Miscounted
<1> QED
  BY <1>1, <1>5

(* A deduction leaves what was read of the item less no more than that; a receipt leaves
   less than nothing only if it was reported so. *)
LEMMA StockStep ==
  ASSUME TypeOK, TypeOK', MoveInvariant, NonNegatives, [Next]_vars
  PROVE  NonNegatives'
<1>0. CountedOnReceipt' /\ \A i \in Item : Miscounted(i) => Miscounted(i)'
  BY MiscountedStays DEF NonNegatives
<1>1. ASSUME UNCHANGED <<quantity, seen>> PROVE NonNegatives'
  BY <1>0, <1>1 DEF NonNegatives, NonNegative, CopiesNonNegative
<1>2. ASSUME NEW w \in Worker, End(w),
             \A i \in Item : quantity'[i] >= 0 \/ Miscounted(i)'
      PROVE  NonNegatives'
  BY <1>0, <1>2 DEF End, Nothing, TypeOK, NonNegatives, NonNegative, CopiesNonNegative
<1>3. ASSUME NEW w \in Worker, CommitMove(w) PROVE NonNegatives'
  <2>1. ASSUME NEW i \in Item PROVE quantity'[i] >= 0 \/ Miscounted(i)'
    <3>1. /\ quantity'[i] = IF i \in Lined(w) THEN Moved(w, i) ELSE quantity[i]
          /\ i \in Lined(w) => lock[i] = w
          /\ txn[w].kind \in {"ship", "receive"} /\ txn[w].transfer \in Transfer
      BY <1>3, RequestType DEF CommitMove, AllWritten, Held, MoveInvariant, HoldsTransfer, TypeOK
    <3>2. (i \in Lined(w) /\ txn[w].kind = "ship") => txn[w].lines[i] <= seen[w][i]
      BY <3>1 DEF MoveInvariant, EnoughRead, Touched
    <3>3. seen[w][i] \in Int /\ txn[w].lines[i] \in Int /\ quantity[i] \in Int
      BY RequestType DEF TypeOK
    <3>4. ASSUME txn[w].kind = "receive", txn[w].lines[i] < 0 PROVE Miscounted(i)'
      <4>1. counted'[txn[w].transfer] = txn[w].lines
        BY <1>3, <3>1, <3>4 DEF CommitMove, TypeOK
      <4> QED
        BY <3>1, <3>4, <4>1 DEF Miscounted
    <3>5. /\ seen[w][i] >= 0 \/ Miscounted(i)'
          /\ quantity[i] >= 0 \/ Miscounted(i)'
      BY <1>0 DEF NonNegatives, NonNegative, CopiesNonNegative
    <3> QED
      BY <3>1, <3>2, <3>3, <3>4, <3>5 DEF Moved
  <2> QED
    BY <1>2, <1>3, <2>1 DEF CommitMove
<1>4. ASSUME NEW w \in Worker,
             \/ CommitCreate(w) \/ RefuseForNumber(w) \/ DeadlockVictim(w) \/ Abort(w)
             \/ \E i \in Item : RefuseForStock(w, i)
      PROVE  NonNegatives'
  <2>1. End(w) /\ UNCHANGED quantity
    BY <1>4 DEF CommitCreate, RefuseForNumber, RefuseForStock, DeadlockVictim, Abort, rows
  <2>2. \A i \in Item : quantity'[i] >= 0 \/ Miscounted(i)'
    BY <1>0, <2>1 DEF NonNegatives, NonNegative
  <2> QED
    BY <1>2, <2>1, <2>2
<1>5. ASSUME NEW w \in Worker, NEW i \in Item, ReadItem(w, i) PROVE NonNegatives'
  BY <1>0, <1>5 DEF ReadItem, rows, TypeOK, NonNegatives, NonNegative, CopiesNonNegative
<1>6. ASSUME NEW i \in Item, Sell(i) PROVE NonNegatives'
  BY <1>0, <1>6 DEF Sell, TypeOK, NonNegatives, NonNegative, CopiesNonNegative
<1> QED
  BY <1>1, <1>3, <1>4, <1>5, <1>6
     DEF Next, Step, BeginCreate, Ship, Receive, BeginMove, WriteItem, ApproveTransfer,
         RejectTransfer, CancelTransfer, Decide, rows, vars

(* Only a receipt reported with a negative count takes stock below zero, although every
   shipment deducts from a copy that others may have made stale (models.py:425). *)
THEOREM TransferStockCorrect == Spec => []StockInvariant
<1>1. Init => NonNegatives
  BY TransferAssumption
     DEF Init, NonNegatives, CountedOnReceipt, NonNegative, CopiesNonNegative, Nothing
<1>2. TypeOK /\ TypeOK' /\ MoveInvariant /\ NonNegatives /\ [Next]_vars => NonNegatives'
  BY StockStep
<1> QED
  BY <1>1, <1>2, TypeCorrect, MoveCorrect, PTL DEF Spec, StockInvariant, NonNegatives
-----------------------------------------------------------------------------
(* One step of the protocol is one step of the workflow. *)
LEMMA WorkflowStep ==
  ASSUME TypeOK, MoveInvariant, [Next]_vars, NEW t \in Transfer, status'[t] # status[t]
  PROVE  <<status[t], status'[t]>> \in Workflow
<1>1. ASSUME NEW u \in Transfer, ApproveTransfer(u) \/ RejectTransfer(u) \/ CancelTransfer(u)
      PROVE  <<status[t], status'[t]>> \in Workflow
  BY <1>1 DEF ApproveTransfer, RejectTransfer, CancelTransfer, Decide, TypeOK, Workflow
<1>2. ASSUME NEW w \in Worker, CommitCreate(w) PROVE <<status[t], status'[t]>> \in Workflow
  BY <1>2 DEF CommitCreate, MoveInvariant, Requests, TypeOK, Workflow
<1>3. ASSUME NEW w \in Worker, CommitMove(w) PROVE <<status[t], status'[t]>> \in Workflow
  <2>1. pc[w] = "moving" /\ status' = [status EXCEPT ![txn[w].transfer] = To(txn[w].kind)]
    BY <1>3 DEF CommitMove, AllWritten
  <2>2. status[txn[w].transfer] = From(txn[w].kind) /\ txn[w].kind \in {"ship", "receive"}
    BY <2>1 DEF MoveInvariant, HoldsTransfer
  <2>3. t = txn[w].transfer
    BY <2>1 DEF TypeOK
  <2> QED
    BY <2>1, <2>2, <2>3 DEF From, To, Workflow, TypeOK
<1>4. ASSUME UNCHANGED status PROVE FALSE
  BY <1>4
<1>5. ASSUME NEW w \in Worker, NEW u \in Transfer, NEW l, \E k \in {"ship", "receive"} : BeginMove(w, k, u, l)
      PROVE  UNCHANGED status
  BY <1>5 DEF BeginMove, rows
<1>6. ASSUME NEW w \in Worker,
             \/ RefuseForNumber(w) \/ WriteItem(w) \/ DeadlockVictim(w) \/ Abort(w)
             \/ \E i \in Item : ReadItem(w, i) \/ RefuseForStock(w, i)
             \/ \E u \in Transfer, l \in Lines : BeginCreate(w, u, l)
      PROVE  UNCHANGED status
  BY <1>6 DEF RefuseForNumber, WriteItem, DeadlockVictim, Abort, ReadItem, RefuseForStock,
              BeginCreate, rows
<1>7. CASE (\E i \in Item : Sell(i)) \/ UNCHANGED vars
  BY <1>4, <1>7 DEF Sell, vars
<1> QED
  BY <1>1, <1>2, <1>3, <1>4, <1>5, <1>6, <1>7 DEF Next, Step, Ship, Receive

(* A transfer's status follows the workflow under every interleaving of the requests
   about it: the lock on its row makes each check hold when the status is written. *)
THEOREM WorkflowFollowed == Spec => FollowsWorkflow
<1>1. TypeOK /\ MoveInvariant /\ [Next]_vars
      => [\A t \in Transfer : status'[t] # status[t] => <<status[t], status'[t]>> \in Workflow]_vars
  BY WorkflowStep
<1> QED
  BY <1>1, TypeCorrect, MoveCorrect, PTL DEF Spec, FollowsWorkflow
-----------------------------------------------------------------------------
(* A step that leaves the quiet stock, the lines, the counts and every place alone. *)
LEMMA Stutters ==
  ASSUME TypeOK, UNCHANGED <<lines, counted>>, Place' = Place,
         \A i \in Quiet : quantity'[i] = quantity[i]
  PROVE  UNCHANGED Transit!vars
  BY DEF Transit!vars, OnQuiet

(* The move is a shipment or a receipt of the whole transfer. *)
LEMMA MoveIsTransit ==
  ASSUME TypeOK, TypeOK', MoveInvariant, NEW w \in Worker, CommitMove(w),
         NEW t \in Transfer, t = txn[w].transfer
  PROVE  Transit!Next
<1>1. /\ pc[w] = "moving" /\ t \in Transfer /\ lines' = lines
      /\ txn[w].kind \in {"ship", "receive"} /\ status[t] = From(txn[w].kind)
      /\ status' = [status EXCEPT ![t] = To(txn[w].kind)]
      /\ counted' = IF txn[w].kind = "receive" THEN [counted EXCEPT ![t] = txn[w].lines]
                                                ELSE counted
  BY RequestType DEF CommitMove, AllWritten, MoveInvariant, HoldsTransfer
<1>2. ASSUME NEW i \in Quiet
      PROVE  quantity'[i] = IF txn[w].kind = "ship" THEN quantity[i] - lines[t][i]
                                                    ELSE quantity[i] + txn[w].lines[i]
  <2>0. /\ i \in Item /\ lines[t][i] \in Int /\ lines[t][i] >= 0 /\ quantity[i] \in Int
        /\ txn[w].lines[i] \in Int /\ seen[w][i] \in Int
    BY <1>1, TransferAssumption, RequestType DEF TypeOK, MoveInvariant, LinesNonNegative
  <2>1. txn[w].kind = "ship" => txn[w].lines = lines[t]
    BY <1>1 DEF MoveInvariant, MovesItsLines
  <2>2. CASE i \in Lined(w)
    <3>1. seen[w][i] = quantity[i]
      BY <2>0, <2>2 DEF CommitMove, AllWritten, Held, MoveInvariant, CurrentCopies, Touched
    <3> QED
      BY <2>0, <2>1, <2>2, <3>1 DEF CommitMove, Moved
  <2>3. CASE i \notin Lined(w)
    <3>1. lines[t][i] = 0
      BY <2>0, <2>3 DEF Lined
    <3>2. txn[w].lines[i] = 0
      BY <1>1, <2>0, <3>1 DEF MoveInvariant, MovesItsLines
    <3> QED
      BY <2>0, <2>3, <3>1, <3>2 DEF CommitMove
  <2> QED
    BY <2>2, <2>3
<1>3. CASE txn[w].kind = "ship"
  <2>1. Place[t] = "source" /\ Place' = [Place EXCEPT ![t] = "road"]
    BY <1>1, <1>3 DEF Place, From, To, TypeOK
  <2>2. UNCHANGED <<OnQuiet(lines), OnQuiet(counted)>>
    BY <1>1, <1>3 DEF OnQuiet
  <2>3. [i \in Quiet |-> quantity'[i]]
        = [i \in Quiet |-> [j \in Quiet |-> quantity[j]][i] - OnQuiet(lines)[t][i]]
    BY <1>1, <1>2, <1>3 DEF OnQuiet
  <2>4. Transit!Ship(t)
    BY <2>1, <2>2, <2>3 DEF Transit!Ship
  <2> QED
    BY <1>1, <2>4 DEF Transit!Next
<1>4. CASE txn[w].kind = "receive"
  <2>1. Place[t] = "road" /\ Place' = [Place EXCEPT ![t] = "arrived"]
    BY <1>1, <1>4 DEF Place, From, To, TypeOK
  <2>2. counted'[t] = txn[w].lines /\ \A u \in Transfer \ {t} : counted'[u] = counted[u]
    BY <1>1, <1>4 DEF TypeOK
  <2>3. OnQuiet(counted)' = [OnQuiet(counted) EXCEPT ![t] = OnQuiet(counted)'[t]]
    <3>1. /\ OnQuiet(counted)' = [u \in Transfer |-> [i \in Quiet |-> counted'[u][i]]]
          /\ OnQuiet(counted) = [u \in Transfer |-> [i \in Quiet |-> counted[u][i]]]
      BY DEF OnQuiet
    <3>2. ASSUME NEW u \in Transfer \ {t}
          PROVE  OnQuiet(counted)'[u] = OnQuiet(counted)[u]
      BY <2>2, <3>1
    <3> QED
      BY <3>1, <3>2
  <2>4. [i \in Quiet |-> quantity'[i]]
        = [i \in Quiet |-> [j \in Quiet |-> quantity[j]][i] + OnQuiet(counted)'[t][i]]
    BY <1>1, <1>2, <1>4, <2>2 DEF OnQuiet
  <2>5. OnQuiet(lines)' = OnQuiet(lines)
    BY <1>1 DEF OnQuiet
  <2>6. Transit!Receive(t)
    BY <2>1, <2>3, <2>4, <2>5 DEF Transit!Receive
  <2> QED
    BY <1>1, <2>6 DEF Transit!Next
<1> QED
  BY <1>1, <1>3, <1>4

LEMMA TransitStep ==
  ASSUME TypeOK, TypeOK', MoveInvariant, [Next]_vars
  PROVE  [Transit!Next]_(Transit!vars)
<1>1. ASSUME NEW t \in Transfer, ApproveTransfer(t) \/ RejectTransfer(t) \/ CancelTransfer(t)
      PROVE  UNCHANGED Transit!vars
  <2>1. Place' = Place /\ UNCHANGED <<quantity, lines, counted>>
    BY <1>1 DEF ApproveTransfer, RejectTransfer, CancelTransfer, Decide, Place, TypeOK
  <2> QED
    BY <2>1, Stutters
<1>2. ASSUME NEW w \in Worker, CommitCreate(w) PROVE Transit!Next
  <2> DEFINE t == txn[w].transfer
  <2>1. /\ t \in Transfer /\ status[t] = "none" /\ UNCHANGED <<quantity, counted>>
        /\ status' = [status EXCEPT ![t] = "pending"]
        /\ \A u \in Transfer \ {t} : lines'[u] = lines[u]
    BY <1>2, RequestType DEF CommitCreate, MoveInvariant, Requests, TypeOK
  <2>2. Place[t] = "source" /\ Place' = Place
    BY <2>1 DEF Place, TypeOK
  <2>3. OnQuiet(lines)' = [OnQuiet(lines) EXCEPT ![t] = OnQuiet(lines)'[t]]
    BY <2>1 DEF OnQuiet
  <2>4. Transit!Request(t)
    BY <2>1, <2>2, <2>3 DEF Transit!Request, OnQuiet
  <2> QED
    BY <2>1, <2>4 DEF Transit!Next
<1>3. ASSUME UNCHANGED rows PROVE UNCHANGED Transit!vars
  BY <1>3, Stutters DEF rows, Place
<1>4. ASSUME NEW i \in Item, Sell(i) PROVE [Transit!Next]_(Transit!vars)
  <2>1. /\ quantity' = [quantity EXCEPT ![i] = @ - 1] /\ quantity[i] > 0
        /\ UNCHANGED <<status, lines, counted>>
    BY <1>4 DEF Sell
  <2>2. Place' = Place
    BY <2>1 DEF Place
  <2>3. CASE i \in Quiet
    <3>1. [j \in Quiet |-> quantity'[j]]
          = [[j \in Quiet |-> quantity[j]] EXCEPT ![i] = @ - 1]
      BY <2>1, <2>3, TransferAssumption DEF TypeOK
    <3>2. Transit!Sell(i)
      BY <2>1, <2>2, <2>3, <3>1 DEF Transit!Sell, OnQuiet
    <3> QED
      BY <2>3, <3>2 DEF Transit!Next
  <2>4. CASE i \notin Quiet
    BY <2>1, <2>2, <2>4, Stutters, TransferAssumption DEF TypeOK
  <2> QED
    BY <2>3, <2>4
<1>5. ASSUME NEW w \in Worker,
             \/ RefuseForNumber(w) \/ WriteItem(w) \/ DeadlockVictim(w) \/ Abort(w)
             \/ \E i \in Item : ReadItem(w, i) \/ RefuseForStock(w, i)
             \/ \E u \in Transfer, l \in Lines : BeginCreate(w, u, l)
      PROVE  UNCHANGED rows
  BY <1>5 DEF RefuseForNumber, WriteItem, DeadlockVictim, Abort, ReadItem, RefuseForStock,
              BeginCreate
<1>6. ASSUME NEW w \in Worker, NEW t \in Transfer, Ship(w, t) \/ Receive(w, t)
      PROVE  UNCHANGED rows
  BY <1>6 DEF Ship, Receive, BeginMove
<1>7. CASE UNCHANGED vars
  BY <1>3, <1>7 DEF vars, rows
<1>8. ASSUME NEW w \in Worker, CommitMove(w) PROVE Transit!Next
  BY <1>8, RequestType, MoveIsTransit
<1> QED
  BY <1>1, <1>2, <1>3, <1>4, <1>5, <1>6, <1>7, <1>8 DEF Next, Step

LEMMA TransitInit == Init => Transit!Init
  BY TransferAssumption DEF Init, Transit!Init, Transit!Nothing, OnQuiet, Place, Nothing

(* Of the items nothing else moves while a transfer moves them, every shipment takes
   its lines out of stock once and every receipt puts in what was counted once. *)
THEOREM TransferImplementsTransit == Spec => ImplementsTransit
<1>1. TypeOK /\ TypeOK' /\ MoveInvariant /\ [Next]_vars => [Transit!Next]_(Transit!vars)
  BY TransitStep
<1> QED
  BY <1>1, TransitInit, TypeCorrect, MoveCorrect, PTL DEF Spec, ImplementsTransit, Transit!Spec
-----------------------------------------------------------------------------
(* Waiting for locks. *)
Waits(w) == want[w] # NoRow /\ lock[want[w]] # Nobody

(* Whenever requests are in hand, one of them waits for no lock, or stands where the
   database's deadlock detection ends it: no wait is for ever. *)
NobodyStuck == (\E w \in Worker : pc[w] # "idle") =>
                  \E w \in Worker : pc[w] # "idle" /\ (Waits(w) => Deadlocked(w))

(* What Answered needs of the locks, for any number of workers and items: only a
   request that moves goods holds a lock, so if all wait, all are deadlocked. *)
THEOREM NobodyStuckHolds == Spec => []NobodyStuck
<1>1. TypeOK /\ MoveInvariant => NobodyStuck
  <2> SUFFICES ASSUME TypeOK, MoveInvariant, NEW w \in Worker, pc[w] # "idle",
                      \A v \in Worker : pc[v] # "idle" => Waits(v)
               PROVE Deadlocked(w)
    BY DEF NobodyStuck
  <2> DEFINE S == {v \in Worker : pc[v] # "idle"}
  <2>1. ASSUME NEW v \in S
        PROVE WaitsWithin(v, S)
    <3>1. Waits(v) /\ want[v] \in Row
      BY DEF Waits, TypeOK, Row
    <3>2. lock[want[v]] \in Worker
      BY <3>1 DEF Waits, TypeOK
    <3>3. pc[lock[want[v]]] # "idle"
      BY <3>1, <3>2 DEF MoveInvariant, LocksHeld
    <3> QED
      BY <3>1, <3>2, <3>3 DEF Waits, WaitsWithin
  <2> QED
    BY <2>1 DEF Deadlocked
<1> QED
  BY <1>1, TypeCorrect, MoveCorrect, PTL
=============================================================================
