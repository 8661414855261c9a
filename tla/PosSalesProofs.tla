--------------------------- MODULE PosSalesProofs ---------------------------
(* Proofs, for every value of the constants, about PosSales. *)
EXTENDS PosSales, TLAPS

(* What the type invariant says of one worker's request. *)
LEMMA RequestType ==
  ASSUME TypeOK, NEW w \in Worker
  PROVE  /\ txn[w].kind \in Kind
         /\ txn[w].sale \in Sale
         /\ txn[w].status \in Status
         /\ txn[w].basket \in [Item -> Nat]
         /\ txn[w].number \in Nat
         /\ txn[w].delta \in Int
         /\ seen[w] \in [Item -> Int]
         /\ want[w] \in Row \cup {NoRow}
         /\ pc[w] \in PC
  BY DEF TypeOK, Txn

LEMMA IdleType == Idle \in Txn
  BY PosAssumption DEF Idle, Txn, Kind, Status, Empty

(* A worker that ends its request keeps the types of what it owns. *)
LEMMA EndType ==
  ASSUME TypeOK, NEW w \in Worker, End(w)
  PROVE  /\ lock' \in [Row -> Worker \cup {Nobody}]
         /\ pc' \in [Worker -> PC]
         /\ want' \in [Worker -> Row \cup {NoRow}]
         /\ txn' \in [Worker -> Txn]
         /\ seen' \in [Worker -> [Item -> Int]]
         /\ served' \in Nat
  BY IdleType DEF End, TypeOK, PC, Empty

(* So does a worker that starts one. *)
LEMMA StartType ==
  ASSUME TypeOK, NEW w \in Worker, NEW at \in PC, NEW r \in Txn, Start(w, at, r),
         want' \in [Worker -> Row \cup {NoRow}], seen' \in [Worker -> [Item -> Int]]
  PROVE  TypeOK'
<1>1. UNCHANGED <<quantity, status, basket, number, corrected, returned, levels, lock>>
  BY DEF Start, rows, past
<1>2. txn' \in [Worker -> Txn] /\ pc' \in [Worker -> PC] /\ served' \in Nat
  BY DEF Start, TypeOK
<1> QED
  BY <1>1, <1>2 DEF TypeOK

(* What a commit adds to the levels on record are integers too. *)
LEMMA RecordedType ==
  ASSUME TypeOK, quantity' \in [Item -> Int], Recorded
  PROVE  levels' \in [Item -> SUBSET Int]
  BY DEF Recorded, TypeOK

(* The type invariant is inductive by itself. *)
LEMMA TypeStep == ASSUME TypeOK, [Next]_vars PROVE TypeOK'
<1>1. ASSUME NEW w \in Worker, NEW s \in Sale, NEW t \in Terminal, NEW b \in Basket,
             NEW st \in StatusChoices, BeginCreate(w, s, t, b, st)
      PROVE  TypeOK'
  <2>1. [kind |-> "create", sale |-> s, status |-> st, basket |-> b, number |-> 0,
         delta |-> 0] \in Txn
    BY PosAssumption DEF Txn, Kind, Status, StatusChoices, Open
  <2>2. want' \in [Worker -> Row \cup {NoRow}] /\ seen' \in [Worker -> [Item -> Int]]
    BY <1>1 DEF BeginCreate, TypeOK, Row
  <2> QED
    BY <1>1, <2>1, <2>2, StartType DEF BeginCreate, PC
<1>2. ASSUME NEW w \in Worker, NEW s \in Sale, NEW k \in {"void", "refund"},
             BeginReversal(w, k, s)
      PROVE  TypeOK'
  <2>1. [kind |-> k, sale |-> s, status |-> status[s], basket |-> basket[s],
         number |-> number[s], delta |-> 0] \in Txn
    BY DEF Txn, Kind, TypeOK
  <2> QED
    BY <1>2, <2>1, StartType DEF BeginReversal, PC, TypeOK
<1>3. ASSUME NEW w \in Worker, NEW s \in Sale, BeginEdit(w, s) PROVE TypeOK'
  <2>1. [kind |-> "edit", sale |-> s, status |-> status[s], basket |-> basket[s],
         number |-> number[s], delta |-> 0] \in Txn
    BY DEF Txn, Kind, TypeOK
  <2> QED
    BY <1>3, <2>1, StartType DEF BeginEdit, PC, TypeOK
<1>4. ASSUME NEW s \in Sale, PutOnHold(s) PROVE TypeOK'
  BY <1>4 DEF PutOnHold, TypeOK, past, Status, StatusChoices, Open
<1>5. ASSUME NEW i \in Item, NEW how \in {"ADD", "DEDUCT", "SET"}, NEW n \in Amount,
             AdjustStock(i, how, n)
      PROVE  TypeOK'
  <2>a. Level \subseteq Int
    BY PosAssumption
  <2>b. Adjusted(how, n, quantity[i]) \in Level
    BY <1>5 DEF AdjustStock
  <2>0. Adjusted(how, n, quantity[i]) \in Int
    BY <2>a, <2>b
  <2>1. quantity' \in [Item -> Int]
    BY <1>5, <2>0 DEF AdjustStock, TypeOK
  <2>2. corrected' \in [Item -> Int]
    BY <1>5, <2>1 DEF AdjustStock, TypeOK
  <2> QED
    BY <1>5, <2>1, <2>2, RecordedType DEF AdjustStock, TypeOK
<1>6. ASSUME NEW w \in Worker, NEW i \in Item, NEW how \in {"ADD", "DEDUCT", "SET"},
             NEW n \in Amount, BeginItemSave(w, i, how, n)
      PROVE  TypeOK'
  <2> DEFINE d == Adjusted(how, n, quantity[i]) - quantity[i]
  <2>1. d \in Int
    BY <1>6, PosAssumption DEF BeginItemSave, TypeOK
  <2> HIDE DEF d
  <2>2. [Idle EXCEPT !.kind = "itemsave", !.delta = d] \in Txn
    BY <2>1, IdleType DEF Txn, Kind
  <2>3. want' \in [Worker -> Row \cup {NoRow}] /\ seen' \in [Worker -> [Item -> Int]]
    BY <1>6 DEF BeginItemSave, TypeOK, Row
  <2> QED
    BY <1>6, <2>2, <2>3, StartType DEF BeginItemSave, PC, d
<1>8. ASSUME NEW w \in Worker, LockTerminal(w) PROVE TypeOK'
  BY <1>8 DEF LockTerminal, TypeOK, rows, past, PC
<1>9. ASSUME NEW w \in Worker, GenerateSaleNumber(w) PROVE TypeOK'
  <2>1. PICK n \in {number[s] + 1 : s \in Sale} \cup {1} :
             txn' = [txn EXCEPT ![w].number = n]
    BY <1>9 DEF GenerateSaleNumber
  <2>n. n \in Nat
    BY <2>1 DEF TypeOK
  <2>2. txn' \in [Worker -> Txn]
    BY <2>1, <2>n DEF TypeOK, Txn
  <2> QED
    BY <1>9, <2>2 DEF GenerateSaleNumber, TypeOK, rows, past, PC
<1>10. ASSUME NEW w \in Worker, NEW i \in Item, AskForItem(w, i) PROVE TypeOK'
  BY <1>10 DEF AskForItem, TypeOK, rows, past, Row
<1>11. ASSUME NEW w \in Worker, LockItem(w) PROVE TypeOK'
  <2>1. seen' \in [Worker -> [Item -> Int]]
    BY <1>11 DEF LockItem, TypeOK
  <2> QED
    BY <1>11, <2>1 DEF LockItem, TypeOK, rows, past
<1>12. ASSUME NEW w \in Worker, CommitCreate(w) PROVE TypeOK'
  <2>1. quantity' \in [Item -> Int]
    BY <1>12, RequestType DEF CommitCreate, TypeOK
  <2>2. basket' \in [Sale -> [Item -> Nat]] /\ number' \in [Sale -> Nat]
        /\ status' \in [Sale -> Status]
    BY <1>12, RequestType DEF CommitCreate, TypeOK
  <2> QED
    BY <1>12, <2>1, <2>2, EndType, RecordedType DEF CommitCreate, TypeOK
<1>13. ASSUME NEW w \in Worker, CommitReversal(w) PROVE TypeOK'
  <2>1. quantity' \in [Item -> Int]
    BY <1>13, RequestType DEF CommitReversal, TypeOK
  <2>2. status' \in [Sale -> Status]
    BY <1>13 DEF CommitReversal, TypeOK, Final, Status, StatusChoices
  <2>a. \A s \in Sale : returned[s] \in Nat
    BY DEF TypeOK
  <2>b. returned' = [s \in Sale |-> IF s = txn[w].sale THEN returned[s] + 1 ELSE returned[s]]
    BY <1>13, RequestType DEF CommitReversal, TypeOK
  <2>3. returned' \in [Sale -> Nat]
    BY <2>a, <2>b
  <2> QED
    BY <1>13, <2>1, <2>2, <2>3, EndType, RecordedType DEF CommitReversal, TypeOK
<1>14. ASSUME NEW w \in Worker, CommitEdit(w) PROVE TypeOK'
  BY <1>14, EndType, RequestType DEF CommitEdit, TypeOK, past
<1>15. ASSUME NEW w \in Worker, CommitItemSave(w) PROVE TypeOK'
  <2>0. /\ \A i \in Item : quantity[i] \in Int /\ corrected[i] \in Int /\ seen[w][i] \in Int
        /\ txn[w].delta \in Int
    BY RequestType DEF TypeOK
  <2>a. quantity' = [i \in Item |-> IF i = want[w] THEN seen[w][i] + txn[w].delta
                                                    ELSE quantity[i]]
    BY <1>15 DEF CommitItemSave, TypeOK
  <2>b. corrected' = [i \in Item |-> IF i = want[w] THEN corrected[i] + txn[w].delta
                                                     ELSE corrected[i]]
    BY <1>15 DEF CommitItemSave, TypeOK
  <2>1. quantity' \in [Item -> Int] /\ corrected' \in [Item -> Int]
    BY <2>0, <2>a, <2>b
  <2> QED
    BY <1>15, <2>1, EndType, RecordedType DEF CommitItemSave, TypeOK
<1>16. ASSUME NEW w \in Worker,
              RefuseForStock(w) \/ RefuseForNumber(w) \/ DeadlockVictim(w) \/ Abort(w)
       PROVE  TypeOK'
  BY <1>16, EndType DEF RefuseForStock, RefuseForNumber, DeadlockVictim, Abort, rows, past,
                     TypeOK
<1>17. CASE AllServed \/ UNCHANGED vars
  BY <1>17 DEF AllServed, vars, rows, past, TypeOK
<1> QED
  BY <1>1, <1>2, <1>3, <1>4, <1>5, <1>6, <1>8, <1>9, <1>10, <1>11, <1>12, <1>13,
     <1>14, <1>15, <1>16, <1>17 DEF Next, Arrival, Step

(* Every reachable state has the types the database schema and the views give. *)
THEOREM TypeCorrect == Spec => []TypeOK
<1>1. Init => TypeOK
  BY PosAssumption, IdleType DEF Init, TypeOK, Status, StatusChoices, PC, Empty
<1> QED
  BY <1>1, TypeStep, PTL DEF Spec

(* Ending a request disturbs nothing of the lock invariant but the quantities. *)
LEMMA EndKeeps ==
  ASSUME TypeOK, LockInvariant, NEW w \in Worker, End(w),
         \A i \in Item : /\ quantity'[i] >= 0
                         /\ lock[i] \notin {w, Nobody} => quantity'[i] = quantity[i]
  PROVE  LockInvariant'
<1>0. /\ lock' = [r \in Row |-> IF lock[r] = w THEN Nobody ELSE lock[r]]
      /\ pc'[w] = "idle" /\ want'[w] = NoRow
      /\ \A v \in Worker \ {w} : /\ pc'[v] = pc[v] /\ want'[v] = want[v]
                                 /\ txn'[v] = txn[v] /\ seen'[v] = seen[v]
  BY DEF End, TypeOK
<1>1. \A v \in Worker, r \in Row : lock'[r] = v => v # w /\ lock[r] = v
  BY <1>0, PosAssumption
<1>2. LockPhases'
  <2> SUFFICES ASSUME NEW v \in Worker, NEW r \in Row, lock'[r] = v
               PROVE  pc'[v] \in {"number", "items"}
    BY DEF LockPhases
  <2> QED
    BY <1>0, <1>1 DEF LockPhases, LockInvariant
<1>3. WaitsForRow'
  <2>1. \A v \in Worker \ {w} : Wanted(v)' = Wanted(v)
    BY <1>0 DEF Wanted
  <2> QED
    BY <1>0, <2>1 DEF WaitsForRow, LockInvariant
<1>4. EnoughLocked'
  <2> SUFFICES ASSUME NEW v \in Worker, NEW i \in Item, lock'[i] = v, txn'[v].kind = "create"
               PROVE  txn'[v].basket[i] <= seen'[v][i]
    BY DEF EnoughLocked
  <2>1. v # w /\ lock[i] = v
    BY <1>1 DEF Row
  <2> QED
    BY <1>0, <2>1 DEF EnoughLocked, LockInvariant
<1>5. SavesNonNegative'
  BY <1>0 DEF SavesNonNegative, LockInvariant
<1>6. FreshWhileLocked'
  <2> SUFFICES ASSUME NEW v \in Worker, NEW i \in Item, lock'[i] = v
               PROVE  seen'[v][i] = quantity'[i]
    BY DEF FreshWhileLocked
  <2>1. v # w /\ lock[i] = v /\ lock[i] # Nobody
    BY <1>1, PosAssumption DEF Row
  <2> QED
    BY <1>0, <2>1 DEF FreshWhileLocked, LockInvariant
<1>7. NonNegative'
  BY DEF NonNegative
<1> QED
  BY <1>2, <1>3, <1>4, <1>5, <1>6, <1>7 DEF LockInvariant

(* A worker that starts a request holds no lock yet. *)
LEMMA StartKeeps ==
  ASSUME TypeOK, LockInvariant, NEW w \in Worker, NEW at, NEW q \in Txn, Start(w, at, q),
         at \in {"terminal", "items", "edit", "itemsave"},
         \A v \in Worker \ {w} : want'[v] = want[v] /\ seen'[v] = seen[v],
         at = "terminal" => want'[w] \in Terminal,
         at \in {"items", "edit"} => want'[w] = NoRow,
         at = "itemsave" => want'[w] \in Item /\ seen'[w][want'[w]] + q.delta >= 0
  PROVE  LockInvariant'
<1>0. /\ pc[w] = "idle" /\ pc'[w] = at /\ txn'[w] = q
      /\ UNCHANGED <<lock, quantity>>
      /\ \A v \in Worker \ {w} : pc'[v] = pc[v] /\ txn'[v] = txn[v]
  BY DEF Start, rows, TypeOK
<1>1. \A r \in Row : lock[r] # w
  BY <1>0 DEF LockInvariant, LockPhases
<1>2. LockPhases'
  <2> SUFFICES ASSUME NEW v \in Worker, NEW r \in Row, lock[r] = v
               PROVE  pc'[v] \in {"number", "items"}
    BY <1>0 DEF LockPhases
  <2> QED
    BY <1>0, <1>1 DEF LockPhases, LockInvariant
<1>3. WaitsForRow'
  <2>1. \A v \in Worker \ {w} : Wanted(v)' = Wanted(v)
    BY <1>0 DEF Wanted
  <2> QED
    BY <1>0, <2>1 DEF WaitsForRow, LockInvariant
<1>4. EnoughLocked'
  <2> SUFFICES ASSUME NEW v \in Worker, NEW i \in Item, lock[i] = v, txn'[v].kind = "create"
               PROVE  txn'[v].basket[i] <= seen'[v][i]
    BY <1>0 DEF EnoughLocked
  <2> QED
    BY <1>0, <1>1 DEF EnoughLocked, LockInvariant, Row
<1>5. SavesNonNegative'
  BY <1>0 DEF SavesNonNegative, LockInvariant
<1>6. FreshWhileLocked' /\ NonNegative'
  BY <1>0, <1>1 DEF FreshWhileLocked, LockInvariant, Row, NonNegative
<1> QED
  BY <1>2, <1>3, <1>4, <1>5, <1>6 DEF LockInvariant

LEMMA LockStep == ASSUME TypeOK, TypeOK', LockInvariant, [Next]_vars PROVE LockInvariant'
<1>1. ASSUME NEW w \in Worker, NEW s \in Sale, NEW t \in Terminal, NEW b \in Basket,
             NEW st \in StatusChoices, BeginCreate(w, s, t, b, st)
      PROVE  LockInvariant'
  <2>1. [kind |-> "create", sale |-> s, status |-> st, basket |-> b, number |-> 0,
         delta |-> 0] \in Txn
    BY PosAssumption DEF Txn, Kind, Status, StatusChoices, Open
  <2>2. want'[w] = t /\ \A v \in Worker \ {w} : want'[v] = want[v] /\ seen'[v] = seen[v]
    BY <1>1 DEF BeginCreate, TypeOK
  <2> QED
    BY <1>1, <2>1, <2>2, StartKeeps DEF BeginCreate
<1>2. ASSUME NEW w \in Worker, NEW s \in Sale, NEW k \in {"void", "refund"},
             BeginReversal(w, k, s)
      PROVE  LockInvariant'
  <2>1. [kind |-> k, sale |-> s, status |-> status[s], basket |-> basket[s],
         number |-> number[s], delta |-> 0] \in Txn
    BY DEF Txn, Kind, TypeOK
  <2>2. want'[w] = NoRow
    BY <1>2 DEF BeginReversal, Start, LockInvariant, WaitsForRow
  <2> QED
    BY <1>2, <2>1, <2>2, StartKeeps DEF BeginReversal
<1>3. ASSUME NEW w \in Worker, NEW s \in Sale, BeginEdit(w, s) PROVE LockInvariant'
  <2>1. [kind |-> "edit", sale |-> s, status |-> status[s], basket |-> basket[s],
         number |-> number[s], delta |-> 0] \in Txn
    BY DEF Txn, Kind, TypeOK
  <2>2. want'[w] = NoRow
    BY <1>3 DEF BeginEdit, Start, LockInvariant, WaitsForRow
  <2> QED
    BY <1>3, <2>1, <2>2, StartKeeps DEF BeginEdit
<1>4. ASSUME NEW s \in Sale, PutOnHold(s) PROVE LockInvariant'
  BY <1>4 DEF PutOnHold, LockInvariant, LockPhases, WaitsForRow, Wanted, EnoughLocked,
              SavesNonNegative, FreshWhileLocked, NonNegative
<1>5. ASSUME NEW i \in Item, NEW how \in {"ADD", "DEDUCT", "SET"}, NEW n \in Amount,
             AdjustStock(i, how, n)
      PROVE  LockInvariant'
  <2>1. /\ lock[i] = Nobody
        /\ \A j \in Item \ {i} : quantity'[j] = quantity[j]
        /\ UNCHANGED <<lock, pc, want, txn, seen>>
    BY <1>5 DEF AdjustStock, TypeOK
  <2>2. quantity'[i] \in Level
    BY <1>5 DEF AdjustStock, TypeOK
  <2>a. Level \subseteq Nat
    BY PosAssumption
  <2>b. quantity'[i] \in Nat
    BY <2>2, <2>a
  <2>3. quantity'[i] >= 0
    BY <2>b
  <2>4. FreshWhileLocked' /\ NonNegative'
    BY <2>1, <2>3, PosAssumption DEF LockInvariant, FreshWhileLocked, NonNegative
  <2> QED
    BY <2>1, <2>4 DEF LockInvariant, LockPhases, WaitsForRow, Wanted, EnoughLocked,
                      SavesNonNegative
<1>6. ASSUME NEW w \in Worker, NEW i \in Item, NEW how \in {"ADD", "DEDUCT", "SET"},
             NEW n \in Amount, BeginItemSave(w, i, how, n)
      PROVE  LockInvariant'
  <2> DEFINE d == Adjusted(how, n, quantity[i]) - quantity[i]
  <2>a. Level \subseteq Nat
    BY PosAssumption
  <2>b. Adjusted(how, n, quantity[i]) \in Level
    BY <1>6 DEF BeginItemSave
  <2>c. Adjusted(how, n, quantity[i]) \in Nat /\ quantity[i] \in Int
    BY <2>a, <2>b DEF TypeOK
  <2>1. d \in Int /\ quantity[i] + d >= 0
    BY <2>c
  <2> HIDE DEF d
  <2> DEFINE q == [Idle EXCEPT !.kind = "itemsave", !.delta = d]
  <2>2. q \in Txn /\ q.delta = d
    BY <2>1, IdleType DEF Txn, Kind
  <2>3. Start(w, "itemsave", q)
    BY <1>6 DEF BeginItemSave, d
  <2> HIDE DEF q
  <2>4. /\ want'[w] = i /\ seen'[w][i] = quantity[i]
        /\ \A v \in Worker \ {w} : want'[v] = want[v] /\ seen'[v] = seen[v]
    BY <1>6 DEF BeginItemSave, TypeOK, Row
  <2> QED
    BY <2>1, <2>2, <2>3, <2>4, StartKeeps
<1>7. ASSUME NEW w \in Worker, LockTerminal(w) PROVE LockInvariant'
  <2>1. /\ pc[w] = "terminal" /\ want[w] \in Terminal /\ lock[want[w]] = Nobody
        /\ pc'[w] = "number" /\ want'[w] = NoRow
        /\ \A v \in Worker \ {w} : pc'[v] = pc[v] /\ want'[v] = want[v]
        /\ \A r \in Row : lock'[r] = IF r = want[w] THEN w ELSE lock[r]
        /\ UNCHANGED <<quantity, txn, seen>>
    BY <1>7 DEF LockTerminal, TypeOK, rows, LockInvariant, WaitsForRow
  <2>2. \A i \in Item : lock'[i] = lock[i]
    BY <2>1, PosAssumption DEF Row
  <2>3. LockPhases' /\ WaitsForRow'
    BY <2>1 DEF LockInvariant, LockPhases, WaitsForRow, Wanted
  <2>4. EnoughLocked' /\ FreshWhileLocked' /\ NonNegative' /\ SavesNonNegative'
    BY <2>1, <2>2 DEF LockInvariant, EnoughLocked, FreshWhileLocked, NonNegative,
                      SavesNonNegative
  <2> QED
    BY <2>3, <2>4 DEF LockInvariant
<1>8. ASSUME NEW w \in Worker, GenerateSaleNumber(w) PROVE LockInvariant'
  <2>1. /\ pc[w] = "number" /\ want[w] = NoRow /\ pc'[w] = "items"
        /\ \A v \in Worker \ {w} : pc'[v] = pc[v]
        /\ \A v \in Worker : /\ txn'[v].basket = txn[v].basket
                             /\ txn'[v].kind = txn[v].kind
                             /\ txn'[v].delta = txn[v].delta
        /\ UNCHANGED <<quantity, lock, want, seen>>
    BY <1>8 DEF GenerateSaleNumber, TypeOK, Txn, rows, LockInvariant, WaitsForRow
  <2> QED
    BY <2>1 DEF LockInvariant, LockPhases, WaitsForRow, Wanted, EnoughLocked,
                SavesNonNegative, FreshWhileLocked, NonNegative
<1>9. ASSUME NEW w \in Worker, NEW i \in Item, AskForItem(w, i) PROVE LockInvariant'
  <2>1. /\ pc[w] = "items" /\ i \in Wanted(w) /\ want'[w] = i
        /\ \A v \in Worker \ {w} : want'[v] = want[v]
        /\ UNCHANGED <<quantity, lock, pc, txn, seen>>
    BY <1>9 DEF AskForItem, TypeOK, rows
  <2> QED
    BY <2>1 DEF LockInvariant, LockPhases, WaitsForRow, Wanted, EnoughLocked,
                SavesNonNegative, FreshWhileLocked, NonNegative
<1>10. ASSUME NEW w \in Worker, LockItem(w) PROVE LockInvariant'
  <2> DEFINE j == want[w]
  <2>1. /\ pc[w] = "items" /\ j \in Item /\ lock[j] = Nobody /\ want'[w] = NoRow
        /\ txn[w].kind = "create" => txn[w].basket[j] <= quantity[j]
        /\ \A v \in Worker \ {w} : want'[v] = want[v] /\ seen'[v] = seen[v]
        /\ \A i \in Item : seen'[w][i] = IF i = j THEN quantity[j] ELSE seen[w][i]
        /\ \A r \in Row : lock'[r] = IF r = j THEN w ELSE lock[r]
        /\ UNCHANGED <<quantity, pc, txn>>
    BY <1>10 DEF LockItem, TypeOK, rows, LockInvariant, WaitsForRow, Wanted, Enough
  <2>2. LockPhases' /\ WaitsForRow' /\ NonNegative'
    BY <2>1 DEF LockInvariant, LockPhases, WaitsForRow, Wanted, NonNegative
  <2>3. EnoughLocked' /\ FreshWhileLocked' /\ SavesNonNegative'
    BY <2>1 DEF LockInvariant, EnoughLocked, FreshWhileLocked, SavesNonNegative, Row
  <2> QED
    BY <2>2, <2>3 DEF LockInvariant
<1>11. ASSUME NEW w \in Worker, CommitCreate(w) PROVE LockInvariant'
  <2>1. \A i \in Item : quantity'[i] = IF i \in Wanted(w) THEN seen[w][i] - txn[w].basket[i]
                                                          ELSE quantity[i]
    BY <1>11 DEF CommitCreate
  <2>2. \A i \in Wanted(w) : lock[i] = w /\ txn[w].basket[i] <= seen[w][i]
    BY <1>11 DEF CommitCreate, AllLocked, Held, Wanted, LockInvariant, EnoughLocked
  <2>3. \A i \in Item : quantity'[i] >= 0
    <3>1. \A i \in Item : /\ seen[w][i] \in Int /\ txn[w].basket[i] \in Nat
                          /\ quantity[i] \in Int /\ quantity[i] >= 0
      BY RequestType DEF LockInvariant, NonNegative, TypeOK
    <3> QED
      BY <2>1, <2>2, <3>1
  <2>4. \A i \in Item : lock[i] \notin {w, Nobody} => quantity'[i] = quantity[i]
    BY <2>1, <2>2
  <2> QED
    BY <1>11, <2>3, <2>4, EndKeeps DEF CommitCreate
<1>12. ASSUME NEW w \in Worker, CommitReversal(w) PROVE LockInvariant'
  <2>1. \A i \in Item : quantity'[i] = IF i \in Wanted(w) THEN seen[w][i] + txn[w].basket[i]
                                                          ELSE quantity[i]
    BY <1>12 DEF CommitReversal
  <2>2. \A i \in Wanted(w) : lock[i] = w /\ seen[w][i] = quantity[i]
    BY <1>12 DEF CommitReversal, AllLocked, Held, Wanted, LockInvariant, FreshWhileLocked
  <2>3. \A i \in Item : quantity'[i] >= 0
    <3>1. \A i \in Item : /\ seen[w][i] \in Int /\ txn[w].basket[i] \in Nat
                          /\ quantity[i] \in Int /\ quantity[i] >= 0
      BY RequestType DEF LockInvariant, NonNegative, TypeOK
    <3> QED
      BY <2>1, <2>2, <3>1
  <2>4. \A i \in Item : lock[i] \notin {w, Nobody} => quantity'[i] = quantity[i]
    BY <2>1, <2>2
  <2> QED
    BY <1>12, <2>3, <2>4, EndKeeps DEF CommitReversal
<1>13. ASSUME NEW w \in Worker, CommitItemSave(w) PROVE LockInvariant'
  <2>1. /\ pc[w] = "itemsave" /\ want[w] \in Item /\ lock[want[w]] = Nobody
        /\ seen[w][want[w]] + txn[w].delta >= 0
    BY <1>13 DEF CommitItemSave, LockInvariant, WaitsForRow, SavesNonNegative
  <2>2. \A i \in Item : quantity'[i] = IF i = want[w] THEN seen[w][i] + txn[w].delta
                                                     ELSE quantity[i]
    BY <1>13 DEF CommitItemSave, TypeOK
  <2>3. \A i \in Item : /\ quantity'[i] >= 0
                        /\ lock[i] \notin {w, Nobody} => quantity'[i] = quantity[i]
    BY <2>1, <2>2 DEF LockInvariant, NonNegative
  <2> QED
    BY <1>13, <2>3, EndKeeps DEF CommitItemSave
<1>14. ASSUME NEW w \in Worker,
              \/ CommitEdit(w) \/ RefuseForStock(w) \/ RefuseForNumber(w)
              \/ DeadlockVictim(w) \/ Abort(w)
       PROVE  LockInvariant'
  <2>1. End(w) /\ quantity' = quantity
    BY <1>14 DEF CommitEdit, RefuseForStock, RefuseForNumber, DeadlockVictim, Abort, rows
  <2> QED
    BY <2>1, EndKeeps DEF LockInvariant, NonNegative
<1>15. CASE AllServed \/ UNCHANGED vars
  BY <1>15 DEF AllServed, vars, rows, LockInvariant, LockPhases, WaitsForRow, Wanted, EnoughLocked,
               SavesNonNegative, FreshWhileLocked, NonNegative
<1> QED
  BY <1>1, <1>2, <1>3, <1>4, <1>5, <1>6, <1>7, <1>8, <1>9, <1>10, <1>11, <1>12, <1>13,
     <1>14, <1>15 DEF Next, Arrival, Step

(* Whatever requests interleave, however they fail, and with any number of workers,
   items and terminals: a request writes stock only from a copy that is still the
   committed quantity, and no item's quantity ever goes below zero. *)
THEOREM LockCorrect == Spec => []LockInvariant
<1>1. Init => LockInvariant
  BY PosAssumption DEF Init, LockInvariant, LockPhases, WaitsForRow, EnoughLocked,
                       SavesNonNegative, FreshWhileLocked, NonNegative, Row
<1>2. TypeOK /\ LockInvariant /\ [Next]_vars => LockInvariant'
  BY TypeStep, LockStep
<1> QED
  BY <1>1, <1>2, TypeCorrect, PTL DEF Spec

(* The two properties a reader cares about, on their own. *)
THEOREM StockNeverNegative == Spec => []NonNegative
<1>1. LockInvariant => NonNegative
  BY DEF LockInvariant
<1> QED
  BY <1>1, LockCorrect, PTL
-----------------------------------------------------------------------------
(* The numbers.  A request that creates a sale is the only one about it, and the
   number it has picked follows a committed one; every committed sale has a number. *)
Creates(w) == AboutSale(w) /\ txn[w].kind = "create"

NumberedSales == \A s \in Sale : status[s] # "none" <=> number[s] > 0

CopiesExist == \A w \in Worker :
    AboutSale(w) => /\ txn[w].status # "none"
                    /\ txn[w].kind = "create" <=> status[txn[w].sale] = "none"
                    /\ pc[w] = "edit" => txn[w].kind # "create"

NewSales == \A v, w \in Worker :
    Creates(v) /\ Creates(w) /\ v # w => txn[v].sale # txn[w].sale

Follows(n) == n = 1 \/ \E r \in Existing : number[r] = n - 1

PickedNumbers == \A w \in Worker :
    Creates(w) /\ pc[w] = "items" => txn[w].number > 0 /\ Follows(txn[w].number)

NumberInvariant == /\ NumberedSales /\ CopiesExist /\ NewSales /\ PickedNumbers
                   /\ NumbersConsecutive

(* Steps that keep the numbers, and which sales there are. *)
SalesKept == number' = number /\ \A s \in Sale : status'[s] = "none" <=> status[s] = "none"

LEMMA NumbersKept ==
  ASSUME TypeOK, NumberInvariant, SalesKept
  PROVE  /\ Existing' = Existing /\ NumberedSales' /\ NumbersConsecutive'
         /\ \A n \in Nat : Follows(n) => Follows(n)'
<1>1. Existing' = Existing
  BY DEF SalesKept, Existing
<1>2. NumberedSales'
  BY DEF SalesKept, NumberedSales, NumberInvariant
<1>3. NumbersConsecutive'
  BY <1>1 DEF SalesKept, NumbersConsecutive, NumberInvariant
<1>4. \A n \in Nat : Follows(n) => Follows(n)'
  BY <1>1 DEF SalesKept, Follows
<1> QED
  BY <1>1, <1>2, <1>3, <1>4

LEMMA NumberSame ==
  ASSUME TypeOK, NumberInvariant, SalesKept,
         \A w \in Worker : AboutSale(w)' =>
            /\ AboutSale(w) /\ txn'[w].kind = txn[w].kind /\ txn'[w].sale = txn[w].sale
            /\ txn'[w].status = txn[w].status
            /\ pc'[w] = "edit" => pc[w] = "edit"
            /\ pc'[w] = "items" => \/ pc[w] = "items" /\ txn'[w].number = txn[w].number
                                   \/ txn'[w].number > 0 /\ Follows(txn'[w].number)
  PROVE  NumberInvariant'
<1>1. CopiesExist'
  BY RequestType DEF NumberInvariant, CopiesExist, SalesKept
<1>2. NewSales'
  BY DEF NumberInvariant, NewSales, Creates
<1>3. PickedNumbers'
  <2> SUFFICES ASSUME NEW w \in Worker, Creates(w)', pc'[w] = "items"
               PROVE  /\ txn'[w].number > 0
                      /\ txn'[w].number = 1
                         \/ \E r \in Existing' : number'[r] = txn'[w].number - 1
    BY DEF PickedNumbers, Follows
  <2>1. Creates(w)
    BY DEF Creates
  <2>2. txn'[w].number > 0 /\ Follows(txn'[w].number)
    BY <2>1 DEF Creates, NumberInvariant, PickedNumbers
  <2> QED
    BY <2>2, NumbersKept DEF Follows, SalesKept, Existing
<1> QED
  BY <1>1, <1>2, <1>3, NumbersKept DEF NumberInvariant

LEMMA NumberStart ==
  ASSUME TypeOK, NumberInvariant, NEW w \in Worker, NEW at, NEW q \in Txn, Start(w, at, q),
         at \in {"terminal", "items", "edit"}, q.status # "none",
         q.kind = "create" <=> status[q.sale] = "none",
         q.kind = "create" => at = "terminal" /\ ~InFlight(q.sale)
  PROVE  NumberInvariant'
<1>1. /\ pc'[w] = at /\ txn'[w] = q /\ UNCHANGED <<status, number>>
      /\ \A v \in Worker \ {w} : pc'[v] = pc[v] /\ txn'[v] = txn[v]
  BY DEF Start, TypeOK, rows
<1>2. SalesKept
  BY <1>1 DEF SalesKept
<1>3. \A v \in Worker \ {w} : AboutSale(v)' = AboutSale(v) /\ Creates(v)' = Creates(v)
  BY <1>1 DEF AboutSale, Creates
<1>4. CopiesExist'
  BY <1>1, <1>3 DEF NumberInvariant, CopiesExist, AboutSale
<1>5. NewSales'
  BY <1>1, <1>3 DEF NumberInvariant, NewSales, Creates, InFlight
<1>6. PickedNumbers'
  BY <1>1, <1>3 DEF NumberInvariant, PickedNumbers, Creates, Follows, Existing
<1> QED
  BY <1>2, <1>4, <1>5, <1>6, NumbersKept DEF NumberInvariant

LEMMA NumberCommit ==
  ASSUME TypeOK, NumberInvariant, NEW w \in Worker, CommitCreate(w)
  PROVE  NumberInvariant'
<1> DEFINE s == txn[w].sale
           n == txn[w].number
<1>1. /\ Creates(w) /\ s \in Sale /\ n \in Nat /\ n > 0 /\ Follows(n)
      /\ status[s] = "none" /\ txn[w].status # "none" /\ \A r \in Sale : number[r] # n
  BY RequestType DEF CommitCreate, AllLocked, AboutSale, Creates, NumberInvariant, PickedNumbers,
                     CopiesExist, NumberTaken
<1>2. /\ status' = [status EXCEPT ![s] = txn[w].status]
      /\ number' = [number EXCEPT ![s] = n]
      /\ pc'[w] = "idle" /\ \A v \in Worker \ {w} : pc'[v] = pc[v] /\ txn'[v] = txn[v]
  BY DEF CommitCreate, End, TypeOK
<1> HIDE DEF s, n
<1>3. /\ status'[s] # "none" /\ number'[s] = n
      /\ \A r \in Sale \ {s} : status'[r] = status[r] /\ number'[r] = number[r]
  BY <1>1, <1>2 DEF TypeOK
<1>4. Existing' = Existing \cup {s} /\ s \notin Existing
  BY <1>1, <1>3 DEF Existing
<1>5. ~AboutSale(w)' /\ \A v \in Worker \ {w} : AboutSale(v)' = AboutSale(v) /\ Creates(v)' = Creates(v)
  BY <1>2 DEF AboutSale, Creates
<1>6. \A m \in Nat : Follows(m) => Follows(m)'
  BY <1>3, <1>4 DEF Follows, Existing
<1>7. NumberedSales'
  BY <1>1, <1>3 DEF NumberInvariant, NumberedSales
<1>8. \A v \in Worker \ {w} : AboutSale(v) => txn[v].sale # s
  BY <1>1 DEF NumberInvariant, NewSales, CopiesExist, Creates, s
<1>9. CopiesExist'
  BY <1>2, <1>3, <1>5, <1>8, RequestType DEF NumberInvariant, CopiesExist
<1>10. NewSales'
  BY <1>2, <1>5 DEF NumberInvariant, NewSales, Creates
<1>11. PickedNumbers'
  <2> SUFFICES ASSUME NEW v \in Worker, Creates(v)', pc'[v] = "items"
               PROVE  /\ txn'[v].number > 0
                      /\ txn'[v].number = 1
                         \/ \E r \in Existing' : number'[r] = txn'[v].number - 1
    BY DEF PickedNumbers, Follows
  <2>1. v # w /\ txn'[v] = txn[v] /\ Creates(v) /\ pc[v] = "items"
    BY <1>2, <1>5 DEF Creates
  <2>2. txn[v].number > 0 /\ Follows(txn[v].number) /\ txn[v].number \in Nat
    BY <2>1, RequestType DEF NumberInvariant, PickedNumbers
  <2> QED
    BY <1>3, <1>4, <2>1, <2>2 DEF Follows, Existing
<1>12. NumbersConsecutive'
  <2> SUFFICES ASSUME NEW r \in Existing'
               PROVE  /\ \A q \in Existing' \ {r} : number'[q] # number'[r]
                      /\ number'[r] = 1 \/ \E q \in Existing' : number'[q] = number'[r] - 1
    BY DEF NumbersConsecutive
  <2>1. CASE r = s
    <3>1. \A q \in Existing' \ {r} : number'[q] # number'[r]
      BY <1>1, <1>3, <1>4, <2>1 DEF Existing
    <3>2. n = 1 \/ \E q \in Existing : number[q] = n - 1
      BY <1>1 DEF Follows
    <3> QED
      BY <1>1, <1>3, <1>4, <2>1, <3>1, <3>2 DEF Existing
  <2>2. CASE r # s
    <3>1. r \in Existing /\ r \in Sale /\ number'[r] = number[r] /\ number[r] # n
      BY <1>1, <1>3, <1>4, <2>2 DEF Existing
    <3>2. /\ \A q \in Existing \ {r} : number[q] # number[r]
          /\ number[r] = 1 \/ \E q \in Existing : number[q] = number[r] - 1
      BY <3>1 DEF NumberInvariant, NumbersConsecutive
    <3> QED
      BY <1>3, <1>4, <3>1, <3>2 DEF Existing
  <2> QED
    BY <2>1, <2>2
<1> QED
  BY <1>7, <1>9, <1>10, <1>11, <1>12 DEF NumberInvariant

LEMMA NumberEnd ==
  ASSUME TypeOK, NumberInvariant, NEW w \in Worker, End(w), SalesKept
  PROVE  NumberInvariant'
<1>1. /\ pc'[w] = "idle"
      /\ \A v \in Worker \ {w} : pc'[v] = pc[v] /\ txn'[v] = txn[v]
  BY DEF End, TypeOK
<1>2. ~AboutSale(w)' /\ \A v \in Worker \ {w} : AboutSale(v)' = AboutSale(v)
  BY <1>1 DEF AboutSale
<1> QED
  BY <1>1, <1>2, NumberSame

LEMMA NumberStep == ASSUME TypeOK, NumberInvariant, [Next]_vars PROVE NumberInvariant'
<1>1. ASSUME NEW w \in Worker, NEW s \in Sale, NEW t \in Terminal, NEW b \in Basket,
             NEW st \in StatusChoices, BeginCreate(w, s, t, b, st)
      PROVE  NumberInvariant'
  <2>1. [kind |-> "create", sale |-> s, status |-> st, basket |-> b, number |-> 0,
         delta |-> 0] \in Txn
    BY PosAssumption DEF Txn, Kind, Status, StatusChoices, Open
  <2> QED
    BY <1>1, <2>1, NumberStart DEF BeginCreate, StatusChoices, Open
<1>2. ASSUME NEW w \in Worker, NEW s \in Sale, NEW k \in {"void", "refund"},
             BeginReversal(w, k, s)
      PROVE  NumberInvariant'
  <2>1. [kind |-> k, sale |-> s, status |-> status[s], basket |-> basket[s],
         number |-> number[s], delta |-> 0] \in Txn
    BY DEF Txn, Kind, TypeOK
  <2> QED
    BY <1>2, <2>1, NumberStart DEF BeginReversal, Existing
<1>3. ASSUME NEW w \in Worker, NEW s \in Sale, BeginEdit(w, s) PROVE NumberInvariant'
  <2>1. [kind |-> "edit", sale |-> s, status |-> status[s], basket |-> basket[s],
         number |-> number[s], delta |-> 0] \in Txn
    BY DEF Txn, Kind, TypeOK
  <2> QED
    BY <1>3, <2>1, NumberStart DEF BeginEdit, Existing
<1>4. ASSUME NEW s \in Sale, PutOnHold(s) PROVE NumberInvariant'
  <2>1. SalesKept /\ UNCHANGED <<pc, txn>>
    BY <1>4 DEF PutOnHold, SalesKept, Existing, TypeOK
  <2> QED
    BY <2>1, NumberSame DEF AboutSale
<1>5. ASSUME NEW i \in Item, NEW how \in {"ADD", "DEDUCT", "SET"}, NEW n \in Amount,
             AdjustStock(i, how, n)
      PROVE  NumberInvariant'
  BY <1>5, NumberSame DEF AdjustStock, AboutSale, SalesKept
<1>6. ASSUME NEW w \in Worker, NEW i \in Item, NEW how \in {"ADD", "DEDUCT", "SET"},
             NEW n \in Amount, BeginItemSave(w, i, how, n)
      PROVE  NumberInvariant'
  <2>1. /\ SalesKept /\ pc'[w] = "itemsave"
        /\ \A v \in Worker \ {w} : pc'[v] = pc[v] /\ txn'[v] = txn[v]
    BY <1>6 DEF BeginItemSave, Start, SalesKept, rows, TypeOK
  <2> QED
    BY <2>1, NumberSame DEF AboutSale
<1>7. ASSUME NEW w \in Worker,
             LockTerminal(w) \/ (\E i \in Item : AskForItem(w, i)) \/ LockItem(w)
      PROVE  NumberInvariant'
  <2>1. /\ SalesKept /\ UNCHANGED txn
        /\ \A v \in Worker : pc'[v] = pc[v] \/ (pc[v] = "terminal" /\ pc'[v] = "number")
    BY <1>7 DEF LockTerminal, AskForItem, LockItem, rows, TypeOK, SalesKept
  <2> QED
    BY <2>1, NumberSame DEF AboutSale
<1>8. ASSUME NEW w \in Worker, GenerateSaleNumber(w) PROVE NumberInvariant'
  <2>1. PICK n \in {number[s] + 1 : s \in Sale} \cup {1} :
           IsNextNumber(n) /\ txn' = [txn EXCEPT ![w].number = n]
    BY <1>8 DEF GenerateSaleNumber
  <2>2. n \in Nat /\ n > 0
    BY <2>1 DEF TypeOK
  <2>3. Follows(n)
    <3>1. CASE n = 1
      BY <3>1 DEF Follows
    <3>2. CASE n # 1
      <4>1. PICK s \in Sale : number[s] = n - 1
        BY <2>1, <3>2 DEF IsNextNumber
      <4>2. number[s] > 0
        BY <2>2, <3>2, <4>1
      <4>3. s \in Existing
        BY <4>2 DEF NumberInvariant, NumberedSales, Existing
      <4> QED
        BY <4>1, <4>3 DEF Follows
    <3> QED
      BY <3>1, <3>2
  <2>4. /\ SalesKept /\ pc[w] = "number" /\ pc'[w] = "items"
        /\ txn'[w].number = n /\ txn'[w].kind = txn[w].kind /\ txn'[w].sale = txn[w].sale
        /\ txn'[w].status = txn[w].status
        /\ \A v \in Worker \ {w} : pc'[v] = pc[v] /\ txn'[v] = txn[v]
    BY <1>8, <2>1 DEF GenerateSaleNumber, SalesKept, rows, TypeOK, Txn
  <2> QED
    BY <2>2, <2>3, <2>4, NumberSame DEF AboutSale
<1>9. ASSUME NEW w \in Worker, CommitCreate(w) PROVE NumberInvariant'
  BY <1>9, NumberCommit
<1>10. ASSUME NEW w \in Worker, CommitReversal(w) \/ CommitEdit(w) PROVE NumberInvariant'
  <2>1. /\ AboutSale(w) /\ End(w) /\ txn[w].kind # "create" /\ number' = number
        /\ \A s \in Sale : status'[s] = status[s] \/ (s = txn[w].sale /\ status'[s] # "none")
    <3>1. CASE CommitReversal(w)
      BY <3>1 DEF CommitReversal, AllLocked, AboutSale, TypeOK, Final
    <3>2. CASE CommitEdit(w)
      BY <3>2 DEF CommitEdit, AboutSale, TypeOK, NumberInvariant, CopiesExist
    <3> QED
      BY <1>10, <3>1, <3>2
  <2>2. status[txn[w].sale] # "none"
    BY <2>1 DEF NumberInvariant, CopiesExist
  <2>3. SalesKept
    BY <2>1, <2>2 DEF SalesKept
  <2> QED
    BY <2>1, <2>3, NumberEnd
<1>11. ASSUME NEW w \in Worker,
              \/ RefuseForStock(w) \/ RefuseForNumber(w) \/ DeadlockVictim(w) \/ Abort(w)
              \/ CommitItemSave(w)
       PROVE  NumberInvariant'
  <2>1. End(w) /\ SalesKept
    BY <1>11 DEF RefuseForStock, RefuseForNumber, DeadlockVictim, Abort, CommitItemSave, rows,
                 SalesKept
  <2> QED
    BY <2>1, NumberEnd
<1>12. CASE AllServed \/ UNCHANGED vars
  BY <1>12, NumberSame DEF AllServed, vars, rows, AboutSale, SalesKept
<1> QED
  BY <1>1, <1>2, <1>3, <1>4, <1>5, <1>6, <1>7, <1>8, <1>9, <1>10, <1>11, <1>12
     DEF Next, Arrival, Step

(* For every kind of request and any number of them at once, the day's numbers are
   1, 2, 3, ...: a number two tills have picked is refused to the second, which
   leaves no gap behind it (sales/serializers.py:498-527). *)
THEOREM NumbersCorrect == Spec => []NumbersConsecutive
<1>1. Init => NumberInvariant
  BY DEF Init, NumberInvariant, NumberedSales, CopiesExist, NewSales, PickedNumbers,
         NumbersConsecutive, Existing, Creates, AboutSale
<1>2. TypeOK /\ NumberInvariant /\ [Next]_vars => NumberInvariant'
  BY NumberStep
<1>3. NumberInvariant => NumbersConsecutive
  BY DEF NumberInvariant
<1> QED
  BY <1>1, <1>2, <1>3, TypeCorrect, PTL DEF Spec
-----------------------------------------------------------------------------
(* The ledger.  What a request would sell or put back: a new sale brings a basket the
   till can ask for, any other request has read the sale's basket, which nothing
   changes.  The status it has read may be out of date. *)
BasketCopies == \A w \in Worker : AboutSale(w) =>
    IF txn[w].kind = "create" THEN txn[w].basket \in Basket
                              ELSE txn[w].basket = basket[txn[w].sale]

\* A page saves a level computed from one that the item has had.
SaveFromRecord(w) == /\ want[w] \in Item
                     /\ seen[w][want[w]] \in levels[want[w]]
                     /\ seen[w][want[w]] + txn[w].delta \in Level

LevelsRecorded == /\ \A i \in Item : quantity[i] \in levels[i]
                  /\ \A w \in Worker : pc[w] = "itemsave" => SaveFromRecord(w)

CopyInvariant == BasketCopies /\ LevelsRecorded

(* A step that keeps the stock, or records it, and gives nobody a new save to do. *)
LEMMA LevelsKept ==
  ASSUME TypeOK, TypeOK', LevelsRecorded,
         Recorded \/ UNCHANGED <<quantity, levels>>,
         \A w \in Worker : pc'[w] = "itemsave" =>
            \/ /\ pc[w] = "itemsave" /\ want'[w] = want[w]
               /\ seen'[w] = seen[w] /\ txn'[w] = txn[w]
            \/ UNCHANGED levels /\ SaveFromRecord(w)'
  PROVE  LevelsRecorded'
<1>1. \A i \in Item : quantity'[i] \in levels'[i] /\ levels[i] \subseteq levels'[i]
  <2>1. CASE Recorded
    BY <2>1 DEF Recorded, LevelsRecorded
  <2>2. CASE UNCHANGED <<quantity, levels>>
    BY <2>2 DEF LevelsRecorded
  <2> QED
    BY <2>1, <2>2
<1>2. ASSUME NEW w \in Worker, pc'[w] = "itemsave"
      PROVE  SaveFromRecord(w)'
  BY <1>1, <1>2 DEF LevelsRecorded, SaveFromRecord
<1> QED
  BY <1>1, <1>2 DEF LevelsRecorded

LEMMA LevelsStep ==
  ASSUME TypeOK, TypeOK', LevelsRecorded, [Next]_vars
  PROVE  LevelsRecorded'
<1>1. ASSUME NEW w \in Worker, End(w), Recorded \/ UNCHANGED <<quantity, levels>>
      PROVE  LevelsRecorded'
  <2>1. /\ pc'[w] = "idle"
        /\ \A v \in Worker \ {w} : /\ pc'[v] = pc[v] /\ want'[v] = want[v]
                                   /\ txn'[v] = txn[v] /\ seen'[v] = seen[v]
    BY <1>1 DEF End, TypeOK
  <2> QED
    BY <1>1, <2>1, LevelsKept
<1>2. ASSUME NEW w \in Worker,
             \/ CommitCreate(w) \/ CommitReversal(w) \/ CommitEdit(w) \/ CommitItemSave(w)
             \/ RefuseForStock(w) \/ RefuseForNumber(w) \/ DeadlockVictim(w) \/ Abort(w)
      PROVE  LevelsRecorded'
  <2>1. End(w) /\ (Recorded \/ UNCHANGED <<quantity, levels>>)
    BY <1>2 DEF CommitCreate, CommitReversal, CommitEdit, CommitItemSave, RefuseForStock,
                RefuseForNumber, DeadlockVictim, Abort, rows, past
  <2> QED
    BY <1>1, <2>1
<1>3. ASSUME NEW w \in Worker,
             \/ LockTerminal(w) \/ GenerateSaleNumber(w) \/ LockItem(w)
             \/ \E i \in Item : AskForItem(w, i)
      PROVE  LevelsRecorded'
  <2>1. /\ UNCHANGED <<quantity, levels>> /\ pc[w] # "itemsave" /\ pc'[w] # "itemsave"
        /\ \A v \in Worker \ {w} : /\ pc'[v] = pc[v] /\ want'[v] = want[v]
                                   /\ txn'[v] = txn[v] /\ seen'[v] = seen[v]
    BY <1>3 DEF LockTerminal, GenerateSaleNumber, LockItem, AskForItem, rows, past, TypeOK
  <2> QED
    BY <2>1, LevelsKept
<1>4. ASSUME NEW w \in Worker, NEW i \in Item, NEW how \in {"ADD", "DEDUCT", "SET"},
             NEW n \in Amount, BeginItemSave(w, i, how, n)
      PROVE  LevelsRecorded'
  <2>1. /\ UNCHANGED <<quantity, levels>> /\ want'[w] = i /\ seen'[w][i] = quantity[i]
        /\ Adjusted(how, n, quantity[i]) \in Level
        /\ \A v \in Worker \ {w} : /\ pc'[v] = pc[v] /\ want'[v] = want[v]
                                   /\ txn'[v] = txn[v] /\ seen'[v] = seen[v]
    BY <1>4 DEF BeginItemSave, Start, rows, past, TypeOK, Row
  <2>2. txn'[w].delta = Adjusted(how, n, quantity[i]) - quantity[i]
    BY <1>4 DEF BeginItemSave, Start, TypeOK, Idle
  <2>3. Level \subseteq Nat /\ quantity[i] \in Int
    BY PosAssumption DEF TypeOK
  <2>4. quantity[i] + txn'[w].delta = Adjusted(how, n, quantity[i])
    <3> DEFINE m == Adjusted(how, n, quantity[i])
    <3> HIDE DEF m
    <3>a. m \in Level
      BY <2>1 DEF m
    <3>b. Level \subseteq Int
      BY <2>3
    <3>1. m \in Int
      BY <3>a, <3>b
    <3>2. quantity[i] + (m - quantity[i]) = m
      BY <2>3, <3>1
    <3> QED
      BY <2>2, <3>2 DEF m
  <2>5. SaveFromRecord(w)'
    BY <2>1, <2>4 DEF SaveFromRecord, LevelsRecorded
  <2> QED
    BY <2>1, <2>5, LevelsKept
<1>5. ASSUME NEW w \in Worker, NEW s \in Sale,
             \/ \E t \in Terminal, b \in Basket, st \in StatusChoices : BeginCreate(w, s, t, b, st)
             \/ \E k \in {"void", "refund"} : BeginReversal(w, k, s)
             \/ BeginEdit(w, s)
      PROVE  LevelsRecorded'
  <2>1. /\ UNCHANGED <<quantity, levels, seen>> /\ pc'[w] # "itemsave"
        /\ \A v \in Worker \ {w} : pc'[v] = pc[v] /\ want'[v] = want[v] /\ txn'[v] = txn[v]
    BY <1>5 DEF BeginCreate, BeginReversal, BeginEdit, Start, rows, past, TypeOK
  <2> QED
    BY <2>1, LevelsKept
<1>6. ASSUME UNCHANGED <<pc, want, txn, seen>>, Recorded \/ UNCHANGED <<quantity, levels>>
      PROVE  LevelsRecorded'
  BY <1>6, LevelsKept
<1>7. ASSUME \/ \E s \in Sale : PutOnHold(s)
             \/ \E i \in Item, how \in {"ADD", "DEDUCT", "SET"}, n \in Amount :
                  AdjustStock(i, how, n)
             \/ AllServed \/ UNCHANGED vars
      PROVE  LevelsRecorded'
  BY <1>6, <1>7 DEF PutOnHold, AdjustStock, AllServed, vars, rows, past
<1> QED
  BY <1>2, <1>3, <1>4, <1>5, <1>7 DEF Next, Step, Arrival

(* Requests that go on with the basket they have, while that of their sale stands. *)
LEMMA BasketSame ==
  ASSUME BasketCopies,
         \A w \in Worker : AboutSale(w)' =>
            /\ AboutSale(w) /\ txn'[w].kind = txn[w].kind /\ txn'[w].sale = txn[w].sale
            /\ txn'[w].basket = txn[w].basket
            /\ txn[w].kind # "create" => basket'[txn[w].sale] = basket[txn[w].sale]
  PROVE  BasketCopies'
  BY DEF BasketCopies

LEMMA BasketStep ==
  ASSUME TypeOK, NumberInvariant, BasketCopies, [Next]_vars
  PROVE  BasketCopies'
<1>1. ASSUME NEW w \in Worker, NEW at, NEW q, Start(w, at, q),
             IF q.kind = "create" THEN q.basket \in Basket ELSE q.basket = basket[q.sale]
      PROVE  BasketCopies'
  <2>1. /\ txn'[w] = q /\ basket' = basket
        /\ \A v \in Worker \ {w} : /\ pc'[v] = pc[v] /\ txn'[v] = txn[v]
                                   /\ AboutSale(v)' = AboutSale(v)
    BY <1>1 DEF Start, rows, TypeOK, AboutSale
  <2> QED
    BY <1>1, <2>1 DEF BasketCopies
<1>2. ASSUME NEW w \in Worker, NEW s \in Sale,
             \/ \E t \in Terminal, b \in Basket, st \in StatusChoices : BeginCreate(w, s, t, b, st)
             \/ \E k \in {"void", "refund"} : BeginReversal(w, k, s)
             \/ BeginEdit(w, s)
      PROVE  BasketCopies'
  <2>1. ASSUME NEW t \in Terminal, NEW b \in Basket, NEW st \in StatusChoices,
               BeginCreate(w, s, t, b, st)
        PROVE  BasketCopies'
    BY <1>1, <2>1 DEF BeginCreate
  <2>2. ASSUME NEW k \in {"void", "refund"}, BeginReversal(w, k, s) PROVE BasketCopies'
    BY <1>1, <2>2 DEF BeginReversal
  <2>3. ASSUME BeginEdit(w, s) PROVE BasketCopies'
    BY <1>1, <2>3 DEF BeginEdit
  <2> QED
    BY <1>2, <2>1, <2>2, <2>3
<1>3. ASSUME NEW w \in Worker, NEW i \in Item, NEW how \in {"ADD", "DEDUCT", "SET"},
             NEW n \in Amount, BeginItemSave(w, i, how, n)
      PROVE  BasketCopies'
  <2>1. /\ basket' = basket /\ ~AboutSale(w)'
        /\ \A v \in Worker \ {w} : txn'[v] = txn[v] /\ AboutSale(v)' = AboutSale(v)
    BY <1>3 DEF BeginItemSave, Start, rows, TypeOK, AboutSale
  <2> QED
    BY <2>1, BasketSame
<1>4. ASSUME NEW w \in Worker, End(w), basket' = basket
      PROVE  BasketCopies'
  <2>1. ~AboutSale(w)' /\ \A v \in Worker \ {w} : txn'[v] = txn[v] /\ AboutSale(v)' = AboutSale(v)
    BY <1>4 DEF End, TypeOK, AboutSale
  <2> QED
    BY <1>4, <2>1, BasketSame
<1>5. ASSUME NEW w \in Worker,
             \/ CommitReversal(w) \/ CommitEdit(w) \/ CommitItemSave(w)
             \/ RefuseForStock(w) \/ RefuseForNumber(w) \/ DeadlockVictim(w) \/ Abort(w)
      PROVE  BasketCopies'
  BY <1>4, <1>5 DEF CommitReversal, CommitEdit, CommitItemSave, RefuseForStock,
                    RefuseForNumber, DeadlockVictim, Abort, rows
<1>6. ASSUME NEW w \in Worker, CommitCreate(w) PROVE BasketCopies'
  <2>1. Creates(w) /\ status[txn[w].sale] = "none"
    BY <1>6 DEF CommitCreate, AllLocked, AboutSale, Creates, NumberInvariant, CopiesExist
  <2>2. ~AboutSale(w)' /\ \A v \in Worker \ {w} : txn'[v] = txn[v] /\ AboutSale(v)' = AboutSale(v)
    BY <1>6 DEF CommitCreate, End, TypeOK, AboutSale
  <2>3. \A s \in Sale \ {txn[w].sale} : basket'[s] = basket[s]
    BY <1>6 DEF CommitCreate, TypeOK
  <2>4. ASSUME NEW v \in Worker \ {w}, AboutSale(v), txn[v].kind # "create"
        PROVE  txn[v].sale \in Sale \ {txn[w].sale}
    BY <2>1, <2>4, RequestType DEF NumberInvariant, CopiesExist
  <2> QED
    BY <2>2, <2>3, <2>4, BasketSame
<1>7. ASSUME NEW w \in Worker,
             LockTerminal(w) \/ (\E i \in Item : AskForItem(w, i)) \/ LockItem(w)
      PROVE  BasketCopies'
  <2>1. /\ UNCHANGED <<basket, txn>>
        /\ \A v \in Worker : pc'[v] = pc[v] \/ (pc[v] = "terminal" /\ pc'[v] = "number")
    BY <1>7 DEF LockTerminal, AskForItem, LockItem, rows, TypeOK
  <2> QED
    BY <2>1, BasketSame DEF AboutSale
<1>8. ASSUME NEW w \in Worker, GenerateSaleNumber(w) PROVE BasketCopies'
  <2>1. /\ basket' = basket
        /\ \A v \in Worker : /\ \/ pc'[v] = pc[v]
                                \/ pc[v] = "number" /\ pc'[v] = "items"
                             /\ txn'[v].basket = txn[v].basket
                             /\ txn'[v].kind = txn[v].kind
                             /\ txn'[v].sale = txn[v].sale
    BY <1>8 DEF GenerateSaleNumber, rows, TypeOK, Txn
  <2> QED
    BY <2>1, BasketSame DEF AboutSale
<1>9. ASSUME \/ \E s \in Sale : PutOnHold(s)
             \/ \E i \in Item, how \in {"ADD", "DEDUCT", "SET"}, n \in Amount :
                  AdjustStock(i, how, n)
             \/ AllServed \/ UNCHANGED vars
      PROVE  BasketCopies'
  <2>1. UNCHANGED <<basket, txn, pc>>
    BY <1>9 DEF PutOnHold, AdjustStock, AllServed, vars, rows
  <2> QED
    BY <2>1, BasketSame DEF AboutSale
<1> QED
  BY <1>2, <1>3, <1>5, <1>6, <1>7, <1>8, <1>9 DEF Next, Step, Arrival

(* ... so every step of the code is a step of the ledger or changes nothing in it. *)
Sold == [s \in Sale |-> IF status[s] = "none" THEN NoSale ELSE basket[s]]

LEMMA LedgerStep ==
  ASSUME TypeOK, TypeOK', LockInvariant, NumberInvariant, CopyInvariant, [Next]_vars
  PROVE  [Ledger!Next]_(Ledger!vars)
<1>0. ASSUME UNCHANGED <<quantity, basket, past>>,
             \A s \in Sale : status'[s] = "none" <=> status[s] = "none"
      PROVE  UNCHANGED Ledger!vars
  BY <1>0 DEF Ledger!vars, past
<1>1. ASSUME NEW w \in Worker, CommitCreate(w)
      PROVE  \E s \in Sale, b \in Basket : Ledger!Sell(s, b)
  <2> DEFINE s == txn[w].sale  b == txn[w].basket
  <2>1. /\ AboutSale(w) /\ txn[w].kind = "create" /\ Wanted(w) \subseteq Held(w)
        /\ s \in Sale /\ b \in [Item -> Nat]
    BY <1>1, RequestType DEF CommitCreate, AllLocked, AboutSale
  <2>2. status[s] = "none" /\ txn[w].status # "none" /\ b \in Basket
    BY <2>1 DEF NumberInvariant, CopiesExist, CopyInvariant, BasketCopies
  <2>3. \A i \in Item : /\ b[i] \in Nat /\ quantity[i] \in Int /\ quantity[i] >= 0
                        /\ i \in Wanted(w) <=> b[i] > 0
    BY <2>1 DEF Wanted, TypeOK, LockInvariant, NonNegative
  <2>4. \A i \in Wanted(w) : seen[w][i] = quantity[i] /\ b[i] <= quantity[i]
    BY <2>1 DEF Held, LockInvariant, EnoughLocked, FreshWhileLocked, Wanted
  <2>5. \A i \in Item : b[i] <= quantity[i]
    BY <2>3, <2>4
  <2>6. quantity' = [i \in Item |-> quantity[i] - b[i]]
    <3>1. \A i \in Item : quantity'[i] = quantity[i] - b[i]
      BY <1>1, <2>3, <2>4 DEF CommitCreate
    <3> QED
      BY <3>1 DEF TypeOK
  <2>7. /\ status' = [status EXCEPT ![s] = txn[w].status]
        /\ basket' = [basket EXCEPT ![s] = b]
        /\ UNCHANGED <<corrected, returned>>
    BY <1>1 DEF CommitCreate
  <2> HIDE DEF s, b
  <2>8. /\ Sold[s] = NoSale
        /\ Sold' = [Sold EXCEPT ![s] = b]
    BY <2>1, <2>2, <2>7 DEF TypeOK, Sold
  <2>9. Ledger!Sell(s, b)
    BY <2>5, <2>6, <2>7, <2>8 DEF Ledger!Sell, Sold
  <2>10. s \in Sale /\ b \in Basket
    BY <2>1, <2>2
  <2> QED
    BY <2>9, <2>10 DEF Ledger!Sell
<1>2. ASSUME NEW w \in Worker, CommitReversal(w)
      PROVE  Ledger!Reverse(txn[w].sale)
  <2> DEFINE s == txn[w].sale  b == txn[w].basket
  <2>1. /\ AboutSale(w) /\ txn[w].kind \in {"void", "refund"} /\ Wanted(w) \subseteq Held(w)
        /\ s \in Sale /\ b \in [Item -> Nat]
    BY <1>2, RequestType DEF CommitReversal, AllLocked, AboutSale
  <2>2. status[s] # "none" /\ basket[s] = b
    BY <2>1 DEF NumberInvariant, CopiesExist, CopyInvariant, BasketCopies
  <2>3. \A i \in Item : /\ b[i] \in Nat /\ quantity[i] \in Int
                        /\ i \in Wanted(w) <=> b[i] > 0
    BY <2>1 DEF Wanted, TypeOK
  <2>4. \A i \in Wanted(w) : seen[w][i] = quantity[i]
    BY <2>1 DEF Held, LockInvariant, FreshWhileLocked, Wanted
  <2>6. quantity' = [i \in Item |-> quantity[i] + b[i]]
    <3>1. \A i \in Item : quantity'[i] = quantity[i] + b[i]
      BY <1>2, <2>3, <2>4 DEF CommitReversal
    <3> QED
      BY <3>1 DEF TypeOK
  <2>7. /\ status' = [status EXCEPT ![s] = Final(txn[w].kind)]
        /\ returned' = [returned EXCEPT ![s] = @ + 1]
        /\ UNCHANGED <<basket, corrected>>
    BY <1>2 DEF CommitReversal
  <2> HIDE DEF s, b
  <2>8. Sold[s] = b
    BY <2>1, <2>2 DEF Sold
  <2>9. \A r \in Sale : status'[r] = "none" <=> status[r] = "none"
    BY <2>1, <2>2, <2>7 DEF TypeOK, Final
  <2>10. Sold' = Sold
    BY <2>7, <2>9 DEF Sold
  <2>11. b \in [Item -> Nat] /\ NoSale \notin [Item -> Nat]
    BY <2>1, PosAssumption
  <2>12. Sold[s] # NoSale
    BY <2>8, <2>11
  <2> QED
    BY <2>6, <2>7, <2>8, <2>10, <2>12 DEF Ledger!Reverse, Sold, s
<1>3. ASSUME NEW i \in Item, NEW how \in {"ADD", "DEDUCT", "SET"}, NEW n \in Amount,
             AdjustStock(i, how, n)
      PROVE  \E m \in Level : Ledger!Correct(i, quantity[i], m)
  <2> DEFINE m == Adjusted(how, n, quantity[i])
  <2> HIDE DEF m
  <2>1. m \in Level /\ quantity' = [quantity EXCEPT ![i] = m]
    BY <1>3 DEF AdjustStock, m
  <2>2. quantity'[i] = m
    BY <2>1 DEF TypeOK
  <2>3. corrected' = [corrected EXCEPT ![i] = @ + m - quantity[i]]
    BY <1>3, <2>2 DEF AdjustStock
  <2>4. UNCHANGED <<status, basket, returned>>
    BY <1>3 DEF AdjustStock
  <2> QED
    BY <2>1, <2>3, <2>4 DEF Ledger!Correct
<1>4. ASSUME NEW w \in Worker, CommitItemSave(w)
      PROVE  \E i \in Item, m \in Level : \E from \in levels[i] : Ledger!Correct(i, from, m)
  <2> DEFINE i == want[w]  from == seen[w][i]  m == from + txn[w].delta
  <2>1. i \in Item /\ from \in levels[i] /\ m \in Level
    BY <1>4 DEF CommitItemSave, CopyInvariant, LevelsRecorded, SaveFromRecord
  <2>2. from \in Int /\ txn[w].delta \in Int /\ corrected[i] \in Int
    BY <2>1, RequestType DEF TypeOK
  <2>3. /\ quantity' = [quantity EXCEPT ![i] = m]
        /\ corrected' = [corrected EXCEPT ![i] = @ + txn[w].delta]
        /\ UNCHANGED <<status, basket, returned>>
    BY <1>4 DEF CommitItemSave
  <2>4. corrected[i] + txn[w].delta = corrected[i] + m - from
    BY <2>2
  <2>5. Ledger!Correct(i, from, m)
    BY <2>3, <2>4 DEF Ledger!Correct
  <2> HIDE DEF i, from, m
  <2> QED
    BY <2>1, <2>5
<1>5. ASSUME NEW w \in Worker, CommitEdit(w)
      PROVE  UNCHANGED Ledger!vars
  <2>1. AboutSale(w) /\ txn[w].sale \in Sale /\ pc[w] = "edit"
    BY <1>5, RequestType DEF CommitEdit, AboutSale
  <2>2. status[txn[w].sale] # "none" /\ txn[w].status # "none"
    BY <2>1 DEF NumberInvariant, CopiesExist
  <2> QED
    BY <1>0, <1>5, <2>1, <2>2 DEF CommitEdit, TypeOK, past
<1>6. ASSUME NEW s \in Sale, PutOnHold(s) PROVE UNCHANGED Ledger!vars
  BY <1>0, <1>6 DEF PutOnHold, Existing, TypeOK
<1>7. ASSUME UNCHANGED <<rows, past>> PROVE UNCHANGED Ledger!vars
  BY <1>0, <1>7 DEF rows
<1>8. ASSUME NEW w \in Worker,
             \/ LockTerminal(w) \/ GenerateSaleNumber(w) \/ (\E i \in Item : AskForItem(w, i))
             \/ LockItem(w) \/ RefuseForStock(w) \/ RefuseForNumber(w)
             \/ DeadlockVictim(w) \/ Abort(w)
      PROVE  UNCHANGED <<rows, past>>
  BY <1>8 DEF LockTerminal, GenerateSaleNumber, AskForItem, LockItem, RefuseForStock,
              RefuseForNumber, DeadlockVictim, Abort
<1>9. ASSUME NEW w \in Worker,
             \/ \E s \in Sale, t \in Terminal, b \in Basket, st \in StatusChoices :
                  BeginCreate(w, s, t, b, st)
             \/ \E s \in Sale, k \in {"void", "refund"} : BeginReversal(w, k, s)
             \/ \E s \in Sale : BeginEdit(w, s)
             \/ \E i \in Item, how \in {"ADD", "DEDUCT", "SET"}, n \in Amount :
                  BeginItemSave(w, i, how, n)
      PROVE  UNCHANGED <<rows, past>>
  BY <1>9 DEF BeginCreate, BeginReversal, BeginEdit, BeginItemSave, Start
<1>10. CASE AllServed \/ UNCHANGED vars
  BY <1>7, <1>10 DEF AllServed, vars
<1>11. ASSUME Recorded,
              \/ \E s \in Sale, b \in Basket : Ledger!Sell(s, b)
              \/ \E s \in Sale : Ledger!Reverse(s)
              \/ \E i \in Item, m \in Level : Ledger!Correct(i, quantity[i], m)
              \/ \E i \in Item, m \in Level : \E from \in levels[i] : Ledger!Correct(i, from, m)
       PROVE  Ledger!Next
  BY <1>11 DEF Ledger!Next, Recorded
<1>12. CASE Arrival
  <2>1. ASSUME NEW i \in Item, NEW how \in {"ADD", "DEDUCT", "SET"}, NEW n \in Amount,
               AdjustStock(i, how, n)
        PROVE  Ledger!Next
    BY <1>3, <1>11, <2>1 DEF AdjustStock
  <2> QED
    BY <1>6, <1>7, <1>9, <1>12, <2>1 DEF Arrival
<1>13. CASE \E w \in Worker : Step(w) \/ Abort(w)
  <2>1. ASSUME NEW w \in Worker, CommitCreate(w) PROVE Ledger!Next
    BY <1>1, <1>11, <2>1 DEF CommitCreate
  <2>2. ASSUME NEW w \in Worker, CommitReversal(w) PROVE Ledger!Next
    <3>1. txn[w].sale \in Sale /\ Recorded
      BY <2>2, RequestType DEF CommitReversal
    <3>2. Ledger!Reverse(txn[w].sale)
      BY <1>2, <2>2
    <3> QED
      BY <1>11, <3>1, <3>2
  <2>3. ASSUME NEW w \in Worker, CommitItemSave(w) PROVE Ledger!Next
    BY <1>4, <1>11, <2>3 DEF CommitItemSave
  <2> QED
    BY <1>5, <1>7, <1>8, <1>13, <2>1, <2>2, <2>3 DEF Step
<1> QED
  BY <1>10, <1>12, <1>13 DEF Next

LEMMA LedgerInit == Init => Ledger!Init
BY DEF Init, Ledger!Init, Empty

(* Whatever requests overlap, of whatever kinds, and with every sale created in any
   status: each sale takes its basket out of stock once, all lines or none, and only
   from stock that is there; each void or refund that is accepted, a second one of the
   same sale included, puts exactly that basket back; and stock moves otherwise only
   by a correction, from the current level or, on a page, from an earlier one. *)
THEOREM PosImplementsLedger == Spec => ImplementsLedger
<1>1. Init => NumberInvariant /\ CopyInvariant
  BY DEF Init, NumberInvariant, NumberedSales, CopiesExist, NewSales, PickedNumbers,
         NumbersConsecutive, Existing, Creates, AboutSale, CopyInvariant, BasketCopies,
         LevelsRecorded
<1>2. TypeOK /\ TypeOK' /\ NumberInvariant /\ CopyInvariant /\ [Next]_vars
        => NumberInvariant' /\ CopyInvariant'
  BY NumberStep, LevelsStep, BasketStep DEF CopyInvariant
<1>3. TypeOK /\ TypeOK' /\ LockInvariant /\ NumberInvariant /\ CopyInvariant /\ [Next]_vars
        => [Ledger!Next]_(Ledger!vars)
  BY LedgerStep
<1> QED
  BY <1>1, <1>2, <1>3, LedgerInit, TypeCorrect, LockCorrect, PTL
     DEF Spec, ImplementsLedger, Ledger!Spec
-----------------------------------------------------------------------------
(* Waiting for locks. *)
Waits(w) == want[w] # NoRow /\ lock[want[w]] # Nobody

(* Whenever requests are in hand, one of them waits for no lock, or stands where the
   database's deadlock detection ends it: no wait is for ever. *)
NobodyStuck == (\E w \in Worker : pc[w] # "idle") =>
                  \E w \in Worker : pc[w] # "idle" /\ (Waits(w) => Deadlocked(w))

(* What Answered needs of the locks, for any number of workers, items and terminals:
   whoever holds a lock has a request in hand, so if all wait, all are deadlocked. *)
THEOREM NobodyStuckHolds == Spec => []NobodyStuck
<1>1. TypeOK /\ LockInvariant => NobodyStuck
  <2> SUFFICES ASSUME TypeOK, LockInvariant, NEW w \in Worker, pc[w] # "idle",
                      \A v \in Worker : pc[v] # "idle" => Waits(v)
               PROVE Deadlocked(w)
    BY DEF NobodyStuck
  <2> DEFINE S == {v \in Worker : pc[v] # "idle"}
  <2>1. ASSUME NEW v \in S
        PROVE WaitsWithin(v, S)
    <3>1. Waits(v) /\ want[v] \in Row
      BY DEF Waits, TypeOK
    <3>2. lock[want[v]] \in Worker
      BY <3>1 DEF Waits, TypeOK
    <3>3. pc[lock[want[v]]] # "idle"
      BY <3>1, <3>2 DEF LockInvariant, LockPhases
    <3> QED
      BY <3>1, <3>2, <3>3 DEF Waits, WaitsWithin
  <2> QED
    BY <2>1 DEF Deadlocked
<1> QED
  BY <1>1, TypeCorrect, LockCorrect, PTL
=============================================================================
