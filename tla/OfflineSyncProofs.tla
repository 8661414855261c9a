-------------------------- MODULE OfflineSyncProofs --------------------------
(* Theorems about the offline queue, for any number of transactions, tabs and
   connection drops. *)
EXTENDS OfflineSync, TLAPS

LEMMA TypeStep == ASSUME TypeOK, [Next]_vars PROVE TypeOK'
<1> USE DEF TypeOK, Outcome
<1>1. CASE GoOnline
  BY <1>1 DEF GoOnline, tabs, history
<1>2. CASE Drop
  <2>1. drops' \in 0 .. MaxDrops
    BY <1>2, OfflineAssumption DEF Drop
  <2>2. online' \in BOOLEAN
    BY <1>2 DEF Drop
  <2> QED
    BY <1>2, <2>1, <2>2 DEF Drop, tabs, history
<1>3. CASE SoldElsewhere
  BY <1>3, OfflineAssumption DEF SoldElsewhere, tabs, history
<1>4. ASSUME NEW t \in Txn, CheckoutOffline(t) PROVE TypeOK'
  BY <1>4 DEF CheckoutOffline, SaveOffline
<1>5. ASSUME NEW t \in Txn, CheckoutCutOff(t) PROVE TypeOK'
  <2>1. drops' \in 0 .. MaxDrops /\ stock' \in 0 .. Stock
    BY <1>5, OfflineAssumption DEF CheckoutCutOff, SaveOffline
  <2>2. online' \in BOOLEAN
    BY <1>5 DEF CheckoutCutOff
  <2>3. /\ told' \in [Txn -> BOOLEAN] /\ inbox' \in [Tab -> SUBSET Txn]
        /\ sales' \in [Txn -> Nat]
    BY <1>5 DEF CheckoutCutOff, SaveOffline
  <2> QED
    BY <1>5, <2>1, <2>2, <2>3 DEF CheckoutCutOff, SaveOffline
<1>6. ASSUME NEW b \in Tab, NEW t \in Txn, StoreOfflineTransaction(b, t) PROVE TypeOK'
  BY <1>6 DEF StoreOfflineTransaction, history
<1>7. ASSUME NEW b \in Tab, NEW t \in Txn, Validate(b, t) PROVE TypeOK'
  BY <1>7 DEF Validate, Advance, history
<1>8. ASSUME NEW b \in Tab, StartSync(b) PROVE TypeOK'
  BY <1>8 DEF StartSync, history
<1>9. ASSUME NEW b \in Tab, Post(b) PROVE TypeOK'
  BY <1>9, OfflineAssumption DEF Post, Advance, history
<1>10. ASSUME NEW b \in Tab, Receive(b) PROVE TypeOK'
  BY <1>10 DEF Receive, Advance, history
<1>11. ASSUME NEW b \in Tab, UpdateTransactionStatus(b) PROVE TypeOK'
  BY <1>11 DEF UpdateTransactionStatus, Advance, history
<1>12. ASSUME NEW b \in Tab, EndSync(b) PROVE TypeOK'
  BY <1>12 DEF EndSync, LoadPendingTransactions, GetPendingTransactions
<1>13. ASSUME NEW b \in Tab, Close(b) PROVE TypeOK'
  BY <1>13 DEF Close, Unrecorded
<1>14. ASSUME NEW b \in Tab, Load(b) PROVE TypeOK'
  BY <1>14 DEF Load, LoadPendingTransactions, GetPendingTransactions
<1>15. CASE UNCHANGED vars
  BY <1>15 DEF vars, tabs, history
<1> QED
  BY <1>1, <1>2, <1>3, <1>4, <1>5, <1>6, <1>7, <1>8, <1>9, <1>10, <1>11, <1>12, <1>13,
     <1>14, <1>15 DEF Next, TabStep

(* Every reachable state is well typed: no interleaving of tabs and connection puts
   a transaction, or what a tab knows of it, outside the values the scripts use. *)
THEOREM TypeCorrect == Spec => []TypeOK
<1>1. Init => TypeOK
  <2> SUFFICES ASSUME Init PROVE TypeOK
    OBVIOUS
  <2>1. drops \in 0 .. MaxDrops /\ stock \in 0 .. Stock /\ sales \in [Txn -> Nat]
    BY OfflineAssumption DEF Init
  <2>2. online \in BOOLEAN /\ doubtful \in SUBSET Txn /\ orphan \in SUBSET Txn
    BY DEF Init
  <2>3. /\ told \in [Txn -> BOOLEAN] /\ open \in [Tab -> BOOLEAN]
        /\ disk \in [Txn -> {"none", "pending"} \cup Outcome]
        /\ inbox \in [Tab -> SUBSET Txn] /\ queue \in [Tab -> SUBSET Txn]
        /\ visited \in [Tab -> SUBSET Txn] /\ cur \in [Tab -> Txn \cup {NoTxn}]
        /\ at \in [Tab -> {"idle", "next", "valid", "replied"} \cup Outcome]
    BY DEF Init
  <2> QED
    BY <2>1, <2>2, <2>3 DEF TypeOK
<1> QED
  BY <1>1, TypeStep, PTL DEF Spec
-----------------------------------------------------------------------------
(* Between Validate and UpdateTransactionStatus a tab has a transaction in hand, and
   once the response has come, or is on its way, the server has made its sale. *)
InHand == \A b \in Tab :
             /\ at[b] \notin {"idle", "next"} => cur[b] \in Txn
             /\ at[b] \in {"replied", "synced"} => sales[cur[b]] >= 1

SyncInvariant == InHand /\ SyncedHasSale

LEMMA SyncStep == ASSUME TypeOK, SyncInvariant, [Next]_vars PROVE SyncInvariant'
<1> USE DEF SyncInvariant, InHand, SyncedHasSale, TypeOK, Outcome
<1>1. CASE GoOnline \/ Drop \/ SoldElsewhere
  BY <1>1 DEF GoOnline, Drop, SoldElsewhere, tabs
<1>2. ASSUME NEW t \in Txn, CheckoutOffline(t) PROVE SyncInvariant'
  BY <1>2 DEF CheckoutOffline, SaveOffline
<1>3. ASSUME NEW t \in Txn, CheckoutCutOff(t) PROVE SyncInvariant'
  BY <1>3 DEF CheckoutCutOff, SaveOffline
<1>4. ASSUME NEW b \in Tab, NEW t \in Txn, StoreOfflineTransaction(b, t)
      PROVE  SyncInvariant'
  BY <1>4 DEF StoreOfflineTransaction
<1>5. ASSUME NEW b \in Tab, NEW t \in Txn, Validate(b, t) PROVE SyncInvariant'
  BY <1>5 DEF Validate, Advance
<1>6. ASSUME NEW b \in Tab, StartSync(b) PROVE SyncInvariant'
  BY <1>6 DEF StartSync
<1>7. ASSUME NEW b \in Tab, Post(b) PROVE SyncInvariant'
  BY <1>7 DEF Post, Advance
<1>8. ASSUME NEW b \in Tab, Receive(b) PROVE SyncInvariant'
  BY <1>8 DEF Receive, Advance
<1>9. ASSUME NEW b \in Tab, UpdateTransactionStatus(b) PROVE SyncInvariant'
  BY <1>9 DEF UpdateTransactionStatus, Advance
<1>10. ASSUME NEW b \in Tab, EndSync(b) PROVE SyncInvariant'
  BY <1>10 DEF EndSync
<1>11. ASSUME NEW b \in Tab, Close(b) PROVE SyncInvariant'
  BY <1>11 DEF Close
<1>12. ASSUME NEW b \in Tab, Load(b) PROVE SyncInvariant'
  BY <1>12 DEF Load
<1>13. CASE UNCHANGED vars
  BY <1>13 DEF vars, tabs
<1> QED
  BY <1>1, <1>2, <1>3, <1>4, <1>5, <1>6, <1>7, <1>8, <1>9, <1>10, <1>11, <1>12, <1>13
     DEF Next, TabStep

(* Whatever closes, drops or overlaps, a transaction that the store calls synced has
   its sale on the server (pos-offline.js:252-262). *)
THEOREM SyncedCorrect == Spec => []SyncedHasSale
<1>1. Init => SyncInvariant
  BY DEF Init, SyncInvariant, InHand, SyncedHasSale
<1>2. SyncInvariant => SyncedHasSale
  BY DEF SyncInvariant
<1> QED
  BY <1>1, <1>2, TypeCorrect, SyncStep, PTL DEF Spec
-----------------------------------------------------------------------------
(* What each tab remembers: a closed one nothing, an open one has taken only what is in
   its queue, the transaction in hand included, and the queue holds what is stored. *)
Remembered == \A b \in Tab :
    /\ ~open[b] => queue[b] = {} /\ inbox[b] = {} /\ at[b] = "idle"
    /\ visited[b] \subseteq queue[b]
    /\ at[b] \notin {"idle", "next"} => cur[b] \in visited[b]
    /\ \A t \in queue[b] : disk[t] # "none"

LEMMA RememberedStep == ASSUME TypeOK, Remembered, [Next]_vars PROVE Remembered'
<1> USE DEF Remembered, TypeOK, Outcome
<1>1. CASE GoOnline \/ Drop \/ SoldElsewhere
  BY <1>1 DEF GoOnline, Drop, SoldElsewhere, tabs
<1>2. ASSUME NEW t \in Txn, CheckoutOffline(t) \/ CheckoutCutOff(t) PROVE Remembered'
  BY <1>2 DEF CheckoutOffline, CheckoutCutOff, SaveOffline
<1>3. ASSUME NEW b \in Tab, NEW t \in Txn, StoreOfflineTransaction(b, t) PROVE Remembered'
  BY <1>3 DEF StoreOfflineTransaction
<1>4. ASSUME NEW b \in Tab, NEW t \in Txn, Validate(b, t) PROVE Remembered'
  BY <1>4 DEF Validate, Advance
<1>5. ASSUME NEW b \in Tab, StartSync(b) \/ Post(b) \/ Receive(b) PROVE Remembered'
  BY <1>5 DEF StartSync, Post, Receive, Advance
<1>6. ASSUME NEW b \in Tab, UpdateTransactionStatus(b) PROVE Remembered'
  BY <1>6 DEF UpdateTransactionStatus, Advance
<1>7. ASSUME NEW b \in Tab, EndSync(b) PROVE Remembered'
  BY <1>7 DEF EndSync, LoadPendingTransactions, GetPendingTransactions
<1>8. ASSUME NEW b \in Tab, Close(b) PROVE Remembered'
  BY <1>8 DEF Close
<1>9. ASSUME NEW b \in Tab, Load(b) PROVE Remembered'
  BY <1>9 DEF Load, LoadPendingTransactions, GetPendingTransactions
<1>10. CASE UNCHANGED vars
  BY <1>10 DEF vars, tabs
<1> QED
  BY <1>1, <1>2, <1>3, <1>4, <1>5, <1>6, <1>7, <1>8, <1>9, <1>10 DEF Next, TabStep
-----------------------------------------------------------------------------
(* What is marked as a conflict has not been sold. *)
ConflictUnsold == \A t \in Txn \ doubtful : disk[t] = "conflict" => sales[t] = 0

(* What keeps t, if nothing has put it in doubt, to one sale: one tab at most has it to
   send, it is pending until that tab has written its status, and it is unsold until
   that tab has posted it. *)
OneSender(t) == \A b, c \in Tab : Waiting(b, t) /\ Waiting(c, t) => b = c

NotYetSold(t) == \A b \in Tab : Waiting(b, t) =>
    /\ disk[t] = "pending"
    /\ (at[b] \in {"replied", "synced", "failed"} /\ cur[b] = t) \/ sales[t] = 0

SoldIsRecorded(t) == sales[t] # 0 =>
    /\ disk[t] \notin {"none", "conflict"}
    /\ disk[t] = "pending" =>
         \E b \in Tab : cur[b] = t /\ at[b] \in {"replied", "synced", "failed"}

Once(t) == OneSender(t) /\ NotYetSold(t) /\ SoldIsRecorded(t) /\ sales[t] <= 1

OnceInvariant == \A t \in Txn \ doubtful : Once(t)

\* Nothing that concerns t has changed.
LEMMA OnceSame ==
  ASSUME TypeOK, NEW t \in Txn, Once(t), disk'[t] = disk[t], sales'[t] = sales[t],
         \A b \in Tab : Waiting(b, t)' => Waiting(b, t),
         \A b \in Tab : at[b] \in {"replied", "synced", "failed"} /\ cur[b] = t =>
                        at'[b] \in {"replied", "synced", "failed"} /\ cur'[b] = t
  PROVE  Once(t)'
<1>1. OneSender(t)'
  BY DEF Once, OneSender
<1>2. NotYetSold(t)'
  BY DEF Once, NotYetSold
<1>3. SoldIsRecorded(t)'
  BY DEF Once, SoldIsRecorded
<1> QED
  BY <1>1, <1>2, <1>3 DEF Once

LEMMA OnceStep ==
  ASSUME TypeOK, Remembered, [Next]_vars, NEW t \in Txn, t \notin doubtful', t \in doubtful \/ Once(t)
  PROVE  Once(t)'
<1> DEFINE Sent == {"replied", "synced", "failed"}
<1>0. ASSUME doubtful \subseteq doubtful' PROVE Once(t)
  BY <1>0
<1>1. CASE GoOnline \/ Drop \/ SoldElsewhere \/ UNCHANGED vars
  <2>1. UNCHANGED <<disk, tabs, sales, doubtful>>
    BY <1>1 DEF GoOnline, Drop, SoldElsewhere, vars, history
  <2> QED
    BY <1>0, <2>1, OnceSame DEF tabs, Waiting
<1>2. ASSUME NEW u \in Txn, CheckoutOffline(u) \/ CheckoutCutOff(u) PROVE Once(t)'
  <2>1. /\ UNCHANGED <<disk, queue, visited, at, cur>> /\ doubtful \subseteq doubtful'
        /\ sales'[t] = sales[t]
    BY <1>2 DEF CheckoutOffline, CheckoutCutOff, SaveOffline, TypeOK
  <2> QED
    BY <1>0, <2>1, OnceSame DEF Waiting
<1>3. ASSUME NEW b \in Tab, NEW u \in Txn, StoreOfflineTransaction(b, u) PROVE Once(t)'
  <2>1. /\ UNCHANGED <<visited, at, cur, sales, doubtful>>
        /\ IF disk[u] = "none"
           THEN /\ disk' = [disk EXCEPT ![u] = "pending"]
                /\ queue' = [queue EXCEPT ![b] = @ \cup {u}]
           ELSE UNCHANGED <<disk, queue>>
    BY <1>3 DEF StoreOfflineTransaction, IsNewKey, history
  <2>2. Once(t)
    BY <1>0, <2>1
  <2>3. CASE t = u /\ disk[u] = "none"
    <3>1. sales[t] = 0 /\ disk'[t] = "pending" /\ \A c \in Tab : t \notin queue[c]
      BY <2>1, <2>2, <2>3 DEF Once, SoldIsRecorded, Remembered, TypeOK
    <3>2. \A c \in Tab : Waiting(c, t)' => c = b
      BY <2>1, <2>3, <3>1 DEF Waiting, TypeOK
    <3> QED
      BY <2>1, <2>2, <3>1, <3>2 DEF Once, OneSender, NotYetSold, SoldIsRecorded
  <2>4. CASE ~(t = u /\ disk[u] = "none")
    <3>1. disk'[t] = disk[t] /\ \A c \in Tab : t \in queue'[c] => t \in queue[c]
      BY <2>1, <2>4 DEF TypeOK
    <3> QED
      BY <2>1, <2>2, <3>1, OnceSame DEF Waiting
  <2> QED
    BY <2>3, <2>4
<1>4. ASSUME NEW b \in Tab, NEW u \in Txn, Validate(b, u) PROVE Once(t)'
  <2>1. /\ UNCHANGED <<disk, queue, sales, doubtful>> /\ at[b] = "next"
        /\ u \in queue[b] \ visited[b] /\ cur'[b] = u /\ visited'[b] = visited[b] \cup {u}
        /\ \A c \in Tab \ {b} : at'[c] = at[c] /\ cur'[c] = cur[c] /\ visited'[c] = visited[c]
    BY <1>4 DEF Validate, Advance, TypeOK, history
  <2>2. \A c \in Tab : Waiting(c, t)' => Waiting(c, t)
    BY <2>1 DEF Waiting
  <2> QED
    BY <1>0, <2>1, <2>2, OnceSame
<1>5. ASSUME NEW b \in Tab, StartSync(b) PROVE Once(t)'
  <2>1. /\ UNCHANGED <<disk, queue, visited, cur, sales, doubtful>> /\ at[b] = "idle"
        /\ at'[b] = "next" /\ \A c \in Tab \ {b} : at'[c] = at[c]
    BY <1>5 DEF StartSync, TypeOK, history
  <2>2. \A c \in Tab : Waiting(c, t)' => Waiting(c, t)
    BY <2>1 DEF Waiting
  <2> QED
    BY <1>0, <2>1, <2>2, OnceSame
<1>6. ASSUME NEW b \in Tab, Post(b) PROVE Once(t)'
  <2>1. /\ UNCHANGED <<disk, queue, visited, cur, doubtful>> /\ at[b] = "valid"
        /\ at'[b] \in Sent /\ \A c \in Tab \ {b} : at'[c] = at[c]
        /\ \/ sales' = sales
           \/ sales' = [sales EXCEPT ![cur[b]] = @ + 1]
    BY <1>6 DEF Post, Advance, TypeOK, history
  <2>2. \A c \in Tab : Waiting(c, t)' => Waiting(c, t)
    BY <2>1 DEF Waiting
  <2>3. Once(t)
    BY <1>0, <2>1
  <2>4. CASE cur[b] # t \/ sales' = sales
    <3>1. sales'[t] = sales[t]
      BY <2>1, <2>4 DEF TypeOK
    <3> QED
      BY <2>1, <2>2, <2>3, <3>1, OnceSame
  <2>5. CASE cur[b] = t /\ sales' = [sales EXCEPT ![cur[b]] = @ + 1]
    <3>1. Waiting(b, t)
      BY <2>1, <2>5 DEF Waiting, Remembered
    <3>2. sales[t] = 0 /\ disk[t] = "pending" /\ sales'[t] = 1
      BY <2>1, <2>3, <2>5, <3>1 DEF Once, NotYetSold, TypeOK
    <3>3. \A c \in Tab : Waiting(c, t)' => c = b
      BY <2>2, <2>3, <3>1 DEF Once, OneSender
    <3> QED
      BY <2>1, <2>5, <3>2, <3>3 DEF Once, OneSender, NotYetSold, SoldIsRecorded
  <2> QED
    BY <2>1, <2>4, <2>5
<1>7. ASSUME NEW b \in Tab, Receive(b) PROVE Once(t)'
  <2>1. /\ UNCHANGED <<disk, queue, visited, cur, sales, doubtful>> /\ at[b] = "replied"
        /\ at'[b] \in Sent /\ \A c \in Tab \ {b} : at'[c] = at[c]
    BY <1>7 DEF Receive, Advance, TypeOK, history
  <2>2. \A c \in Tab : Waiting(c, t)' => Waiting(c, t)
    BY <2>1 DEF Waiting
  <2> QED
    BY <1>0, <2>1, <2>2, OnceSame
<1>8. ASSUME NEW b \in Tab, UpdateTransactionStatus(b) PROVE Once(t)'
  <2>1. /\ UNCHANGED <<queue, visited, cur, sales, doubtful>> /\ at[b] \in Outcome
        /\ disk' = [disk EXCEPT ![cur[b]] = at[b]]
        /\ at'[b] = "next" /\ \A c \in Tab \ {b} : at'[c] = at[c]
    BY <1>8 DEF UpdateTransactionStatus, Advance, TypeOK, history, Outcome
  <2>2. \A c \in Tab : Waiting(c, t)' => Waiting(c, t)
    BY <2>1 DEF Waiting, Outcome
  <2>3. Once(t)
    BY <1>0, <2>1
  <2>4. CASE cur[b] # t
    <3>1. disk'[t] = disk[t]
      BY <2>1, <2>4 DEF TypeOK
    <3> QED
      BY <2>1, <2>2, <2>3, <2>4, <3>1, OnceSame
  <2>5. CASE cur[b] = t
    <3>1. Waiting(b, t) /\ ~Waiting(b, t)'
      BY <2>1, <2>5 DEF Waiting, Remembered, Outcome
    <3>2. \A c \in Tab : ~Waiting(c, t)'
      BY <2>2, <2>3, <3>1 DEF Once, OneSender
    <3>3. disk'[t] = at[b] /\ (at[b] = "conflict" => sales[t] = 0)
      BY <2>1, <2>3, <2>5, <3>1 DEF Once, NotYetSold, TypeOK
    <3> QED
      BY <2>1, <2>3, <3>2, <3>3 DEF Once, OneSender, NotYetSold, SoldIsRecorded, Outcome
  <2> QED
    BY <2>4, <2>5
<1>9. ASSUME NEW b \in Tab, EndSync(b) \/ Load(b) PROVE Once(t)'
  <2>1. /\ UNCHANGED <<disk, sales>> /\ doubtful \subseteq doubtful'
        /\ queue'[b] = GetPendingTransactions /\ at'[b] \notin Sent
        /\ at[b] \in {"idle", "next"}
        /\ \A c \in Tab \ {b} : /\ queue'[c] = queue[c] /\ visited'[c] = visited[c]
                                /\ at'[c] = at[c] /\ cur'[c] = cur[c]
        /\ disk[t] = "pending" => \A c \in Tab \ {b} : t \notin queue[c]
    BY <1>9 DEF EndSync, Load, LoadPendingTransactions, GetPendingTransactions, TypeOK, Remembered
  <2>2. Once(t)
    BY <1>0, <2>1
  <2>3. \A c \in Tab \ {b} : Waiting(c, t)' => Waiting(c, t)
    BY <2>1 DEF Waiting
  <2>4. CASE disk[t] = "pending"
    <3>1. \A c \in Tab \ {b} : ~Waiting(c, t)'
      BY <2>1, <2>4 DEF Waiting
    <3>2. sales[t] = 0
      <4>1. \A c \in Tab : ~(cur[c] = t /\ at[c] \in Sent)
        BY <2>1, <2>4 DEF Remembered
      <4> QED
        BY <2>2, <2>4, <4>1 DEF Once, SoldIsRecorded
    <3> QED
      BY <2>1, <2>2, <2>4, <3>1, <3>2 DEF Once, OneSender, NotYetSold, SoldIsRecorded
  <2>5. CASE disk[t] # "pending"
    <3>1. ~Waiting(b, t)'
      BY <2>1, <2>5 DEF Waiting, GetPendingTransactions
    <3>2. \A c \in Tab : Waiting(c, t)' => Waiting(c, t)
      BY <2>3, <3>1
    <3>3. \A c \in Tab : at[c] \in Sent /\ cur[c] = t => at'[c] \in Sent /\ cur'[c] = t
      BY <2>1
    <3> QED
      BY <2>1, <2>2, <3>2, <3>3, OnceSame
  <2> QED
    BY <2>4, <2>5
<1>10. ASSUME NEW b \in Tab, Close(b) PROVE Once(t)'
  <2>1. /\ UNCHANGED <<disk, sales>> /\ doubtful \subseteq doubtful'
        /\ queue'[b] = {} /\ ~(cur[b] = t /\ at[b] \in Sent)
        /\ \A c \in Tab \ {b} : /\ queue'[c] = queue[c] /\ visited'[c] = visited[c]
                                /\ at'[c] = at[c] /\ cur'[c] = cur[c]
    BY <1>10 DEF Close, Unrecorded, TypeOK
  <2>2. \A c \in Tab : Waiting(c, t)' => Waiting(c, t)
    BY <2>1 DEF Waiting
  <2> QED
    BY <1>0, <2>1, <2>2, OnceSame
<1> QED
  BY <1>1, <1>2, <1>3, <1>4, <1>5, <1>6, <1>7, <1>8, <1>9, <1>10 DEF Next, TabStep

LEMMA OnceCorrect == Spec => []OnceInvariant
<1>1. Init => Remembered /\ OnceInvariant
  BY DEF Init, Remembered, OnceInvariant, Once, OneSender, NotYetSold, SoldIsRecorded, Waiting
<1>2. TypeOK /\ Remembered /\ OnceInvariant /\ [Next]_vars => Remembered' /\ OnceInvariant'
  BY RememberedStep, OnceStep DEF OnceInvariant
<1> QED
  BY <1>1, <1>2, TypeCorrect, PTL DEF Spec

(* However many tabs sync at once, close and open, and whatever requests and responses
   are lost, a transaction becomes two sales only if it was in one of the three doubtful
   situations: a checkout cut off, a tab closed between the POST and the status, a queue
   loaded while another tab had it (pos-offline.js:236, 257, 277). *)
THEOREM NoDuplicateCorrect == Spec => []NoDuplicateSale
<1>1. OnceInvariant => NoDuplicateSale
  BY DEF OnceInvariant, Once, NoDuplicateSale
<1> QED
  BY <1>1, OnceCorrect, PTL

(* With the same exceptions, a sale shown as a conflict was made nowhere: the cashier
   who resolves it by selling again sells it once (pos-offline.js:261). *)
THEOREM ConflictCorrect == Spec => []ConflictUnsold
<1>1. OnceInvariant => ConflictUnsold
  BY DEF OnceInvariant, Once, SoldIsRecorded, ConflictUnsold
<1> QED
  BY <1>1, OnceCorrect, PTL
-----------------------------------------------------------------------------
LEMMA ForgottenStep == ASSUME TypeOK, Remembered, NoneForgotten, [Next]_vars
                       PROVE NoneForgotten'
<1> SUFFICES ASSUME NEW t \in Txn, t \notin orphan'
             PROVE /\ told'[t] /\ disk'[t] = "none" => \E b \in Tab : t \in inbox'[b]
                   /\ disk'[t] = "pending" => \E b \in Tab : Waiting(b, t)'
  BY DEF NoneForgotten
<1> DEFINE Goal == /\ told'[t] /\ disk'[t] = "none" => \E b \in Tab : t \in inbox'[b]
                   /\ disk'[t] = "pending" => \E b \in Tab : Waiting(b, t)'
<1>0. ASSUME t \notin orphan
      PROVE  /\ told[t] /\ disk[t] = "none" => \E b \in Tab : t \in inbox[b]
             /\ disk[t] = "pending" => \E b \in Tab : Waiting(b, t)
  BY <1>0 DEF NoneForgotten
<1>1. CASE GoOnline \/ Drop \/ SoldElsewhere
  BY <1>0, <1>1 DEF GoOnline, Drop, SoldElsewhere, tabs, history, Waiting
<1>2. ASSUME NEW u \in Txn, CheckoutOffline(u) \/ CheckoutCutOff(u) PROVE Goal
  <2>1. /\ told' = [told EXCEPT ![u] = TRUE]
        /\ inbox' = [b \in Tab |-> IF open[b] THEN inbox[b] \cup {u} ELSE inbox[b]]
        /\ UNCHANGED <<disk, queue, visited, at, cur, orphan>>
        /\ \E b \in Tab : open[b]
    BY <1>2 DEF CheckoutOffline, CheckoutCutOff, SaveOffline
  <2>2. /\ \A b \in Tab : inbox[b] \subseteq inbox'[b]
        /\ \E b \in Tab : u \in inbox'[b]
    BY <2>1 DEF TypeOK
  <2> QED
    BY <1>0, <2>1, <2>2 DEF Waiting, TypeOK
<1>3. ASSUME NEW b \in Tab, NEW u \in Txn, StoreOfflineTransaction(b, u) PROVE Goal
  <2>1. /\ told' = told /\ inbox' = [inbox EXCEPT ![b] = @ \ {u}]
        /\ UNCHANGED <<visited, at, cur, orphan>>
        /\ IF disk[u] = "none"
           THEN /\ disk' = [disk EXCEPT ![u] = "pending"]
                /\ queue' = [queue EXCEPT ![b] = @ \cup {u}]
           ELSE UNCHANGED <<disk, queue>>
    BY <1>3 DEF StoreOfflineTransaction, IsNewKey, history
  <2>2. CASE t = u /\ disk[u] = "none"
    <3>1. u \in queue'[b] /\ u \notin visited'[b] /\ disk'[u] = "pending"
      BY <2>1, <2>2 DEF TypeOK, Remembered
    <3> QED
      BY <2>2, <3>1 DEF Waiting
  <2>3. CASE t = u /\ disk[u] # "none"
    BY <1>0, <2>1, <2>3 DEF Waiting
  <2>4. CASE t # u
    <3>1. disk'[t] = disk[t] /\ \A c \in Tab : t \in inbox[c] => t \in inbox'[c]
      BY <2>1, <2>4 DEF TypeOK
    <3>2. \A c \in Tab : queue[c] \subseteq queue'[c]
      BY <2>1 DEF TypeOK
    <3> QED
      BY <1>0, <2>1, <3>1, <3>2 DEF Waiting
  <2> QED
    BY <2>2, <2>3, <2>4
<1>4. ASSUME NEW b \in Tab, NEW u \in Txn, Validate(b, u) PROVE Goal
  <2>1. UNCHANGED <<told, disk, inbox, queue, orphan>>
    BY <1>4 DEF Validate, Advance, history
  <2>2. /\ at[b] = "next" /\ at'[b] \notin {"idle", "next"}
        /\ cur'[b] = u /\ visited'[b] = visited[b] \cup {u}
    BY <1>4 DEF Validate, Advance, TypeOK
  <2>3. \A c \in Tab \ {b} : at'[c] = at[c] /\ cur'[c] = cur[c] /\ visited'[c] = visited[c]
    BY <1>4 DEF Validate, Advance, TypeOK
  <2>4. \A c \in Tab : Waiting(c, t) => Waiting(c, t)'
    BY <2>1, <2>2, <2>3 DEF Waiting
  <2> QED
    BY <1>0, <2>1, <2>4
<1>5. ASSUME NEW b \in Tab, StartSync(b) \/ Post(b) \/ Receive(b) PROVE Goal
  <2>1. UNCHANGED <<told, disk, inbox, queue, visited, cur, orphan>>
    BY <1>5 DEF StartSync, Post, Receive, Advance, history
  <2>2. \A c \in Tab : at'[c] \in {"idle", "next"} => at[c] \in {"idle", "next"}
    BY <1>5 DEF StartSync, Post, Receive, Advance, TypeOK
  <2> QED
    BY <1>0, <2>1, <2>2 DEF Waiting
<1>6. ASSUME NEW b \in Tab, UpdateTransactionStatus(b) PROVE Goal
  <2>1. /\ UNCHANGED <<told, inbox, queue, visited, cur, orphan>>
        /\ disk' = [disk EXCEPT ![cur[b]] = at[b]] /\ at[b] \in Outcome
        /\ at' = [at EXCEPT ![b] = "next"]
    BY <1>6 DEF UpdateTransactionStatus, Advance, Outcome, history
  <2>2. CASE t = cur[b]
    BY <2>1, <2>2 DEF TypeOK, Outcome
  <2>3. CASE t # cur[b]
    <3>1. disk'[t] = disk[t]
      BY <2>1, <2>3 DEF TypeOK
    <3>2. \A c \in Tab : Waiting(c, t) => Waiting(c, t)'
      BY <2>1, <2>3 DEF Waiting, TypeOK
    <3> QED
      BY <1>0, <2>1, <3>1, <3>2
  <2> QED
    BY <2>2, <2>3
<1>7. ASSUME NEW b \in Tab, EndSync(b) \/ Load(b) PROVE Goal
  <2>1. /\ UNCHANGED <<told, disk, inbox>> /\ orphan' = orphan \ GetPendingTransactions
        /\ queue'[b] = GetPendingTransactions
    BY <1>7 DEF EndSync, Load, LoadPendingTransactions, TypeOK
  <2>2. visited'[b] = {}
    BY <1>7 DEF EndSync, Load, Remembered, TypeOK
  <2>3. disk[t] = "pending" => Waiting(b, t)'
    BY <2>1, <2>2 DEF Waiting, GetPendingTransactions
  <2>4. disk[t] = "none" => t \notin orphan
    BY <2>1 DEF GetPendingTransactions
  <2> QED
    BY <1>0, <2>1, <2>3, <2>4
<1>8. ASSUME NEW b \in Tab, Close(b) PROVE Goal
  <2>1. /\ UNCHANGED <<told, disk>> /\ t \notin orphan
        /\ t \notin inbox[b] /\ t \notin queue[b]
        /\ \A c \in Tab \ {b} : /\ inbox'[c] = inbox[c] /\ queue'[c] = queue[c]
                                /\ visited'[c] = visited[c] /\ at'[c] = at[c] /\ cur'[c] = cur[c]
    BY <1>8 DEF Close, TypeOK
  <2>2. \A c \in Tab : (t \in inbox[c] => t \in inbox'[c]) /\ (Waiting(c, t) => Waiting(c, t)')
    BY <2>1 DEF Waiting
  <2> QED
    BY <1>0, <2>1, <2>2
<1>9. CASE UNCHANGED vars
  BY <1>0, <1>9 DEF vars, tabs, history, Waiting
<1> QED
  BY <1>1, <1>2, <1>3, <1>4, <1>5, <1>6, <1>7, <1>8, <1>9 DEF Next, TabStep

(* The terminal forgets no sale: whichever tab stored it, and however their loops
   overwrite each other's queues and statuses, a sale the cashier was told is saved has
   an outcome, or a tab that will store or send it, unless a tab closed with it and none
   has loaded since (pos-offline.js:187, 277). *)
THEOREM NoneForgottenHolds == Spec => []NoneForgotten
<1>1. Init => Remembered /\ NoneForgotten
  BY DEF Init, Remembered, NoneForgotten
<1>2. TypeOK /\ Remembered /\ NoneForgotten /\ [Next]_vars => Remembered' /\ NoneForgotten'
  BY RememberedStep, ForgottenStep
<1> QED
  BY <1>1, <1>2, TypeCorrect, PTL DEF Spec
=============================================================================
