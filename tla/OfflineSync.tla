----------------------------- MODULE OfflineSync -----------------------------
(* Offline sales of one POS terminal: the IndexedDB store shared by the terminal's
   browser tabs, each tab's POSOfflineManager with its in-memory queue, and the
   server.  The service worker's messages, which announce a checkout that failed,
   are inputs.  A request sent while the connection is down fails, whether the
   worker answers it with an error or nothing does; a connection that drops after
   the server has acted loses the response. *)
EXTENDS Integers, FiniteSets

CONSTANTS Txn,        \* offline sales, each of one unit of the same item
          Tab,        \* browser tabs of the terminal
          Stock,      \* units the server has at the start
          Reserve,    \* units no other terminal sells
          Crashes,    \* TRUE: tabs can be closed or reloaded at any point
          CutOffs,    \* TRUE: a checkout can lose its response, not its request
          MaxDrops    \* bound: times the connection drops

ASSUME OfflineAssumption == /\ Stock \in Nat /\ Reserve \in Nat /\ MaxDrops \in Nat
                            /\ Crashes \in BOOLEAN /\ CutOffs \in BOOLEAN

VARIABLES online,   \* navigator.onLine, and whether requests get through
          drops,    \* connection drops so far
          told,     \* told[t]: the cashier was shown "Transaction saved offline"
          disk,     \* disk[t]: the transaction's status in IndexedDB
          open,     \* open[b]: tab b is loaded
          inbox,    \* inbox[b]: transactions the service worker sent to tab b
          queue,    \* queue[b]: pendingTransactions of tab b
          visited,  \* visited[b]: those its running loop has taken
          at,       \* at[b]: where syncPendingTransactions of tab b is
          cur,      \* cur[b]: the transaction it is syncing
          sales,    \* sales[t]: sales the server created for transaction t
          stock,    \* units left on the server
          doubtful, \* history: transactions that the code may send twice
          orphan    \* history: those of a closed tab that no tab has loaded since

tabs == <<open, inbox, queue, visited, at, cur>>
history == <<doubtful, orphan>>
vars == <<online, drops, told, disk, tabs, sales, stock, history>>

NoTxn == "none"

Init == /\ online = FALSE /\ drops = 0
        /\ told = [t \in Txn |-> FALSE]
        /\ disk = [t \in Txn |-> "none"]
        /\ open = [b \in Tab |-> TRUE]
        /\ inbox = [b \in Tab |-> {}]
        /\ queue = [b \in Tab |-> {}]
        /\ visited = [b \in Tab |-> {}]
        /\ at = [b \in Tab |-> "idle"]
        /\ cur = [b \in Tab |-> NoTxn]
        /\ sales = [t \in Txn |-> 0]
        /\ stock = Stock
        /\ doubtful = {} /\ orphan = {}
-----------------------------------------------------------------------------
(* The connection and the rest of the shop. *)
GoOnline == /\ ~online
            /\ online' = TRUE
            /\ UNCHANGED <<drops, told, disk, tabs, sales, stock, history>>

Drop == /\ online /\ drops < MaxDrops
        /\ online' = FALSE /\ drops' = drops + 1
        /\ UNCHANGED <<told, disk, tabs, sales, stock, history>>

SoldElsewhere == /\ stock > Reserve
                 /\ stock' = stock - 1
                 /\ UNCHANGED <<online, drops, told, disk, tabs, sales, history>>
-----------------------------------------------------------------------------
(* A checkout whose request fails: every open tab, the one it was made in included, is
   sent the transaction to store and a notice to show, and the notice does not wait
   for the storing. *)
SaveOffline(t) == /\ ~told[t] /\ \E b \in Tab : open[b]
                  /\ told' = [told EXCEPT ![t] = TRUE]
                  /\ inbox' = [b \in Tab |-> IF open[b] THEN inbox[b] \cup {t} ELSE inbox[b]]
                  /\ UNCHANGED <<disk, open, queue, visited, at, cur, orphan>>

CheckoutOffline(t) == /\ ~online
                      /\ SaveOffline(t)
                      /\ UNCHANGED <<online, drops, sales, stock, doubtful>>

(* The server made the sale but the response was lost: fetch throws all the same. *)
CheckoutCutOff(t) == /\ CutOffs /\ online /\ drops < MaxDrops /\ stock > 0
                     /\ SaveOffline(t)
                     /\ sales' = [sales EXCEPT ![t] = @ + 1]
                     /\ stock' = stock - 1
                     /\ online' = FALSE /\ drops' = drops + 1
                     /\ doubtful' = doubtful \cup {t}

(* The first tab's add succeeds; another's violates the key and is dropped. *)
IsNewKey(t) == disk[t] = "none"

\* Mutant: the transaction is stored for the next time the queue is loaded.
StoreForLater(b, t) ==
    /\ t \in inbox[b]
    /\ inbox' = [inbox EXCEPT ![b] = @ \ {t}]
    /\ disk' = IF IsNewKey(t) THEN [disk EXCEPT ![t] = "pending"] ELSE disk
    /\ UNCHANGED <<online, drops, told, open, queue, visited, at, cur, sales, stock, history>>

StoreOfflineTransaction(b, t) ==
    /\ t \in inbox[b]
    /\ inbox' = [inbox EXCEPT ![b] = @ \ {t}]
    /\ IF IsNewKey(t)
       THEN /\ disk' = [disk EXCEPT ![t] = "pending"]
            /\ queue' = [queue EXCEPT ![b] = @ \cup {t}]
       ELSE UNCHANGED <<disk, queue>>
    /\ UNCHANGED <<online, drops, told, open, visited, at, cur, sales, stock, history>>
-----------------------------------------------------------------------------
(* syncPendingTransactions of tab b, started by the timer, the online event, the
   service worker or the page becoming visible. *)
StartSync(b) == /\ open[b] /\ at[b] = "idle" /\ online /\ queue[b] # {}
                /\ at' = [at EXCEPT ![b] = "next"]
                /\ UNCHANGED <<online, drops, told, disk, open, inbox, queue, visited, cur,
                               sales, stock, history>>

Advance(b, place) == /\ at' = [at EXCEPT ![b] = place]
                     /\ UNCHANGED <<online, drops, told, open, inbox, queue, history>>

(* The loop's next transaction is validated first: the server compares the stock
   with what is asked for.  A failed request counts as invalid, so it takes the
   conflict branch too. *)
InStock == stock > 0
ValidateInventoryForSync == online /\ InStock

Validate(b, t) == /\ at[b] = "next" /\ t \in queue[b] \ visited[b]
                  /\ visited' = [visited EXCEPT ![b] = @ \cup {t}]
                  /\ cur' = [cur EXCEPT ![b] = t]
                  /\ Advance(b, IF ValidateInventoryForSync THEN "valid" ELSE "conflict")
                  /\ UNCHANGED <<disk, sales, stock>>

\* Mutant: a request that failed is taken for a success.
PostUnchecked(b) == /\ at[b] = "valid"
                    /\ IF online /\ stock > 0
                       THEN /\ sales' = [sales EXCEPT ![cur[b]] = @ + 1]
                            /\ stock' = stock - 1
                       ELSE UNCHANGED <<sales, stock>>
                    /\ Advance(b, "replied")
                    /\ UNCHANGED <<disk, visited, cur>>

(* POST the sale.  The server knows nothing of the transaction's id: it makes a
   sale, or answers 400 when the stock has gone. *)
Post(b) == /\ at[b] = "valid"
           /\ IF online /\ stock > 0
              THEN /\ sales' = [sales EXCEPT ![cur[b]] = @ + 1]
                   /\ stock' = stock - 1
                   /\ Advance(b, "replied")
              ELSE /\ Advance(b, "failed")
                   /\ UNCHANGED <<sales, stock>>
           /\ UNCHANGED <<disk, visited, cur>>

Receive(b) == /\ at[b] = "replied"
              /\ Advance(b, IF online THEN "synced" ELSE "failed")
              /\ UNCHANGED <<disk, visited, cur, sales, stock>>

\* Mutant: the status column keeps the word the loop uses.
RecordPlace(b) == /\ at[b] \in {"synced", "failed", "conflict"}
                  /\ disk' = [disk EXCEPT ![cur[b]] = "replied"]
                  /\ Advance(b, "next")
                  /\ UNCHANGED <<visited, cur, sales, stock>>

\* Mutant: only a success is written to the store.
RecordSuccess(b) == /\ at[b] \in {"synced", "failed", "conflict"}
                    /\ disk' = IF at[b] = "synced" THEN [disk EXCEPT ![cur[b]] = "synced"] ELSE disk
                    /\ Advance(b, "next")
                    /\ UNCHANGED <<visited, cur, sales, stock>>

UpdateTransactionStatus(b) == /\ at[b] \in {"synced", "failed", "conflict"}
                              /\ disk' = [disk EXCEPT ![cur[b]] = at[b]]
                              /\ Advance(b, "next")
                              /\ UNCHANGED <<visited, cur, sales, stock>>

\* Mutant: failed transactions are loaded again, to be retried.
PendingOrFailed == {t \in Txn : disk[t] \in {"pending", "failed"}}
GetPendingTransactions == {t \in Txn : disk[t] = "pending"}

(* The queue is loaded anew.  What another tab has in its queue may now be sent by
   both. *)
LoadPendingTransactions(b) ==
    /\ queue' = [queue EXCEPT ![b] = GetPendingTransactions]
    /\ doubtful' = doubtful \cup {t \in GetPendingTransactions :
                                    \E c \in Tab \ {b} : t \in queue[c]}
    /\ orphan' = orphan \ GetPendingTransactions

EndSync(b) == /\ at[b] = "next" /\ queue[b] \subseteq visited[b]
              /\ LoadPendingTransactions(b)
              /\ visited' = [visited EXCEPT ![b] = {}]
              /\ cur' = [cur EXCEPT ![b] = NoTxn]
              /\ at' = [at EXCEPT ![b] = "idle"]
              /\ UNCHANGED <<online, drops, told, disk, open, inbox, sales, stock>>
-----------------------------------------------------------------------------
\* What tab b has posted without having written its status yet.
Unrecorded(b) == {t \in Txn : cur[b] = t /\ at[b] \in {"replied", "synced", "failed"}}

(* A tab is closed or reloaded: memory and undelivered messages are gone. *)
Close(b) == /\ Crashes /\ open[b]
            /\ open' = [open EXCEPT ![b] = FALSE]
            /\ inbox' = [inbox EXCEPT ![b] = {}]
            /\ queue' = [queue EXCEPT ![b] = {}]
            /\ visited' = [visited EXCEPT ![b] = {}]
            /\ cur' = [cur EXCEPT ![b] = NoTxn]
            /\ at' = [at EXCEPT ![b] = "idle"]
            /\ doubtful' = doubtful \cup Unrecorded(b)
            /\ orphan' = orphan \cup inbox[b] \cup queue[b]
            /\ UNCHANGED <<online, drops, told, disk, sales, stock>>

Load(b) == /\ ~open[b]
           /\ open' = [open EXCEPT ![b] = TRUE]
           /\ LoadPendingTransactions(b)
           /\ UNCHANGED <<online, drops, told, disk, inbox, visited, at, cur, sales, stock>>

TabStep(b) == \/ \E t \in Txn : StoreOfflineTransaction(b, t) \/ Validate(b, t)
              \/ StartSync(b) \/ Post(b) \/ Receive(b) \/ UpdateTransactionStatus(b)
              \/ EndSync(b)

Next == \/ GoOnline \/ Drop \/ SoldElsewhere
        \/ \E t \in Txn : CheckoutOffline(t) \/ CheckoutCutOff(t)
        \/ \E b \in Tab : TabStep(b) \/ Close(b) \/ Load(b)

Spec == Init /\ [][Next]_vars

(* The event loop and the five-second timer keep each open tab going, and the
   connection comes back. *)
FairSpec == Spec /\ WF_vars(GoOnline) /\ \A b \in Tab : WF_vars(TabStep(b))
-----------------------------------------------------------------------------
Outcome == {"synced", "failed", "conflict"}

(* The type of every variable. *)
TypeOK == /\ online \in BOOLEAN /\ drops \in 0 .. MaxDrops
          /\ told \in [Txn -> BOOLEAN]
          /\ disk \in [Txn -> {"none", "pending"} \cup Outcome]
          /\ open \in [Tab -> BOOLEAN]
          /\ inbox \in [Tab -> SUBSET Txn]
          /\ queue \in [Tab -> SUBSET Txn]
          /\ visited \in [Tab -> SUBSET Txn]
          /\ at \in [Tab -> {"idle", "next", "valid", "replied"} \cup Outcome]
          /\ cur \in [Tab -> Txn \cup {NoTxn}]
          /\ sales \in [Txn -> Nat]
          /\ stock \in 0 .. Stock
          /\ doubtful \in SUBSET Txn /\ orphan \in SUBSET Txn

(* An offline sale becomes at most one sale on the server, however many responses are
   lost and however often the sync is repeated, with three exceptions: its checkout
   lost the response (and is stored although it was made), its tab was closed after
   the POST and before the status was written, or a tab loaded it while another had it
   in its queue (pos-offline.js:236, 257, 277). *)
NoDuplicateSale == \A t \in Txn : sales[t] <= 1 \/ t \in doubtful

(* A transaction marked synced has its sale, whatever tabs and connection did. *)
SyncedHasSale == \A t \in Txn : disk[t] = "synced" => sales[t] >= 1

(* Tab b will send t, or is sending it. *)
Waiting(b, t) == /\ t \in queue[b]
                 /\ t \in visited[b] => cur[b] = t /\ at[b] \notin {"idle", "next"}

(* A sale whose notice the cashier has seen has its outcome, or some tab has yet to
   store it or to send it, however the tabs overwrite each other's queues and
   statuses; excepted what was in the memory of a tab that was closed, until a tab
   loads the queue anew (pos-offline.js:187, 277). *)
NoneForgotten == \A t \in Txn \ orphan :
    /\ told[t] /\ disk[t] = "none" => \E b \in Tab : t \in inbox[b]
    /\ disk[t] = "pending" => \E b \in Tab : Waiting(b, t)

(* No stored sale waits forever: with its tab open and the connection coming back
   it is sent and gets an outcome. *)
StoredIsSettled == \A t \in Txn : disk[t] = "pending" ~> disk[t] \in Outcome
=============================================================================
