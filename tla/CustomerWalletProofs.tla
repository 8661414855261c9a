------------------------ MODULE CustomerWalletProofs ------------------------
(* Proofs about CustomerWallet, for any number of customers, cards, workers and
   requests. *)
EXTENDS CustomerWallet, TLAPS

(* What the requests in flight have checked, and which locks they hold. *)
Check(w) ==
    /\ pc[w] = "write" => /\ req[w].kind = "redeem" => req[w].amount <= copy[w].points
                          /\ req[w].kind = "spend" => req[w].amount <= copy[w].credit
    /\ pc[w] \in {"recipient", "sender", "both"} => /\ req[w].amount <= copy[w].points
                                                  /\ req[w].who # req[w].to
    /\ pc[w] = "card" => /\ card[req[w].card].status # "none"
                         /\ held[w].status = "ACTIVE"
                         /\ req[w].kind = "use" => req[w].amount <= held[w].balance
    /\ pc[w] = "mark" => listed[w] \subseteq 1 .. Len(earned[req[w].who])
Checked == \A w \in Worker : Check(w)

(* The locks they hold, and what a lock is good for. *)
Lock(w) ==
    /\ pc[w] \in {"till", "both"} => lock[req[w].who] = w
    /\ pc[w] = "till" => copy[w] = row[req[w].who]
Locked == \A w \in Worker : Lock(w)

Accounts == /\ CreditAccounted /\ PointsAccounted /\ CardSettled
            /\ \A k \in Card : card[k].status = "none" => used[k] = 0

Inv == TypeOK /\ Checked /\ Locked /\ Accounts

LEMMA Constants == /\ Amount \subseteq Nat \ {0} /\ Value \in Nat \ {0} /\ Threshold \in Nat
                   /\ Opening \in Wallet /\ MaxRequests \in Nat
                   /\ NoRequest \in [kind : Kind, who : Customer, to : Customer,
                                     amount : Nat, sale : Sale, card : Card]
                   /\ NoCard \in [balance : Nat, status : CardStatus]
                   /\ Anyone \in Customer
  BY WalletAssumption DEF Anyone, NoRequest, NoCard, CardStatus, Kind

LEMMA PointsType == ASSUME NEW r \in Wallet, NEW x \in Nat
                    PROVE Points(r, x) \in Nat
  <1>1. r["tier"] \in {0, 1}
    BY DEF Wallet
  <1>2. Multiplier[r["tier"]] \in Nat
    BY <1>1, WalletAssumption
  <1> DEFINE m == Multiplier[r["tier"]]
  <1>3. m \in Nat
    BY <1>2
  <1>4. Points(r, x) = x * m
    BY DEF Points
  <1> HIDE DEF m
  <1>5. x * m \in Nat
    BY <1>3
  <1> QED
    BY <1>4, <1>5
-----------------------------------------------------------------------------
(* TypeOK in three parts: the rows, the books kept about them, and what the
   requests have in memory. *)
RowsOK == /\ row \in [Customer -> Wallet]
          /\ card \in [Card -> [balance : Nat, status : CardStatus]]
          /\ lost \subseteq Customer \cup Card
BooksOK == /\ earned \in [Customer -> Seq(Nat)]
           /\ expired \in [Customer -> SUBSET Nat]
           /\ sale \in [Sale -> [who : Customer, total : Nat]]
           /\ awards \in [Sale -> Nat]
           /\ pointLog \in [Customer -> Int] /\ creditLog \in [Customer -> Int]
           /\ paid \in [Customer -> Nat] /\ forgiven \in [Customer -> Nat]
           /\ used \in [Card -> Nat]
Places == {"idle", "write", "recipient", "sender", "both", "list", "mark", "till",
           "resave", "card"}
Requests == [kind : Kind, who : Customer, to : Customer, amount : Nat, sale : Sale,
             card : Card]
MemoryOK == /\ lock \in [Lockable -> Worker \cup {Nobody}]
            /\ pc \in [Worker -> Places]
            /\ req \in [Worker -> Requests]
            /\ copy \in [Worker -> Wallet] /\ other \in [Worker -> Wallet]
            /\ held \in [Worker -> [balance : Nat, status : CardStatus]]
            /\ listed \in [Worker -> SUBSET Nat] /\ counted \in [Worker -> SUBSET Nat]
            /\ total \in [Worker -> Nat]
            /\ served \in 0 .. MaxRequests

LEMMA Parts == TypeOK <=> RowsOK /\ BooksOK /\ MemoryOK
  BY DEF TypeOK, RowsOK, BooksOK, MemoryOK, Places, Requests

LEMMA PartsNext == TypeOK' <=> RowsOK' /\ BooksOK' /\ MemoryOK'
  BY DEF TypeOK, RowsOK, BooksOK, MemoryOK, Places, Requests

(* The end of a request leaves nothing of it in memory. *)
LEMMA EndMemory == ASSUME MemoryOK, NEW w \in Worker, End(w)
                   PROVE MemoryOK'
  BY Constants DEF MemoryOK, End, Requests, Places

LEMMA EndOthers ==
  ASSUME MemoryOK, NEW w \in Worker, End(w), NEW v \in Worker
  PROVE /\ v # w => /\ pc'[v] = pc[v] /\ req'[v] = req[v] /\ copy'[v] = copy[v]
                    /\ held'[v] = held[v] /\ listed'[v] = listed[v]
        /\ pc'[w] = "idle" /\ listed'[w] = {}
        /\ \A x \in Lockable : lock[x] = v /\ v # w => lock'[x] = v
  BY DEF MemoryOK, End

LEMMA EndChecked ==
  ASSUME Inv, NEW w \in Worker, End(w),
         \A k \in Card : card[k].status # "none" => card'[k].status # "none",
         \A c \in Customer : Len(earned'[c]) \in Nat /\ Len(earned'[c]) >= Len(earned[c])
  PROVE Checked'
<1>1. MemoryOK /\ BooksOK
  BY Parts DEF Inv
<1> SUFFICES ASSUME NEW v \in Worker
             PROVE Check(v)'
  BY DEF Checked
<1>2. CASE v = w
  BY <1>1, <1>2, EndOthers DEF Check
<1>3. CASE v # w
  <2>1. /\ pc'[v] = pc[v] /\ req'[v] = req[v] /\ copy'[v] = copy[v]
        /\ held'[v] = held[v] /\ listed'[v] = listed[v]
    BY <1>1, <1>3, EndOthers
  <2>2. req[v].card \in Card /\ req[v].who \in Customer
    BY <1>1 DEF MemoryOK, Requests
  <2>3. pc[v] = "mark" => listed[v] \subseteq 1 .. Len(earned[req[v].who])
    BY DEF Inv, Checked, Check
  <2>4. earned[req[v].who] \in Seq(Nat)
    BY <1>1, <2>2 DEF BooksOK
  <2>5. 1 .. Len(earned[req[v].who]) \subseteq 1 .. Len(earned'[req[v].who])
    BY <2>2, <2>4
  <2>6. pc[v] = "mark" => listed'[v] \subseteq 1 .. Len(earned'[req'[v].who])
    BY <2>1, <2>3, <2>5
  <2> QED
    BY <2>1, <2>2, <2>6 DEF Inv, Checked, Check
<1> QED
  BY <1>2, <1>3

LEMMA EndLocked ==
  ASSUME Inv, NEW w \in Worker, End(w),
         \A c \in Customer : lock[c] \in Worker \ {w} => row'[c] = row[c]
  PROVE Locked'
<1> SUFFICES ASSUME NEW v \in Worker
             PROVE Lock(v)'
  BY DEF Locked
<1>1. MemoryOK
  BY Parts DEF Inv
<1>2. CASE v = w
  BY <1>1, <1>2, EndOthers DEF Lock
<1>3. CASE v # w
  <2>1. /\ pc'[v] = pc[v] /\ req'[v] = req[v] /\ copy'[v] = copy[v]
        /\ \A x \in Lockable : lock[x] = v => lock'[x] = v
    BY <1>1, <1>3, EndOthers
  <2>2. req[v].who \in Customer /\ Customer \subseteq Lockable
    BY <1>1 DEF MemoryOK, Requests, Lockable
  <2>3. Lock(v)
    BY DEF Inv, Locked
  <2> QED
    BY <1>3, <2>1, <2>2, <2>3 DEF Lock
<1> QED
  BY <1>2, <1>3

(* What saving some columns of a copy does to the row, and when it is a loss. *)
LEMMA SaveRow ==
  ASSUME RowsOK, NEW c \in Customer, NEW old \in Wallet, NEW new \in Wallet,
         NEW fields \in SUBSET Field, Save(c, old, new, fields)
  PROVE /\ row' \in [Customer -> Wallet] /\ lost' \subseteq Customer \cup Card
        /\ lost \subseteq lost'
        /\ \A d \in Customer \ {c} : row'[d] = row[d]
        /\ \A f \in fields : row'[c][f] = new[f]
        /\ \A f \in Field \ fields : row'[c][f] = row[c][f]
        /\ c \notin lost' => \A f \in fields : old[f] = row[c][f]
<1> DEFINE u == Updated(row[c], new, fields)
<1>1. row[c] \in Wallet
  BY DEF RowsOK
<1>2. u \in Wallet
  BY <1>1 DEF Updated, Wallet, Field
<1>3. row' = [row EXCEPT ![c] = u]
  BY DEF Save
<1>4. /\ \A f \in fields : u[f] = new[f]
      /\ \A f \in Field \ fields : u[f] = row[c][f]
  BY DEF Updated
<1> HIDE DEF u
<1>5. row' \in [Customer -> Wallet] /\ row'[c] = u /\ \A d \in Customer \ {c} : row'[d] = row[d]
  BY <1>2, <1>3 DEF RowsOK
<1>6. lost' = lost \cup {x \in {c} : Stale(row[c], old, fields)}
  BY DEF Save
<1> QED
  BY <1>4, <1>5, <1>6 DEF Stale, RowsOK
-----------------------------------------------------------------------------
(* Rows a request computes from a copy. *)
LEMMA RowWith ==
  ASSUME NEW r \in Wallet, NEW f \in Field \ {"tier"}, NEW n \in Nat
  PROVE /\ [r EXCEPT ![f] = n] \in Wallet
        /\ [r EXCEPT ![f] = n][f] = n
        /\ \A g \in Field \ {f} : [r EXCEPT ![f] = n][g] = r[g]
  BY DEF Wallet, Field

LEMMA TierRow ==
  ASSUME NEW r \in Wallet
  PROVE /\ Qualify(r) \in {0, 1}
        /\ [r EXCEPT !["tier"] = Qualify(r)] \in Wallet
        /\ \A g \in Field \ {"tier"} : [r EXCEPT !["tier"] = Qualify(r)][g] = r[g]
<1>1. Qualify(r) \in {0, 1}
  BY DEF Qualify, Wallet
<1> DEFINE t == Qualify(r)
<1>2. t \in {0, 1}
  BY <1>1
<1> HIDE DEF t
<1>3. /\ [r EXCEPT !["tier"] = t] \in Wallet
      /\ \A g \in Field \ {"tier"} : [r EXCEPT !["tier"] = t][g] = r[g]
  BY <1>2 DEF Wallet, Field
<1> QED
  BY <1>2, <1>3 DEF t

LEMMA AwardRow ==
  ASSUME NEW r \in Wallet, NEW x \in Nat
  PROVE /\ Award(r, x) \in Wallet
        /\ Award(r, x)["points"] = r["points"] + Points(r, x)
        /\ Award(r, x)["credit"] = r["credit"]
<1> DEFINE m == Points(r, x)
           p == [r EXCEPT !["points"] = @ + m, !["purchases"] = @ + x]
<1>1. m \in Nat
  BY PointsType
<1>2. p = Purchased(r, x)
  BY DEF Purchased
<1> HIDE DEF m
<1>3. /\ p \in Wallet
      /\ p["points"] = r["points"] + m
      /\ p["credit"] = r["credit"]
  BY <1>1 DEF Wallet, Field
<1> HIDE DEF p
<1>4. Award(r, x) = [p EXCEPT !["tier"] = Qualify(p)]
  BY <1>2 DEF Award
<1>5. /\ Award(r, x) \in Wallet
      /\ Award(r, x)["points"] = p["points"] /\ Award(r, x)["credit"] = p["credit"]
  BY <1>3, <1>4, TierRow DEF Field
<1> QED
  BY <1>3, <1>5 DEF m

LEMMA FieldsOf == ASSUME NEW r \in Wallet
                  PROVE /\ r.points = r["points"] /\ r.points \in Nat
                        /\ r.credit = r["credit"] /\ r.credit \in Nat
  BY DEF Wallet, Field

LEMMA TierFields == ASSUME NEW r, NEW q
                    PROVE TierField(r, q) \in SUBSET Field /\ "credit" \notin TierField(r, q)
                                          /\ "points" \notin TierField(r, q)
  BY DEF TierField, Field

(* The start of a request. *)
LEMMA BeginMemory ==
  ASSUME MemoryOK, NEW w \in Worker, NEW at \in Places, NEW request \in Requests,
         Begin(w, at, request)
  PROVE /\ pc' \in [Worker -> Places] /\ pc'[w] = at
        /\ req' \in [Worker -> Requests] /\ req'[w] = request
        /\ served' \in 0 .. MaxRequests
        /\ pc[w] = "idle"
        /\ \A v \in Worker \ {w} : pc'[v] = pc[v] /\ req'[v] = req[v]
  BY Constants DEF MemoryOK, Begin

-----------------------------------------------------------------------------
(* Every action keeps Inv.  First those that only read. *)
LEMMA OthersKeep ==
  ASSUME Inv, NEW w \in Worker, Check(w)', UNCHANGED <<card, earned>>,
         \A v \in Worker \ {w} : /\ pc'[v] = pc[v] /\ req'[v] = req[v] /\ copy'[v] = copy[v]
                                 /\ held'[v] = held[v] /\ listed'[v] = listed[v]
  PROVE Checked'
<1> SUFFICES ASSUME NEW v \in Worker \ {w}
             PROVE Check(v)'
  BY DEF Checked
<1>1. Check(v)
  BY DEF Inv, Checked
<1> QED
  BY <1>1 DEF Check

LEMMA OthersLock ==
  ASSUME Inv, NEW w \in Worker, Lock(w)', UNCHANGED row,
         \A x \in Lockable, v \in Worker \ {w} : lock[x] = v => lock'[x] = v,
         \A v \in Worker \ {w} : pc'[v] = pc[v] /\ req'[v] = req[v] /\ copy'[v] = copy[v]
  PROVE Locked'
<1> SUFFICES ASSUME NEW v \in Worker \ {w}
             PROVE Lock(v)'
  BY DEF Locked
<1>1. req[v].who \in Lockable
  BY Parts DEF Inv, MemoryOK, Requests, Lockable
<1>2. Lock(v)
  BY DEF Inv, Locked
<1> QED
  BY <1>1, <1>2 DEF Lock

LEMMA ReadsKeep ==
  ASSUME Inv, NEW w \in Worker, UNCHANGED <<row, card, books, lost>>, MemoryOK', Check(w)',
         Lock(w)',
         \A x \in Lockable, v \in Worker \ {w} : lock[x] = v => lock'[x] = v,
         \A v \in Worker \ {w} : /\ pc'[v] = pc[v] /\ req'[v] = req[v] /\ copy'[v] = copy[v]
                                 /\ held'[v] = held[v] /\ listed'[v] = listed[v]
  PROVE Inv'
<1>1. RowsOK' /\ BooksOK'
  BY Parts DEF Inv, RowsOK, BooksOK, books
<1>2. Checked'
  BY OthersKeep DEF books
<1>3. Locked'
  BY OthersLock
<1>4. Accounts'
  BY DEF Inv, Accounts, CreditAccounted, PointsAccounted, CardSettled, books
<1> QED
  BY <1>1, <1>2, <1>3, <1>4, PartsNext DEF Inv

LEMMA KeepBeginOne ==
  ASSUME Inv, NEW w \in Worker, NEW k \in Kinds, NEW c \in Customer, NEW x \in Amount,
         BeginOne(w, k, c, x)
  PROVE Inv'
<1> DEFINE request == [NoRequest EXCEPT !.kind = k, !.who = c, !.amount = x]
<1>1. RowsOK /\ MemoryOK
  BY Parts DEF Inv
<1>0. x \in Nat /\ k \in Kind
  BY WalletAssumption DEF Kind
<1>2. request \in Requests /\ request.kind = k /\ request.who = c /\ request.amount = x
  BY <1>0, Constants DEF Requests
<1> HIDE DEF request
<1>3. Begin(w, "write", request)
  BY DEF BeginOne, request
<1>4. row[c] \in Wallet
  BY <1>1 DEF RowsOK, CardStatus
<1>5. /\ pc' \in [Worker -> Places] /\ pc'[w] = "write"
      /\ req' \in [Worker -> Requests] /\ req'[w] = request
      /\ served' \in 0 .. MaxRequests
      /\ \A v \in Worker \ {w} : pc'[v] = pc[v] /\ req'[v] = req[v]
  BY <1>1, <1>2, <1>3, BeginMemory DEF Places
<1>6. /\ copy' = [copy EXCEPT ![w] = row[c]]
      /\ UNCHANGED <<lock, other, held, listed, counted, total>>
  BY DEF BeginOne
<1>7. MemoryOK'
  BY <1>1, <1>4, <1>5, <1>6 DEF MemoryOK
<1>8. UNCHANGED <<row, card, books, lost>>
  BY DEF BeginOne
<1>9. Check(w)'
  BY <1>1, <1>2, <1>5, <1>6 DEF Check, BeginOne, Enough, MemoryOK
<1>10. \A v \in Worker \ {w} : /\ pc'[v] = pc[v] /\ req'[v] = req[v] /\ copy'[v] = copy[v]
                                /\ held'[v] = held[v] /\ listed'[v] = listed[v]
  BY <1>1, <1>5, <1>6 DEF MemoryOK
<1>11. Lock(w)'
  BY <1>5 DEF Lock
<1>12. \A l \in Lockable, v \in Worker \ {w} : lock[l] = v => lock'[l] = v
  BY <1>6
<1> QED
  BY <1>7, <1>8, <1>9, <1>10, <1>11, <1>12, ReadsKeep

LEMMA KeepBeginTransfer ==
  ASSUME Inv, NEW w \in Worker, NEW c \in Customer, NEW d \in Customer, NEW x \in Amount,
         BeginTransfer(w, c, d, x)
  PROVE Inv'
<1> DEFINE request == [NoRequest EXCEPT !.kind = "transfer", !.who = c, !.to = d, !.amount = x]
<1>1. RowsOK /\ MemoryOK
  BY Parts DEF Inv
<1>0. x \in Nat
  BY WalletAssumption DEF Kind
<1>2. request \in Requests /\ request.who = c /\ request.to = d /\ request.amount = x
  BY <1>0, Constants DEF Requests, Kind
<1> HIDE DEF request
<1>3. Begin(w, "recipient", request)
  BY DEF BeginTransfer, request
<1>4. row[c] \in Wallet
  BY <1>1 DEF RowsOK, CardStatus
<1>5. /\ pc' \in [Worker -> Places] /\ pc'[w] = "recipient"
      /\ req' \in [Worker -> Requests] /\ req'[w] = request
      /\ served' \in 0 .. MaxRequests
      /\ \A v \in Worker \ {w} : pc'[v] = pc[v] /\ req'[v] = req[v]
  BY <1>1, <1>2, <1>3, BeginMemory DEF Places
<1>6. /\ copy' = [copy EXCEPT ![w] = row[c]]
      /\ UNCHANGED <<lock, other, held, listed, counted, total>>
  BY DEF BeginTransfer
<1>7. MemoryOK'
  BY <1>1, <1>4, <1>5, <1>6 DEF MemoryOK
<1>8. UNCHANGED <<row, card, books, lost>>
  BY DEF BeginTransfer
<1>9. Check(w)'
  BY <1>1, <1>2, <1>5, <1>6 DEF Check, BeginTransfer, MemoryOK
<1>10. \A v \in Worker \ {w} : /\ pc'[v] = pc[v] /\ req'[v] = req[v] /\ copy'[v] = copy[v]
                                /\ held'[v] = held[v] /\ listed'[v] = listed[v]
  BY <1>1, <1>5, <1>6 DEF MemoryOK
<1>11. Lock(w)'
  BY <1>5 DEF Lock
<1>12. \A l \in Lockable, v \in Worker \ {w} : lock[l] = v => lock'[l] = v
  BY <1>6
<1> QED
  BY <1>7, <1>8, <1>9, <1>10, <1>11, <1>12, ReadsKeep

LEMMA KeepBeginExpire ==
  ASSUME Inv, NEW w \in Worker, NEW c \in Customer,
         BeginExpire(w, c)
  PROVE Inv'
<1> DEFINE request == [NoRequest EXCEPT !.kind = "expire", !.who = c]
<1>1. RowsOK /\ MemoryOK
  BY Parts DEF Inv
<1>0. "expire" \in Kind
  BY WalletAssumption DEF Kind
<1>2. request \in Requests /\ request.who = c
  BY <1>0, Constants DEF Requests, Kind
<1> HIDE DEF request
<1>3. Begin(w, "list", request)
  BY DEF BeginExpire, request
<1>4. row[c] \in Wallet
  BY <1>1 DEF RowsOK, CardStatus
<1>5. /\ pc' \in [Worker -> Places] /\ pc'[w] = "list"
      /\ req' \in [Worker -> Requests] /\ req'[w] = request
      /\ served' \in 0 .. MaxRequests
      /\ \A v \in Worker \ {w} : pc'[v] = pc[v] /\ req'[v] = req[v]
  BY <1>1, <1>2, <1>3, BeginMemory DEF Places
<1>6. /\ copy' = [copy EXCEPT ![w] = row[c]]
      /\ UNCHANGED <<lock, other, held, listed, counted, total>>
  BY DEF BeginExpire
<1>7. MemoryOK'
  BY <1>1, <1>4, <1>5, <1>6 DEF MemoryOK
<1>8. UNCHANGED <<row, card, books, lost>>
  BY DEF BeginExpire
<1>9. Check(w)'
  BY <1>5 DEF Check
<1>10. \A v \in Worker \ {w} : /\ pc'[v] = pc[v] /\ req'[v] = req[v] /\ copy'[v] = copy[v]
                                /\ held'[v] = held[v] /\ listed'[v] = listed[v]
  BY <1>1, <1>5, <1>6 DEF MemoryOK
<1>11. Lock(w)'
  BY <1>5 DEF Lock
<1>12. \A l \in Lockable, v \in Worker \ {w} : lock[l] = v => lock'[l] = v
  BY <1>6
<1> QED
  BY <1>7, <1>8, <1>9, <1>10, <1>11, <1>12, ReadsKeep

LEMMA KeepBeginSale ==
  ASSUME Inv, NEW w \in Worker, NEW k \in Kinds, NEW s \in Sale, NEW c \in Customer,
         NEW x \in Amount,
         BeginSale(w, k, s, c, x)
  PROVE Inv'
<1> DEFINE request == [NoRequest EXCEPT !.kind = k, !.who = c, !.sale = s, !.amount = x]
<1>1. RowsOK /\ MemoryOK
  BY Parts DEF Inv
<1>0. x \in Nat /\ k \in Kind
  BY WalletAssumption DEF Kind
<1>2. request \in Requests /\ request.who = c
  BY <1>0, Constants DEF Requests
<1> HIDE DEF request
<1>3. Begin(w, "till", request)
  BY DEF BeginSale, request
<1>4. row[c] \in Wallet
  BY <1>1 DEF RowsOK, CardStatus
<1>5. /\ pc' \in [Worker -> Places] /\ pc'[w] = "till"
      /\ req' \in [Worker -> Requests] /\ req'[w] = request
      /\ served' \in 0 .. MaxRequests
      /\ \A v \in Worker \ {w} : pc'[v] = pc[v] /\ req'[v] = req[v]
  BY <1>1, <1>2, <1>3, BeginMemory DEF Places
<1>6. /\ copy' = [copy EXCEPT ![w] = row[c]] /\ lock' = [lock EXCEPT ![c] = w]
      /\ UNCHANGED <<other, held, listed, counted, total>>
  BY DEF BeginSale
<1>7. MemoryOK'
  BY <1>1, <1>4, <1>5, <1>6 DEF MemoryOK, Lockable
<1>8. UNCHANGED <<row, card, books, lost>>
  BY DEF BeginSale
<1>9. Check(w)'
  BY <1>5 DEF Check
<1>10. \A v \in Worker \ {w} : /\ pc'[v] = pc[v] /\ req'[v] = req[v] /\ copy'[v] = copy[v]
                                /\ held'[v] = held[v] /\ listed'[v] = listed[v]
  BY <1>1, <1>5, <1>6 DEF MemoryOK
<1>11. Lock(w)'
  BY <1>1, <1>2, <1>5, <1>6, <1>8 DEF Lock, MemoryOK, Lockable
<1>12. \A l \in Lockable, v \in Worker \ {w} : lock[l] = v => lock'[l] = v
  BY WalletAssumption, <1>1, <1>6 DEF MemoryOK, BeginSale, Free, Lockable
<1> QED
  BY <1>7, <1>8, <1>9, <1>10, <1>11, <1>12, ReadsKeep

LEMMA KeepBeginResave ==
  ASSUME Inv, NEW w \in Worker, NEW s \in Sale, NEW c \in Customer, NEW x \in Amount,
         BeginResave(w, s, c, x)
  PROVE Inv'
<1> DEFINE request == [NoRequest EXCEPT !.kind = "resave", !.who = c, !.sale = s, !.amount = x]
<1>1. RowsOK /\ MemoryOK
  BY Parts DEF Inv
<1>0. x \in Nat
  BY WalletAssumption DEF Kind
<1>2. request \in Requests /\ request.who = c
  BY <1>0, Constants DEF Requests, Kind
<1> HIDE DEF request
<1>3. Begin(w, "resave", request)
  BY DEF BeginResave, request
<1>4. row[c] \in Wallet
  BY <1>1 DEF RowsOK, CardStatus
<1>5. /\ pc' \in [Worker -> Places] /\ pc'[w] = "resave"
      /\ req' \in [Worker -> Requests] /\ req'[w] = request
      /\ served' \in 0 .. MaxRequests
      /\ \A v \in Worker \ {w} : pc'[v] = pc[v] /\ req'[v] = req[v]
  BY <1>1, <1>2, <1>3, BeginMemory DEF Places
<1>6. /\ copy' = [copy EXCEPT ![w] = row[c]] /\ lock' = [lock EXCEPT ![s] = w]
      /\ UNCHANGED <<other, held, listed, counted, total>>
  BY DEF BeginResave
<1>7. MemoryOK'
  BY <1>1, <1>4, <1>5, <1>6 DEF MemoryOK, Lockable
<1>8. UNCHANGED <<row, card, books, lost>>
  BY DEF BeginResave
<1>9. Check(w)'
  BY <1>5 DEF Check
<1>10. \A v \in Worker \ {w} : /\ pc'[v] = pc[v] /\ req'[v] = req[v] /\ copy'[v] = copy[v]
                                /\ held'[v] = held[v] /\ listed'[v] = listed[v]
  BY <1>1, <1>5, <1>6 DEF MemoryOK
<1>11. Lock(w)'
  BY <1>5 DEF Lock
<1>12. \A l \in Lockable, v \in Worker \ {w} : lock[l] = v => lock'[l] = v
  BY WalletAssumption, <1>1, <1>6 DEF MemoryOK, BeginResave, Free, Lockable
<1> QED
  BY <1>7, <1>8, <1>9, <1>10, <1>11, <1>12, ReadsKeep

LEMMA KeepBeginCard ==
  ASSUME Inv, NEW w \in Worker, NEW k \in {"use", "cancel"}, NEW g \in Card,
         NEW x \in Amount,
         BeginCard(w, k, g, x)
  PROVE Inv'
<1> DEFINE request == [NoRequest EXCEPT !.kind = k, !.card = g, !.amount = x]
<1>1. RowsOK /\ MemoryOK
  BY Parts DEF Inv
<1>0. x \in Nat /\ k \in Kind
  BY WalletAssumption DEF Kind
<1>2. request \in Requests /\ request.kind = k /\ request.card = g /\ request.amount = x
  BY <1>0, Constants DEF Requests
<1> HIDE DEF request
<1>3. Begin(w, "card", request)
  BY DEF BeginCard, request
<1>4. card[g] \in [balance : Nat, status : CardStatus]
  BY <1>1 DEF RowsOK, CardStatus
<1>5. /\ pc' \in [Worker -> Places] /\ pc'[w] = "card"
      /\ req' \in [Worker -> Requests] /\ req'[w] = request
      /\ served' \in 0 .. MaxRequests
      /\ \A v \in Worker \ {w} : pc'[v] = pc[v] /\ req'[v] = req[v]
  BY <1>1, <1>2, <1>3, BeginMemory DEF Places
<1>6. /\ held' = [held EXCEPT ![w] = card[g]]
      /\ UNCHANGED <<lock, copy, other, listed, counted, total>>
  BY DEF BeginCard
<1>7. MemoryOK'
  BY <1>1, <1>4, <1>5, <1>6 DEF MemoryOK
<1>8. UNCHANGED <<row, card, books, lost>>
  BY DEF BeginCard
<1>9. Check(w)'
  BY <1>1, <1>2, <1>5, <1>6, <1>8 DEF Check, BeginCard, CanBeUsed, MemoryOK
<1>10. \A v \in Worker \ {w} : /\ pc'[v] = pc[v] /\ req'[v] = req[v] /\ copy'[v] = copy[v]
                                /\ held'[v] = held[v] /\ listed'[v] = listed[v]
  BY <1>1, <1>5, <1>6 DEF MemoryOK
<1>11. Lock(w)'
  BY <1>5 DEF Lock
<1>12. \A l \in Lockable, v \in Worker \ {w} : lock[l] = v => lock'[l] = v
  BY <1>6
<1> QED
  BY <1>7, <1>8, <1>9, <1>10, <1>11, <1>12, ReadsKeep
-----------------------------------------------------------------------------
(* Then those that save a customer's row and end. *)
LEMMA SaveKeeps ==
  ASSUME Inv, NEW w \in Worker, NEW c \in Customer, NEW old \in Wallet, NEW new \in Wallet,
         NEW fields \in SUBSET Field, Save(c, old, new, fields), End(w),
         UNCHANGED <<card, used>>, BooksOK', lock[c] \notin Worker \ {w},
         \A d \in Customer : Len(earned'[d]) \in Nat /\ Len(earned'[d]) >= Len(earned[d]),
         \A d \in Customer \ {c} : /\ creditLog'[d] = creditLog[d] /\ paid'[d] = paid[d]
                                   /\ pointLog'[d] = pointLog[d] /\ forgiven'[d] = forgiven[d],
         c \notin lost' =>
            /\ row'[c].credit = Opening["credit"] + creditLog'[c] - paid'[c]
            /\ row'[c].points = Opening["points"] + pointLog'[c] + forgiven'[c]
  PROVE Inv'
<1>1. RowsOK /\ MemoryOK
  BY Parts DEF Inv
<1>2. /\ row' \in [Customer -> Wallet] /\ lost' \subseteq Customer \cup Card
      /\ lost \subseteq lost'
      /\ \A d \in Customer \ {c} : row'[d] = row[d]
  BY <1>1, SaveRow
<1>3. RowsOK'
  BY <1>1, <1>2 DEF RowsOK
<1>4. MemoryOK'
  BY <1>1, EndMemory
<1>5. Checked'
  BY EndChecked
<1>6. Locked'
  BY <1>2, EndLocked
<1>7. CreditAccounted'
  <2> SUFFICES ASSUME NEW d \in Customer \ lost'
               PROVE row'[d].credit = Opening["credit"] + creditLog'[d] - paid'[d]
    BY DEF CreditAccounted
  <2>1. CASE d = c
    BY <2>1
  <2>2. CASE d # c
    BY <1>2, <2>2 DEF Inv, Accounts, CreditAccounted
  <2> QED
    BY <2>1, <2>2
<1>8. PointsAccounted'
  <2> SUFFICES ASSUME NEW d \in Customer \ lost'
               PROVE row'[d].points = Opening["points"] + pointLog'[d] + forgiven'[d]
    BY DEF PointsAccounted
  <2>1. CASE d = c
    BY <2>1
  <2>2. CASE d # c
    BY <1>2, <2>2 DEF Inv, Accounts, PointsAccounted
  <2> QED
    BY <2>1, <2>2
<1>9. CardSettled'
  BY <1>2 DEF Inv, Accounts, CardSettled
<1>10. \A k \in Card : card'[k].status = "none" => used'[k] = 0
  BY DEF Inv, Accounts
<1> QED
  BY <1>3, <1>4, <1>5, <1>6, <1>7, <1>8, <1>9, <1>10, PartsNext DEF Inv, Accounts

LEMMA EarnedMore ==
  ASSUME BooksOK, NEW c \in Customer, NEW x \in Nat,
         earned' = [earned EXCEPT ![c] = Append(@, x)]
  PROVE /\ earned' \in [Customer -> Seq(Nat)]
        /\ \A d \in Customer : Len(earned'[d]) \in Nat /\ Len(earned'[d]) >= Len(earned[d])
<1>1. /\ earned' \in [Customer -> Seq(Nat)]
      /\ earned'[c] = Append(earned[c], x)
      /\ \A d \in Customer \ {c} : earned'[d] = earned[d]
  BY DEF BooksOK
<1>2. \A d \in Customer : earned[d] \in Seq(Nat) /\ Len(earned[d]) \in Nat
  BY DEF BooksOK
<1>3. Len(earned'[c]) = Len(earned[c]) + 1
  BY <1>1, <1>2
<1> QED
  BY <1>1, <1>2, <1>3

LEMMA KeepRedeem ==
  ASSUME Inv, NEW w \in Worker, Redeem(w)
  PROVE Inv'
<1> DEFINE c == Who(w)
           x == Asked(w)
           n == copy[w]["points"] - x
           new == [copy[w] EXCEPT !["points"] = n]
<1>1. RowsOK /\ BooksOK /\ MemoryOK
  BY Parts DEF Inv
<1>2. c \in Customer /\ copy[w] \in Wallet /\ Asked(w) \in Nat
  BY <1>1 DEF MemoryOK, Requests, Who, Asked
<1>3. x \in Nat
  BY <1>2
<1>4. n \in Nat
  BY <1>2, <1>3, FieldsOf DEF Redeem, At, Inv, Checked, Check, Asked
<1>5. new \in Wallet /\ new["points"] = n /\ \A g \in Field \ {"points"} : new[g] = copy[w][g]
  BY <1>2, <1>4, RowWith DEF Field
<1>6. Save(c, copy[w], new, {"points"}) /\ End(w) /\ lock[c] = Nobody
  BY DEF Redeem, Free
<1>7. {"points"} \in SUBSET Field /\ lock[c] \notin Worker \ {w}
  BY <1>6, WalletAssumption DEF Field
<1>8. /\ creditLog' = creditLog
      /\ paid' = paid
      /\ pointLog' = [pointLog EXCEPT ![c] = @ - x]
      /\ forgiven' = forgiven
      /\ earned' = earned
      /\ expired' = expired
      /\ sale' = sale
      /\ awards' = awards
      /\ used' = used
      /\ card' = card
  BY DEF Redeem
<1> HIDE DEF c, x, n, new
<1>9. /\ row[c] \in Wallet /\ row' \in [Customer -> Wallet] /\ lost \subseteq lost'
      /\ row'[c]["points"] = n
      /\ \A g \in Field \ {"points"} : row'[c][g] = row[c][g]
      /\ c \notin lost' => copy[w]["points"] = row[c]["points"]
  BY <1>1, <1>2, <1>5, <1>6, <1>7, SaveRow DEF RowsOK
<1>10. \A d \in Customer : Len(earned'[d]) \in Nat /\ Len(earned'[d]) >= Len(earned[d])
  BY <1>1, <1>2, <1>3, <1>8 DEF BooksOK
<1>11. BooksOK'
  BY <1>1, <1>2, <1>3, <1>8 DEF BooksOK
<1>12. \A d \in Customer \ {c} : /\ creditLog'[d] = creditLog[d] /\ paid'[d] = paid[d]
                                 /\ pointLog'[d] = pointLog[d] /\ forgiven'[d] = forgiven[d]
  BY <1>1, <1>8 DEF BooksOK
<1>13. c \notin lost' =>
         /\ row'[c].credit = Opening["credit"] + creditLog'[c] - paid'[c]
         /\ row'[c].points = Opening["points"] + pointLog'[c] + forgiven'[c]
  <2> SUFFICES ASSUME c \notin lost'
               PROVE  /\ row'[c].credit = Opening["credit"] + creditLog'[c] - paid'[c]
                      /\ row'[c].points = Opening["points"] + pointLog'[c] + forgiven'[c]
    OBVIOUS
  <2>1. /\ row[c].credit = Opening["credit"] + creditLog[c] - paid[c]
        /\ row[c].points = Opening["points"] + pointLog[c] + forgiven[c]
    BY <1>2, <1>9 DEF Inv, Accounts, CreditAccounted, PointsAccounted
  <2>2. /\ row'[c].credit = row'[c]["credit"] /\ row'[c].points = row'[c]["points"]
        /\ row'[c]["credit"] \in Nat /\ row'[c]["points"] \in Nat
        /\ row[c]["credit"] \in Nat /\ row[c]["points"] \in Nat
        /\ Opening["credit"] \in Nat /\ Opening["points"] \in Nat
    BY <1>2, <1>9, Constants, FieldsOf
  <2>3. /\ creditLog[c] \in Int /\ pointLog[c] \in Int /\ paid[c] \in Nat
        /\ forgiven[c] \in Nat
    BY <1>1, <1>2 DEF BooksOK
  <2>4. /\ creditLog'[c] = creditLog[c] /\ paid'[c] = paid[c]
        /\ pointLog'[c] = pointLog[c] - x /\ forgiven'[c] = forgiven[c]
    BY <1>1, <1>2, <1>8 DEF BooksOK
  <2> QED
    BY <1>2, <1>3, <1>9, <2>1, <2>2, <2>3, <2>4 DEF n, Field
<1> QED
  BY <1>2, <1>5, <1>6, <1>7, <1>8, <1>10, <1>11, <1>12, <1>13, SaveKeeps

LEMMA KeepGive ==
  ASSUME Inv, NEW w \in Worker, Give(w)
  PROVE Inv'
<1> DEFINE c == Who(w)
           x == Points(copy[w], Asked(w))
           n == copy[w]["points"] + x
           new == [copy[w] EXCEPT !["points"] = n]
<1>1. RowsOK /\ BooksOK /\ MemoryOK
  BY Parts DEF Inv
<1>2. c \in Customer /\ copy[w] \in Wallet /\ Asked(w) \in Nat
  BY <1>1 DEF MemoryOK, Requests, Who, Asked
<1>3. x \in Nat
  BY <1>2, PointsType
<1>4. n \in Nat
  BY <1>2, <1>3, FieldsOf
<1>5. new \in Wallet /\ new["points"] = n /\ \A g \in Field \ {"points"} : new[g] = copy[w][g]
  BY <1>2, <1>4, RowWith DEF Field
<1>6. Save(c, copy[w], new, {"points"}) /\ End(w) /\ lock[c] = Nobody
  BY DEF Give, Free
<1>7. {"points"} \in SUBSET Field /\ lock[c] \notin Worker \ {w}
  BY <1>6, WalletAssumption DEF Field
<1>8. /\ creditLog' = creditLog
      /\ paid' = paid
      /\ pointLog' = [pointLog EXCEPT ![c] = @ + x]
      /\ forgiven' = forgiven
      /\ earned' = [earned EXCEPT ![c] = Append(@, x)]
      /\ expired' = expired
      /\ sale' = sale
      /\ awards' = awards
      /\ used' = used
      /\ card' = card
  BY DEF Give
<1> HIDE DEF c, x, n, new
<1>9. /\ row[c] \in Wallet /\ row' \in [Customer -> Wallet] /\ lost \subseteq lost'
      /\ row'[c]["points"] = n
      /\ \A g \in Field \ {"points"} : row'[c][g] = row[c][g]
      /\ c \notin lost' => copy[w]["points"] = row[c]["points"]
  BY <1>1, <1>2, <1>5, <1>6, <1>7, SaveRow DEF RowsOK
<1>10. \A d \in Customer : Len(earned'[d]) \in Nat /\ Len(earned'[d]) >= Len(earned[d])
  BY <1>1, <1>2, <1>3, <1>8, EarnedMore DEF BooksOK
<1>11. BooksOK'
  BY <1>1, <1>2, <1>3, <1>8, EarnedMore DEF BooksOK
<1>12. \A d \in Customer \ {c} : /\ creditLog'[d] = creditLog[d] /\ paid'[d] = paid[d]
                                 /\ pointLog'[d] = pointLog[d] /\ forgiven'[d] = forgiven[d]
  BY <1>1, <1>8 DEF BooksOK
<1>13. c \notin lost' =>
         /\ row'[c].credit = Opening["credit"] + creditLog'[c] - paid'[c]
         /\ row'[c].points = Opening["points"] + pointLog'[c] + forgiven'[c]
  <2> SUFFICES ASSUME c \notin lost'
               PROVE  /\ row'[c].credit = Opening["credit"] + creditLog'[c] - paid'[c]
                      /\ row'[c].points = Opening["points"] + pointLog'[c] + forgiven'[c]
    OBVIOUS
  <2>1. /\ row[c].credit = Opening["credit"] + creditLog[c] - paid[c]
        /\ row[c].points = Opening["points"] + pointLog[c] + forgiven[c]
    BY <1>2, <1>9 DEF Inv, Accounts, CreditAccounted, PointsAccounted
  <2>2. /\ row'[c].credit = row'[c]["credit"] /\ row'[c].points = row'[c]["points"]
        /\ row'[c]["credit"] \in Nat /\ row'[c]["points"] \in Nat
        /\ row[c]["credit"] \in Nat /\ row[c]["points"] \in Nat
        /\ Opening["credit"] \in Nat /\ Opening["points"] \in Nat
    BY <1>2, <1>9, Constants, FieldsOf
  <2>3. /\ creditLog[c] \in Int /\ pointLog[c] \in Int /\ paid[c] \in Nat
        /\ forgiven[c] \in Nat
    BY <1>1, <1>2 DEF BooksOK
  <2>4. /\ creditLog'[c] = creditLog[c] /\ paid'[c] = paid[c]
        /\ pointLog'[c] = pointLog[c] + x /\ forgiven'[c] = forgiven[c]
    BY <1>1, <1>2, <1>8 DEF BooksOK
  <2> QED
    BY <1>2, <1>3, <1>9, <2>1, <2>2, <2>3, <2>4 DEF n, Field
<1> QED
  BY <1>2, <1>5, <1>6, <1>7, <1>8, <1>10, <1>11, <1>12, <1>13, SaveKeeps

LEMMA KeepAddCredit ==
  ASSUME Inv, NEW w \in Worker, AddCredit(w)
  PROVE Inv'
<1> DEFINE c == Who(w)
           x == Asked(w)
           n == copy[w]["credit"] + x
           new == [copy[w] EXCEPT !["credit"] = n]
<1>1. RowsOK /\ BooksOK /\ MemoryOK
  BY Parts DEF Inv
<1>2. c \in Customer /\ copy[w] \in Wallet /\ Asked(w) \in Nat
  BY <1>1 DEF MemoryOK, Requests, Who, Asked
<1>3. x \in Nat
  BY <1>2
<1>4. n \in Nat
  BY <1>2, <1>3, FieldsOf
<1>5. new \in Wallet /\ new["credit"] = n /\ \A g \in Field \ {"credit"} : new[g] = copy[w][g]
  BY <1>2, <1>4, RowWith DEF Field
<1>6. Save(c, copy[w], new, {"credit"}) /\ End(w) /\ lock[c] = Nobody
  BY DEF AddCredit, Free
<1>7. {"credit"} \in SUBSET Field /\ lock[c] \notin Worker \ {w}
  BY <1>6, WalletAssumption DEF Field
<1>8. /\ creditLog' = [creditLog EXCEPT ![c] = @ + x]
      /\ paid' = paid
      /\ pointLog' = pointLog
      /\ forgiven' = forgiven
      /\ earned' = earned
      /\ expired' = expired
      /\ sale' = sale
      /\ awards' = awards
      /\ used' = used
      /\ card' = card
  BY DEF AddCredit
<1> HIDE DEF c, x, n, new
<1>9. /\ row[c] \in Wallet /\ row' \in [Customer -> Wallet] /\ lost \subseteq lost'
      /\ row'[c]["credit"] = n
      /\ \A g \in Field \ {"credit"} : row'[c][g] = row[c][g]
      /\ c \notin lost' => copy[w]["credit"] = row[c]["credit"]
  BY <1>1, <1>2, <1>5, <1>6, <1>7, SaveRow DEF RowsOK
<1>10. \A d \in Customer : Len(earned'[d]) \in Nat /\ Len(earned'[d]) >= Len(earned[d])
  BY <1>1, <1>2, <1>3, <1>8 DEF BooksOK
<1>11. BooksOK'
  BY <1>1, <1>2, <1>3, <1>8 DEF BooksOK
<1>12. \A d \in Customer \ {c} : /\ creditLog'[d] = creditLog[d] /\ paid'[d] = paid[d]
                                 /\ pointLog'[d] = pointLog[d] /\ forgiven'[d] = forgiven[d]
  BY <1>1, <1>8 DEF BooksOK
<1>13. c \notin lost' =>
         /\ row'[c].credit = Opening["credit"] + creditLog'[c] - paid'[c]
         /\ row'[c].points = Opening["points"] + pointLog'[c] + forgiven'[c]
  <2> SUFFICES ASSUME c \notin lost'
               PROVE  /\ row'[c].credit = Opening["credit"] + creditLog'[c] - paid'[c]
                      /\ row'[c].points = Opening["points"] + pointLog'[c] + forgiven'[c]
    OBVIOUS
  <2>1. /\ row[c].credit = Opening["credit"] + creditLog[c] - paid[c]
        /\ row[c].points = Opening["points"] + pointLog[c] + forgiven[c]
    BY <1>2, <1>9 DEF Inv, Accounts, CreditAccounted, PointsAccounted
  <2>2. /\ row'[c].credit = row'[c]["credit"] /\ row'[c].points = row'[c]["points"]
        /\ row'[c]["credit"] \in Nat /\ row'[c]["points"] \in Nat
        /\ row[c]["credit"] \in Nat /\ row[c]["points"] \in Nat
        /\ Opening["credit"] \in Nat /\ Opening["points"] \in Nat
    BY <1>2, <1>9, Constants, FieldsOf
  <2>3. /\ creditLog[c] \in Int /\ pointLog[c] \in Int /\ paid[c] \in Nat
        /\ forgiven[c] \in Nat
    BY <1>1, <1>2 DEF BooksOK
  <2>4. /\ creditLog'[c] = creditLog[c] + x /\ paid'[c] = paid[c]
        /\ pointLog'[c] = pointLog[c] /\ forgiven'[c] = forgiven[c]
    BY <1>1, <1>2, <1>8 DEF BooksOK
  <2> QED
    BY <1>2, <1>3, <1>9, <2>1, <2>2, <2>3, <2>4 DEF n, Field
<1> QED
  BY <1>2, <1>5, <1>6, <1>7, <1>8, <1>10, <1>11, <1>12, <1>13, SaveKeeps

LEMMA KeepUseCredit ==
  ASSUME Inv, NEW w \in Worker, UseCredit(w)
  PROVE Inv'
<1> DEFINE c == Who(w)
           x == Asked(w)
           n == copy[w]["credit"] - x
           new == [copy[w] EXCEPT !["credit"] = n]
<1>1. RowsOK /\ BooksOK /\ MemoryOK
  BY Parts DEF Inv
<1>2. c \in Customer /\ copy[w] \in Wallet /\ Asked(w) \in Nat
  BY <1>1 DEF MemoryOK, Requests, Who, Asked
<1>3. x \in Nat
  BY <1>2
<1>4. n \in Nat
  BY <1>2, <1>3, FieldsOf DEF UseCredit, At, Inv, Checked, Check, Asked
<1>5. new \in Wallet /\ new["credit"] = n /\ \A g \in Field \ {"credit"} : new[g] = copy[w][g]
  BY <1>2, <1>4, RowWith DEF Field
<1>6. Save(c, copy[w], new, {"credit"}) /\ End(w) /\ lock[c] = Nobody
  BY DEF UseCredit, Free
<1>7. {"credit"} \in SUBSET Field /\ lock[c] \notin Worker \ {w}
  BY <1>6, WalletAssumption DEF Field
<1>8. /\ creditLog' = [creditLog EXCEPT ![c] = @ - x]
      /\ paid' = paid
      /\ pointLog' = pointLog
      /\ forgiven' = forgiven
      /\ earned' = earned
      /\ expired' = expired
      /\ sale' = sale
      /\ awards' = awards
      /\ used' = used
      /\ card' = card
  BY DEF UseCredit
<1> HIDE DEF c, x, n, new
<1>9. /\ row[c] \in Wallet /\ row' \in [Customer -> Wallet] /\ lost \subseteq lost'
      /\ row'[c]["credit"] = n
      /\ \A g \in Field \ {"credit"} : row'[c][g] = row[c][g]
      /\ c \notin lost' => copy[w]["credit"] = row[c]["credit"]
  BY <1>1, <1>2, <1>5, <1>6, <1>7, SaveRow DEF RowsOK
<1>10. \A d \in Customer : Len(earned'[d]) \in Nat /\ Len(earned'[d]) >= Len(earned[d])
  BY <1>1, <1>2, <1>3, <1>8 DEF BooksOK
<1>11. BooksOK'
  BY <1>1, <1>2, <1>3, <1>8 DEF BooksOK
<1>12. \A d \in Customer \ {c} : /\ creditLog'[d] = creditLog[d] /\ paid'[d] = paid[d]
                                 /\ pointLog'[d] = pointLog[d] /\ forgiven'[d] = forgiven[d]
  BY <1>1, <1>8 DEF BooksOK
<1>13. c \notin lost' =>
         /\ row'[c].credit = Opening["credit"] + creditLog'[c] - paid'[c]
         /\ row'[c].points = Opening["points"] + pointLog'[c] + forgiven'[c]
  <2> SUFFICES ASSUME c \notin lost'
               PROVE  /\ row'[c].credit = Opening["credit"] + creditLog'[c] - paid'[c]
                      /\ row'[c].points = Opening["points"] + pointLog'[c] + forgiven'[c]
    OBVIOUS
  <2>1. /\ row[c].credit = Opening["credit"] + creditLog[c] - paid[c]
        /\ row[c].points = Opening["points"] + pointLog[c] + forgiven[c]
    BY <1>2, <1>9 DEF Inv, Accounts, CreditAccounted, PointsAccounted
  <2>2. /\ row'[c].credit = row'[c]["credit"] /\ row'[c].points = row'[c]["points"]
        /\ row'[c]["credit"] \in Nat /\ row'[c]["points"] \in Nat
        /\ row[c]["credit"] \in Nat /\ row[c]["points"] \in Nat
        /\ Opening["credit"] \in Nat /\ Opening["points"] \in Nat
    BY <1>2, <1>9, Constants, FieldsOf
  <2>3. /\ creditLog[c] \in Int /\ pointLog[c] \in Int /\ paid[c] \in Nat
        /\ forgiven[c] \in Nat
    BY <1>1, <1>2 DEF BooksOK
  <2>4. /\ creditLog'[c] = creditLog[c] - x /\ paid'[c] = paid[c]
        /\ pointLog'[c] = pointLog[c] /\ forgiven'[c] = forgiven[c]
    BY <1>1, <1>2, <1>8 DEF BooksOK
  <2> QED
    BY <1>2, <1>3, <1>9, <2>1, <2>2, <2>3, <2>4 DEF n, Field
<1> QED
  BY <1>2, <1>5, <1>6, <1>7, <1>8, <1>10, <1>11, <1>12, <1>13, SaveKeeps

LEMMA KeepUpdateTier ==
  ASSUME Inv, NEW w \in Worker, UpdateTier(w)
  PROVE Inv'
<1> DEFINE c == Who(w)
           new == [copy[w] EXCEPT !["tier"] = Qualify(copy[w])]
           fields == {"tier"}
<1>1. RowsOK /\ BooksOK /\ MemoryOK
  BY Parts DEF Inv
<1>2. c \in Customer /\ copy[w] \in Wallet /\ Asked(w) \in Nat
  BY <1>1 DEF MemoryOK, Requests, Who, Asked
<1>3. TRUE
  OBVIOUS
<1>5. new \in Wallet
  BY <1>2, TierRow
<1>6. Save(c, copy[w], new, fields) /\ End(w) /\ lock[c] = Nobody
  BY DEF UpdateTier, Free
<1>7. fields \in SUBSET Field /\ lock[c] \notin Worker \ {w}
  BY <1>6, WalletAssumption DEF Field
<1>8. /\ creditLog' = creditLog
      /\ paid' = paid
      /\ pointLog' = pointLog
      /\ forgiven' = forgiven
      /\ earned' = earned
      /\ expired' = expired
      /\ sale' = sale
      /\ awards' = awards
      /\ used' = used
      /\ card' = card
  BY DEF UpdateTier, books
<1> HIDE DEF c, new, fields
<1>9. /\ row[c] \in Wallet /\ row' \in [Customer -> Wallet] /\ lost \subseteq lost'
      /\ \A f \in fields : row'[c][f] = new[f]
      /\ \A f \in Field \ fields : row'[c][f] = row[c][f]
      /\ c \notin lost' => \A f \in fields : copy[w][f] = row[c][f]
  BY <1>1, <1>2, <1>5, <1>6, <1>7, SaveRow DEF RowsOK
<1>10. \A d \in Customer : Len(earned'[d]) \in Nat /\ Len(earned'[d]) >= Len(earned[d])
  BY <1>1, <1>2, <1>3, <1>8 DEF BooksOK
<1>11. BooksOK'
  <2>1. earned' \in [Customer -> Seq(Nat)]
    BY <1>1, <1>2, <1>3, <1>8 DEF BooksOK
  <2>2. expired' \in [Customer -> SUBSET Nat]
    BY <1>1, <1>2, <1>3, <1>8 DEF BooksOK
  <2>3. sale' \in [Sale -> [who : Customer, total : Nat]]
    BY <1>1, <1>2, <1>3, <1>8 DEF BooksOK
  <2>4. awards' \in [Sale -> Nat] /\ used' \in [Card -> Nat]
    BY <1>1, <1>8 DEF BooksOK
  <2>5. pointLog' \in [Customer -> Int] /\ creditLog' \in [Customer -> Int]
    BY <1>1, <1>2, <1>3, <1>8 DEF BooksOK
  <2>6. paid' \in [Customer -> Nat] /\ forgiven' \in [Customer -> Nat]
    BY <1>1, <1>2, <1>3, <1>8 DEF BooksOK
  <2> QED
    BY <2>1, <2>2, <2>3, <2>4, <2>5, <2>6 DEF BooksOK
<1>12. \A d \in Customer \ {c} : /\ creditLog'[d] = creditLog[d] /\ paid'[d] = paid[d]
                                 /\ pointLog'[d] = pointLog[d] /\ forgiven'[d] = forgiven[d]
  BY <1>1, <1>8 DEF BooksOK
<1>13. c \notin lost' =>
         /\ row'[c].credit = Opening["credit"] + creditLog'[c] - paid'[c]
         /\ row'[c].points = Opening["points"] + pointLog'[c] + forgiven'[c]
  <2> SUFFICES ASSUME c \notin lost'
               PROVE  /\ row'[c].credit = Opening["credit"] + creditLog'[c] - paid'[c]
                      /\ row'[c].points = Opening["points"] + pointLog'[c] + forgiven'[c]
    OBVIOUS
  <2>1. /\ row[c].credit = Opening["credit"] + creditLog[c] - paid[c]
        /\ row[c].points = Opening["points"] + pointLog[c] + forgiven[c]
    BY <1>2, <1>9 DEF Inv, Accounts, CreditAccounted, PointsAccounted
  <2>2. /\ row'[c].credit = row'[c]["credit"] /\ row'[c].points = row'[c]["points"]
        /\ row'[c]["credit"] \in Nat /\ row'[c]["points"] \in Nat
        /\ row[c]["credit"] \in Nat /\ row[c]["points"] \in Nat
        /\ Opening["credit"] \in Nat /\ Opening["points"] \in Nat
    BY <1>2, <1>9, Constants, FieldsOf
  <2>3. /\ creditLog[c] \in Int /\ pointLog[c] \in Int /\ paid[c] \in Nat
        /\ forgiven[c] \in Nat
    BY <1>1, <1>2 DEF BooksOK
  <2>4. /\ creditLog'[c] = creditLog[c] /\ paid'[c] = paid[c]
        /\ pointLog'[c] = pointLog[c] /\ forgiven'[c] = forgiven[c]
    BY <1>1, <1>2, <1>8 DEF BooksOK
  <2>5. row'[c]["points"] = row[c]["points"] /\ row'[c]["credit"] = row[c]["credit"]
    BY <1>2, <1>3, <1>5, <1>7, <1>9 DEF fields, Field
  <2> QED
    BY <1>2, <1>3, <2>1, <2>2, <2>3, <2>4, <2>5
<1> QED
  BY <1>2, <1>5, <1>6, <1>7, <1>8, <1>10, <1>11, <1>12, <1>13, SaveKeeps

LEMMA KeepEditCustomer ==
  ASSUME Inv, NEW w \in Worker, EditCustomer(w)
  PROVE Inv'
<1> DEFINE c == Who(w)
           new == copy[w]
           fields == Field
<1>1. RowsOK /\ BooksOK /\ MemoryOK
  BY Parts DEF Inv
<1>2. c \in Customer /\ copy[w] \in Wallet /\ Asked(w) \in Nat
  BY <1>1 DEF MemoryOK, Requests, Who, Asked
<1>3. TRUE
  OBVIOUS
<1>5. new \in Wallet
  BY <1>2
<1>6. Save(c, copy[w], new, fields) /\ End(w) /\ lock[c] = Nobody
  BY DEF EditCustomer, Free
<1>7. fields \in SUBSET Field /\ lock[c] \notin Worker \ {w}
  BY <1>6, WalletAssumption DEF Field
<1>8. /\ creditLog' = creditLog
      /\ paid' = paid
      /\ pointLog' = pointLog
      /\ forgiven' = forgiven
      /\ earned' = earned
      /\ expired' = expired
      /\ sale' = sale
      /\ awards' = awards
      /\ used' = used
      /\ card' = card
  BY DEF EditCustomer, books
<1> HIDE DEF c, new, fields
<1>9. /\ row[c] \in Wallet /\ row' \in [Customer -> Wallet] /\ lost \subseteq lost'
      /\ \A f \in fields : row'[c][f] = new[f]
      /\ \A f \in Field \ fields : row'[c][f] = row[c][f]
      /\ c \notin lost' => \A f \in fields : copy[w][f] = row[c][f]
  BY <1>1, <1>2, <1>5, <1>6, <1>7, SaveRow DEF RowsOK
<1>10. \A d \in Customer : Len(earned'[d]) \in Nat /\ Len(earned'[d]) >= Len(earned[d])
  BY <1>1, <1>2, <1>3, <1>8 DEF BooksOK
<1>11. BooksOK'
  <2>1. earned' \in [Customer -> Seq(Nat)]
    BY <1>1, <1>2, <1>3, <1>8 DEF BooksOK
  <2>2. expired' \in [Customer -> SUBSET Nat]
    BY <1>1, <1>2, <1>3, <1>8 DEF BooksOK
  <2>3. sale' \in [Sale -> [who : Customer, total : Nat]]
    BY <1>1, <1>2, <1>3, <1>8 DEF BooksOK
  <2>4. awards' \in [Sale -> Nat] /\ used' \in [Card -> Nat]
    BY <1>1, <1>8 DEF BooksOK
  <2>5. pointLog' \in [Customer -> Int] /\ creditLog' \in [Customer -> Int]
    BY <1>1, <1>2, <1>3, <1>8 DEF BooksOK
  <2>6. paid' \in [Customer -> Nat] /\ forgiven' \in [Customer -> Nat]
    BY <1>1, <1>2, <1>3, <1>8 DEF BooksOK
  <2> QED
    BY <2>1, <2>2, <2>3, <2>4, <2>5, <2>6 DEF BooksOK
<1>12. \A d \in Customer \ {c} : /\ creditLog'[d] = creditLog[d] /\ paid'[d] = paid[d]
                                 /\ pointLog'[d] = pointLog[d] /\ forgiven'[d] = forgiven[d]
  BY <1>1, <1>8 DEF BooksOK
<1>13. c \notin lost' =>
         /\ row'[c].credit = Opening["credit"] + creditLog'[c] - paid'[c]
         /\ row'[c].points = Opening["points"] + pointLog'[c] + forgiven'[c]
  <2> SUFFICES ASSUME c \notin lost'
               PROVE  /\ row'[c].credit = Opening["credit"] + creditLog'[c] - paid'[c]
                      /\ row'[c].points = Opening["points"] + pointLog'[c] + forgiven'[c]
    OBVIOUS
  <2>1. /\ row[c].credit = Opening["credit"] + creditLog[c] - paid[c]
        /\ row[c].points = Opening["points"] + pointLog[c] + forgiven[c]
    BY <1>2, <1>9 DEF Inv, Accounts, CreditAccounted, PointsAccounted
  <2>2. /\ row'[c].credit = row'[c]["credit"] /\ row'[c].points = row'[c]["points"]
        /\ row'[c]["credit"] \in Nat /\ row'[c]["points"] \in Nat
        /\ row[c]["credit"] \in Nat /\ row[c]["points"] \in Nat
        /\ Opening["credit"] \in Nat /\ Opening["points"] \in Nat
    BY <1>2, <1>9, Constants, FieldsOf
  <2>3. /\ creditLog[c] \in Int /\ pointLog[c] \in Int /\ paid[c] \in Nat
        /\ forgiven[c] \in Nat
    BY <1>1, <1>2 DEF BooksOK
  <2>4. /\ creditLog'[c] = creditLog[c] /\ paid'[c] = paid[c]
        /\ pointLog'[c] = pointLog[c] /\ forgiven'[c] = forgiven[c]
    BY <1>1, <1>2, <1>8 DEF BooksOK
  <2>5. row'[c]["points"] = row[c]["points"] /\ row'[c]["credit"] = row[c]["credit"]
    BY <1>2, <1>3, <1>5, <1>7, <1>9 DEF fields, Field, new
  <2> QED
    BY <1>2, <1>3, <2>1, <2>2, <2>3, <2>4, <2>5
<1> QED
  BY <1>2, <1>5, <1>6, <1>7, <1>8, <1>10, <1>11, <1>12, <1>13, SaveKeeps

LEMMA KeepExpire ==
  ASSUME Inv, NEW w \in Worker, Expire(w)
  PROVE Inv'
<1> DEFINE c == Who(w)
           had == copy[w].points
           taken == IF total[w] <= had THEN total[w] ELSE had
           new == [copy[w] EXCEPT !["points"] = had - taken]
           fields == {"points"}
<1>1. RowsOK /\ BooksOK /\ MemoryOK
  BY Parts DEF Inv
<1>2. c \in Customer /\ copy[w] \in Wallet /\ Asked(w) \in Nat
  BY <1>1 DEF MemoryOK, Requests, Who, Asked
<1>3. /\ taken \in Nat /\ had = copy[w]["points"] /\ had - taken \in Nat
      /\ total[w] \in Nat /\ total[w] - taken \in Nat /\ listed[w] \subseteq Nat
  BY <1>1, <1>2, FieldsOf DEF MemoryOK
<1>5. new \in Wallet /\ new["points"] = had - taken
  BY <1>2, <1>3, RowWith DEF Field
<1>6. Save(c, copy[w], new, fields) /\ End(w) /\ lock[c] = Nobody
  BY DEF Expire, Free
<1>7. fields \in SUBSET Field /\ lock[c] \notin Worker \ {w}
  BY <1>6, WalletAssumption DEF Field
<1>8. /\ creditLog' = creditLog
      /\ paid' = paid
      /\ pointLog' = [pointLog EXCEPT ![c] = @ - total[w]]
      /\ forgiven' = [forgiven EXCEPT ![c] = @ + (total[w] - taken)]
      /\ earned' = earned
      /\ expired' = [expired EXCEPT ![c] = @ \cup listed[w]]
      /\ sale' = sale
      /\ awards' = awards
      /\ used' = used
      /\ card' = card
  BY DEF Expire
<1> HIDE DEF c, new, fields, had, taken
<1>9. /\ row[c] \in Wallet /\ row' \in [Customer -> Wallet] /\ lost \subseteq lost'
      /\ \A f \in fields : row'[c][f] = new[f]
      /\ \A f \in Field \ fields : row'[c][f] = row[c][f]
      /\ c \notin lost' => \A f \in fields : copy[w][f] = row[c][f]
  BY <1>1, <1>2, <1>5, <1>6, <1>7, SaveRow DEF RowsOK
<1>10. \A d \in Customer : Len(earned'[d]) \in Nat /\ Len(earned'[d]) >= Len(earned[d])
  BY <1>1, <1>2, <1>3, <1>8 DEF BooksOK
<1>11. BooksOK'
  <2>1. earned' \in [Customer -> Seq(Nat)]
    BY <1>1, <1>8 DEF BooksOK
  <2>2. expired' \in [Customer -> SUBSET Nat]
    BY <1>1, <1>3, <1>8 DEF BooksOK
  <2>3. sale' \in [Sale -> [who : Customer, total : Nat]]
    BY <1>1, <1>8 DEF BooksOK
  <2>4. awards' \in [Sale -> Nat] /\ used' \in [Card -> Nat]
    BY <1>1, <1>8 DEF BooksOK
  <2>5. pointLog' \in [Customer -> Int] /\ creditLog' \in [Customer -> Int]
    BY <1>1, <1>2, <1>3, <1>8 DEF BooksOK
  <2>6. paid' \in [Customer -> Nat]
    BY <1>1, <1>8 DEF BooksOK
  <2>7. forgiven[c] + (total[w] - taken) \in Nat
    BY <1>1, <1>2, <1>3 DEF BooksOK
  <2>8. forgiven' \in [Customer -> Nat]
    BY <1>1, <1>8, <2>7 DEF BooksOK
  <2> QED
    BY <2>1, <2>2, <2>3, <2>4, <2>5, <2>6, <2>8 DEF BooksOK
<1>12. \A d \in Customer \ {c} : /\ creditLog'[d] = creditLog[d] /\ paid'[d] = paid[d]
                                 /\ pointLog'[d] = pointLog[d] /\ forgiven'[d] = forgiven[d]
  BY <1>1, <1>8 DEF BooksOK
<1>13. c \notin lost' =>
         /\ row'[c].credit = Opening["credit"] + creditLog'[c] - paid'[c]
         /\ row'[c].points = Opening["points"] + pointLog'[c] + forgiven'[c]
  <2> SUFFICES ASSUME c \notin lost'
               PROVE  /\ row'[c].credit = Opening["credit"] + creditLog'[c] - paid'[c]
                      /\ row'[c].points = Opening["points"] + pointLog'[c] + forgiven'[c]
    OBVIOUS
  <2>1. /\ row[c].credit = Opening["credit"] + creditLog[c] - paid[c]
        /\ row[c].points = Opening["points"] + pointLog[c] + forgiven[c]
    BY <1>2, <1>9 DEF Inv, Accounts, CreditAccounted, PointsAccounted
  <2>2. /\ row'[c].credit = row'[c]["credit"] /\ row'[c].points = row'[c]["points"]
        /\ row'[c]["credit"] \in Nat /\ row'[c]["points"] \in Nat
        /\ row[c]["credit"] \in Nat /\ row[c]["points"] \in Nat
        /\ Opening["credit"] \in Nat /\ Opening["points"] \in Nat
    BY <1>2, <1>9, Constants, FieldsOf
  <2>3. /\ creditLog[c] \in Int /\ pointLog[c] \in Int /\ paid[c] \in Nat
        /\ forgiven[c] \in Nat
    BY <1>1, <1>2 DEF BooksOK
  <2>4. /\ creditLog'[c] = creditLog[c] /\ paid'[c] = paid[c]
        /\ pointLog'[c] = pointLog[c] - total[w] /\ forgiven'[c] = forgiven[c] + (total[w] - taken)
    BY <1>1, <1>2, <1>8 DEF BooksOK
  <2>5. row'[c]["points"] = row[c]["points"] - taken /\ row'[c]["credit"] = row[c]["credit"]
    BY <1>2, <1>3, <1>5, <1>7, <1>9 DEF fields, Field
  <2> QED
    BY <1>2, <1>3, <2>1, <2>2, <2>3, <2>4, <2>5
<1> QED
  BY <1>2, <1>5, <1>6, <1>7, <1>8, <1>10, <1>11, <1>12, <1>13, SaveKeeps

LEMMA KeepResave ==
  ASSUME Inv, NEW w \in Worker, Resave(w)
  PROVE Inv'
<1> DEFINE c == Who(w)
           x == Asked(w)
           n == Points(copy[w], x)
           new == Award(copy[w], x)
           fields == {"points", "purchases"} \cup TierField(copy[w], new)
<1>1. RowsOK /\ BooksOK /\ MemoryOK
  BY Parts DEF Inv
<1>2. c \in Customer /\ copy[w] \in Wallet /\ Asked(w) \in Nat /\ req[w].sale \in Sale
  BY <1>1 DEF MemoryOK, Requests, Who, Asked
<1>3. x \in Nat /\ n \in Nat
  BY <1>2, PointsType
<1>5. new \in Wallet /\ new["points"] = copy[w]["points"] + n
  BY <1>2, <1>3, AwardRow
<1>6. Save(c, copy[w], new, fields) /\ End(w) /\ lock[c] = Nobody
  BY DEF Resave, Free
<1>7. fields \in SUBSET Field /\ lock[c] \notin Worker \ {w}
  BY <1>6, TierFields, WalletAssumption DEF Field
<1>8. /\ creditLog' = creditLog
      /\ paid' = paid
      /\ pointLog' = [pointLog EXCEPT ![c] = @ + n]
      /\ forgiven' = forgiven
      /\ earned' = [earned EXCEPT ![c] = Append(@, n)]
      /\ expired' = expired
      /\ sale' = [sale EXCEPT ![req[w].sale] = [who |-> c, total |-> x]]
      /\ awards' = [awards EXCEPT ![req[w].sale] = @ + 1]
      /\ used' = used
      /\ card' = card
  BY DEF Resave, Awarded
<1> HIDE DEF c, new, fields, x, n
<1>9. /\ row[c] \in Wallet /\ row' \in [Customer -> Wallet] /\ lost \subseteq lost'
      /\ \A f \in fields : row'[c][f] = new[f]
      /\ \A f \in Field \ fields : row'[c][f] = row[c][f]
      /\ c \notin lost' => \A f \in fields : copy[w][f] = row[c][f]
  BY <1>1, <1>2, <1>5, <1>6, <1>7, SaveRow DEF RowsOK
<1>10. \A d \in Customer : Len(earned'[d]) \in Nat /\ Len(earned'[d]) >= Len(earned[d])
  BY <1>1, <1>2, <1>3, <1>8, EarnedMore DEF BooksOK
<1>11. BooksOK'
  <2>1. earned' \in [Customer -> Seq(Nat)]
    BY <1>1, <1>2, <1>3, <1>8, EarnedMore DEF BooksOK
  <2>2. expired' \in [Customer -> SUBSET Nat]
    BY <1>1, <1>2, <1>3, <1>8 DEF BooksOK
  <2>3. sale' \in [Sale -> [who : Customer, total : Nat]]
    BY <1>1, <1>2, <1>3, <1>8 DEF BooksOK
  <2>4. awards' \in [Sale -> Nat] /\ used' \in [Card -> Nat]
    <3>1. awards \in [Sale -> Nat] /\ used \in [Card -> Nat]
      BY <1>1 DEF BooksOK
    <3>2. awards' = [awards EXCEPT ![req[w].sale] = @ + 1] /\ used' = used
      BY <1>8
    <3>3. awards[req[w].sale] + 1 \in Nat
      BY <1>2, <3>1
    <3> QED
      BY <1>2, <3>1, <3>2, <3>3
  <2>5. pointLog' \in [Customer -> Int] /\ creditLog' \in [Customer -> Int]
    BY SMTT(40), <1>1, <1>2, <1>3, <1>8 DEF BooksOK
  <2>6. paid' \in [Customer -> Nat] /\ forgiven' \in [Customer -> Nat]
    BY SMTT(40), <1>1, <1>2, <1>3, <1>8 DEF BooksOK
  <2> QED
    BY <2>1, <2>2, <2>3, <2>4, <2>5, <2>6 DEF BooksOK
<1>12. \A d \in Customer \ {c} : /\ creditLog'[d] = creditLog[d] /\ paid'[d] = paid[d]
                                 /\ pointLog'[d] = pointLog[d] /\ forgiven'[d] = forgiven[d]
  BY <1>1, <1>8 DEF BooksOK
<1>13. c \notin lost' =>
         /\ row'[c].credit = Opening["credit"] + creditLog'[c] - paid'[c]
         /\ row'[c].points = Opening["points"] + pointLog'[c] + forgiven'[c]
  <2> SUFFICES ASSUME c \notin lost'
               PROVE  /\ row'[c].credit = Opening["credit"] + creditLog'[c] - paid'[c]
                      /\ row'[c].points = Opening["points"] + pointLog'[c] + forgiven'[c]
    OBVIOUS
  <2>1. /\ row[c].credit = Opening["credit"] + creditLog[c] - paid[c]
        /\ row[c].points = Opening["points"] + pointLog[c] + forgiven[c]
    BY <1>2, <1>9 DEF Inv, Accounts, CreditAccounted, PointsAccounted
  <2>2. /\ row'[c].credit = row'[c]["credit"] /\ row'[c].points = row'[c]["points"]
        /\ row'[c]["credit"] \in Nat /\ row'[c]["points"] \in Nat
        /\ row[c]["credit"] \in Nat /\ row[c]["points"] \in Nat
        /\ Opening["credit"] \in Nat /\ Opening["points"] \in Nat
    BY <1>2, <1>9, Constants, FieldsOf
  <2>3. /\ creditLog[c] \in Int /\ pointLog[c] \in Int /\ paid[c] \in Nat
        /\ forgiven[c] \in Nat
    BY <1>1, <1>2 DEF BooksOK
  <2>4. /\ creditLog'[c] = creditLog[c] /\ paid'[c] = paid[c]
        /\ pointLog'[c] = pointLog[c] + n /\ forgiven'[c] = forgiven[c]
    BY <1>1, <1>2, <1>8 DEF BooksOK
  <2>5. row'[c]["points"] = row[c]["points"] + n /\ row'[c]["credit"] = row[c]["credit"]
    BY <1>2, <1>3, <1>5, <1>7, <1>9, TierFields DEF fields, Field
  <2> QED
    BY <1>2, <1>3, <2>1, <2>2, <2>3, <2>4, <2>5
<1> QED
  BY <1>2, <1>5, <1>6, <1>7, <1>8, <1>10, <1>11, <1>12, <1>13, SaveKeeps

LEMMA KeepFinishSale ==
  ASSUME Inv, NEW w \in Worker, FinishSale(w)
  PROVE Inv'
<1> DEFINE c == Who(w)
           x == Asked(w)
           n == Points(copy[w], x)
           m == Charge(w)
           p == Award(copy[w], x)
           k == p["credit"] - m
           new == [p EXCEPT !["credit"] = k]
           fields == {"points", "purchases", "credit"} \cup TierField(copy[w], new)
<1>1. RowsOK /\ BooksOK /\ MemoryOK
  BY Parts DEF Inv
<1>2. c \in Customer /\ copy[w] \in Wallet /\ Asked(w) \in Nat /\ req[w].sale \in Sale
  BY <1>1 DEF MemoryOK, Requests, Who, Asked
<1>3. x \in Nat /\ n \in Nat /\ m \in Nat
  BY <1>2, PointsType DEF Charge
<1>4. /\ p \in Wallet /\ p["points"] = copy[w]["points"] + n
      /\ p["credit"] = copy[w]["credit"] /\ k \in Nat
  <2>1. /\ p \in Wallet /\ p["points"] = copy[w]["points"] + n
        /\ p["credit"] = copy[w]["credit"]
    BY <1>2, <1>3, AwardRow
  <2>2. m <= copy[w].credit
    BY DEF FinishSale
  <2> HIDE DEF p, m, n
  <2> QED
    BY <1>2, <1>3, <2>1, <2>2, FieldsOf
<1>5. new \in Wallet /\ new["points"] = copy[w]["points"] + n /\ new["credit"] = copy[w]["credit"] - m
  BY <1>2, <1>3, <1>4, RowWith DEF Field
<1>6. Save(c, copy[w], new, fields) /\ End(w) /\ lock[c] = w
  BY DEF FinishSale, Free, At, Inv, Locked, Lock, Who
<1>7. fields \in SUBSET Field /\ lock[c] \notin Worker \ {w}
  BY <1>6, TierFields, WalletAssumption DEF Field
<1>8. /\ creditLog' = creditLog
      /\ paid' = [paid EXCEPT ![c] = @ + m]
      /\ pointLog' = [pointLog EXCEPT ![c] = @ + n]
      /\ forgiven' = forgiven
      /\ earned' = [earned EXCEPT ![c] = Append(@, n)]
      /\ expired' = expired
      /\ sale' = [sale EXCEPT ![req[w].sale] = [who |-> c, total |-> x]]
      /\ awards' = [awards EXCEPT ![req[w].sale] = @ + 1]
      /\ used' = used
      /\ card' = card
  BY DEF FinishSale, Awarded
<1> HIDE DEF c, new, fields, x, n, m, p, k
<1>9. /\ row[c] \in Wallet /\ row' \in [Customer -> Wallet] /\ lost \subseteq lost'
      /\ \A f \in fields : row'[c][f] = new[f]
      /\ \A f \in Field \ fields : row'[c][f] = row[c][f]
      /\ c \notin lost' => \A f \in fields : copy[w][f] = row[c][f]
  BY <1>1, <1>2, <1>5, <1>6, <1>7, SaveRow DEF RowsOK
<1>10. \A d \in Customer : Len(earned'[d]) \in Nat /\ Len(earned'[d]) >= Len(earned[d])
  BY <1>1, <1>2, <1>3, <1>8, EarnedMore DEF BooksOK
<1>11. BooksOK'
  <2>1. earned' \in [Customer -> Seq(Nat)]
    BY <1>1, <1>2, <1>3, <1>8, EarnedMore DEF BooksOK
  <2>2. expired' \in [Customer -> SUBSET Nat]
    BY <1>1, <1>2, <1>3, <1>8 DEF BooksOK
  <2>3. sale' \in [Sale -> [who : Customer, total : Nat]]
    BY <1>1, <1>2, <1>3, <1>8 DEF BooksOK
  <2>4. awards' \in [Sale -> Nat] /\ used' \in [Card -> Nat]
    <3>1. awards \in [Sale -> Nat] /\ used \in [Card -> Nat]
      BY <1>1 DEF BooksOK
    <3>2. awards' = [awards EXCEPT ![req[w].sale] = @ + 1] /\ used' = used
      BY <1>8
    <3>3. awards[req[w].sale] + 1 \in Nat
      BY <1>2, <3>1
    <3> QED
      BY <1>2, <3>1, <3>2, <3>3
  <2>5. pointLog' \in [Customer -> Int] /\ creditLog' \in [Customer -> Int]
    <3>1. pointLog \in [Customer -> Int] /\ creditLog \in [Customer -> Int]
      BY <1>1 DEF BooksOK
    <3>2. pointLog' = [pointLog EXCEPT ![c] = @ + n] /\ creditLog' = creditLog
      BY <1>8
    <3>3. pointLog[c] + n \in Int
      BY <1>2, <1>3, <3>1
    <3> QED
      BY <3>1, <3>2, <3>3
  <2>6. paid' \in [Customer -> Nat] /\ forgiven' \in [Customer -> Nat]
    <3>1. paid \in [Customer -> Nat] /\ forgiven \in [Customer -> Nat]
      BY <1>1 DEF BooksOK
    <3>2. paid' = [paid EXCEPT ![c] = @ + m] /\ forgiven' = forgiven
      BY <1>8
    <3>3. paid[c] + m \in Nat
      BY <1>2, <1>3, <3>1
    <3> QED
      BY <3>1, <3>2, <3>3
  <2> QED
    BY <2>1, <2>2, <2>3, <2>4, <2>5, <2>6 DEF BooksOK
<1>12. \A d \in Customer \ {c} : /\ creditLog'[d] = creditLog[d] /\ paid'[d] = paid[d]
                                 /\ pointLog'[d] = pointLog[d] /\ forgiven'[d] = forgiven[d]
  BY <1>1, <1>8 DEF BooksOK
<1>13. c \notin lost' =>
         /\ row'[c].credit = Opening["credit"] + creditLog'[c] - paid'[c]
         /\ row'[c].points = Opening["points"] + pointLog'[c] + forgiven'[c]
  <2> SUFFICES ASSUME c \notin lost'
               PROVE  /\ row'[c].credit = Opening["credit"] + creditLog'[c] - paid'[c]
                      /\ row'[c].points = Opening["points"] + pointLog'[c] + forgiven'[c]
    OBVIOUS
  <2>1. /\ row[c].credit = Opening["credit"] + creditLog[c] - paid[c]
        /\ row[c].points = Opening["points"] + pointLog[c] + forgiven[c]
    BY <1>2, <1>9 DEF Inv, Accounts, CreditAccounted, PointsAccounted
  <2>2. /\ row'[c].credit = row'[c]["credit"] /\ row'[c].points = row'[c]["points"]
        /\ row'[c]["credit"] \in Nat /\ row'[c]["points"] \in Nat
        /\ row[c]["credit"] \in Nat /\ row[c]["points"] \in Nat
        /\ Opening["credit"] \in Nat /\ Opening["points"] \in Nat
    BY <1>2, <1>9, Constants, FieldsOf
  <2>3. /\ creditLog[c] \in Int /\ pointLog[c] \in Int /\ paid[c] \in Nat
        /\ forgiven[c] \in Nat
    BY <1>1, <1>2 DEF BooksOK
  <2>4. /\ creditLog'[c] = creditLog[c] /\ paid'[c] = paid[c] + m
        /\ pointLog'[c] = pointLog[c] + n /\ forgiven'[c] = forgiven[c]
    BY <1>1, <1>2, <1>8 DEF BooksOK
  <2>5. row'[c]["points"] = row[c]["points"] + n /\ row'[c]["credit"] = row[c]["credit"] - m
    BY <1>2, <1>3, <1>5, <1>7, <1>9, TierFields DEF fields, Field
  <2> QED
    BY <1>2, <1>3, <2>1, <2>2, <2>3, <2>4, <2>5
<1> QED
  BY <1>2, <1>5, <1>6, <1>7, <1>8, <1>10, <1>11, <1>12, <1>13, SaveKeeps

-----------------------------------------------------------------------------
(* The second save of a transfer. *)
LEMMA KeepSaveRecipient ==
  ASSUME Inv, NEW w \in Worker, SaveRecipient(w)
  PROVE Inv'
<1> DEFINE c == Who(w)
           d == req[w].to
           x == Asked(w)
           a == copy[w].points - x
           b == other[w].points + x
<1>1. RowsOK /\ BooksOK /\ MemoryOK
  BY Parts DEF Inv
<1>2. /\ c \in Customer /\ d \in Customer /\ c # d /\ x \in Nat
      /\ copy[w] \in Wallet /\ other[w] \in Wallet
  BY <1>1 DEF SaveRecipient, At, Inv, Checked, Check, MemoryOK, Requests, Who, Asked
<1>3. x <= copy[w].points /\ lock[c] = w /\ lock[d] = Nobody
  BY DEF SaveRecipient, At, Inv, Checked, Check, Locked, Lock, Who, Asked, Free
<1>4. a \in Nat /\ b \in Nat
  BY <1>2, <1>3, FieldsOf
<1>5. /\ row' = [row EXCEPT ![c]["points"] = a, ![d]["points"] = b]
      /\ lost' = lost \cup {y \in {c} : copy[w].points # row[c].points}
                      \cup {y \in {d} : other[w].points # row[d].points}
      /\ pointLog' = [pointLog EXCEPT ![c] = @ - x, ![d] = @ + x]
      /\ earned' = [earned EXCEPT ![d] = Append(@, x)]
      /\ End(w)
      /\ UNCHANGED <<card, expired, sale, awards, creditLog, paid, forgiven, used>>
  BY DEF SaveRecipient
<1> HIDE DEF c, d, x
<1>6. /\ [row[c] EXCEPT !["points"] = a] \in Wallet
      /\ [row[d] EXCEPT !["points"] = b] \in Wallet
      /\ [row[c] EXCEPT !["points"] = a]["points"] = a
      /\ [row[c] EXCEPT !["points"] = a]["credit"] = row[c]["credit"]
      /\ [row[d] EXCEPT !["points"] = b]["points"] = b
      /\ [row[d] EXCEPT !["points"] = b]["credit"] = row[d]["credit"]
  BY <1>1, <1>2, <1>4, RowWith DEF RowsOK, Field
<1>7. /\ row'[c] = [row[c] EXCEPT !["points"] = a]
      /\ row'[d] = [row[d] EXCEPT !["points"] = b]
      /\ \A y \in Customer \ {c, d} : row'[y] = row[y]
      /\ row' = [y \in Customer |-> row'[y]]
  BY <1>1, <1>2, <1>5 DEF RowsOK
<1> HIDE DEF a, b
<1>8. row' \in [Customer -> Wallet]
  <2>1. \A y \in Customer : row'[y] \in Wallet
    BY <1>1, <1>6, <1>7 DEF RowsOK
  <2> QED
    BY <1>7, <2>1
<1>9. RowsOK'
  BY <1>1, <1>2, <1>5, <1>8 DEF RowsOK
<1>10. /\ earned' \in [Customer -> Seq(Nat)]
       /\ \A y \in Customer : Len(earned'[y]) \in Nat /\ Len(earned'[y]) >= Len(earned[y])
  BY <1>1, <1>2, <1>5, EarnedMore
<1>11. BooksOK'
  <2>1. pointLog' \in [Customer -> Int]
    BY <1>1, <1>2, <1>5 DEF BooksOK
  <2> QED
    BY <1>1, <1>5, <1>10, <2>1 DEF BooksOK
<1>12. MemoryOK'
  BY <1>1, <1>5, EndMemory
<1>13. Checked'
  BY <1>5, <1>10, EndChecked
<1>14. Locked'
  <2>1. \A y \in Customer : lock[y] \in Worker \ {w} => row'[y] = row[y]
    BY <1>3, <1>7, WalletAssumption DEF c, d
  <2> QED
    BY <1>5, <2>1, EndLocked
<1>15. CreditAccounted'
  <2> SUFFICES ASSUME NEW y \in Customer \ lost'
               PROVE row'[y].credit = Opening["credit"] + creditLog'[y] - paid'[y]
    BY DEF CreditAccounted
  <2>1. row'[y]["credit"] = row[y]["credit"]
    BY <1>6, <1>7
  <2>2. row[y].credit = Opening["credit"] + creditLog[y] - paid[y]
    BY <1>5 DEF Inv, Accounts, CreditAccounted
  <2> QED
    BY <1>1, <1>5, <1>8, <2>1, <2>2, FieldsOf DEF RowsOK
<1>16. PointsAccounted'
  <2> SUFFICES ASSUME NEW y \in Customer \ lost'
               PROVE row'[y].points = Opening["points"] + pointLog'[y] + forgiven'[y]
    BY DEF PointsAccounted
  <2>1. /\ row[y].points = Opening["points"] + pointLog[y] + forgiven[y]
        /\ row[y].points = row[y]["points"] /\ row'[y].points = row'[y]["points"]
    BY <1>1, <1>5, <1>8, FieldsOf DEF RowsOK, Inv, Accounts, PointsAccounted
  <2>2. /\ Opening["points"] \in Nat /\ pointLog[y] \in Int /\ forgiven[y] \in Nat
    BY <1>1, Constants, FieldsOf DEF BooksOK
  <2>3. CASE y = c
    <3>1. copy[w].points = row[c].points
      BY <1>5, <2>3
    <3>2. pointLog'[c] = pointLog[c] - x /\ row'[c]["points"] = copy[w].points - x
      BY <1>1, <1>2, <1>5, <1>6, <1>7 DEF BooksOK, a
    <3> QED
      BY <1>2, <1>5, <2>1, <2>2, <2>3, <3>1, <3>2
  <2>4. CASE y = d
    <3>1. other[w].points = row[d].points
      BY <1>5, <2>4
    <3>2. pointLog'[d] = pointLog[d] + x /\ row'[d]["points"] = other[w].points + x
      BY <1>1, <1>2, <1>5, <1>6, <1>7 DEF BooksOK, b
    <3> QED
      BY <1>2, <1>5, <2>1, <2>2, <2>4, <3>1, <3>2
  <2>5. CASE y \notin {c, d}
    BY <1>1, <1>2, <1>5, <1>7, <2>1, <2>5 DEF BooksOK
  <2> QED
    BY <2>3, <2>4, <2>5
<1>17. CardSettled' /\ \A k \in Card : card'[k].status = "none" => used'[k] = 0
  BY <1>5 DEF Inv, Accounts, CardSettled
<1> QED
  BY <1>9, <1>11, <1>12, <1>13, <1>14, <1>15, <1>16, <1>17, PartsNext DEF Inv, Accounts

-----------------------------------------------------------------------------
(* What rolls back, and what goes on without a save. *)
LEMMA RollbackKeeps ==
  ASSUME Inv, NEW w \in Worker, End(w), UNCHANGED <<row, card, books, lost>>
  PROVE Inv'
<1>1. RowsOK /\ BooksOK /\ MemoryOK
  BY Parts DEF Inv
<1>2. RowsOK' /\ BooksOK'
  BY <1>1 DEF RowsOK, BooksOK, books
<1>3. MemoryOK'
  BY <1>1, EndMemory
<1>4. \A d \in Customer : Len(earned'[d]) \in Nat /\ Len(earned'[d]) >= Len(earned[d])
  BY <1>1 DEF BooksOK, books
<1>5. Checked'
  BY <1>4, EndChecked
<1>6. Locked'
  BY EndLocked
<1>7. Accounts'
  BY DEF Inv, Accounts, CreditAccounted, PointsAccounted, CardSettled, books
<1> QED
  BY <1>2, <1>3, <1>5, <1>6, <1>7, PartsNext DEF Inv

LEMMA KeepReadRecipient ==
  ASSUME Inv, NEW w \in Worker, ReadRecipient(w)
  PROVE Inv'
<1>1. RowsOK /\ MemoryOK /\ Check(w) /\ Lock(w)
  BY Parts DEF Inv, Checked, Locked
<1>2. /\ pc[w] = "recipient" /\ pc' = [pc EXCEPT ![w] = "sender"]
      /\ other' = [other EXCEPT ![w] = row[req[w].to]]
      /\ UNCHANGED <<row, card, books, lost>>
      /\ UNCHANGED <<lock, req, copy, held, listed, counted, total, served>>
  BY DEF ReadRecipient, At
<1>3. row[req[w].to] \in Wallet
  BY <1>1 DEF MemoryOK, Requests, RowsOK
<1>4. MemoryOK'
  BY <1>1, <1>2, <1>3 DEF MemoryOK, Places
<1>5. Check(w)' /\ Lock(w)'
  BY <1>1, <1>2 DEF Check, Lock, MemoryOK
<1>6. \A v \in Worker \ {w} : pc'[v] = pc[v]
  BY <1>1, <1>2 DEF MemoryOK
<1> QED
  BY <1>2, <1>4, <1>5, <1>6, ReadsKeep

LEMMA KeepSaveSender ==
  ASSUME Inv, NEW w \in Worker, SaveSender(w)
  PROVE Inv'
<1>1. MemoryOK /\ Check(w) /\ Lock(w)
  BY Parts DEF Inv, Checked, Locked
<1>2. /\ pc[w] = "sender" /\ pc' = [pc EXCEPT ![w] = "both"]
      /\ lock' = [lock EXCEPT ![req[w].who] = w] /\ lock[req[w].who] = Nobody
      /\ UNCHANGED <<row, card, books, lost>>
      /\ UNCHANGED <<req, copy, other, held, listed, counted, total, served>>
  BY DEF SaveSender, At, memory, Who, Free
<1>3. req[w].who \in Lockable
  BY <1>1 DEF MemoryOK, Requests, Lockable
<1>4. MemoryOK'
  BY <1>1, <1>2, <1>3 DEF MemoryOK, Places
<1>5. Check(w)' /\ Lock(w)'
  BY <1>1, <1>2, <1>3 DEF Check, Lock, MemoryOK
<1>6. \A v \in Worker \ {w} : pc'[v] = pc[v]
  BY <1>1, <1>2 DEF MemoryOK
<1>7. \A x \in Lockable, v \in Worker \ {w} : lock[x] = v => lock'[x] = v
  BY <1>1, <1>2, WalletAssumption DEF MemoryOK
<1> QED
  BY <1>2, <1>4, <1>5, <1>6, <1>7, ReadsKeep

LEMMA KeepListOld ==
  ASSUME Inv, NEW w \in Worker, NEW n \in 1 .. Len(earned[Who(w)]), ListOld(w, n)
  PROVE Inv'
<1> DEFINE old == {i \in Unexpired(Who(w)) : i <= n}
<1>1. BooksOK /\ MemoryOK /\ Check(w) /\ Lock(w)
  BY Parts DEF Inv, Checked, Locked
<1>2. /\ pc[w] = "list" /\ pc' = [pc EXCEPT ![w] = "mark"]
      /\ listed' = [listed EXCEPT ![w] = old]
      /\ UNCHANGED <<row, card, books, lost>>
      /\ UNCHANGED <<lock, req, copy, other, held, counted, total, served>>
  BY DEF ListOld, At
<1>3. earned[req[w].who] \in Seq(Nat)
  BY <1>1 DEF BooksOK, MemoryOK, Requests
<1>4. old \subseteq 1 .. Len(earned[req[w].who]) /\ old \subseteq Nat
  BY <1>3 DEF Unexpired, Who
<1> HIDE DEF old
<1>5. MemoryOK'
  BY <1>1, <1>2, <1>4 DEF MemoryOK, Places
<1>6. Check(w)' /\ Lock(w)'
  BY <1>1, <1>2, <1>4 DEF Check, Lock, MemoryOK, books
<1>7. \A v \in Worker \ {w} : pc'[v] = pc[v] /\ listed'[v] = listed[v]
  BY <1>1, <1>2 DEF MemoryOK
<1> QED
  BY <1>2, <1>5, <1>6, <1>7, ReadsKeep

LEMMA KeepMarkOld ==
  ASSUME Inv, NEW w \in Worker, MarkOld(w)
  PROVE Inv'
<1>1. BooksOK /\ MemoryOK /\ Check(w) /\ Lock(w)
  BY Parts DEF Inv, Checked, Locked
<1>2. /\ pc[w] = "mark"
      /\ UNCHANGED <<row, card, books, lost>>
      /\ UNCHANGED <<lock, pc, req, copy, other, held, listed, served>>
  BY DEF MarkOld, At
<1>3. PICK i \in listed[w] \ counted[w] :
        /\ counted' = [counted EXCEPT ![w] = @ \cup {i}]
        /\ total' = [total EXCEPT ![w] = @ + earned[Who(w)][i]]
  BY DEF MarkOld
<1>4. earned[Who(w)] \in Seq(Nat)
  BY <1>1 DEF BooksOK, MemoryOK, Requests, Who
<1>5. i \in 1 .. Len(earned[Who(w)])
  BY <1>1, <1>2 DEF Check, Who
<1>6. earned[Who(w)][i] \in Nat /\ i \in Nat
  BY <1>4, <1>5
<1>7. counted' \in [Worker -> SUBSET Nat] /\ total' \in [Worker -> Nat]
  BY <1>1, <1>3, <1>6 DEF MemoryOK
<1>8. MemoryOK'
  BY <1>1, <1>2, <1>7 DEF MemoryOK
<1>9. Check(w)' /\ Lock(w)'
  BY <1>1, <1>2 DEF Check, Lock, books
<1> QED
  BY <1>2, <1>8, <1>9, ReadsKeep
-----------------------------------------------------------------------------
(* Gift cards. *)
LEMMA CardKeeps ==
  ASSUME Inv, NEW w \in Worker, End(w), UNCHANGED <<row, earned, expired, sale, awards,
                                      pointLog, creditLog, paid, forgiven>>,
         card' \in [Card -> [balance : Nat, status : CardStatus]], used' \in [Card -> Nat],
         \A k \in Card : card[k].status # "none" => card'[k].status # "none",
         lost \subseteq lost', lost' \subseteq Customer \cup Card,
         CardSettled', \A k \in Card : card'[k].status = "none" => used'[k] = 0
  PROVE Inv'
<1>1. RowsOK /\ BooksOK /\ MemoryOK
  BY Parts DEF Inv
<1>2. RowsOK' /\ BooksOK'
  BY <1>1 DEF RowsOK, BooksOK
<1>3. MemoryOK'
  BY <1>1, EndMemory
<1>4. \A d \in Customer : Len(earned'[d]) \in Nat /\ Len(earned'[d]) >= Len(earned[d])
  BY <1>1 DEF BooksOK
<1>5. Checked'
  BY <1>4, EndChecked
<1>6. Locked'
  BY EndLocked
<1>7. CreditAccounted' /\ PointsAccounted'
  BY DEF Inv, Accounts, CreditAccounted, PointsAccounted
<1> QED
  BY <1>2, <1>3, <1>5, <1>6, <1>7, PartsNext DEF Inv, Accounts

LEMMA KeepUseBalance ==
  ASSUME Inv, NEW w \in Worker, UseBalance(w)
  PROVE Inv'
<1> DEFINE k == req[w].card
           x == Asked(w)
           left == held[w].balance - x
           st == IF left = 0 THEN "REDEEMED" ELSE held[w].status
           new == [balance |-> left, status |-> st]
<1>1. RowsOK /\ BooksOK /\ MemoryOK
  BY Parts DEF Inv
<1>2. /\ k \in Card /\ x \in Nat /\ held[w] \in [balance : Nat, status : CardStatus]
  BY <1>1 DEF MemoryOK, Requests, Asked
<1>3. /\ held[w].status = "ACTIVE" /\ x <= held[w].balance /\ card[k].status # "none"
  BY DEF UseBalance, At, Inv, Checked, Check, Asked
<1>4. left \in Nat /\ st \in {"ACTIVE", "REDEEMED"}
  BY <1>2, <1>3
<1>5. /\ card' = [card EXCEPT ![k] = new]
      /\ lost' = lost \cup {y \in {k} : held[w] # card[k]}
      /\ used' = [used EXCEPT ![k] = @ + x]
      /\ End(w)
      /\ UNCHANGED <<row, earned, expired, sale, awards, pointLog, creditLog, paid, forgiven>>
  BY DEF UseBalance
<1>6. new \in [balance : Nat, status : CardStatus]
  BY <1>4 DEF CardStatus
<1>7. /\ new.status = st /\ new.balance = left
      /\ st = "ACTIVE" => left > 0
      /\ st = "REDEEMED" => left = 0
  BY <1>3, <1>4
<1> HIDE DEF k, x, new, st
<1>8. /\ card' \in [Card -> [balance : Nat, status : CardStatus]]
      /\ card'[k] = new /\ \A y \in Card \ {k} : card'[y] = card[y]
  BY <1>1, <1>2, <1>5, <1>6 DEF RowsOK
<1>9. /\ used' \in [Card -> Nat] /\ used'[k] = used[k] + x
      /\ \A y \in Card \ {k} : used'[y] = used[y]
  BY <1>1, <1>2, <1>5 DEF BooksOK
<1>10. CardSettled'
  <2> SUFFICES ASSUME NEW y \in Card
               PROVE /\ card'[y].status = "ACTIVE" => card'[y].balance > 0
                     /\ card'[y].status = "REDEEMED" => card'[y].balance = 0
                     /\ y \notin lost' /\ card'[y].status # "none" =>
                          card'[y].balance = Value - used'[y]
    BY DEF CardSettled
  <2>1. CASE y # k
    BY <1>5, <1>8, <1>9, <2>1 DEF Inv, Accounts, CardSettled
  <2>2. CASE y = k
    <3>1. ASSUME k \notin lost'
          PROVE  left = Value - used'[k]
      <4>1. held[w] = card[k] /\ k \notin lost
        BY <1>5, <3>1
      <4>2. card[k].balance = Value - used[k]
        BY <1>2, <1>3, <4>1 DEF Inv, Accounts, CardSettled
      <4>3. Value \in Nat /\ used[k] \in Nat
        BY <1>1, <1>2, Constants DEF BooksOK
      <4> QED
        BY <1>2, <1>9, <4>1, <4>2, <4>3
    <3> QED
      BY <1>7, <1>8, <2>2, <3>1
  <2> QED
    BY <2>1, <2>2
<1>11. /\ \A y \in Card : card[y].status # "none" => card'[y].status # "none"
       /\ \A y \in Card : card'[y].status = "none" => used'[y] = 0
  BY <1>3, <1>4, <1>7, <1>8, <1>9 DEF Inv, Accounts
<1>12. lost \subseteq lost' /\ lost' \subseteq Customer \cup Card
  BY <1>1, <1>2, <1>5 DEF RowsOK
<1> QED
  BY <1>5, <1>8, <1>9, <1>10, <1>11, <1>12, CardKeeps

LEMMA KeepCancelCard ==
  ASSUME Inv, NEW w \in Worker, CancelCard(w)
  PROVE Inv'
<1> DEFINE k == req[w].card
<1>1. RowsOK /\ BooksOK /\ MemoryOK
  BY Parts DEF Inv
<1>2. k \in Card /\ card[k].status # "none"
  BY <1>1 DEF MemoryOK, Requests, CancelCard, At, Inv, Checked, Check
<1>3. /\ card' = [card EXCEPT ![k].status = "CANCELLED"]
      /\ lost' = lost \cup {y \in {k} : held[w].status # card[k].status}
      /\ End(w) /\ used' = used
      /\ UNCHANGED <<row, earned, expired, sale, awards, pointLog, creditLog, paid, forgiven>>
  BY DEF CancelCard, books
<1> HIDE DEF k
<1>4. /\ card' \in [Card -> [balance : Nat, status : CardStatus]]
      /\ card'[k].status = "CANCELLED" /\ card'[k].balance = card[k].balance
      /\ \A y \in Card \ {k} : card'[y] = card[y]
  BY <1>1, <1>2, <1>3 DEF RowsOK, CardStatus
<1>5. CardSettled'
  BY <1>2, <1>3, <1>4 DEF Inv, Accounts, CardSettled
<1>6. /\ \A y \in Card : card[y].status # "none" => card'[y].status # "none"
      /\ \A y \in Card : card'[y].status = "none" => used'[y] = 0
      /\ used' \in [Card -> Nat]
  BY <1>1, <1>2, <1>3, <1>4 DEF Inv, Accounts, BooksOK
<1>7. lost \subseteq lost' /\ lost' \subseteq Customer \cup Card
  BY <1>1, <1>2, <1>3 DEF RowsOK
<1> QED
  BY <1>3, <1>4, <1>5, <1>6, <1>7, CardKeeps

LEMMA KeepIssue ==
  ASSUME Inv, NEW k \in Card, Issue(k)
  PROVE Inv'
<1>1. RowsOK /\ BooksOK /\ MemoryOK
  BY Parts DEF Inv
<1>2. /\ card[k].status = "none" /\ served < MaxRequests /\ served' = served + 1
      /\ card' = [card EXCEPT ![k] = [balance |-> Value, status |-> "ACTIVE"]]
      /\ UNCHANGED <<row, books, lost, lock, pc, req, memory>>
  BY DEF Issue
<1>3. /\ card' \in [Card -> [balance : Nat, status : CardStatus]]
      /\ card'[k].status = "ACTIVE" /\ card'[k].balance = Value
      /\ \A y \in Card \ {k} : card'[y] = card[y]
  BY <1>1, <1>2, Constants DEF RowsOK, CardStatus
<1>4. RowsOK' /\ BooksOK'
  BY <1>1, <1>2, <1>3 DEF RowsOK, BooksOK, books
<1>5. MemoryOK'
  BY <1>1, <1>2, Constants DEF MemoryOK, memory
<1>6. Checked'
  <2> SUFFICES ASSUME NEW v \in Worker
               PROVE Check(v)'
    BY DEF Checked
  <2>1. Check(v) /\ req[v].card \in Card
    BY <1>1 DEF Inv, Checked, MemoryOK, Requests
  <2> QED
    BY <1>2, <1>3, <2>1 DEF Check, books, memory
<1>7. Locked'
  BY <1>2 DEF Inv, Locked, Lock, memory
<1>8. CreditAccounted' /\ PointsAccounted'
  BY <1>2 DEF Inv, Accounts, CreditAccounted, PointsAccounted, books
<1>9. used[k] = 0 /\ Value \in Nat /\ Value > 0
  BY <1>2, Constants DEF Inv, Accounts
<1>10. CardSettled' /\ \A y \in Card : card'[y].status = "none" => used'[y] = 0
  BY <1>2, <1>3, <1>9 DEF Inv, Accounts, CardSettled, books
<1> QED
  BY <1>4, <1>5, <1>6, <1>7, <1>8, <1>10, PartsNext DEF Inv, Accounts
-----------------------------------------------------------------------------
(* All of it together. *)
LEMMA InitInv == Init => Inv
<1> SUFFICES ASSUME Init
             PROVE Inv
  OBVIOUS
<1>1. RowsOK /\ BooksOK
  BY Constants DEF Init, RowsOK, BooksOK
<1>2. MemoryOK
  BY Constants DEF Init, MemoryOK, Places, Requests, Lockable
<1>3. Checked /\ Locked
  BY DEF Init, Checked, Check, Locked, Lock
<1>4. Opening["credit"] \in Nat /\ Opening["points"] \in Nat
  BY Constants, FieldsOf
<1>5. CreditAccounted /\ PointsAccounted
  BY <1>4 DEF Init, CreditAccounted, PointsAccounted
<1>6. CardSettled /\ \A k \in Card : card[k].status = "none" => used[k] = 0
  BY DEF Init, CardSettled, NoCard
<1> QED
  BY <1>1, <1>2, <1>3, <1>5, <1>6, Parts DEF Inv, Accounts

LEMMA RequestInv == ASSUME Inv, NEW w \in Worker, Request(w)
                    PROVE Inv'
  BY KeepBeginOne, KeepBeginTransfer, KeepBeginExpire, KeepBeginSale, KeepBeginResave,
     KeepBeginCard DEF Request

LEMMA StepInv == ASSUME Inv, NEW w \in Worker, Step(w)
                 PROVE Inv'
<1>1. CASE Redeem(w) \/ Give(w) \/ AddCredit(w) \/ UseCredit(w)
  BY <1>1, KeepRedeem, KeepGive, KeepAddCredit, KeepUseCredit
<1>2. CASE UpdateTier(w) \/ EditCustomer(w)
  BY <1>2, KeepUpdateTier, KeepEditCustomer
<1>3. CASE ReadRecipient(w) \/ SaveSender(w) \/ SaveRecipient(w)
  BY <1>3, KeepReadRecipient, KeepSaveSender, KeepSaveRecipient
<1>4. CASE DeadlockVictim(w) \/ NoneOld(w) \/ RefuseSale(w)
  BY <1>4, RollbackKeeps DEF DeadlockVictim, NoneOld, RefuseSale
<1>5. CASE (\E n \in 1 .. Len(earned[Who(w)]) : ListOld(w, n)) \/ MarkOld(w) \/ Expire(w)
  BY <1>5, KeepListOld, KeepMarkOld, KeepExpire
<1>6. CASE FinishSale(w) \/ Resave(w) \/ UseBalance(w) \/ CancelCard(w)
  BY <1>6, KeepFinishSale, KeepResave, KeepUseBalance, KeepCancelCard
<1> QED
  BY <1>1, <1>2, <1>3, <1>4, <1>5, <1>6 DEF Step

LEMMA StutterInv == ASSUME Inv, UNCHANGED vars
                    PROVE Inv'
<1>1. UNCHANGED <<row, card, books, lost, lock, pc, req, memory, served>>
  BY DEF vars
<1>2. RowsOK' /\ BooksOK' /\ MemoryOK'
  BY <1>1, Parts DEF Inv, RowsOK, BooksOK, MemoryOK, books, memory
<1>3. Checked' /\ Locked'
  BY <1>1 DEF Inv, Checked, Check, Locked, Lock, books, memory
<1>4. Accounts'
  BY <1>1 DEF Inv, Accounts, CreditAccounted, PointsAccounted, CardSettled, books
<1> QED
  BY <1>2, <1>3, <1>4, PartsNext DEF Inv

LEMMA Invariance == Spec => []Inv
<1>1. Inv /\ [Next]_vars => Inv'
  <2> SUFFICES ASSUME Inv, [Next]_vars
               PROVE Inv'
    OBVIOUS
  <2>1. CASE UNCHANGED vars
    BY <2>1, StutterInv
  <2>2. CASE \E w \in Worker : Request(w) \/ Step(w)
    BY <2>2, RequestInv, StepInv
  <2>3. CASE \E k \in Card : Issue(k)
    BY <2>3, KeepIssue
  <2> QED
    BY <2>1, <2>2, <2>3 DEF Next
<1> QED
  BY <1>1, InitInv, PTL DEF Spec

(* No balance is ever negative, whatever requests overlap: each of them checks and
   writes from one and the same copy of the row. *)
THEOREM TypeCorrect == Spec => []TypeOK
<1>1. Inv => TypeOK
  BY DEF Inv
<1> QED
  BY <1>1, Invariance, PTL

(* Between the till's locked read and its save nothing changes the customer. *)
THEOREM SaleCorrect == Spec => []SaleSeesLatest
<1>1. Inv => SaleSeesLatest
  BY DEF Inv, Locked, Lock, SaleSeesLatest, Who
<1> QED
  BY <1>1, Invariance, PTL

(* A customer nobody wrote over has the store credit its transactions say. *)
THEOREM CreditCorrect == Spec => []CreditAccounted
<1>1. Inv => CreditAccounted
  BY DEF Inv, Accounts
<1> QED
  BY <1>1, Invariance, PTL

(* And the points its transactions say, with what an expiry could not take. *)
THEOREM PointsCorrect == Spec => []PointsAccounted
<1>1. Inv => PointsAccounted
  BY DEF Inv, Accounts
<1> QED
  BY <1>1, Invariance, PTL

(* No gift card is left active and empty, or redeemed with money on it. *)
THEOREM CardCorrect == Spec => []CardSettled
<1>1. Inv => CardSettled
  BY DEF Inv, Accounts
<1> QED
  BY <1>1, Invariance, PTL
-----------------------------------------------------------------------------
(* Requests are of their place's kind, and a lock is held by a sale, by the second
   half of a transfer or by a later save of a sale, each on its own row. *)
Kinded(w) == /\ pc[w] = "both" => req[w].kind = "transfer"
             /\ pc[w] = "till" => req[w].kind \in {"sale", "charge"}
Holds(v, x) == \/ pc[v] \in {"till", "both"} /\ x = req[v].who
               \/ pc[v] = "resave" /\ x = req[v].sale
Holders == /\ \A w \in Worker : Kinded(w)
           /\ \A x \in Lockable, v \in Worker : lock[x] = v => Holds(v, x)

(* The request waits to write a row that another transaction holds. *)
Waits(w) == \/ pc[w] \in {"write", "sender", "resave"} /\ ~Free(Who(w))
            \/ pc[w] = "mark" /\ counted[w] = listed[w] /\ ~Free(Who(w))
            \/ pc[w] = "both" /\ ~Free(req[w].to)

(* Whenever requests are in hand, one of them waits for no lock, or stands in a
   circle of transfers that PostgreSQL breaks. *)
NobodyStuck == (\E w \in Worker : pc[w] # "idle") =>
                  \E w \in Worker : pc[w] # "idle" /\ (Waits(w) => Deadlocked(w))

LEMMA HoldersOwn ==
  ASSUME Holders, NEW w \in Worker, Kinded(w)',
         \A v \in Worker \ {w} : pc'[v] = pc[v] /\ req'[v] = req[v],
         \A x \in Lockable, v \in Worker \ {w} : lock'[x] = v => lock[x] = v,
         \A x \in Lockable : lock'[x] = w => Holds(w, x)'
  PROVE Holders'
<1>1. ASSUME NEW v \in Worker \ {w}
      PROVE Kinded(v)' /\ \A x \in Lockable : lock'[x] = v => Holds(v, x)'
  BY DEF Holders, Kinded, Holds
<1> QED
  BY <1>1 DEF Holders

LEMMA HoldersEnd == ASSUME MemoryOK, Holders, NEW w \in Worker, End(w)
                    PROVE Holders'
<1>1. \A v \in Worker : /\ v # w => pc'[v] = pc[v] /\ req'[v] = req[v]
                        /\ pc'[w] = "idle"
  BY EndOthers
<1>2. \A x \in Lockable : lock'[x] = IF lock[x] = w THEN Nobody ELSE lock[x]
  BY DEF End
<1>3. \A x \in Lockable : lock'[x] # w
  BY <1>2, WalletAssumption
<1>4. Kinded(w)'
  BY <1>1 DEF Kinded
<1>5. \A x \in Lockable, v \in Worker \ {w} : lock'[x] = v => lock[x] = v
  BY <1>2, WalletAssumption
<1> QED
  BY <1>1, <1>3, <1>4, <1>5, HoldersOwn

(* A request that comes in holds at most the row it asked for. *)
LEMMA HoldersBegin ==
  ASSUME MemoryOK, Holders, NEW w \in Worker, NEW at \in Places, NEW request \in Requests,
         Begin(w, at, request), Kinded(w)',
         \/ UNCHANGED lock
         \/ \E y : lock' = [lock EXCEPT ![y] = w] /\ Holds(w, y)'
  PROVE Holders'
<1>1. /\ \A v \in Worker \ {w} : pc'[v] = pc[v] /\ req'[v] = req[v]
      /\ pc[w] = "idle"
  BY BeginMemory
<1>2. \A x \in Lockable : lock[x] # w
  BY <1>1 DEF Holders, Holds
<1>3. \A x \in Lockable : lock'[x] # lock[x] => lock'[x] = w /\ Holds(w, x)'
  BY DEF MemoryOK
<1>4. \A x \in Lockable : lock'[x] = w => Holds(w, x)'
  BY <1>2, <1>3
<1>5. \A x \in Lockable, v \in Worker \ {w} : lock'[x] = v => lock[x] = v
  BY <1>3
<1> QED
  BY <1>1, <1>4, <1>5, HoldersOwn

(* Every step of a request either ends it or goes on within it. *)
Ending(w) == \/ Redeem(w) \/ Give(w) \/ AddCredit(w) \/ UseCredit(w)
             \/ UpdateTier(w) \/ EditCustomer(w) \/ SaveRecipient(w) \/ DeadlockVictim(w)
             \/ NoneOld(w) \/ Expire(w) \/ FinishSale(w) \/ RefuseSale(w) \/ Resave(w)
             \/ UseBalance(w) \/ CancelCard(w)

LEMMA StepKinds == ASSUME NEW w, Step(w)
                   PROVE \/ Ending(w)
                         \/ ReadRecipient(w) \/ SaveSender(w) \/ MarkOld(w)
                         \/ \E n \in 1 .. Len(earned[Who(w)]) : ListOld(w, n)
  BY DEF Step, Ending

LEMMA EndingEnds == ASSUME NEW w, Ending(w) PROVE End(w)
  BY DEF Ending, Redeem, Give, AddCredit, UseCredit, UpdateTier, EditCustomer, SaveRecipient,
         DeadlockVictim, NoneOld, Expire, FinishSale, RefuseSale, Resave, UseBalance, CancelCard

LEMMA NewRequest ==
  ASSUME NEW w \in Worker, NEW r,
         r \in [kind : Kind, who : Customer, to : Customer, amount : Nat, sale : Sale, card : Card]
  PROVE r \in Requests
  BY DEF Requests

LEMMA HoldersRequest == ASSUME MemoryOK, Holders, NEW w \in Worker, Request(w)
                        PROVE Holders'
<1> USE Constants DEF Requests, Places, Kind
<1>1. ASSUME NEW k \in Kinds, NEW c \in Customer, NEW x \in Amount, BeginOne(w, k, c, x)
      PROVE Holders'
  <2> DEFINE r == [NoRequest EXCEPT !.kind = k, !.who = c, !.amount = x]
  <2>1. r \in Requests /\ Begin(w, "write", r) /\ UNCHANGED lock
    BY <1>1, WalletAssumption DEF BeginOne
  <2> HIDE DEF r
  <2>2. Kinded(w)'
    BY <2>1, BeginMemory DEF Kinded
  <2> QED
    BY <2>1, <2>2, HoldersBegin
<1>2. ASSUME NEW c \in Customer, NEW d \in Customer, NEW x \in Amount, BeginTransfer(w, c, d, x)
      PROVE Holders'
  <2> DEFINE r == [NoRequest EXCEPT !.kind = "transfer", !.who = c, !.to = d, !.amount = x]
  <2>1. r \in Requests /\ Begin(w, "recipient", r) /\ UNCHANGED lock
    BY <1>2 DEF BeginTransfer
  <2> HIDE DEF r
  <2>2. Kinded(w)'
    BY <2>1, BeginMemory DEF Kinded
  <2> QED
    BY <2>1, <2>2, HoldersBegin
<1>3. ASSUME NEW c \in Customer, BeginExpire(w, c)
      PROVE Holders'
  <2> DEFINE r == [NoRequest EXCEPT !.kind = "expire", !.who = c]
  <2>1. r \in Requests /\ Begin(w, "list", r) /\ UNCHANGED lock
    BY <1>3 DEF BeginExpire
  <2> HIDE DEF r
  <2>2. Kinded(w)'
    BY <2>1, BeginMemory DEF Kinded
  <2> QED
    BY <2>1, <2>2, HoldersBegin
<1>4. ASSUME NEW k \in Kinds, NEW s \in Sale, NEW c \in Customer, NEW x \in Amount,
             BeginSale(w, k, s, c, x)
      PROVE Holders'
  <2> DEFINE r == [NoRequest EXCEPT !.kind = k, !.who = c, !.sale = s, !.amount = x]
  <2>1. /\ r \in Requests /\ r.kind \in {"sale", "charge"} /\ r.who = c
        /\ Begin(w, "till", r) /\ lock' = [lock EXCEPT ![c] = w]
    BY <1>4 DEF BeginSale
  <2> HIDE DEF r
  <2>2. pc'[w] = "till" /\ req'[w] = r
    BY <2>1, BeginMemory
  <2>3. Kinded(w)' /\ Holds(w, c)'
    BY <2>1, <2>2 DEF Kinded, Holds
  <2> QED
    BY <2>1, <2>3, HoldersBegin
<1>5. ASSUME NEW s \in Sale, NEW c \in Customer, NEW x \in Amount, BeginResave(w, s, c, x)
      PROVE Holders'
  <2> DEFINE r == [NoRequest EXCEPT !.kind = "resave", !.who = c, !.sale = s, !.amount = x]
  <2>1. /\ r \in Requests /\ r.sale = s
        /\ Begin(w, "resave", r) /\ lock' = [lock EXCEPT ![s] = w]
    BY <1>5 DEF BeginResave
  <2> HIDE DEF r
  <2>2. pc'[w] = "resave" /\ req'[w] = r
    BY <2>1, BeginMemory
  <2>3. Kinded(w)' /\ Holds(w, s)'
    BY <2>1, <2>2 DEF Kinded, Holds
  <2> QED
    BY <2>1, <2>3, HoldersBegin
<1>6. ASSUME NEW kind \in {"use", "cancel"}, NEW k \in Card, NEW x \in Amount,
             BeginCard(w, kind, k, x)
      PROVE Holders'
  <2> DEFINE r == [NoRequest EXCEPT !.kind = kind, !.card = k, !.amount = x]
  <2>1. r \in Requests /\ Begin(w, "card", r) /\ UNCHANGED lock
    BY <1>6 DEF BeginCard
  <2> HIDE DEF r
  <2>2. Kinded(w)'
    BY <2>1, BeginMemory DEF Kinded
  <2> QED
    BY <2>1, <2>2, HoldersBegin
<1> QED
  BY <1>1, <1>2, <1>3, <1>4, <1>5, <1>6 DEF Request

LEMMA HoldersStep == ASSUME MemoryOK, Holders, [Next]_vars
                     PROVE Holders'
<1>1. ASSUME NEW w \in Worker, Request(w)
      PROVE Holders'
  BY <1>1, HoldersRequest
<1>2. ASSUME NEW w \in Worker, Ending(w)
      PROVE Holders'
  BY <1>2, EndingEnds, HoldersEnd
<1>3. ASSUME NEW w \in Worker, ReadRecipient(w)
      PROVE Holders'
  <2>1. pc[w] = "recipient" /\ pc' = [pc EXCEPT ![w] = "sender"] /\ UNCHANGED <<lock, req>>
    BY <1>3 DEF ReadRecipient, At
  <2> QED
    BY <2>1, HoldersOwn DEF MemoryOK, Holders, Holds, Kinded
<1>4. ASSUME NEW w \in Worker, SaveSender(w)
      PROVE Holders'
  <2>1. /\ pc[w] = "sender" /\ req[w].kind = "transfer" /\ pc' = [pc EXCEPT ![w] = "both"]
        /\ lock' = [lock EXCEPT ![req[w].who] = w] /\ UNCHANGED req
    BY <1>4 DEF SaveSender, At, Who
  <2>2. pc'[w] = "both" /\ \A v \in Worker \ {w} : pc'[v] = pc[v]
    BY <2>1 DEF MemoryOK
  <2>3. Kinded(w)'
    BY <2>1, <2>2 DEF Kinded
  <2>4. \A x \in Lockable : lock[x] # w
    BY <2>1 DEF Holders, Holds
  <2>5. \A x \in Lockable : lock'[x] # lock[x] => lock'[x] = w /\ x = req[w].who
    BY <2>1 DEF MemoryOK
  <2>6. \A x \in Lockable : lock'[x] = w => Holds(w, x)'
    BY <2>1, <2>2, <2>4, <2>5 DEF Holds
  <2>7. \A x \in Lockable, v \in Worker \ {w} : lock'[x] = v => lock[x] = v
    BY <2>5
  <2> QED
    BY <2>1, <2>2, <2>3, <2>6, <2>7, HoldersOwn
<1>5. ASSUME NEW w \in Worker,
             MarkOld(w) \/ \E n \in 1 .. Len(earned[Who(w)]) : ListOld(w, n)
      PROVE Holders'
  <2>1. /\ pc[w] \in {"list", "mark"} /\ pc' \in {pc, [pc EXCEPT ![w] = "mark"]}
        /\ UNCHANGED <<lock, req>>
    BY <1>5 DEF MarkOld, ListOld, At
  <2>2. pc'[w] \in {"list", "mark"} /\ \A v \in Worker \ {w} : pc'[v] = pc[v]
    BY <2>1 DEF MemoryOK
  <2>3. Kinded(w)' /\ \A x \in Lockable : lock'[x] # w
    BY <2>1, <2>2 DEF Holders, Holds, Kinded
  <2> QED
    BY <2>1, <2>2, <2>3, HoldersOwn
<1>6. ASSUME UNCHANGED <<lock, pc, req>>
      PROVE Holders'
  BY <1>6 DEF Holders, Holds, Kinded
<1> QED
  BY <1>1, <1>2, <1>3, <1>4, <1>5, <1>6, StepKinds DEF Next, Issue, vars

LEMMA HoldersInit == Init => Holders
  BY WalletAssumption DEF Init, Holders, Holds, Kinded

LEMMA HoldersAlways == Spec => [](MemoryOK /\ Holders)
<1>1. Init => Holders
  BY HoldersInit
<1>2. Inv /\ Holders /\ [Next]_vars => Holders'
  BY HoldersStep, Parts DEF Inv
<1>3. Inv => MemoryOK
  BY Parts DEF Inv
<1> QED
  BY <1>1, <1>2, <1>3, Invariance, PTL DEF Spec

LEMMA NobodyStuckNow == ASSUME MemoryOK, Holders PROVE NobodyStuck
<1> SUFFICES ASSUME NEW w \in Worker, pc[w] # "idle",
                    \A v \in Worker : pc[v] # "idle" => Waits(v)
             PROVE \E v \in Worker : pc[v] # "idle" /\ Deadlocked(v)
  BY DEF NobodyStuck
<1> DEFINE S == {v \in Worker : pc[v] = "both"}
<1>1. ASSUME NEW v \in Worker, NEW c \in Customer, ~Free(c), lock[c] \in Worker
      PROVE lock[c] \in S
  <2>1. Holds(lock[c], c)
    BY <1>1 DEF Holders, Lockable
  <2>2. req[lock[c]].sale \in Sale
    BY <1>1 DEF MemoryOK, Requests
  <2>3. pc[lock[c]] \in {"till", "both"}
    BY <2>1, <2>2, WalletAssumption DEF Holds
  <2>4. Waits(lock[c])
    BY <1>1, <2>3
  <2> QED
    BY <1>1, <2>3, <2>4 DEF Waits
<1>2. ASSUME NEW c \in Customer, ~Free(c)
      PROVE lock[c] \in S
  <2>1. lock[c] \in Worker
    BY <1>2 DEF Free, MemoryOK, Lockable
  <2> QED
    BY <1>1, <1>2, <2>1
<1>3. ASSUME NEW v \in S
      PROVE At(v, "both", {"transfer"}) /\ lock[req[v].to] \in S
  <2>1. Waits(v) /\ pc[v] = "both" /\ req[v].kind = "transfer" /\ req[v].to \in Customer
    BY DEF Holders, Kinded, MemoryOK, Requests
  <2> QED
    BY <1>2, <2>1 DEF Waits, At
<1>4. PICK c \in Customer : ~Free(c)
  <2>1. Waits(w) /\ req[w].who \in Customer /\ req[w].to \in Customer
    BY DEF MemoryOK, Requests
  <2> QED
    BY <2>1 DEF Waits, Who
<1>5. PICK v \in S : TRUE
  BY <1>2, <1>4
<1>6. Deadlocked(v)
  <2>1. S \in SUBSET Worker /\ v \in S
    OBVIOUS
  <2> HIDE DEF S
  <2> QED
    BY <1>3, <2>1 DEF Deadlocked
<1> QED
  BY <1>5, <1>6

(* Requests never wait for each other without end: whenever some are in hand, one
   of them waits for no lock, or stands in a circle of transfers that PostgreSQL
   breaks.  What Answered needs of the locks, for any number of them. *)
THEOREM NobodyStuckHolds == Spec => []NobodyStuck
  BY HoldersAlways, NobodyStuckNow, PTL
-----------------------------------------------------------------------------
(* A save from a copy that is the row as it stands writes over nothing. *)
LEMMA CurrentSave ==
  ASSUME NEW c \in Customer, NEW new, NEW fields, Save(c, row[c], new, fields)
  PROVE lost' = lost
  BY DEF Save, Stale

(* A sale never writes over a change it has not seen, whatever other requests copied the
   customer meanwhile: what the row lock taken at the till is worth (sales/serializers.py:293). *)
SalesLoseNothing == [][\A w \in Worker : (pc[w] = "till" /\ pc'[w] # "till") => lost' = lost]_vars
THEOREM SalesLoseNothingHolds == Spec => SalesLoseNothing
<1>1. ASSUME Inv, [Next]_vars, NEW w \in Worker, pc[w] = "till", pc'[w] # "till"
      PROVE  lost' = lost
  <2>1. MemoryOK
    BY <1>1, Parts DEF Inv
  <2>2. ASSUME NEW v \in Worker, Request(v) PROVE lost' = lost
    BY <2>2 DEF Request, BeginOne, BeginTransfer, BeginExpire, BeginSale, BeginResave, BeginCard
  <2>3. ASSUME NEW v \in Worker, Ending(v) PROVE lost' = lost
    <3>1. v = w
      BY <1>1, <2>1, <2>3, EndingEnds, EndOthers
    <3>2. FinishSale(w) \/ RefuseSale(w)
      BY <1>1, <2>3, <3>1 DEF Ending, At, Redeem, Give, AddCredit, UseCredit, UpdateTier,
         EditCustomer, SaveRecipient, DeadlockVictim, Deadlocked, NoneOld, Expire, Resave,
         UseBalance, CancelCard
    <3>3. CASE FinishSale(w)
      <4>1. \E new, fields : Save(Who(w), copy[w], new, fields)
        BY <3>3 DEF FinishSale
      <4>2. copy[w] = row[Who(w)] /\ Who(w) \in Customer
        BY <1>1, <2>1 DEF Inv, Locked, Lock, Who, MemoryOK, Requests
      <4> QED
        BY <4>1, <4>2, CurrentSave
    <3> QED
      BY <3>2, <3>3 DEF RefuseSale
  <2>4. ASSUME NEW v \in Worker, ReadRecipient(v) \/ SaveSender(v) \/ MarkOld(v)
                                 \/ \E n \in 1 .. Len(earned[Who(v)]) : ListOld(v, n)
        PROVE lost' = lost
    BY <2>4 DEF ReadRecipient, SaveSender, MarkOld, ListOld
  <2> QED
    BY <1>1, <2>2, <2>3, <2>4, StepKinds DEF Next, Issue, vars
<1>2. Inv /\ [Next]_vars => [\A w \in Worker : (pc[w] = "till" /\ pc'[w] # "till") => lost' = lost]_vars
  BY <1>1
<1> QED
  BY <1>2, Invariance, PTL DEF Spec, SalesLoseNothing
-----------------------------------------------------------------------------
(* With tills only, every request in hand holds the lock on the row it copied. *)
NothingLost == lost = {}
OnlyTills == Kinds \subseteq {"sale", "charge", "issue"}
AllAtTills == NothingLost /\ \A w \in Worker : pc[w] \in {"idle", "till"}

LEMMA TillsBegin ==
  ASSUME OnlyTills, MemoryOK, AllAtTills, NEW w \in Worker, Request(w)
  PROVE AllAtTills'
<1>1. UNCHANGED lost
  BY DEF Request, BeginOne, BeginTransfer, BeginExpire, BeginSale, BeginResave, BeginCard
<1>2. ASSUME NEW at, NEW r, Begin(w, at, r), r.kind \in {"sale", "charge"} => at = "till",
             r.kind # "issue"
      PROVE AllAtTills'
  <2>1. pc' = [pc EXCEPT ![w] = "till"]
    BY <1>2 DEF Begin, OnlyTills
  <2> QED
    BY <1>1, <2>1 DEF AllAtTills, NothingLost, MemoryOK
<1>3. CASE \E k \in Kinds, c \in Customer, x \in Amount : BeginOne(w, k, c, x)
  BY <1>2, <1>3 DEF BeginOne, NoRequest
<1>4. CASE \E c, d \in Customer, x \in Amount : BeginTransfer(w, c, d, x)
  BY <1>2, <1>4 DEF BeginTransfer, NoRequest
<1>5. CASE \E c \in Customer : BeginExpire(w, c)
  BY <1>2, <1>5 DEF BeginExpire, NoRequest
<1>6. CASE \E k \in Kinds, s \in Sale, c \in Customer, x \in Amount : BeginSale(w, k, s, c, x)
  BY <1>2, <1>6 DEF BeginSale, NoRequest
<1>7. CASE \E s \in Sale, c \in Customer, x \in Amount : BeginResave(w, s, c, x)
  BY <1>2, <1>7 DEF BeginResave, NoRequest
<1>8. CASE \E kind \in {"use", "cancel"}, k \in Card, x \in Amount : BeginCard(w, kind, k, x)
  BY <1>2, <1>8 DEF BeginCard, NoRequest
<1> QED
  BY <1>3, <1>4, <1>5, <1>6, <1>7, <1>8 DEF Request

LEMMA TillsStep == ASSUME OnlyTills, Inv, AllAtTills, [Next]_vars
                   PROVE AllAtTills'
<1>1. MemoryOK
  BY Parts DEF Inv
<1>2. ASSUME NEW w \in Worker, Request(w)
      PROVE AllAtTills'
  BY <1>1, <1>2, TillsBegin
<1>3. ASSUME NEW w \in Worker, Ending(w)
      PROVE AllAtTills'
  <2>1. pc' = [pc EXCEPT ![w] = "idle"]
    BY <1>3, EndingEnds DEF End
  <2>2. pc[w] \in {"idle", "till"}
    BY DEF AllAtTills
  <2>3. CASE FinishSale(w)
    <3>1. pc[w] = "till" /\ \E new, fields : Save(Who(w), copy[w], new, fields)
      BY <2>3 DEF FinishSale, At
    <3>2. copy[w] = row[Who(w)] /\ Who(w) \in Customer
      BY <1>1, <3>1 DEF Inv, Locked, Lock, Who, MemoryOK, Requests
    <3>3. lost' = {}
      BY <3>1, <3>2, CurrentSave DEF AllAtTills, NothingLost
    <3> QED
      BY <2>1, <3>3 DEF AllAtTills, NothingLost, MemoryOK, Places
  <2>4. CASE RefuseSale(w)
    BY <2>1, <2>4 DEF RefuseSale, AllAtTills, NothingLost
  <2>5. FinishSale(w) \/ RefuseSale(w)
    BY <1>3, <2>2 DEF Ending, At, Redeem, Give, AddCredit, UseCredit, UpdateTier, EditCustomer,
        SaveRecipient, DeadlockVictim, Deadlocked, NoneOld, Expire, Resave, UseBalance, CancelCard
  <2> QED
    BY <2>3, <2>4, <2>5
<1>4. ASSUME NEW w \in Worker, ReadRecipient(w) \/ SaveSender(w) \/ MarkOld(w)
                               \/ \E n \in 1 .. Len(earned[Who(w)]) : ListOld(w, n)
      PROVE AllAtTills'
  BY <1>4 DEF AllAtTills, At, ReadRecipient, SaveSender, MarkOld, ListOld
<1>5. ASSUME UNCHANGED <<lost, pc>>
      PROVE AllAtTills'
  BY <1>5 DEF AllAtTills, NothingLost
<1> QED
  BY <1>2, <1>3, <1>4, <1>5, StepKinds DEF Next, Issue, vars

(* Any number of tills, selling to the same customers at once, write over nothing:
   the row lock of the sale is enough among sales. *)
THEOREM NothingLostAtTills == ASSUME OnlyTills PROVE Spec => []NothingLost
<1>1. Init => AllAtTills
  BY DEF Init, AllAtTills, NothingLost
<1>2. Inv /\ AllAtTills /\ [Next]_vars => AllAtTills'
  BY TillsStep
<1>3. AllAtTills => NothingLost
  BY DEF AllAtTills
<1> QED
  BY <1>1, <1>2, <1>3, Invariance, PTL DEF Spec

(* Credit and points are what their transactions add up to, with no exception for
   rows that were written over. *)
Balanced == \A c \in Customer :
    /\ row[c].credit = Opening["credit"] + creditLog[c] - paid[c]
    /\ row[c].points = Opening["points"] + pointLog[c] + forgiven[c]

(* The books balance, without exception, at any number of tills. *)
THEOREM BooksBalance == ASSUME OnlyTills PROVE Spec => []Balanced
<1>1. Inv /\ NothingLost => Balanced
  BY DEF Inv, Accounts, CreditAccounted, PointsAccounted, NothingLost, Balanced
<1>2. Spec => []NothingLost
  BY NothingLostAtTills
<1> QED
  BY <1>1, <1>2, Invariance, PTL
-----------------------------------------------------------------------------
(* A sale at the till is new, and no other till has it. *)
Selling(w) == pc[w] = "till" => /\ req[w].amount > 0
                                /\ sale[req[w].sale].total = 0
                                /\ \A v \in Worker \ {w} :
                                      pc[v] = "till" => req[v].sale # req[w].sale
OnceInvariant == /\ \A w \in Worker : Selling(w) /\ pc[w] # "resave"
                 /\ \A s \in Sale : sale[s].total = 0 => awards[s] = 0
                 /\ AwardedOnce

LEMMA OnceEnd ==
  ASSUME MemoryOK, OnceInvariant, NEW w \in Worker, End(w),
         \A s \in Sale : \/ sale'[s] = sale[s] /\ awards'[s] = awards[s]
                         \/ /\ \A v \in Worker \ {w} : pc[v] = "till" => req[v].sale # s
                            /\ sale'[s].total > 0 /\ awards'[s] <= 1
  PROVE OnceInvariant'
<1>1. \A v \in Worker : /\ v # w => pc'[v] = pc[v] /\ req'[v] = req[v]
                        /\ pc'[w] = "idle"
  BY EndOthers
<1>2. ASSUME NEW v \in Worker
      PROVE Selling(v)' /\ pc'[v] # "resave"
  <2>1. req[v].sale \in Sale
    BY DEF MemoryOK, Requests
  <2>2. Selling(v) /\ pc[v] # "resave"
    BY DEF OnceInvariant
  <2>3. pc'[v] = "till" => v # w /\ pc[v] = "till" /\ req'[v] = req[v]
    BY <1>1
  <2>4. pc'[v] = "till" => sale'[req[v].sale].total = 0
    BY <2>1, <2>2, <2>3 DEF Selling
  <2> QED
    BY <1>1, <2>2, <2>3, <2>4 DEF Selling
<1>3. \A s \in Sale : (sale'[s].total = 0 => awards'[s] = 0) /\ awards'[s] <= 1
  BY DEF OnceInvariant, AwardedOnce
<1> QED
  BY <1>2, <1>3 DEF OnceInvariant, AwardedOnce

LEMMA OnceBegin ==
  ASSUME MemoryOK, OnceInvariant, NEW w \in Worker, NEW at, NEW r, Begin(w, at, r),
         at # "resave", UNCHANGED <<sale, awards>>,
         at = "till" => /\ r.amount > 0 /\ sale[r.sale].total = 0
                        /\ \A v \in Worker : pc[v] = "till" => req[v].sale # r.sale
  PROVE OnceInvariant'
<1>1. /\ pc'[w] = at /\ req'[w] = r
      /\ \A v \in Worker \ {w} : pc'[v] = pc[v] /\ req'[v] = req[v]
  BY DEF Begin, MemoryOK
<1>2. ASSUME NEW v \in Worker
      PROVE Selling(v)' /\ pc'[v] # "resave"
  <2>1. Selling(v) /\ pc[v] # "resave"
    BY DEF OnceInvariant
  <2>2. CASE v = w
    BY <1>1, <2>2 DEF Selling
  <2>3. CASE v # w
    BY <1>1, <2>1, <2>3 DEF Selling
  <2> QED
    BY <2>2, <2>3
<1> QED
  BY <1>2 DEF OnceInvariant, AwardedOnce

LEMMA OnceRequest ==
  ASSUME "resave" \notin Kinds, MemoryOK, Holders, OnceInvariant, NEW w \in Worker, Request(w)
  PROVE OnceInvariant'
<1>1. UNCHANGED <<sale, awards>>
  BY DEF Request, BeginOne, BeginTransfer, BeginExpire, BeginSale, BeginResave, BeginCard, books
<1>2. CASE \/ \E k \in Kinds, c \in Customer, x \in Amount : BeginOne(w, k, c, x)
           \/ \E c, d \in Customer, x \in Amount : BeginTransfer(w, c, d, x)
           \/ \E c \in Customer : BeginExpire(w, c)
           \/ \E kind \in {"use", "cancel"}, k \in Card, x \in Amount : BeginCard(w, kind, k, x)
  <2>1. PICK at, r : at \notin {"till", "resave"} /\ Begin(w, at, r)
    BY <1>2 DEF BeginOne, BeginTransfer, BeginExpire, BeginCard
  <2> QED
    BY <1>1, <2>1, OnceBegin
<1>3. ASSUME NEW k \in Kinds, NEW s \in Sale, NEW c \in Customer, NEW x \in Amount,
             BeginSale(w, k, s, c, x)
      PROVE OnceInvariant'
  <2> DEFINE r == [NoRequest EXCEPT !.kind = k, !.who = c, !.sale = s, !.amount = x]
  <2>1. Begin(w, "till", r) /\ r.amount = x /\ r.sale = s
    BY <1>3 DEF BeginSale, NoRequest
  <2> HIDE DEF r
  <2>2. x > 0
    BY WalletAssumption
  <2>3. sale[s].total = 0 /\ \A v \in Worker : pc[v] = "till" => req[v].sale # s
    BY <1>3 DEF BeginSale, At, Holders, Kinded
  <2> QED
    BY <1>1, <2>1, <2>2, <2>3, OnceBegin
<1>4. ASSUME NEW s \in Sale, NEW c \in Customer, NEW x \in Amount, BeginResave(w, s, c, x)
      PROVE FALSE
  BY <1>4 DEF BeginResave, Begin, NoRequest
<1> QED
  BY <1>2, <1>3, <1>4 DEF Request

LEMMA OnceStep ==
  ASSUME "resave" \notin Kinds, Inv, Holders, OnceInvariant, [Next]_vars
  PROVE OnceInvariant'
<1>1. MemoryOK /\ BooksOK
  BY Parts DEF Inv
<1>2. ASSUME NEW w \in Worker, Request(w)
      PROVE OnceInvariant'
  BY <1>1, <1>2, OnceRequest
<1>3. ASSUME NEW w \in Worker, FinishSale(w)
      PROVE OnceInvariant'
  <2> DEFINE t == req[w].sale
  <2>1. /\ pc[w] = "till" /\ t \in Sale /\ End(w) /\ req[w].who \in Customer
        /\ sale' = [sale EXCEPT ![t] = [who |-> req[w].who, total |-> req[w].amount]]
        /\ awards' = [awards EXCEPT ![t] = @ + 1]
    BY <1>1, <1>3 DEF FinishSale, Awarded, At, MemoryOK, Requests, Who, Asked
  <2>2. /\ req[w].amount > 0 /\ sale[t].total = 0
        /\ \A v \in Worker \ {w} : pc[v] = "till" => req[v].sale # t
    BY <2>1 DEF OnceInvariant, Selling
  <2>3. awards[t] = 0
    BY <2>1, <2>2 DEF OnceInvariant
  <2> HIDE DEF t
  <2>4. sale'[t].total > 0 /\ awards'[t] <= 1
    BY <1>1, <2>1, <2>2, <2>3 DEF BooksOK
  <2>5. \A s \in Sale \ {t} : sale'[s] = sale[s] /\ awards'[s] = awards[s]
    BY <1>1, <2>1 DEF BooksOK
  <2> QED
    BY <1>1, <2>1, <2>2, <2>4, <2>5, OnceEnd
<1>4. ASSUME NEW w \in Worker, Ending(w), ~FinishSale(w)
      PROVE OnceInvariant'
  <2>1. End(w) /\ ~Resave(w)
    BY <1>4, EndingEnds DEF Resave, At, OnceInvariant
  <2>2. UNCHANGED <<sale, awards>>
    BY <1>4, <2>1 DEF Ending, Redeem, Give, AddCredit, UseCredit, UpdateTier, EditCustomer,
        SaveRecipient, DeadlockVictim, NoneOld, Expire, RefuseSale, UseBalance, CancelCard, books
  <2> QED
    BY <1>1, <2>1, <2>2, OnceEnd
<1>5. ASSUME NEW w \in Worker, ReadRecipient(w) \/ SaveSender(w) \/ MarkOld(w)
                               \/ \E n \in 1 .. Len(earned[Who(w)]) : ListOld(w, n)
      PROVE OnceInvariant'
  <2>1. /\ pc[w] \in {"recipient", "sender", "list", "mark"}
        /\ \E at \in {"sender", "both", "mark"} : pc' \in {pc, [pc EXCEPT ![w] = at]}
        /\ UNCHANGED <<req, sale, awards>>
    BY <1>5 DEF ReadRecipient, SaveSender, MarkOld, ListOld, At, books
  <2>2. \A v \in Worker : /\ pc'[v] = "till" <=> pc[v] = "till"
                          /\ pc'[v] = "resave" <=> pc[v] = "resave"
    BY <1>1, <2>1 DEF MemoryOK
  <2> QED
    BY <2>1, <2>2 DEF OnceInvariant, Selling, AwardedOnce
<1>6. ASSUME UNCHANGED <<pc, req, sale, awards>>
      PROVE OnceInvariant'
  BY <1>6 DEF OnceInvariant, Selling, AwardedOnce
<1> QED
  BY <1>2, <1>3, <1>4, <1>5, <1>6, StepKinds DEF Next, Issue, vars, books

(* What the comment says of the award is true as long as a completed sale is never
   saved again: the second award is always the work of a later save. *)
THEOREM AwardedOnceUntilSavedAgain ==
  ASSUME "resave" \notin Kinds PROVE Spec => []AwardedOnce
<1>1. Init => OnceInvariant
  BY DEF Init, OnceInvariant, Selling, AwardedOnce
<1>2. Inv /\ Holders /\ OnceInvariant /\ [Next]_vars => OnceInvariant'
  BY OnceStep
<1>3. OnceInvariant => AwardedOnce
  BY DEF OnceInvariant
<1> QED
  BY <1>1, <1>2, <1>3, Invariance, HoldersAlways, PTL DEF Spec
=============================================================================
