--------------------------- MODULE CustomerWallet ---------------------------
(* What a customer holds: loyalty points, store credit and a tier on the
   customer's row, and gift cards on rows of their own.  The CRM views read a row,
   compute from that copy and save some of its columns; only the sale at the till
   locks the customer's row before it reads it.  Every request is one transaction
   at READ COMMITTED: it reads what is committed, waits to write a row another
   transaction has written or locked, and its writes become visible together. *)
EXTENDS Integers, FiniteSets, Sequences

CONSTANTS Customer,     \* customers of one tenant
          Card,         \* gift cards
          Owned,        \* the cards with a recipient or a buyer
          Worker,       \* web workers, each serving one request at a time
          Sale,         \* identities new sales get
          Amount,       \* points, money and sale totals a request can name
          Threshold,    \* purchases that reach the tier
          Multiplier,   \* Multiplier[t]: points per unit of money in tier t
          Opening,      \* a customer's row at the start
          Value,        \* what a gift card is issued with
          Kinds,        \* the kinds of request that arrive
          MaxRequests,  \* bound: requests served in a behaviour
          Nobody        \* no lock holder, no customer

Field == {"points", "credit", "purchases", "tier"}
Kind == {"redeem", "give", "transfer", "expire", "credit", "spend", "tier", "edit",
         "sale", "charge", "resave", "issue", "use", "cancel"}
CardStatus == {"none", "ACTIVE", "REDEEMED", "CANCELLED"}
Wallet == {r \in [Field -> Nat] : r["tier"] \in {0, 1}}
Lockable == Customer \cup Sale

ASSUME WalletAssumption == /\ Amount \subseteq Nat \ {0}
                           /\ Value \in Nat \ {0}
                           /\ Threshold \in Nat
                           /\ Multiplier \in [{0, 1} -> Nat]
                           /\ Opening \in Wallet
                           /\ Owned \subseteq Card
                           /\ Customer \cap Card = {} /\ Customer \cap Sale = {}
                           /\ Card \cap Sale = {}
                           /\ Nobody \notin Worker \cup Customer
                           /\ Customer # {} /\ Card # {} /\ Sale # {}
                           /\ Kinds \subseteq Kind
                           /\ MaxRequests \in Nat

VARIABLES
  row,       \* row[c]: the wallet columns of Customer c, committed
  card,      \* card[k]: balance and status of GiftCard k
  earned,    \* earned[c]: the EARNED and BONUS transactions of c, in points
  expired,   \* expired[c]: those of them that carry an expiry date
  sale,      \* sale[s]: customer and total of a completed sale, total 0 before
  awards,    \* awards[s]: how often sale s has been awarded
  pointLog,  \* pointLog[c]: sum of the LoyaltyTransactions of c
  creditLog, \* creditLog[c]: sum of its store credit transactions
  paid,      \* paid[c]: store credit that paid for sales
  forgiven,  \* forgiven[c]: points logged as expired that c no longer had
  lost,      \* the rows some request wrote over a change it had not seen
  used,      \* used[k]: what the redemptions of card k took
  lock,      \* lock[x]: the worker whose transaction holds the lock on row x
  pc,        \* pc[w]: where the request of worker w has got to
  req,       \* req[w]: what it asks
  copy,      \* copy[w]: its copy of the customer's row
  other,     \* other[w]: its copy of the recipient's row
  held,      \* held[w]: its copy of the gift card
  listed,    \* listed[w]: the transactions it is to expire
  counted,   \* counted[w]: those it has already marked
  total,     \* total[w]: the points of those
  served     \* requests taken on so far

books == <<earned, expired, sale, awards, pointLog, creditLog, paid, forgiven,
           used>>
memory == <<copy, other, held, listed, counted, total>>
vars == <<row, card, books, lost, lock, pc, req, memory, served>>

NoCard == [balance |-> 0, status |-> "none"]
Anyone == CHOOSE c \in Customer : TRUE
NoRequest == [kind |-> "edit", who |-> Anyone, to |-> Anyone, amount |-> 1,
              sale |-> CHOOSE s \in Sale : TRUE, card |-> CHOOSE k \in Card : TRUE]

Init == /\ row = [c \in Customer |-> Opening]
        /\ card = [k \in Card |-> NoCard]
        /\ earned = [c \in Customer |-> <<>>]
        /\ expired = [c \in Customer |-> {}]
        /\ sale = [s \in Sale |-> [who |-> Anyone, total |-> 0]]
        /\ awards = [s \in Sale |-> 0]
        /\ pointLog = [c \in Customer |-> 0]
        /\ creditLog = [c \in Customer |-> 0]
        /\ paid = [c \in Customer |-> 0]
        /\ forgiven = [c \in Customer |-> 0]
        /\ used = [k \in Card |-> 0]
        /\ lost = {}
        /\ lock = [x \in Lockable |-> Nobody]
        /\ pc = [w \in Worker |-> "idle"]
        /\ req = [w \in Worker |-> NoRequest]
        /\ copy = [w \in Worker |-> Opening]
        /\ other = [w \in Worker |-> Opening]
        /\ held = [w \in Worker |-> NoCard]
        /\ listed = [w \in Worker |-> {}]
        /\ counted = [w \in Worker |-> {}]
        /\ total = [w \in Worker |-> 0]
        /\ served = 0
-----------------------------------------------------------------------------
(* Helpers. *)

\* update_loyalty_tier never takes a tier away.
Qualify(r) == IF r.purchases >= Threshold THEN 1 ELSE r.tier

\* add_loyalty_points multiplies by the tier of the copy it has in hand.
Points(r, x) == x * Multiplier[r.tier]

\* award_loyalty_points_on_sale: the points, the purchases, then the tier.
Purchased(r, x) == [r EXCEPT !["points"] = @ + Points(r, x), !["purchases"] = @ + x]
Award(r, x) == [Purchased(r, x) EXCEPT !["tier"] = Qualify(Purchased(r, x))]
TierField(old, new) == IF old.tier = new.tier THEN {} ELSE {"tier"}

\* The row an UPDATE of some columns leaves, and whether they changed since.
Updated(now, new, fields) == [f \in Field |-> IF f \in fields THEN new[f] ELSE now[f]]
Stale(now, old, fields) == \E f \in fields : old[f] # now[f]

Free(x) == lock[x] = Nobody

Save(c, old, new, fields) ==
    /\ row' = [row EXCEPT ![c] = Updated(@, new, fields)]
    /\ lost' = lost \cup {x \in {c} : Stale(row[c], old, fields)}

Begin(w, at, request) == /\ pc[w] = "idle"
                         /\ request.kind \in Kinds
                         /\ served < MaxRequests
                         /\ served' = served + 1
                         /\ req' = [req EXCEPT ![w] = request]
                         /\ pc' = [pc EXCEPT ![w] = at]

(* The end of a transaction, committed or rolled back: its locks go, and what it
   had in memory. *)
End(w) == /\ lock' = [x \in Lockable |-> IF lock[x] = w THEN Nobody ELSE lock[x]]
          /\ pc' = [pc EXCEPT ![w] = "idle"]
          /\ req' = [req EXCEPT ![w] = NoRequest]
          /\ copy' = [copy EXCEPT ![w] = Opening]
          /\ other' = [other EXCEPT ![w] = Opening]
          /\ held' = [held EXCEPT ![w] = NoCard]
          /\ listed' = [listed EXCEPT ![w] = {}]
          /\ counted' = [counted EXCEPT ![w] = {}]
          /\ total' = [total EXCEPT ![w] = 0]
          /\ UNCHANGED served

At(w, at, kinds) == pc[w] = at /\ req[w].kind \in kinds
Who(w) == req[w].who
Asked(w) == req[w].amount
-----------------------------------------------------------------------------
(* Requests about one customer: the view reads the row without a lock, checks the
   amount against its copy and saves some columns of it. *)
Enough(r, k, x) == /\ k = "redeem" => x <= r.points
                   /\ k = "spend" => x <= r.credit
                   /\ k = "tier" => Qualify(r) # r.tier

BeginOne(w, k, c, x) ==
    /\ k \in {"redeem", "give", "credit", "spend", "tier", "edit"}
    /\ Enough(row[c], k, x)
    /\ Begin(w, "write", [NoRequest EXCEPT !.kind = k, !.who = c, !.amount = x])
    /\ copy' = [copy EXCEPT ![w] = row[c]]
    /\ UNCHANGED <<row, card, books, lost, lock, other, held, listed, counted, total>>

\* loyalty_points_redeem, and loyalty_points_adjust with a negative amount.
Redeem(w) ==
    LET c == Who(w) x == Asked(w) IN
    /\ At(w, "write", {"redeem"}) /\ Free(c)
    /\ Save(c, copy[w], [copy[w] EXCEPT !["points"] = @ - x], {"points"})
    /\ pointLog' = [pointLog EXCEPT ![c] = @ - x]
    /\ End(w)
    /\ UNCHANGED <<card, earned, expired, sale, awards, creditLog, paid, forgiven, used>>

\* loyalty_points_adjust with a positive amount.
Give(w) ==
    LET c == Who(w) x == Points(copy[w], Asked(w)) IN
    /\ At(w, "write", {"give"}) /\ Free(c)
    /\ Save(c, copy[w], [copy[w] EXCEPT !["points"] = @ + x], {"points"})
    /\ pointLog' = [pointLog EXCEPT ![c] = @ + x]
    /\ earned' = [earned EXCEPT ![c] = Append(@, x)]
    /\ End(w)
    /\ UNCHANGED <<card, expired, sale, awards, creditLog, paid, forgiven, used>>

AddCredit(w) ==
    LET c == Who(w) x == Asked(w) IN
    /\ At(w, "write", {"credit"}) /\ Free(c)
    /\ Save(c, copy[w], [copy[w] EXCEPT !["credit"] = @ + x], {"credit"})
    /\ creditLog' = [creditLog EXCEPT ![c] = @ + x]
    /\ End(w)
    /\ UNCHANGED <<card, earned, expired, sale, awards, pointLog, paid, forgiven, used>>

\* Mutant: store_credit is missing from update_fields.
UseCreditUnsaved(w) ==
    LET c == Who(w) IN
    /\ At(w, "write", {"spend"}) /\ Free(c)
    /\ Save(c, copy[w], copy[w], {})
    /\ creditLog' = [creditLog EXCEPT ![c] = @ - Asked(w)]
    /\ End(w)
    /\ UNCHANGED <<card, earned, expired, sale, awards, pointLog, paid, forgiven, used>>

UseCredit(w) ==
    LET c == Who(w) x == Asked(w) IN
    /\ At(w, "write", {"spend"}) /\ Free(c)
    /\ Save(c, copy[w], [copy[w] EXCEPT !["credit"] = @ - x], {"credit"})
    /\ creditLog' = [creditLog EXCEPT ![c] = @ - x]
    /\ End(w)
    /\ UNCHANGED <<card, earned, expired, sale, awards, pointLog, paid, forgiven, used>>

UpdateTier(w) ==
    LET c == Who(w) IN
    /\ At(w, "write", {"tier"}) /\ Free(c)
    /\ Save(c, copy[w], [copy[w] EXCEPT !["tier"] = Qualify(copy[w])], {"tier"})
    /\ End(w)
    /\ UNCHANGED <<card, books>>

\* customer_edit_submit saves every column, these among them.
EditCustomer(w) ==
    LET c == Who(w) IN
    /\ At(w, "write", {"edit"}) /\ Free(c)
    /\ Save(c, copy[w], copy[w], Field)
    /\ End(w)
    /\ UNCHANGED <<card, books>>
-----------------------------------------------------------------------------
(* Points to another customer: two rows, saved sender first. *)
BeginTransfer(w, c, d, x) ==
    /\ c # d /\ x <= row[c].points
    /\ Begin(w, "recipient", [NoRequest EXCEPT !.kind = "transfer", !.who = c, !.to = d,
                                               !.amount = x])
    /\ copy' = [copy EXCEPT ![w] = row[c]]
    /\ UNCHANGED <<row, card, books, lost, lock, other, held, listed, counted, total>>

ReadRecipient(w) ==
    /\ At(w, "recipient", {"transfer"})
    /\ other' = [other EXCEPT ![w] = row[req[w].to]]
    /\ pc' = [pc EXCEPT ![w] = "sender"]
    /\ UNCHANGED <<row, card, books, lost, lock, req, copy, held, listed, counted, total,
                   served>>

SaveSender(w) ==
    /\ At(w, "sender", {"transfer"}) /\ Free(Who(w))
    /\ lock' = [lock EXCEPT ![Who(w)] = w]
    /\ pc' = [pc EXCEPT ![w] = "both"]
    /\ UNCHANGED <<row, card, books, lost, req, memory, served>>

SaveRecipient(w) ==
    LET c == Who(w) d == req[w].to x == Asked(w) IN
    /\ At(w, "both", {"transfer"}) /\ Free(d)
    /\ row' = [row EXCEPT ![c]["points"] = copy[w].points - x,
                          ![d]["points"] = other[w].points + x]
    /\ lost' = lost \cup {y \in {c} : copy[w].points # row[c].points}
                    \cup {y \in {d} : other[w].points # row[d].points}
    /\ pointLog' = [pointLog EXCEPT ![c] = @ - x, ![d] = @ + x]
    /\ earned' = [earned EXCEPT ![d] = Append(@, x)]
    /\ End(w)
    /\ UNCHANGED <<card, expired, sale, awards, creditLog, paid, forgiven, used>>

(* Transfers that wait for each other in a circle, each for the row the next one has
   saved: PostgreSQL rolls one of them back, and its view answers 500. *)
Deadlocked(w) == \E S \in SUBSET Worker :
    w \in S /\ \A v \in S : At(v, "both", {"transfer"}) /\ lock[req[v].to] \in S

DeadlockVictim(w) ==
    /\ Deadlocked(w)
    /\ End(w)
    /\ UNCHANGED <<row, card, books, lost>>
-----------------------------------------------------------------------------
(* Expiry: the customer, then its old transactions, are read; each is marked and
   counted, and what they add up to is taken from the copy of the customer. *)
BeginExpire(w, c) ==
    /\ Begin(w, "list", [NoRequest EXCEPT !.kind = "expire", !.who = c])
    /\ copy' = [copy EXCEPT ![w] = row[c]]
    /\ UNCHANGED <<row, card, books, lost, lock, other, held, listed, counted, total>>

Unexpired(c) == {i \in DOMAIN earned[c] \ expired[c] : earned[c][i] > 0}

\* The oldest n transactions are past the months asked for.
ListOld(w, n) ==
    LET old == {i \in Unexpired(Who(w)) : i <= n} IN
    /\ At(w, "list", {"expire"}) /\ old # {}
    /\ listed' = [listed EXCEPT ![w] = old]
    /\ pc' = [pc EXCEPT ![w] = "mark"]
    /\ UNCHANGED <<row, card, books, lost, lock, req, copy, other, held, counted, total,
                   served>>

NoneOld(w) == /\ At(w, "list", {"expire"})
              /\ End(w)
              /\ UNCHANGED <<row, card, books, lost>>

MarkOld(w) ==
    /\ At(w, "mark", {"expire"})
    /\ \E i \in listed[w] \ counted[w] :
         /\ \A j \in listed[w] \ counted[w] : j <= i
         /\ counted' = [counted EXCEPT ![w] = @ \cup {i}]
         /\ total' = [total EXCEPT ![w] = @ + earned[Who(w)][i]]
    /\ UNCHANGED <<row, card, books, lost, lock, pc, req, copy, other, held, listed,
                   served>>

\* Mutant: the balance does not stop at zero.
ExpireBelowZero(w) ==
    LET c == Who(w) IN
    /\ At(w, "mark", {"expire"}) /\ counted[w] = listed[w] /\ Free(c)
    /\ Save(c, copy[w], [copy[w] EXCEPT !["points"] = @ - total[w]], {"points"})
    /\ pointLog' = [pointLog EXCEPT ![c] = @ - total[w]]
    /\ expired' = [expired EXCEPT ![c] = @ \cup listed[w]]
    /\ End(w)
    /\ UNCHANGED <<card, earned, sale, awards, creditLog, paid, forgiven, used>>

\* The transaction logs all that expired, the balance stops at zero.
Expire(w) ==
    LET c == Who(w) had == copy[w].points
        taken == IF total[w] <= had THEN total[w] ELSE had IN
    /\ At(w, "mark", {"expire"}) /\ counted[w] = listed[w] /\ Free(c)
    /\ Save(c, copy[w], [copy[w] EXCEPT !["points"] = had - taken], {"points"})
    /\ pointLog' = [pointLog EXCEPT ![c] = @ - total[w]]
    /\ forgiven' = [forgiven EXCEPT ![c] = @ + (total[w] - taken)]
    /\ expired' = [expired EXCEPT ![c] = @ \cup listed[w]]
    /\ End(w)
    /\ UNCHANGED <<card, earned, sale, awards, creditLog, paid, used>>
-----------------------------------------------------------------------------
(* Sales.  Creating one locks the customer's row before reading it; each save of a
   completed sale, this one included, runs the signal that awards its points. *)
\* Mutant: the customer is read without FOR UPDATE.
BeginSaleUnlocked(w, k, s, c, x) ==
    /\ k \in {"sale", "charge"}
    /\ sale[s].total = 0
    /\ \A v \in Worker : At(v, "till", {"sale", "charge"}) => req[v].sale # s
    /\ Begin(w, "till", [NoRequest EXCEPT !.kind = k, !.who = c, !.sale = s, !.amount = x])
    /\ copy' = [copy EXCEPT ![w] = row[c]]
    /\ UNCHANGED <<row, card, books, lost, lock, other, held, listed, counted, total>>

BeginSale(w, k, s, c, x) ==
    /\ k \in {"sale", "charge"}
    /\ sale[s].total = 0 /\ Free(c)
    /\ \A v \in Worker : At(v, "till", {"sale", "charge"}) => req[v].sale # s
    /\ Begin(w, "till", [NoRequest EXCEPT !.kind = k, !.who = c, !.sale = s, !.amount = x])
    /\ lock' = [lock EXCEPT ![c] = w]
    /\ copy' = [copy EXCEPT ![w] = row[c]]
    /\ UNCHANGED <<row, card, books, lost, other, held, listed, counted, total>>

\* Mutant: the transaction logs the points before the tier multiplies them.
AwardedBase(s, c, d, x) == /\ pointLog' = [pointLog EXCEPT ![c] = @ + x]
                           /\ earned' = [earned EXCEPT ![c] = Append(@, x)]
                           /\ sale' = [sale EXCEPT ![s] = [who |-> c, total |-> x]]
                           /\ awards' = [awards EXCEPT ![s] = @ + 1]
Awarded(s, c, d, x) == /\ pointLog' = [pointLog EXCEPT ![c] = @ + d]
                       /\ earned' = [earned EXCEPT ![c] = Append(@, d)]
                       /\ sale' = [sale EXCEPT ![s] = [who |-> c, total |-> x]]
                       /\ awards' = [awards EXCEPT ![s] = @ + 1]

Charge(w) == IF req[w].kind = "charge" THEN Asked(w) ELSE 0

\* The signal has saved points, purchases and tier; create() then saves purchases
\* once more, from its own copy, with the store credit.
FinishSale(w) ==
    LET c == Who(w) x == Asked(w)
        new == [Award(copy[w], x) EXCEPT !["credit"] = @ - Charge(w)] IN
    /\ At(w, "till", {"sale", "charge"}) /\ Charge(w) <= copy[w].credit
    /\ Save(c, copy[w], new, {"points", "purchases", "credit"} \cup TierField(copy[w], new))
    /\ Awarded(req[w].sale, c, Points(copy[w], x), x)
    /\ paid' = [paid EXCEPT ![c] = @ + Charge(w)]
    /\ End(w)
    /\ UNCHANGED <<card, expired, creditLog, forgiven, used>>

\* Mutant: the refusal is answered and the transaction stays open.
RefuseSaleOpen(w) == /\ At(w, "till", {"sale", "charge"})
                     /\ pc' = [pc EXCEPT ![w] = "idle"]
                     /\ UNCHANGED <<row, card, books, lost, lock, req, memory, served>>

\* No stock, a bad price, too little credit: the transaction rolls back.
RefuseSale(w) == /\ At(w, "till", {"sale", "charge"})
                 /\ End(w)
                 /\ UNCHANGED <<row, card, books, lost>>

\* Any later save of a sale that is still completed; an edit may have changed its
\* customer and its total.
BeginResave(w, s, c, x) ==
    /\ sale[s].total > 0 /\ Free(s)
    /\ Begin(w, "resave", [NoRequest EXCEPT !.kind = "resave", !.who = c, !.sale = s,
                                            !.amount = x])
    /\ lock' = [lock EXCEPT ![s] = w]
    /\ copy' = [copy EXCEPT ![w] = row[c]]
    /\ UNCHANGED <<row, card, books, lost, other, held, listed, counted, total>>

Resave(w) ==
    LET c == Who(w) x == Asked(w) new == Award(copy[w], x) IN
    /\ At(w, "resave", {"resave"}) /\ Free(c)
    /\ Save(c, copy[w], new, {"points", "purchases"} \cup TierField(copy[w], new))
    /\ Awarded(req[w].sale, c, Points(copy[w], x), x)
    /\ End(w)
    /\ UNCHANGED <<card, expired, creditLog, paid, forgiven, used>>
-----------------------------------------------------------------------------
(* Gift cards. *)
Issue(k) == /\ "issue" \in Kinds /\ served < MaxRequests
            /\ card[k].status = "none"
            /\ card' = [card EXCEPT ![k] = [balance |-> Value, status |-> "ACTIVE"]]
            /\ served' = served + 1
            /\ UNCHANGED <<row, books, lost, lock, pc, req, memory>>

\* A card without a customer cannot be cancelled: its transaction row is refused,
\* and everything is rolled back.
CanBeUsed(g) == g.status = "ACTIVE" /\ g.balance > 0
BeginCard(w, kind, k, x) ==
    /\ \/ kind = "use" /\ CanBeUsed(card[k]) /\ x <= card[k].balance
       \/ kind = "cancel" /\ card[k].status = "ACTIVE" /\ k \in Owned
    /\ Begin(w, "card", [NoRequest EXCEPT !.kind = kind, !.card = k, !.amount = x])
    /\ held' = [held EXCEPT ![w] = card[k]]
    /\ UNCHANGED <<row, card, books, lost, lock, copy, other, listed, counted, total>>

\* Mutant: status is missing from update_fields.
UseBalanceOnly(w) ==
    LET k == req[w].card IN
    /\ At(w, "card", {"use"})
    /\ card' = [card EXCEPT ![k].balance = held[w].balance - Asked(w)]
    /\ lost' = lost \cup {y \in {k} : held[w] # card[k]}
    /\ used' = [used EXCEPT ![k] = @ + Asked(w)]
    /\ End(w)
    /\ UNCHANGED <<row, earned, expired, sale, awards, pointLog, creditLog, paid, forgiven>>

UseBalance(w) ==
    LET k == req[w].card left == held[w].balance - Asked(w) IN
    /\ At(w, "card", {"use"})
    /\ card' = [card EXCEPT ![k] = [balance |-> left,
                  status |-> IF left = 0 THEN "REDEEMED" ELSE held[w].status]]
    /\ lost' = lost \cup {y \in {k} : held[w] # card[k]}
    /\ used' = [used EXCEPT ![k] = @ + Asked(w)]
    /\ End(w)
    /\ UNCHANGED <<row, earned, expired, sale, awards, pointLog, creditLog, paid, forgiven>>

CancelCard(w) ==
    LET k == req[w].card IN
    /\ At(w, "card", {"cancel"})
    /\ card' = [card EXCEPT ![k].status = "CANCELLED"]
    /\ lost' = lost \cup {y \in {k} : held[w].status # card[k].status}
    /\ End(w)
    /\ UNCHANGED <<row, books>>
-----------------------------------------------------------------------------
Request(w) ==
    \/ \E k \in Kinds, c \in Customer, x \in Amount : BeginOne(w, k, c, x)
    \/ \E c, d \in Customer, x \in Amount : BeginTransfer(w, c, d, x)
    \/ \E c \in Customer : BeginExpire(w, c)
    \/ \E k \in Kinds, s \in Sale, c \in Customer, x \in Amount : BeginSale(w, k, s, c, x)
    \/ \E s \in Sale, c \in Customer, x \in Amount : BeginResave(w, s, c, x)
    \/ \E kind \in {"use", "cancel"}, k \in Card, x \in Amount : BeginCard(w, kind, k, x)

Step(w) ==
    \/ Redeem(w) \/ Give(w) \/ AddCredit(w) \/ UseCredit(w)
    \/ UpdateTier(w) \/ EditCustomer(w)
    \/ ReadRecipient(w) \/ SaveSender(w) \/ SaveRecipient(w) \/ DeadlockVictim(w)
    \/ \E n \in 1 .. Len(earned[Who(w)]) : ListOld(w, n)
    \/ NoneOld(w) \/ MarkOld(w) \/ Expire(w)
    \/ FinishSale(w) \/ RefuseSale(w) \/ Resave(w)
    \/ UseBalance(w) \/ CancelCard(w)

Next == \/ \E w \in Worker : Request(w) \/ Step(w)
        \/ \E k \in Card : Issue(k)

Spec == Init /\ [][Next]_vars

(* A web worker goes on with the request it serves; the database hands a row on
   when the transaction that holds it ends. *)
FairSpec == Spec /\ \A w \in Worker : WF_vars(Step(w))
-----------------------------------------------------------------------------
(* Every balance is a natural number, whatever requests overlapped: each request
   checks and writes from one and the same copy (crm/models.py:518-665). *)
TypeOK ==
    /\ row \in [Customer -> Wallet]
    /\ card \in [Card -> [balance : Nat, status : CardStatus]]
    /\ earned \in [Customer -> Seq(Nat)]
    /\ expired \in [Customer -> SUBSET Nat]
    /\ sale \in [Sale -> [who : Customer, total : Nat]]
    /\ awards \in [Sale -> Nat]
    /\ pointLog \in [Customer -> Int] /\ creditLog \in [Customer -> Int]
    /\ paid \in [Customer -> Nat] /\ forgiven \in [Customer -> Nat]
    /\ used \in [Card -> Nat]
    /\ lost \subseteq Customer \cup Card
    /\ lock \in [Lockable -> Worker \cup {Nobody}]
    /\ pc \in [Worker -> {"idle", "write", "recipient", "sender", "both", "list", "mark",
                          "till", "resave", "card"}]
    /\ req \in [Worker -> [kind : Kind, who : Customer, to : Customer, amount : Nat,
                           sale : Sale, card : Card]]
    /\ copy \in [Worker -> Wallet] /\ other \in [Worker -> Wallet]
    /\ held \in [Worker -> [balance : Nat, status : CardStatus]]
    /\ listed \in [Worker -> SUBSET Nat] /\ counted \in [Worker -> SUBSET Nat]
    /\ total \in [Worker -> Nat]
    /\ served \in 0 .. MaxRequests

(* Store credit is what was put in, less what was taken out and what paid for
   sales, unless some request saved the customer over a change it had not seen. *)
CreditAccounted ==
    \A c \in Customer \ lost :
        row[c].credit = Opening["credit"] + creditLog[c] - paid[c]

(* Points are what the loyalty transactions add up to, and what an expiry logged
   beyond the balance, under the same condition. *)
PointsAccounted ==
    \A c \in Customer \ lost :
        row[c].points = Opening["points"] + pointLog[c] + forgiven[c]

(* Whatever requests about a gift card overlap, none is left active and empty, and
   none is fully redeemed with money on it; and what it lost was redeemed, unless
   a change was written over. *)
CardSettled ==
    \A k \in Card :
        /\ card[k].status = "ACTIVE" => card[k].balance > 0
        /\ card[k].status = "REDEEMED" => card[k].balance = 0
        /\ k \notin lost /\ card[k].status # "none" => card[k].balance = Value - used[k]

(* A sale at the till works on the customer's row as it is: no view, locking or
   not, can change it between the till's read and its save. *)
SaleSeesLatest ==
    \A w \in Worker : pc[w] = "till" => copy[w] = row[Who(w)]

(* Every request is answered, also when two transfers wait for each other. *)
Answered == \A w \in Worker : pc[w] # "idle" ~> pc[w] = "idle"

(* crm/signals.py:51: "Check if we've already awarded points for this sale". *)
AwardedOnce == \A s \in Sale : awards[s] <= 1
=============================================================================
