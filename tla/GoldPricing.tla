---------------------------- MODULE GoldPricing ----------------------------
(* Gold rates, the prices computed from them, and prices overridden by hand.  A
   periodic task replaces the active rate in two commits; recalculations, from the
   daily task or a manager's request, are one transaction each over items they
   read at its start; a manager's decision on an override is a transaction too.
   None of them locks what it reads. *)
EXTENDS Integers, Sequences, FiniteSets, SequencesExt

CONSTANTS Item,       \* active items, numbered in the order a recalculation takes them
          Karat,      \* Karat[i]: the karat of an item
          Ruled,      \* the items some pricing rule matches
          Rate,       \* rates the providers can quote, per gram
          Weight,     \* Weight[i]: what the rule of item i multiplies a rate by
          Opening,    \* Opening[i]: price of item i at the start
          Asked,      \* prices asked for in override requests and item forms
          MaxRise,    \* a change of more times the old price does not fit its log
          Override,   \* identities of override requests
          Fetcher,    \* fetch tasks that can run at a time
          Worker,     \* workers that run the other tasks and the requests
          Nobody      \* holder of a free row

Status == {"none", "PENDING", "APPROVED", "REJECTED"}
Row == Item \cup Override

ASSUME PricingAssumption == /\ Item \subseteq Nat /\ Override \cap Item = {}
                            /\ Override # {} /\ Item # {} /\ Ruled \subseteq Item
                            /\ IsFiniteSet(Item)
                            /\ Rate \subseteq Nat \ {0} /\ Asked \subseteq Nat \ {0}
                            /\ Weight \in [Item -> Nat \ {0}]
                            /\ Opening \in [Item -> Nat \ {0}]
                            /\ MaxRise \in Nat
                            /\ Nobody \notin Worker

VARIABLES
  active,    \* the active GoldRate rows of the market, oldest first
  fetch,     \* fetch[f]: where a fetch task has got to
  price,     \* price[i]: selling_price of item i, committed
  logged,    \* logged[i]: new_price of its latest PriceChangeLog
  unlogged,  \* the items a form has saved since then
  override,  \* override[o]: status, item and price of PriceOverrideRequest o
  applied,   \* applied[o]: how often its price was put on the item
  raced,     \* the overrides decided over a decision their reviewer had not seen
  lock,      \* lock[x]: the transaction that has written row x
  pc,        \* pc[w]: where a worker has got to
  seen,      \* seen[w]: the prices it has read
  todo,      \* todo[w]: the items its recalculation has yet to take
  wrote,     \* wrote[w]: the prices its recalculation has saved, 0 for none
  doomed,    \* doomed[w]: a statement of its transaction has failed
  about      \* about[w]: the override it decides, and the status it read

rates == <<active, fetch>>
reviews == <<override, applied, raced>>
memory == <<seen, todo, wrote, doomed, about>>
vars == <<rates, price, logged, unlogged, reviews, lock, pc, memory>>

NoPrices == [i \in Item |-> 0]
NoReview == [override |-> CHOOSE o \in Override : TRUE, status |-> "PENDING"]
NoRequest == [status |-> "none", item |-> CHOOSE i \in Item : TRUE, price |-> 1]

Init == /\ active = <<>>
        /\ fetch = [f \in Fetcher |-> "idle"]
        /\ price = Opening
        /\ logged = Opening
        /\ unlogged = {}
        /\ override = [o \in Override |-> NoRequest]
        /\ applied = [o \in Override |-> 0]
        /\ raced = {}
        /\ lock = [x \in Row |-> Nobody]
        /\ pc = [w \in Worker |-> "idle"]
        /\ seen = [w \in Worker |-> NoPrices]
        /\ todo = [w \in Worker |-> {}]
        /\ wrote = [w \in Worker |-> NoPrices]
        /\ doomed = [w \in Worker |-> FALSE]
        /\ about = [w \in Worker |-> NoReview]
-----------------------------------------------------------------------------
(* Fetching the rate, every five minutes.  A provider that does not answer leaves
   the task to be retried, and changes nothing; the yearly cleanup deletes
   inactive rows only. *)

\* Mutant: without a previous rate the task ends.
FetchWithPrevious(f) ==
    /\ fetch[f] = "idle" /\ active # <<>>
    /\ fetch' = [fetch EXCEPT ![f] = "deactivate"]
    /\ UNCHANGED <<active, price, logged, unlogged, reviews, lock, pc, memory>>

\* A provider has answered, and the previous rate is read.
Fetch(f) ==
    /\ fetch[f] = "idle"
    /\ fetch' = [fetch EXCEPT ![f] = IF active = <<>> THEN "create" ELSE "deactivate"]
    /\ UNCHANGED <<active, price, logged, unlogged, reviews, lock, pc, memory>>

Deactivate(f) ==
    /\ fetch[f] = "deactivate"
    /\ active' = <<>>
    /\ fetch' = [fetch EXCEPT ![f] = "create"]
    /\ UNCHANGED <<price, logged, unlogged, reviews, lock, pc, memory>>

\* The rate it was given becomes the latest.
CreateRate(f) ==
    /\ fetch[f] = "create"
    /\ \E r \in Rate : active' = Append(active, r)
    /\ fetch' = [fetch EXCEPT ![f] = "idle"]
    /\ UNCHANGED <<price, logged, unlogged, reviews, lock, pc, memory>>

FetchDies(f) ==
    /\ fetch[f] # "idle"
    /\ fetch' = [fetch EXCEPT ![f] = "idle"]
    /\ UNCHANGED <<active, price, logged, unlogged, reviews, lock, pc, memory>>
-----------------------------------------------------------------------------
(* Transactions. *)
Free(x) == lock[x] = Nobody
Read(items) == [i \in Item |-> IF i \in items THEN price[i] ELSE 0]

\* The end of one, committed or not.
End(w) == /\ pc' = [pc EXCEPT ![w] = "idle"]
          /\ lock' = [x \in Row |-> IF lock[x] = w THEN Nobody ELSE lock[x]]
          /\ seen' = [seen EXCEPT ![w] = NoPrices]
          /\ todo' = [todo EXCEPT ![w] = {}]
          /\ wrote' = [wrote EXCEPT ![w] = NoPrices]
          /\ doomed' = [doomed EXCEPT ![w] = FALSE]
          /\ about' = [about EXCEPT ![w] = NoReview]

\* Its worker dies, or the request fails.
Rollback(w) == /\ pc[w] # "idle"
               /\ End(w)
               /\ UNCHANGED <<rates, price, logged, unlogged, reviews>>

\* change_percentage is a column of seven digits.
TooFar(old, new) == old > 0 /\ new - old > MaxRise * old

Computed(i) == Last(active) * Weight[i]
-----------------------------------------------------------------------------
(* Recalculation, of all items or of those of one karat. *)
Scopes == {Item} \cup {{i \in Item : Karat[i] = Karat[j]} : j \in Item}

BeginRecalculation(w, scope) ==
    /\ pc[w] = "idle"
    /\ pc' = [pc EXCEPT ![w] = "recalculate"]
    /\ seen' = [seen EXCEPT ![w] = Read(scope)]
    /\ todo' = [todo EXCEPT ![w] = scope]
    /\ UNCHANGED <<rates, price, logged, unlogged, reviews, lock, wrote, doomed, about>>

First(w, i) == \A j \in todo[w] : i <= j

\* No rate, no rule, or the same price as in the copy; and nothing works any more in
\* a transaction a statement of which has failed.
Changes(w, i) == /\ ~doomed[w] /\ active # <<>> /\ i \in Ruled
                 /\ Computed(i) # seen[w][i]

PassItem(w) ==
    /\ pc[w] = "recalculate"
    /\ \E i \in todo[w] :
         /\ First(w, i) /\ ~Changes(w, i)
         /\ todo' = [todo EXCEPT ![w] = @ \ {i}]
    /\ UNCHANGED <<rates, price, logged, unlogged, reviews, lock, pc, seen, wrote, doomed,
                   about>>

\* Mutant: the price is committed at once, the log when the task is done.
SaveItemAtOnce(w) ==
    /\ pc[w] = "recalculate"
    /\ \E i \in todo[w] :
         /\ First(w, i) /\ Changes(w, i) /\ Free(i)
         /\ todo' = [todo EXCEPT ![w] = @ \ {i}]
         /\ price' = [price EXCEPT ![i] = Computed(i)]
         /\ wrote' = [wrote EXCEPT ![w][i] = Computed(i)]
    /\ UNCHANGED <<rates, logged, unlogged, reviews, lock, pc, seen, doomed, about>>

\* The item is saved and its change logged; a log that does not fit is refused.
SaveItem(w) ==
    /\ pc[w] = "recalculate"
    /\ \E i \in todo[w] :
         /\ First(w, i) /\ Changes(w, i) /\ Free(i)
         /\ lock' = [lock EXCEPT ![i] = w]
         /\ todo' = [todo EXCEPT ![w] = @ \ {i}]
         /\ IF TooFar(seen[w][i], Computed(i))
            THEN doomed' = [doomed EXCEPT ![w] = TRUE] /\ wrote' = wrote
            ELSE wrote' = [wrote EXCEPT ![w][i] = Computed(i)] /\ doomed' = doomed
    /\ UNCHANGED <<rates, price, logged, unlogged, reviews, pc, seen, about>>

\* Mutant: items without a new price are saved too.
CommitEveryItem(w) ==
    /\ pc[w] = "recalculate" /\ todo[w] = {}
    /\ price' = wrote[w] /\ logged' = wrote[w]
    /\ unlogged' = {}
    /\ End(w)
    /\ UNCHANGED <<rates, reviews>>

CommitRecalculation(w) ==
    LET new == {i \in Item : ~doomed[w] /\ wrote[w][i] > 0} IN
    /\ pc[w] = "recalculate" /\ todo[w] = {}
    /\ price' = [i \in Item |-> IF i \in new THEN wrote[w][i] ELSE price[i]]
    /\ logged' = [i \in Item |-> IF i \in new THEN wrote[w][i] ELSE logged[i]]
    /\ unlogged' = unlogged \ new
    /\ End(w)
    /\ UNCHANGED <<rates, reviews>>
-----------------------------------------------------------------------------
(* Overrides.  An employee asks, a manager decides. *)
RequestOverride(o, i, p) ==
    /\ override[o].status = "none"
    /\ override' = [override EXCEPT ![o] = [status |-> "PENDING", item |-> i, price |-> p]]
    /\ UNCHANGED <<rates, price, logged, unlogged, applied, raced, lock, pc, memory>>

\* Mutant: the status is not looked at.
BeginReviewUnchecked(w, o, at) ==
    /\ pc[w] = "idle" /\ override[o].status # "none"
    /\ pc' = [pc EXCEPT ![w] = at]
    /\ about' = [about EXCEPT ![w] = [override |-> o, status |-> override[o].status]]
    /\ UNCHANGED <<rates, price, logged, unlogged, reviews, lock, seen, todo, wrote, doomed>>

BeginReview(w, o, at) ==
    /\ pc[w] = "idle" /\ override[o].status = "PENDING"
    /\ pc' = [pc EXCEPT ![w] = at]
    /\ about' = [about EXCEPT ![w] = [override |-> o, status |-> override[o].status]]
    /\ UNCHANGED <<rates, price, logged, unlogged, reviews, lock, seen, todo, wrote, doomed>>

Decides(w) == about[w].override
Missed(w) == {o \in {Decides(w)} : override[o].status # about[w].status}

Reject(w) ==
    /\ pc[w] = "reject" /\ Free(Decides(w))
    /\ override' = [override EXCEPT ![Decides(w)].status = "REJECTED"]
    /\ raced' = raced \cup Missed(w)
    /\ End(w)
    /\ UNCHANGED <<rates, price, logged, unlogged, applied>>

\* approve() saves the request; then its item is read.
Approve(w) ==
    /\ pc[w] = "approve" /\ Free(Decides(w))
    /\ lock' = [lock EXCEPT ![Decides(w)] = w]
    /\ seen' = [seen EXCEPT ![w] = Read({override[Decides(w)].item})]
    /\ pc' = [pc EXCEPT ![w] = "apply"]
    /\ UNCHANGED <<rates, price, logged, unlogged, reviews, todo, wrote, doomed, about>>

\* The item is saved and its change logged, and the request commits; a log that does
\* not fit fails the request.
Apply(w) ==
    LET o == Decides(w) i == override[o].item p == override[o].price IN
    /\ pc[w] = "apply" /\ Free(i) /\ ~TooFar(seen[w][i], p)
    /\ override' = [override EXCEPT ![o].status = "APPROVED"]
    /\ price' = [price EXCEPT ![i] = p]
    /\ logged' = [logged EXCEPT ![i] = p]
    /\ unlogged' = unlogged \ {i}
    /\ applied' = [applied EXCEPT ![o] = @ + 1]
    /\ raced' = raced \cup Missed(w)
    /\ End(w)
    /\ UNCHANGED rates

(* The item form, the API and every other save of the whole row write a price that
   was typed or read before, and no log. *)
SaveForm(i, p) ==
    /\ Free(i)
    /\ price' = [price EXCEPT ![i] = p]
    /\ unlogged' = unlogged \cup {i}
    /\ UNCHANGED <<rates, logged, reviews, lock, pc, memory>>
-----------------------------------------------------------------------------
FetchStep(f) == Fetch(f) \/ Deactivate(f) \/ CreateRate(f)

Step(w) == \/ \E scope \in Scopes : BeginRecalculation(w, scope)
           \/ PassItem(w) \/ SaveItem(w) \/ CommitRecalculation(w)
           \/ \E o \in Override, at \in {"approve", "reject"} : BeginReview(w, o, at)
           \/ Reject(w) \/ Approve(w) \/ Apply(w) \/ Rollback(w)

Next == \/ \E f \in Fetcher : FetchStep(f) \/ FetchDies(f)
        \/ \E w \in Worker : Step(w)
        \/ \E o \in Override, i \in Item, p \in Asked : RequestOverride(o, i, p)
        \/ \E i \in Item, p \in Asked : SaveForm(i, p)

Spec == Init /\ [][Next]_vars

(* Beat sends the fetch task every five minutes, a provider answers at times, and
   not every task dies before it creates the rate. *)
FairSpec == Spec /\ \A f \in Fetcher : WF_vars(FetchStep(f)) /\ SF_vars(CreateRate(f))
-----------------------------------------------------------------------------
(* Types; and the fetch tasks in flight bound the rates that can be active. *)
TypeOK ==
    /\ active \in Seq(Rate)
    /\ fetch \in [Fetcher -> {"idle", "deactivate", "create"}]
    /\ price \in [Item -> Nat \ {0}] /\ logged \in [Item -> Nat \ {0}]
    /\ unlogged \subseteq Item
    /\ override \in [Override -> [status : Status, item : Item, price : Nat \ {0}]]
    /\ applied \in [Override -> Nat] /\ raced \subseteq Override
    /\ lock \in [Row -> Worker \cup {Nobody}]
    /\ pc \in [Worker -> {"idle", "recalculate", "approve", "reject", "apply"}]
    /\ seen \in [Worker -> [Item -> Nat]] /\ wrote \in [Worker -> [Item -> Nat]]
    /\ todo \in [Worker -> SUBSET Item] /\ doomed \in [Worker -> BOOLEAN]
    /\ about \in [Worker -> [override : Override, status : Status]]

(* The price of an item no form has touched since is the one its latest log entry
   says, whichever recalculations and approvals overlapped (services.py:347). *)
PriceLogged == \A i \in Item \ unlogged : price[i] = logged[i]

(* An override is on its item once if it is approved and never if it is not, unless
   two managers decided it at once (services.py:480). *)
ReviewedOnce ==
    \A o \in Override \ raced :
        applied[o] = IF override[o].status = "APPROVED" THEN 1 ELSE 0

(* However many fetch tasks overlap or die between their two commits, there is an
   active rate again and again. *)
RateReturns == []<>(active # <<>>)
=============================================================================
