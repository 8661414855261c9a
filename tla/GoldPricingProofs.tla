------------------------- MODULE GoldPricingProofs -------------------------
(* Proofs about GoldPricing, for any number of items, overrides, workers and fetch
   tasks. *)
EXTENDS GoldPricing, FiniteSetTheorems, WellFoundedInduction, TLAPS

(* A decision is made on a copy whose status was PENDING. *)
Reviewing == \A w \in Worker :
    pc[w] \in {"approve", "reject", "apply"} => about[w].status = "PENDING"

Inv == TypeOK /\ PriceLogged /\ ReviewedOnce /\ Reviewing

Places == {"idle", "recalculate", "approve", "reject", "apply"}
Requests == [status : Status, item : Item, price : Nat \ {0}]
Reviews == [override : Override, status : Status]

RatesOK == /\ active \in Seq(Rate)
           /\ fetch \in [Fetcher -> {"idle", "deactivate", "create"}]
RowsOK == /\ price \in [Item -> Nat \ {0}] /\ logged \in [Item -> Nat \ {0}]
          /\ unlogged \subseteq Item
          /\ override \in [Override -> Requests]
          /\ applied \in [Override -> Nat] /\ raced \subseteq Override
MemoryOK == /\ lock \in [Row -> Worker \cup {Nobody}]
            /\ pc \in [Worker -> Places]
            /\ seen \in [Worker -> [Item -> Nat]] /\ wrote \in [Worker -> [Item -> Nat]]
            /\ todo \in [Worker -> SUBSET Item] /\ doomed \in [Worker -> BOOLEAN]
            /\ about \in [Worker -> Reviews]

LEMMA Parts == TypeOK <=> RatesOK /\ RowsOK /\ MemoryOK
  BY DEF TypeOK, RatesOK, RowsOK, MemoryOK, Places, Requests, Reviews

LEMMA PartsNext == TypeOK' <=> RatesOK' /\ RowsOK' /\ MemoryOK'
  BY DEF TypeOK, RatesOK, RowsOK, MemoryOK, Places, Requests, Reviews

LEMMA Constants == /\ NoPrices \in [Item -> Nat] /\ NoReview \in Reviews
                   /\ NoRequest \in Requests /\ NoRequest.status = "none"
                   /\ Opening \in [Item -> Nat \ {0}]
                   /\ Asked \subseteq Nat \ {0}
<1>1. (CHOOSE o \in Override : TRUE) \in Override /\ (CHOOSE i \in Item : TRUE) \in Item
  BY PricingAssumption
<1> QED
  BY <1>1, PricingAssumption DEF NoPrices, NoReview, NoRequest, Reviews, Requests, Status

LEMMA ComputedType == ASSUME active \in Seq(Rate), active # <<>>, NEW i \in Item
                      PROVE Computed(i) \in Nat \ {0}
<1>1. Last(active) \in Rate
  BY DEF Last
<1> DEFINE r == Last(active)
           k == Weight[i]
<1>2. r \in Nat \ {0} /\ k \in Nat \ {0}
  BY <1>1, PricingAssumption
<1>3. Computed(i) = r * k
  BY DEF Computed
<1> HIDE DEF r, k
<1>4. r * k \in Nat \ {0}
  BY <1>2
<1> QED
  BY <1>3, <1>4
-----------------------------------------------------------------------------
(* What the steps have in common. *)
LEMMA EndMemory == ASSUME MemoryOK, NEW w \in Worker, End(w)
                   PROVE MemoryOK'
<1>1. /\ lock' \in [Row -> Worker \cup {Nobody}]
      /\ pc' \in [Worker -> Places]
  BY DEF MemoryOK, End, Places
<1>2. /\ seen' \in [Worker -> [Item -> Nat]] /\ wrote' \in [Worker -> [Item -> Nat]]
      /\ todo' \in [Worker -> SUBSET Item] /\ doomed' \in [Worker -> BOOLEAN]
      /\ about' \in [Worker -> Reviews]
  BY Constants DEF MemoryOK, End
<1> QED
  BY <1>1, <1>2 DEF MemoryOK

LEMMA EndReviewing == ASSUME MemoryOK, Reviewing, NEW w \in Worker, End(w)
                      PROVE Reviewing'
<1> SUFFICES ASSUME NEW v \in Worker, pc'[v] \in {"approve", "reject", "apply"}
             PROVE about'[v].status = "PENDING"
  BY DEF Reviewing
<1>1. v # w
  BY DEF MemoryOK, End
<1>2. pc'[v] = pc[v] /\ about'[v] = about[v]
  BY <1>1 DEF MemoryOK, End
<1> QED
  BY <1>2 DEF Reviewing

(* A step that changes neither prices nor overrides. *)
LEMMA RowsKept == ASSUME Inv, RatesOK', MemoryOK', Reviewing',
                         UNCHANGED <<price, logged, unlogged, reviews>>
                  PROVE Inv'
<1>1. RowsOK'
  BY Parts DEF Inv, RowsOK, reviews
<1>2. PriceLogged' /\ ReviewedOnce'
  BY DEF Inv, PriceLogged, ReviewedOnce, reviews
<1> QED
  BY <1>1, <1>2, PartsNext DEF Inv

LEMMA FetchKeeps ==
  ASSUME Inv, NEW f \in Fetcher, FetchStep(f) \/ FetchDies(f)
  PROVE Inv'
<1>1. RatesOK /\ MemoryOK
  BY Parts DEF Inv
<1>2. /\ UNCHANGED <<price, logged, unlogged, reviews>>
      /\ UNCHANGED <<lock, pc, memory>>
  BY DEF FetchStep, Fetch, Deactivate, CreateRate, FetchDies
<1>3. RatesOK'
  <2>1. CASE Fetch(f) \/ FetchDies(f)
    BY <1>1, <2>1 DEF RatesOK, Fetch, FetchDies
  <2>2. CASE Deactivate(f)
    BY <1>1, <2>2 DEF RatesOK, Deactivate
  <2>3. CASE CreateRate(f)
    BY <1>1, <2>3 DEF RatesOK, CreateRate
  <2> QED
    BY <2>1, <2>2, <2>3 DEF FetchStep
<1>4. MemoryOK' /\ Reviewing'
  BY <1>1, <1>2 DEF MemoryOK, Inv, Reviewing, memory
<1> QED
  BY <1>2, <1>3, <1>4, RowsKept

LEMMA BeginKeeps ==
  ASSUME Inv, NEW w \in Worker, NEW scope \in Scopes, BeginRecalculation(w, scope)
  PROVE Inv'
<1>1. RatesOK /\ RowsOK /\ MemoryOK
  BY Parts DEF Inv
<1>2. scope \subseteq Item
  BY DEF Scopes
<1>3. Read(scope) \in [Item -> Nat]
  BY <1>1 DEF Read, RowsOK
<1>4. /\ pc' = [pc EXCEPT ![w] = "recalculate"]
      /\ seen' = [seen EXCEPT ![w] = Read(scope)]
      /\ todo' = [todo EXCEPT ![w] = scope]
      /\ UNCHANGED <<rates, price, logged, unlogged, reviews, lock, wrote, doomed, about>>
  BY DEF BeginRecalculation
<1>5. MemoryOK'
  BY <1>1, <1>2, <1>3, <1>4 DEF MemoryOK, Places
<1>6. Reviewing'
  BY <1>1, <1>4 DEF Inv, Reviewing, MemoryOK
<1> QED
  BY <1>1, <1>4, <1>5, <1>6, RowsKept DEF RatesOK, rates

LEMMA PassKeeps == ASSUME Inv, NEW w \in Worker, PassItem(w)
                   PROVE Inv'
<1>1. RatesOK /\ MemoryOK
  BY Parts DEF Inv
<1>2. PICK i \in todo[w] : todo' = [todo EXCEPT ![w] = @ \ {i}]
  BY DEF PassItem
<1>3. UNCHANGED <<rates, price, logged, unlogged, reviews, lock, pc, seen, wrote, doomed, about>>
  BY DEF PassItem
<1>4. MemoryOK' /\ RatesOK' /\ Reviewing'
  BY <1>1, <1>2, <1>3 DEF MemoryOK, RatesOK, Inv, Reviewing, rates
<1> QED
  BY <1>3, <1>4, RowsKept

LEMMA SaveKeeps == ASSUME Inv, NEW w \in Worker, SaveItem(w)
                   PROVE Inv'
<1>1. RatesOK /\ MemoryOK
  BY Parts DEF Inv
<1>2. UNCHANGED <<rates, price, logged, unlogged, reviews, pc, seen, about>>
  BY DEF SaveItem
<1>3. PICK i \in todo[w] :
         /\ Changes(w, i)
         /\ lock' = [lock EXCEPT ![i] = w]
         /\ todo' = [todo EXCEPT ![w] = @ \ {i}]
         /\ IF TooFar(seen[w][i], Computed(i))
            THEN doomed' = [doomed EXCEPT ![w] = TRUE] /\ wrote' = wrote
            ELSE wrote' = [wrote EXCEPT ![w][i] = Computed(i)] /\ doomed' = doomed
  BY DEF SaveItem
<1>4. i \in Item
  BY <1>1, <1>3 DEF MemoryOK
<1>5. Computed(i) \in Nat
  BY <1>1, <1>3, <1>4, ComputedType DEF Changes, RatesOK
<1>6. wrote' \in [Worker -> [Item -> Nat]] /\ doomed' \in [Worker -> BOOLEAN]
  <2>1. CASE doomed' = [doomed EXCEPT ![w] = TRUE] /\ wrote' = wrote
    BY <1>1, <2>1 DEF MemoryOK
  <2>2. CASE wrote' = [wrote EXCEPT ![w][i] = Computed(i)] /\ doomed' = doomed
    BY <1>1, <1>4, <1>5, <2>2 DEF MemoryOK
  <2> QED
    BY <1>3, <2>1, <2>2
<1>7. lock' \in [Row -> Worker \cup {Nobody}] /\ todo' \in [Worker -> SUBSET Item]
  BY <1>1, <1>3 DEF MemoryOK
<1>8. MemoryOK' /\ RatesOK' /\ Reviewing'
  BY <1>1, <1>2, <1>6, <1>7 DEF MemoryOK, RatesOK, Inv, Reviewing, rates
<1> QED
  BY <1>2, <1>8, RowsKept

LEMMA CommitKeeps == ASSUME Inv, NEW w \in Worker, CommitRecalculation(w)
                     PROVE Inv'
<1> DEFINE new == {i \in Item : ~doomed[w] /\ wrote[w][i] > 0}
<1>1. RatesOK /\ RowsOK /\ MemoryOK
  BY Parts DEF Inv
<1>2. /\ price' = [i \in Item |-> IF i \in new THEN wrote[w][i] ELSE price[i]]
      /\ logged' = [i \in Item |-> IF i \in new THEN wrote[w][i] ELSE logged[i]]
      /\ unlogged' = unlogged \ new
      /\ End(w) /\ UNCHANGED <<rates, reviews>>
  BY DEF CommitRecalculation
<1>3. \A i \in new : i \in Item /\ wrote[w][i] \in Nat \ {0}
  BY <1>1 DEF MemoryOK
<1> HIDE DEF new
<1>4. RowsOK'
  BY <1>1, <1>2, <1>3 DEF RowsOK, reviews
<1>5. PriceLogged'
  BY <1>1, <1>2, <1>3 DEF Inv, PriceLogged, RowsOK
<1>6. ReviewedOnce'
  BY <1>2 DEF Inv, ReviewedOnce, reviews
<1>7. RatesOK' /\ MemoryOK' /\ Reviewing'
  BY <1>1, <1>2, EndMemory, EndReviewing DEF RatesOK, rates, Inv
<1> QED
  BY <1>4, <1>5, <1>6, <1>7, PartsNext DEF Inv

LEMMA RollbackKeeps == ASSUME Inv, NEW w \in Worker, Rollback(w)
                       PROVE Inv'
<1>1. RatesOK /\ MemoryOK
  BY Parts DEF Inv
<1>2. End(w) /\ UNCHANGED <<rates, price, logged, unlogged, reviews>>
  BY DEF Rollback
<1>3. RatesOK' /\ MemoryOK' /\ Reviewing'
  BY <1>1, <1>2, EndMemory, EndReviewing DEF RatesOK, rates, Inv
<1> QED
  BY <1>2, <1>3, RowsKept
-----------------------------------------------------------------------------
(* The steps of an override. *)
LEMMA RequestKeeps ==
  ASSUME Inv, NEW o \in Override, NEW i \in Item, NEW p \in Asked, RequestOverride(o, i, p)
  PROVE Inv'
<1> DEFINE request == [status |-> "PENDING", item |-> i, price |-> p]
<1>1. RatesOK /\ RowsOK /\ MemoryOK
  BY Parts DEF Inv
<1>2. request \in Requests /\ request.status = "PENDING"
  BY Constants DEF Requests, Status
<1>3. /\ override[o].status = "none"
      /\ override' = [override EXCEPT ![o] = request]
      /\ UNCHANGED <<rates, price, logged, unlogged, applied, raced, lock, pc, memory>>
  BY DEF RequestOverride
<1> HIDE DEF request
<1>4. RowsOK'
  BY <1>1, <1>2, <1>3 DEF RowsOK
<1>5. PriceLogged'
  BY <1>3 DEF Inv, PriceLogged
<1>6. ReviewedOnce'
  BY <1>1, <1>2, <1>3 DEF Inv, ReviewedOnce, RowsOK
<1>7. RatesOK' /\ MemoryOK' /\ Reviewing'
  BY <1>1, <1>3 DEF RatesOK, MemoryOK, Inv, Reviewing, rates, memory
<1> QED
  BY <1>4, <1>5, <1>6, <1>7, PartsNext DEF Inv

LEMMA ReviewKeeps ==
  ASSUME Inv, NEW w \in Worker, NEW o \in Override, NEW at \in {"approve", "reject"},
         BeginReview(w, o, at)
  PROVE Inv'
<1> DEFINE review == [override |-> o, status |-> override[o].status]
<1>1. RatesOK /\ RowsOK /\ MemoryOK
  BY Parts DEF Inv
<1>2. review \in Reviews /\ review.status = "PENDING"
  BY <1>1 DEF Reviews, BeginReview, RowsOK, Requests
<1>3. /\ pc' = [pc EXCEPT ![w] = at]
      /\ about' = [about EXCEPT ![w] = review]
      /\ UNCHANGED <<rates, price, logged, unlogged, reviews, lock, seen, todo, wrote, doomed>>
  BY DEF BeginReview
<1> HIDE DEF review
<1>4. MemoryOK'
  BY <1>1, <1>2, <1>3 DEF MemoryOK, Places
<1>5. Reviewing'
  BY <1>1, <1>2, <1>3 DEF Inv, Reviewing, MemoryOK
<1> QED
  BY <1>1, <1>3, <1>4, <1>5, RowsKept DEF RatesOK, rates

LEMMA ApproveKeeps == ASSUME Inv, NEW w \in Worker, Approve(w)
                      PROVE Inv'
<1> DEFINE copy == Read({override[Decides(w)].item})
<1>1. RatesOK /\ RowsOK /\ MemoryOK
  BY Parts DEF Inv
<1>2. copy \in [Item -> Nat]
  BY <1>1 DEF Read, RowsOK
<1>3. /\ pc[w] = "approve"
      /\ lock' = [lock EXCEPT ![Decides(w)] = w]
      /\ seen' = [seen EXCEPT ![w] = copy]
      /\ pc' = [pc EXCEPT ![w] = "apply"]
      /\ UNCHANGED <<rates, price, logged, unlogged, reviews, todo, wrote, doomed, about>>
  BY DEF Approve
<1> HIDE DEF copy
<1>4. MemoryOK'
  BY <1>1, <1>2, <1>3 DEF MemoryOK, Places
<1>5. Reviewing'
  BY <1>1, <1>3 DEF Inv, Reviewing, MemoryOK
<1> QED
  BY <1>1, <1>3, <1>4, <1>5, RowsKept DEF RatesOK, rates

LEMMA RejectKeeps == ASSUME Inv, NEW w \in Worker, Reject(w)
                     PROVE Inv'
<1> DEFINE o == Decides(w)
<1>1. RatesOK /\ RowsOK /\ MemoryOK
  BY Parts DEF Inv
<1>2. o \in Override /\ about[w].status = "PENDING"
  BY <1>1 DEF MemoryOK, Reviews, Decides, Inv, Reviewing, Reject
<1>3. /\ override' = [override EXCEPT ![o].status = "REJECTED"]
      /\ raced' = raced \cup {x \in {o} : override[x].status # "PENDING"}
      /\ End(w) /\ UNCHANGED <<rates, price, logged, unlogged, applied>>
  BY <1>2 DEF Reject, Missed
<1> HIDE DEF o
<1>4. /\ override' \in [Override -> Requests]
      /\ override'[o].status = "REJECTED"
      /\ \A x \in Override \ {o} : override'[x] = override[x]
  BY <1>1, <1>2, <1>3 DEF RowsOK, Requests, Status
<1>5. RowsOK' /\ PriceLogged'
  BY <1>1, <1>2, <1>3, <1>4 DEF RowsOK, Inv, PriceLogged
<1>6. ReviewedOnce'
  BY <1>2, <1>3, <1>4 DEF Inv, ReviewedOnce
<1>7. RatesOK' /\ MemoryOK' /\ Reviewing'
  BY <1>1, <1>3, EndMemory, EndReviewing DEF RatesOK, rates, Inv
<1> QED
  BY <1>5, <1>6, <1>7, PartsNext DEF Inv

LEMMA ApplyKeeps == ASSUME Inv, NEW w \in Worker, Apply(w)
                    PROVE Inv'
<1> DEFINE o == Decides(w)
           i == override[o].item
           p == override[o].price
<1>1. RatesOK /\ RowsOK /\ MemoryOK
  BY Parts DEF Inv
<1>2. o \in Override /\ about[w].status = "PENDING"
  BY <1>1 DEF MemoryOK, Reviews, Decides, Inv, Reviewing, Apply
<1>3. i \in Item /\ p \in Nat \ {0}
  BY <1>1, <1>2 DEF RowsOK, Requests
<1>4. /\ override' = [override EXCEPT ![o].status = "APPROVED"]
      /\ price' = [price EXCEPT ![i] = p] /\ logged' = [logged EXCEPT ![i] = p]
      /\ unlogged' = unlogged \ {i} /\ applied' = [applied EXCEPT ![o] = @ + 1]
      /\ raced' = raced \cup {x \in {o} : override[x].status # "PENDING"}
      /\ End(w) /\ UNCHANGED rates
  BY <1>2 DEF Apply, Missed
<1> HIDE DEF o, i, p
<1>5. /\ override' \in [Override -> Requests]
      /\ override'[o].status = "APPROVED"
      /\ \A x \in Override \ {o} : override'[x] = override[x]
  BY <1>1, <1>2, <1>4 DEF RowsOK, Requests, Status
<1>6. /\ applied' \in [Override -> Nat] /\ applied'[o] = applied[o] + 1
      /\ \A x \in Override \ {o} : applied'[x] = applied[x]
  BY <1>1, <1>2, <1>4 DEF RowsOK
<1>7. RowsOK'
  BY <1>1, <1>2, <1>3, <1>4, <1>5, <1>6 DEF RowsOK
<1>8. PriceLogged'
  BY <1>1, <1>3, <1>4 DEF RowsOK, Inv, PriceLogged
<1>9. ReviewedOnce'
  <2> SUFFICES ASSUME NEW x \in Override \ raced'
               PROVE applied'[x] = IF override'[x].status = "APPROVED" THEN 1 ELSE 0
    BY DEF ReviewedOnce
  <2>1. CASE x = o
    <3>1. override[o].status = "PENDING" /\ o \notin raced
      BY <1>4, <2>1
    <3>2. applied[o] = 0
      BY <1>2, <3>1 DEF Inv, ReviewedOnce
    <3> QED
      BY <1>5, <1>6, <2>1, <3>2
  <2>2. CASE x # o
    BY <1>4, <1>5, <1>6, <2>2 DEF Inv, ReviewedOnce
  <2> QED
    BY <2>1, <2>2
<1>10. RatesOK' /\ MemoryOK' /\ Reviewing'
  BY <1>1, <1>4, EndMemory, EndReviewing DEF RatesOK, rates, Inv
<1> QED
  BY <1>7, <1>8, <1>9, <1>10, PartsNext DEF Inv

LEMMA FormKeeps == ASSUME Inv, NEW i \in Item, NEW p \in Asked, SaveForm(i, p)
                   PROVE Inv'
<1>1. RatesOK /\ RowsOK /\ MemoryOK
  BY Parts DEF Inv
<1>2. /\ price' = [price EXCEPT ![i] = p] /\ unlogged' = unlogged \cup {i}
      /\ UNCHANGED <<rates, logged, reviews, lock, pc, memory>>
  BY DEF SaveForm
<1>3. RowsOK'
  BY <1>1, <1>2, Constants DEF RowsOK, reviews
<1>4. PriceLogged' /\ ReviewedOnce'
  BY <1>1, <1>2 DEF Inv, PriceLogged, ReviewedOnce, RowsOK, reviews
<1>5. RatesOK' /\ MemoryOK' /\ Reviewing'
  BY <1>1, <1>2 DEF RatesOK, MemoryOK, Inv, Reviewing, rates, memory
<1> QED
  BY <1>3, <1>4, <1>5, PartsNext DEF Inv
-----------------------------------------------------------------------------
LEMMA InitInv == Init => Inv
<1> SUFFICES ASSUME Init
             PROVE Inv
  OBVIOUS
<1>1. RatesOK /\ RowsOK /\ MemoryOK
  BY Constants DEF Init, RatesOK, RowsOK, MemoryOK, Places
<1>2. PriceLogged /\ ReviewedOnce /\ Reviewing
  BY Constants DEF Init, PriceLogged, ReviewedOnce, Reviewing
<1> QED
  BY <1>1, <1>2, Parts DEF Inv

LEMMA NextInv == ASSUME Inv, [Next]_vars
                 PROVE Inv'
<1>1. CASE UNCHANGED vars
  <2>1. RatesOK' /\ MemoryOK' /\ Reviewing'
    BY <1>1, Parts DEF Inv, RatesOK, MemoryOK, Reviewing, vars, rates, memory
  <2> QED
    BY <1>1, <2>1, RowsKept DEF vars
<1>2. ASSUME NEW w \in Worker, Step(w) PROVE Inv'
  BY <1>2, BeginKeeps, PassKeeps, SaveKeeps, CommitKeeps, ReviewKeeps, RejectKeeps,
     ApproveKeeps, ApplyKeeps, RollbackKeeps DEF Step
<1> QED
  BY <1>1, <1>2, FetchKeeps, RequestKeeps, FormKeeps DEF Next

LEMMA Invariance == Spec => []Inv
  BY InitInv, NextInv, PTL DEF Spec

(* Every price is a positive number, every row and copy has its type. *)
THEOREM TypeCorrect == Spec => []TypeOK
<1>1. Inv => TypeOK
  BY DEF Inv
<1> QED
  BY <1>1, Invariance, PTL

(* A price no form has written since is the one its latest log entry says. *)
THEOREM PriceCorrect == Spec => []PriceLogged
<1>1. Inv => PriceLogged
  BY DEF Inv
<1> QED
  BY <1>1, Invariance, PTL

(* An override no two managers decided at once was applied once or not at all. *)
THEOREM ReviewCorrect == Spec => []ReviewedOnce
<1>1. Inv => ReviewedOnce
  BY DEF Inv
<1> QED
  BY <1>1, Invariance, PTL
-----------------------------------------------------------------------------
(* Locks.  Recalculations take their items in one order, and an approval takes its
   request before its item: no circle of transactions waits. *)
Waits(w) ==
    \/ /\ pc[w] = "recalculate"
       /\ \E i \in todo[w] : First(w, i) /\ Changes(w, i) /\ ~Free(i)
    \/ pc[w] \in {"reject", "approve"} /\ ~Free(Decides(w))
    \/ pc[w] = "apply" /\ ~Free(override[Decides(w)].item)

NobodyStuck == (\E x \in Row : ~Free(x)) =>
                   \E w \in Worker : ~Waits(w) /\ \E x \in Row : lock[x] = w

\* What a transaction holds, and what it may still wait for.
HeldByRecalculation(w, x) == pc[w] = "recalculate" /\ x \in Item /\ \A j \in todo[w] : x < j
HeldByApproval(w, x) == pc[w] = "apply" /\ x = Decides(w)

Ordered == \A x \in Row, w \in Worker :
    lock[x] = w => HeldByRecalculation(w, x) \/ HeldByApproval(w, x)

LEMMA OrderedEnds == ASSUME MemoryOK, Ordered, NEW w \in Worker, End(w)
                     PROVE Ordered'
<1> SUFFICES ASSUME NEW x \in Row, NEW v \in Worker, lock'[x] = v
             PROVE HeldByRecalculation(v, x)' \/ HeldByApproval(v, x)'
  BY DEF Ordered
<1>1. v # w /\ lock[x] = v
  BY PricingAssumption DEF MemoryOK, End
<1>2. pc'[v] = pc[v] /\ todo'[v] = todo[v] /\ about'[v] = about[v]
  BY <1>1 DEF MemoryOK, End
<1> QED
  BY <1>1, <1>2 DEF Ordered, HeldByRecalculation, HeldByApproval, Decides

LEMMA OrderedBegins ==
  ASSUME MemoryOK, Ordered, NEW w \in Worker, pc[w] = "idle", lock' = lock,
         \A v \in Worker \ {w} : pc'[v] = pc[v] /\ todo'[v] = todo[v] /\ about'[v] = about[v]
  PROVE Ordered'
<1> SUFFICES ASSUME NEW x \in Row, NEW v \in Worker, lock'[x] = v
             PROVE HeldByRecalculation(v, x)' \/ HeldByApproval(v, x)'
  BY DEF Ordered
<1>1. v # w
  BY DEF Ordered, HeldByRecalculation, HeldByApproval
<1> QED
  BY <1>1 DEF Ordered, HeldByRecalculation, HeldByApproval, Decides

LEMMA OrderedNext == ASSUME Inv, Ordered, [Next]_vars
                     PROVE Ordered'
<1>1. RatesOK /\ RowsOK /\ MemoryOK
  BY Parts DEF Inv
<1>2. ASSUME UNCHANGED <<lock, pc, memory>> PROVE Ordered'
  BY <1>2 DEF Ordered, HeldByRecalculation, HeldByApproval, Decides, memory
<1>3. ASSUME NEW f \in Fetcher, FetchStep(f) \/ FetchDies(f) PROVE Ordered'
  BY <1>2, <1>3 DEF FetchStep, Fetch, Deactivate, CreateRate, FetchDies
<1>4. ASSUME NEW w \in Worker, NEW scope \in Scopes, BeginRecalculation(w, scope) PROVE Ordered'
  <2>1. /\ pc[w] = "idle" /\ lock' = lock
        /\ pc' = [pc EXCEPT ![w] = "recalculate"] /\ todo' = [todo EXCEPT ![w] = scope]
        /\ about' = about
    BY <1>4 DEF BeginRecalculation
  <2> QED
    BY <1>1, <2>1, OrderedBegins DEF MemoryOK
<1>5. ASSUME NEW w \in Worker, NEW o \in Override, NEW at \in {"approve", "reject"},
             BeginReview(w, o, at)
      PROVE Ordered'
  <2>1. /\ pc[w] = "idle" /\ lock' = lock /\ todo' = todo
        /\ \A v \in Worker \ {w} : pc'[v] = pc[v] /\ about'[v] = about[v]
    BY <1>1, <1>5 DEF BeginReview, MemoryOK
  <2> QED
    BY <1>1, <2>1, OrderedBegins
<1>6. ASSUME NEW w \in Worker, PassItem(w) PROVE Ordered'
  <2>1. PICK i \in todo[w] : todo' = [todo EXCEPT ![w] = @ \ {i}]
    BY <1>6 DEF PassItem
  <2>2. UNCHANGED <<lock, pc, about>>
    BY <1>6 DEF PassItem
  <2>3. \A v \in Worker : todo'[v] \subseteq todo[v]
    BY <1>1, <2>1 DEF MemoryOK
  <2> QED
    BY <2>2, <2>3 DEF Ordered, HeldByRecalculation, HeldByApproval, Decides
<1>7. ASSUME NEW w \in Worker, SaveItem(w) PROVE Ordered'
  <2>1. PICK i \in todo[w] : /\ First(w, i)
                             /\ lock' = [lock EXCEPT ![i] = w]
                             /\ todo' = [todo EXCEPT ![w] = @ \ {i}]
    BY <1>7 DEF SaveItem
  <2>2. pc[w] = "recalculate" /\ UNCHANGED <<pc, about>>
    BY <1>7 DEF SaveItem
  <2>3. i \in Item /\ i \in Row /\ todo[w] \subseteq Nat /\ i \in Nat
    BY <1>1, PricingAssumption DEF MemoryOK, Row
  <2>4. \A v \in Worker : todo'[v] \subseteq todo[v]
    BY <1>1, <2>1 DEF MemoryOK
  <2>5. \A j \in todo'[w] : i < j
    BY <1>1, <2>1, <2>3 DEF MemoryOK, First
  <2> SUFFICES ASSUME NEW x \in Row, NEW v \in Worker, lock'[x] = v
               PROVE HeldByRecalculation(v, x)' \/ HeldByApproval(v, x)'
    BY DEF Ordered
  <2>6. CASE x = i
    <3>1. v = w
      BY <1>1, <2>1, <2>3, <2>6 DEF MemoryOK
    <3> QED
      BY <2>2, <2>3, <2>5, <2>6, <3>1 DEF HeldByRecalculation
  <2>7. CASE x # i
    <3>1. lock[x] = v
      BY <1>1, <2>1, <2>7 DEF MemoryOK
    <3> QED
      BY <2>2, <2>4, <3>1 DEF Ordered, HeldByRecalculation, HeldByApproval, Decides
  <2> QED
    BY <2>6, <2>7
<1>8. ASSUME NEW w \in Worker,
             CommitRecalculation(w) \/ Rollback(w) \/ Reject(w) \/ Apply(w)
      PROVE Ordered'
  <2>1. End(w)
    BY <1>8 DEF CommitRecalculation, Rollback, Reject, Apply
  <2> QED
    BY <1>1, <2>1, OrderedEnds
<1>9. ASSUME NEW w \in Worker, Approve(w) PROVE Ordered'
  <2>1. /\ pc[w] = "approve" /\ pc' = [pc EXCEPT ![w] = "apply"]
        /\ lock' = [lock EXCEPT ![Decides(w)] = w] /\ UNCHANGED <<todo, about>>
    BY <1>9 DEF Approve
  <2> SUFFICES ASSUME NEW x \in Row, NEW v \in Worker, lock'[x] = v
               PROVE HeldByRecalculation(v, x)' \/ HeldByApproval(v, x)'
    BY DEF Ordered
  <2>2. CASE v = w
    <3>1. x = Decides(w)
      BY <1>1, <2>1, <2>2 DEF MemoryOK, Ordered, HeldByRecalculation, HeldByApproval
    <3> QED
      BY <1>1, <2>1, <2>2, <3>1 DEF HeldByApproval, Decides, MemoryOK
  <2>3. CASE v # w
    <3>1. lock[x] = v /\ pc'[v] = pc[v]
      BY <1>1, <2>1, <2>3 DEF MemoryOK
    <3> QED
      BY <2>1, <3>1 DEF Ordered, HeldByRecalculation, HeldByApproval, Decides
  <2> QED
    BY <2>2, <2>3
<1>10. ASSUME NEW o \in Override, NEW i \in Item, NEW p \in Asked, RequestOverride(o, i, p)
       PROVE Ordered'
  BY <1>2, <1>10 DEF RequestOverride
<1>11. ASSUME NEW i \in Item, NEW p \in Asked, SaveForm(i, p) PROVE Ordered'
  BY <1>2, <1>11 DEF SaveForm
<1>12. ASSUME NEW w \in Worker, Step(w) PROVE Ordered'
  BY <1>4, <1>5, <1>6, <1>7, <1>8, <1>9, <1>12 DEF Step
<1> QED
  BY <1>2, <1>3, <1>10, <1>11, <1>12 DEF Next, vars

\* Of some items, the one a recalculation takes last.
LEMMA LastItem == ASSUME NEW S \in SUBSET Item, S # {}
                  PROVE \E i \in S : \A j \in S : j <= i
<1> DEFINE Above(i) == {j \in Item : j > i}
           Tails == {Above(i) : i \in S}
<1>1. Tails \subseteq FiniteSubsetsOf(Item)
  BY FS_Subset, PricingAssumption DEF FiniteSubsetsOf
<1>2. PICK t \in Tails : \A u \in Tails : <<u, t>> \notin StrictSubsetOrdering(Item)
  <2>1. Tails # {}
    OBVIOUS
  <2> HIDE DEF Tails
  <2> QED
    BY <1>1, <2>1, FS_StrictSubsetOrderingWellFounded, WFMin
<1>3. PICK i \in S : t = Above(i)
  OBVIOUS
<1>4. ASSUME NEW j \in S, ~(j <= i) PROVE FALSE
  <2>1. i \in Nat /\ j \in Nat /\ Item \subseteq Nat
    BY PricingAssumption
  <2>2. j > i
    BY <1>4, <2>1
  <2>3. Above(j) \subseteq Above(i)
    <3>1. \A k \in Item : k > j => k > i
      BY <2>1, <2>2
    <3> QED
      BY <3>1
  <2>4. j \in Above(i) /\ j \notin Above(j)
    BY <2>1, <2>2
  <2>5. <<Above(j), Above(i)>> \in StrictSubsetOrdering(Item)
    BY <2>3, <2>4 DEF StrictSubsetOrdering
  <2> QED
    BY <1>2, <1>3, <2>5
<1> QED
  BY <1>4

(* Whenever rows are locked, one of the transactions that hold them waits for nobody:
   price updates, approvals and rejections never wait for each other in a circle,
   however many run and whatever they overlap with. *)
THEOREM NobodyStuckHolds == Spec => []NobodyStuck
<1>1. Init => Ordered
  BY PricingAssumption DEF Init, Ordered
<1>2. Inv /\ Ordered /\ [Next]_vars => Ordered'
  BY OrderedNext
<1>3. ASSUME Inv, Ordered PROVE NobodyStuck
  <2>1. RowsOK /\ MemoryOK
    BY <1>3, Parts DEF Inv
  <2> SUFFICES ASSUME NEW y \in Row, ~Free(y)
               PROVE \E w \in Worker : ~Waits(w) /\ \E x \in Row : lock[x] = w
    BY DEF NobodyStuck
  <2> DEFINE Locked == {i \in Item : ~Free(i)}
  <2>2. CASE Locked # {}
    <3>1. PICK i \in Locked : \A j \in Locked : j <= i
      BY <2>2, LastItem
    <3>2. PICK w \in Worker : lock[i] = w
      BY <2>1, <3>1 DEF Free, MemoryOK, Row
    <3>3. i \in Row /\ i \in Item
      BY <3>1 DEF Row
    <3>4. Decides(w) # i
      BY <2>1, <3>3, PricingAssumption DEF MemoryOK, Reviews, Decides
    <3>5. pc[w] = "recalculate" /\ \A j \in todo[w] : i < j
      BY <1>3, <3>2, <3>3, <3>4 DEF Ordered, HeldByRecalculation, HeldByApproval
    <3>6. \A j \in todo[w] : j \in Item /\ ~(j <= i)
      BY <2>1, <3>3, <3>5, PricingAssumption DEF MemoryOK
    <3>7. ~Waits(w)
      BY <3>1, <3>5, <3>6 DEF Waits
    <3> QED
      BY <3>2, <3>3, <3>7
  <2>3. CASE Locked = {}
    <3>1. PICK w \in Worker : lock[y] = w
      BY <2>1 DEF Free, MemoryOK
    <3>2. y \notin Item
      BY <2>3
    <3>3. pc[w] = "apply"
      BY <1>3, <3>1, <3>2 DEF Ordered, HeldByRecalculation, HeldByApproval
    <3>4. override[Decides(w)].item \in Item
      BY <2>1 DEF RowsOK, MemoryOK, Requests, Reviews, Decides
    <3>5. ~Waits(w)
      BY <2>3, <3>3, <3>4 DEF Waits
    <3> QED
      BY <3>1, <3>5
  <2> QED
    BY <2>2, <2>3
<1> QED
  BY <1>1, <1>2, <1>3, Invariance, PTL DEF Spec
=============================================================================
