------------------------ MODULE WebhookDeliveryProofs ------------------------
(* Proofs, for every value of the constants, about WebhookDelivery. *)
EXTENDS WebhookDelivery, TLAPS

LEMMA CopyType == ASSUME TypeOK, NEW d \in Delivery, NEW b \in BOOLEAN PROVE Copy(d, b) \in Copies
  BY DEF TypeOK, Copy, Copies

LEMMA BlankType == Blank \in Copies
  BY WebhookAssumption DEF Blank, Copies

LEMMA CurType ==
  ASSUME TypeOK, NEW w \in Worker
  PROVE  /\ cur[w] \in Copies
         /\ cur[w].delivery \in Delivery /\ cur[w].attempts \in Nat
         /\ cur[w].active \in BOOLEAN /\ cur[w].failures \in Nat /\ cur[w].resend \in BOOLEAN
  BY DEF TypeOK, Copies

LEMMA EnqueueType == ASSUME TypeOK, NEW d \in Delivery PROVE Enqueue(d) \in [Delivery -> 0..MaxTasks]
  BY WebhookAssumption DEF TypeOK, Enqueue

(* A worker that is done keeps the types of what it owns. *)
LEMMA FinishType ==
  ASSUME TypeOK, NEW w \in Worker, Finish(w)
  PROVE  /\ pc' \in [Worker -> {"idle", "skip", "post", "answered", "record_success", "failed",
                               "record_failure", "recorded", "sweep"}]
         /\ cur' \in [Worker -> Copies] /\ todo' \in [Worker -> SUBSET Copies]
  BY BlankType DEF Finish, TypeOK

(* The type invariant is inductive by itself. *)
LEMMA TypeStep == ASSUME TypeOK, [Next]_vars PROVE TypeOK'
<1>1. ASSUME NEW d \in Delivery, TriggerWebhookEvent(d) PROVE TypeOK'
  BY <1>1, EnqueueType DEF TriggerWebhookEvent, TypeOK, local, Status
<1>2. ASSUME NEW d \in Delivery, EndRequest(d) PROVE TypeOK'
  BY <1>2 DEF EndRequest, TypeOK, local, Status
<1>3. ASSUME NEW d \in Delivery, BecomeDue(d) PROVE TypeOK'
  BY <1>3 DEF BecomeDue, TypeOK, local
<1>4. CASE Toggle
  BY <1>4 DEF Toggle, TypeOK, local
<1>5. ASSUME NEW w \in Worker, NEW d \in Delivery, NotFound(w, d) PROVE TypeOK'
  BY <1>5, WebhookAssumption DEF NotFound, Take, TypeOK, rows, local
<1>6. ASSUME NEW w \in Worker, NEW d \in Delivery, Begin(w, d) PROVE TypeOK'
  <2>1. Copy(d, TRUE) \in Copies
    BY CopyType
  <2>2. cur' \in [Worker -> Copies]
    BY <1>6, <2>1 DEF Begin, TypeOK
  <2>3. queued' \in [Delivery -> 0..MaxTasks]
    BY <1>6, WebhookAssumption DEF Begin, Take, TypeOK
  <2> QED
    BY <1>6, <2>2, <2>3 DEF Begin, Take, TypeOK, rows
<1>7. ASSUME NEW w \in Worker, BeginSweep(w) PROVE TypeOK'
  <2>1. {Copy(d, FALSE) : d \in Due} \subseteq Copies
    BY CopyType DEF Due
  <2> QED
    BY <1>7, <2>1 DEF BeginSweep, TypeOK, rows
<1>8. ASSUME NEW w \in Worker, SkipInactive(w) PROVE TypeOK'
  BY <1>8, FinishType, CurType, WebhookAssumption DEF SkipInactive, TypeOK, Status
<1>9. ASSUME NEW w \in Worker, Post(w) PROVE TypeOK'
  BY <1>9, CurType DEF Post, TypeOK, rows
<1>10. ASSUME NEW w \in Worker, MarkSuccess(w) PROVE TypeOK'
  BY <1>10, CurType DEF MarkSuccess, TypeOK, Status
<1>11. ASSUME NEW w \in Worker, RecordSuccess(w) PROVE TypeOK'
  BY <1>11, FinishType DEF RecordSuccess, TypeOK
<1>12. ASSUME NEW w \in Worker, MarkFailed(w) PROVE TypeOK'
  <2>1. [cur[w] EXCEPT !.attempts = cur[w].attempts + 1] \in Copies
    BY CurType DEF Copies
  <2>2. cur' \in [Worker -> Copies]
    BY <1>12, <2>1 DEF MarkFailed, TypeOK
  <2> QED
    BY <1>12, <2>2, CurType DEF MarkFailed, TypeOK, Status
<1>13. ASSUME NEW w \in Worker, RecordFailure(w) PROVE TypeOK'
  <2>1. [cur[w] EXCEPT !.failures = cur[w].failures + 1] \in Copies
    BY CurType DEF Copies
  <2>2. cur' \in [Worker -> Copies]
    BY <1>13, <2>1 DEF RecordFailure, TypeOK
  <2>3. active' \in BOOLEAN
    BY <1>13 DEF RecordFailure
  <2> QED
    BY <1>13, <2>2, <2>3, CurType DEF RecordFailure, TypeOK
<1>14. ASSUME NEW w \in Worker, ScheduleRetry(w) PROVE TypeOK'
  <2>1. queued' \in [Delivery -> 0..MaxTasks]
    BY <1>14, CurType, EnqueueType DEF ScheduleRetry, TypeOK
  <2> QED
    BY <1>14, <2>1, FinishType DEF ScheduleRetry, TypeOK, rows
<1>15. ASSUME NEW w \in Worker, SweepStep(w) PROVE TypeOK'
  <2>1. PICK c \in todo[w] : SweepRetry(w, c) \/ SweepFail(w, c)
    BY <1>15 DEF SweepStep
  <2>2. c \in Copies /\ c.delivery \in Delivery
    BY DEF TypeOK, Copies
  <2>3. Enqueue(c.delivery) \in [Delivery -> 0..MaxTasks]
    BY <2>2, EnqueueType
  <2>4. CASE SweepRetry(w, c)
    BY <2>3, <2>4 DEF SweepRetry, TypeOK, rows
  <2>5. CASE SweepFail(w, c)
    BY <2>2, <2>5 DEF SweepFail, TypeOK, rows
  <2> QED
    BY <2>1, <2>4, <2>5
<1>16. ASSUME NEW w \in Worker, Unexpected(w) PROVE TypeOK'
  <2>1. PICK n \in Nat, m \in Nat :
          cur' = [cur EXCEPT ![w].resend = FALSE, ![w].attempts = n, ![w].failures = m]
    <3> DEFINE n == IF pc[w] = "failed" THEN cur[w].attempts + 1 ELSE cur[w].attempts
               m == CASE pc[w] = "record_success" -> 0
                      [] pc[w] = "record_failure" -> cur[w].failures + 1
                      [] OTHER -> cur[w].failures
    <3>1. n \in Nat /\ m \in Nat
      BY CurType
    <3>2. cur' = [cur EXCEPT ![w].resend = FALSE, ![w].attempts = n, ![w].failures = m]
      BY <1>16 DEF Unexpected
    <3> QED
      BY <3>1, <3>2
  <2>2. [cur[w] EXCEPT !.resend = FALSE, !.attempts = n, !.failures = m] \in Copies
    BY CurType DEF Copies
  <2>3. cur' \in [Worker -> Copies]
    BY <2>1, <2>2 DEF TypeOK
  <2> QED
    BY <1>16, <2>3, WebhookAssumption DEF Unexpected, TypeOK, rows
<1>17. ASSUME NEW w \in Worker, Die(w) PROVE TypeOK'
  BY <1>17, BlankType, WebhookAssumption DEF Die, TypeOK, rows
<1>18. CASE UNCHANGED vars
  BY <1>18 DEF vars, rows, local, TypeOK
<1> QED
  BY <1>1, <1>2, <1>3, <1>4, <1>5, <1>6, <1>7, <1>8, <1>9, <1>10, <1>11, <1>12, <1>13,
     <1>14, <1>15, <1>16, <1>17, <1>18 DEF Next, Step

(* Every reachable state is well typed. *)
THEOREM TypeCorrect == Spec => []TypeOK
<1>1. Init => TypeOK
  BY BlankType, WebhookAssumption DEF Init, TypeOK, Status
<1> QED
  BY <1>1, TypeStep, PTL DEF Spec
-----------------------------------------------------------------------------
(* A step changes only the delivery whose copy it writes, and writes its columns
   together. *)
LEMMA RetryStep == ASSUME TypeOK, RetryInvariant, [Next]_vars PROVE RetryInvariant'
<1> USE DEF RetryInvariant, GivenUp, Recoverable, Untried, Taken
<1>1. ASSUME NEW d \in Delivery, TriggerWebhookEvent(d) PROVE RetryInvariant'
  BY <1>1 DEF TriggerWebhookEvent, TypeOK, local, Status
<1>2. ASSUME NEW d \in Delivery, EndRequest(d) PROVE RetryInvariant'
  BY <1>2 DEF EndRequest, TypeOK, local, Status
<1>3. ASSUME NEW d \in Delivery, BecomeDue(d) PROVE RetryInvariant'
  BY <1>3 DEF BecomeDue, TypeOK, local, Status
<1>4. CASE Toggle
  BY <1>4 DEF Toggle, local
<1>5. ASSUME NEW w \in Worker, NEW d \in Delivery, NotFound(w, d) PROVE RetryInvariant'
  BY <1>5 DEF NotFound, rows, local
<1>6. ASSUME NEW w \in Worker, NEW d \in Delivery, Begin(w, d) PROVE RetryInvariant'
  BY <1>6 DEF Begin, TypeOK, rows
<1>7. ASSUME NEW w \in Worker, BeginSweep(w) PROVE RetryInvariant'
  BY <1>7 DEF BeginSweep, TypeOK, rows
<1>8. ASSUME NEW w \in Worker, SkipInactive(w) PROVE RetryInvariant'
  <2>1. Spent(MaxAttempts)
    BY WebhookAssumption DEF Spent
  <2>2. GivenUp' /\ Recoverable' /\ Untried'
    BY <1>8, <2>1, CurType DEF SkipInactive, TypeOK, Status
  <2>3. Taken'
    BY <1>8, CurType, BlankType DEF SkipInactive, Finish, TypeOK, Status
  <2> QED
    BY <2>2, <2>3
<1>9. ASSUME NEW w \in Worker, Post(w) PROVE RetryInvariant'
  BY <1>9, CurType DEF Post, TypeOK, rows
<1>10. ASSUME NEW w \in Worker, MarkSuccess(w) PROVE RetryInvariant'
  BY <1>10, CurType DEF MarkSuccess, TypeOK, Status
<1>11. ASSUME NEW w \in Worker, RecordSuccess(w) PROVE RetryInvariant'
  BY <1>11, BlankType DEF RecordSuccess, Finish, TypeOK
<1>12. ASSUME NEW w \in Worker, MarkFailed(w) PROVE RetryInvariant'
  <2>1. GivenUp' /\ Recoverable' /\ Untried'
    BY <1>12, CurType DEF MarkFailed, TypeOK, Status, Spent
  <2>2. Taken'
    BY <1>12, CurType DEF MarkFailed, TypeOK
  <2> QED
    BY <2>1, <2>2
<1>13. ASSUME NEW w \in Worker, RecordFailure(w) PROVE RetryInvariant'
  BY <1>13 DEF RecordFailure, TypeOK
<1>14. ASSUME NEW w \in Worker, ScheduleRetry(w) PROVE RetryInvariant'
  BY <1>14 DEF ScheduleRetry, Finish, TypeOK, rows
<1>15. ASSUME NEW w \in Worker, SweepStep(w) PROVE RetryInvariant'
  <2>1. PICK c \in todo[w] : SweepRetry(w, c) \/ SweepFail(w, c)
    BY <1>15 DEF SweepStep
  <2> QED
    BY <2>1 DEF SweepRetry, SweepFail, TypeOK, rows
<1>16. ASSUME NEW w \in Worker, Unexpected(w) PROVE RetryInvariant'
  BY <1>16 DEF Unexpected, TypeOK, rows
<1>17. ASSUME NEW w \in Worker, Die(w) PROVE RetryInvariant'
  BY <1>17 DEF Die, TypeOK, rows
<1>18. CASE UNCHANGED vars
  BY <1>18 DEF vars, rows, local
<1> QED
  BY <1>1, <1>2, <1>3, <1>4, <1>5, <1>6, <1>7, <1>8, <1>9, <1>10, <1>11, <1>12, <1>13,
     <1>14, <1>15, <1>16, <1>17, <1>18 DEF Next, Step

(* A delivery given up has used all its attempts, one that waits for a retry has
   attempts left and a time the sweep will find, and one that succeeded was taken
   by the endpoint, for any number of overlapping tasks with stale copies. *)
THEOREM RetryCorrect == Spec => []RetryInvariant
<1>1. Init => RetryInvariant
  BY DEF Init, RetryInvariant, GivenUp, Recoverable, Untried, Taken
<1> QED
  BY <1>1, RetryStep, TypeStep, TypeCorrect, PTL DEF Spec
=============================================================================
