--------------------------- MODULE WebhookDelivery ---------------------------
(* Deliveries of one webhook: the Celery task that posts a delivery and retries
   it, and the sweep that Celery beat starts every minute.  Tasks run outside a
   transaction: each save is a commit of its own, and writes what the task's
   in-memory copies of the delivery and the webhook say. *)
EXTENDS Integers

CONSTANTS Delivery,    \* WebhookDelivery rows that can be created
          Worker,      \* Celery worker processes
          MaxAttempts, \* WebhookDelivery.max_attempts
          DisableAt,   \* consecutive failures that disable the webhook
          MaxTasks,    \* bound: waiting tasks of one delivery told apart
          MaxFaults    \* bound: workers that die and errors that escape

ASSUME WebhookAssumption == /\ Delivery # {}
                            /\ MaxAttempts \in Nat \ {0}
                            /\ DisableAt \in Nat \ {0}
                            /\ MaxTasks \in Nat \ {0}
                            /\ MaxFaults \in Nat

VARIABLES
  status,    \* status[d]: WebhookDelivery.status; "none", "uncommitted", "undone"
             \* while there is no such row for others to see
  attempts,  \* attempts[d]: attempt_count
  due,       \* due[d]: next_retry_at is "null", "later" than now, or passed ("now")
  accepted,  \* accepted[d]: the endpoint has taken the event at least once
  active,    \* Webhook.is_active
  failures,  \* Webhook.consecutive_failures
  queued,    \* queued[d]: deliver_webhook tasks waiting, countdowns included
  pc,        \* pc[w]: where worker w is
  cur,       \* cur[w]: its copy of the delivery and its webhook
  todo,      \* todo[w]: the copies a sweep has still to handle
  faults     \* faults so far

rows == <<status, attempts, due, active, failures>>
local == <<pc, cur, todo>>
vars == <<rows, accepted, queued, local, faults>>

Copies == [delivery : Delivery, attempts : Nat, active : BOOLEAN, failures : Nat,
           resend : BOOLEAN]
Blank == [delivery |-> CHOOSE d \in Delivery : TRUE, attempts |-> 0,
          active |-> TRUE, failures |-> 0, resend |-> FALSE]

(* select_related: the row and its webhook in one query.  resend: a failure of
   this copy is followed by a task of its own. *)
Copy(d, resend) == [delivery |-> d, attempts |-> attempts[d], active |-> active,
                    failures |-> failures, resend |-> resend]

Init == /\ status = [d \in Delivery |-> "none"]
        /\ attempts = [d \in Delivery |-> 0]
        /\ due = [d \in Delivery |-> "null"]
        /\ accepted = [d \in Delivery |-> FALSE]
        /\ active = TRUE
        /\ failures = 0
        /\ queued = [d \in Delivery |-> 0]
        /\ pc = [w \in Worker |-> "idle"]
        /\ cur = [w \in Worker |-> Blank]
        /\ todo = [w \in Worker |-> {}]
        /\ faults = 0
-----------------------------------------------------------------------------
(* apply_async: one more task, counted up to the bound. *)
Enqueue(d) == [queued EXCEPT ![d] = IF @ < MaxTasks THEN @ + 1 ELSE @]

Finish(w) == /\ pc' = [pc EXCEPT ![w] = IF todo[w] = {} THEN "idle" ELSE "sweep"]
             /\ cur' = [cur EXCEPT ![w] = Blank]
             /\ UNCHANGED todo
-----------------------------------------------------------------------------
(* A request triggers an event: the delivery is created, and its task queued,
   before the request's transaction commits or rolls back. *)
TriggerWebhookEvent(d) ==
    /\ active /\ status[d] = "none"
    /\ status' = [status EXCEPT ![d] = "uncommitted"]
    /\ queued' = Enqueue(d)
    /\ UNCHANGED <<attempts, due, accepted, active, failures, local, faults>>

EndRequest(d) ==
    /\ status[d] = "uncommitted"
    /\ \E s \in {"PENDING", "undone"} : status' = [status EXCEPT ![d] = s]
    /\ UNCHANGED <<attempts, due, accepted, active, failures, queued, local, faults>>

(* The tenant switches the webhook on or off.  The view writes the one flag it
   has read; whatever a worker writes in between ends as it does here. *)
Toggle == /\ active' = ~active
          /\ UNCHANGED <<status, attempts, due, accepted, failures, queued, local, faults>>

(* The clock reaches next_retry_at. *)
BecomeDue(d) ==
    /\ due[d] = "later"
    /\ due' = [due EXCEPT ![d] = "now"]
    /\ UNCHANGED <<status, attempts, accepted, active, failures, queued, local, faults>>
-----------------------------------------------------------------------------
(* deliver_webhook, from the task to the request.  The delivery's status is not
   looked at. *)
Status == {"PENDING", "SUCCESS", "FAILED", "RETRYING"}
Committed(d) == status[d] \in Status

Take(w, d) == /\ pc[w] = "idle" /\ queued[d] > 0
              /\ queued' = [queued EXCEPT ![d] = @ - 1]

NotFound(w, d) == /\ Take(w, d) /\ ~Committed(d)
                  /\ UNCHANGED <<rows, accepted, local, faults>>

Begin(w, d) ==
    /\ Take(w, d) /\ Committed(d)
    /\ cur' = [cur EXCEPT ![w] = Copy(d, TRUE)]
    /\ pc' = [pc EXCEPT ![w] = IF active THEN "post" ELSE "skip"]
    /\ UNCHANGED <<rows, accepted, todo, faults>>

\* Mutant: a status the column has no choice for.
SkipAsSkipped(w) ==
    LET d == cur[w].delivery IN
    /\ pc[w] = "skip"
    /\ status' = [status EXCEPT ![d] = "SKIPPED"]
    /\ attempts' = [attempts EXCEPT ![d] = MaxAttempts]
    /\ UNCHANGED <<due, accepted, active, failures, queued, faults>>
    /\ Finish(w)
SkipInactive(w) ==
    LET d == cur[w].delivery IN
    /\ pc[w] = "skip"
    /\ status' = [status EXCEPT ![d] = "FAILED"]
    /\ attempts' = [attempts EXCEPT ![d] = MaxAttempts]
    /\ UNCHANGED <<due, accepted, active, failures, queued, faults>>
    /\ Finish(w)

(* The endpoint may take the event although no 2xx answer arrives in time. *)
Post(w) ==
    LET d == cur[w].delivery IN
    /\ pc[w] = "post"
    /\ \E taken, answered \in BOOLEAN :
          /\ answered => taken
          /\ accepted' = [accepted EXCEPT ![d] = @ \/ taken]
          /\ pc' = [pc EXCEPT ![w] = IF answered THEN "answered" ELSE "failed"]
    /\ UNCHANGED <<rows, queued, cur, todo, faults>>
-----------------------------------------------------------------------------
(* WebhookDelivery.mark_as_success, then Webhook.record_success. *)
MarkSuccess(w) ==
    /\ pc[w] = "answered"
    /\ status' = [status EXCEPT ![cur[w].delivery] = "SUCCESS"]
    /\ pc' = [pc EXCEPT ![w] = "record_success"]
    /\ UNCHANGED <<attempts, due, accepted, active, failures, queued, cur, todo, faults>>

RecordSuccess(w) ==
    /\ pc[w] = "record_success"
    /\ failures' = 0
    /\ UNCHANGED <<status, attempts, due, accepted, active, queued, faults>>
    /\ Finish(w)

(* WebhookDelivery.mark_as_failed: one more attempt than the copy says. *)
Spent(n) == n >= MaxAttempts

\* Mutant: the status comes from the attempts, but the increment is not saved.
MarkFailedUnsaved(w) ==
    LET d == cur[w].delivery
        n == cur[w].attempts + 1
    IN /\ pc[w] = "failed"
       /\ status' = [status EXCEPT ![d] = IF Spent(n) THEN "FAILED" ELSE "RETRYING"]
       /\ due' = [due EXCEPT ![d] = IF Spent(n) THEN "null" ELSE "later"]
       /\ cur' = [cur EXCEPT ![w].attempts = n]
       /\ pc' = [pc EXCEPT ![w] = "record_failure"]
       /\ UNCHANGED <<attempts, accepted, active, failures, queued, todo, faults>>
MarkFailed(w) ==
    LET d == cur[w].delivery
        n == cur[w].attempts + 1
    IN /\ pc[w] = "failed"
       /\ attempts' = [attempts EXCEPT ![d] = n]
       /\ status' = [status EXCEPT ![d] = IF Spent(n) THEN "FAILED" ELSE "RETRYING"]
       /\ due' = [due EXCEPT ![d] = IF Spent(n) THEN "null" ELSE "later"]
       /\ cur' = [cur EXCEPT ![w].attempts = n]
       /\ pc' = [pc EXCEPT ![w] = "record_failure"]
       /\ UNCHANGED <<accepted, active, failures, queued, todo, faults>>

(* Webhook.record_failure, then can_retry: the task schedules its own retry. *)
RecordFailure(w) ==
    LET n == cur[w].failures + 1 IN
    /\ pc[w] = "record_failure"
    /\ failures' = n
    /\ active' = (cur[w].active /\ n < DisableAt)
    /\ cur' = [cur EXCEPT ![w].failures = n]
    /\ pc' = [pc EXCEPT ![w] = "recorded"]
    /\ UNCHANGED <<status, attempts, due, accepted, queued, todo, faults>>

Resends(w) == cur[w].resend /\ ~Spent(cur[w].attempts)

ScheduleRetry(w) ==
    /\ pc[w] = "recorded"
    /\ queued' = IF Resends(w) THEN Enqueue(cur[w].delivery) ELSE queued
    /\ UNCHANGED <<rows, accepted, faults>>
    /\ Finish(w)
-----------------------------------------------------------------------------
(* retry_failed_webhooks: lists what is due, then queues each delivery, or fails
   it when its copy of the webhook is inactive. *)
\* Mutant: the sweep looks for what has not been tried instead.
DuePending == {d \in Delivery : status[d] = "PENDING"}
Due == {d \in Delivery : status[d] = "RETRYING" /\ due[d] = "now"}

BeginSweep(w) ==
    /\ pc[w] = "idle" /\ Due # {}
    /\ todo' = [todo EXCEPT ![w] = {Copy(d, FALSE) : d \in Due}]
    /\ pc' = [pc EXCEPT ![w] = "sweep"]
    /\ UNCHANGED <<rows, accepted, queued, cur, faults>>

SweepRetry(w, c) ==
    /\ pc[w] = "sweep" /\ c \in todo[w] /\ c.active
    /\ queued' = Enqueue(c.delivery)
    /\ todo' = [todo EXCEPT ![w] = @ \ {c}]
    /\ pc' = [pc EXCEPT ![w] = IF todo[w] = {c} THEN "idle" ELSE "sweep"]
    /\ UNCHANGED <<rows, accepted, cur, faults>>

SweepFail(w, c) ==
    /\ pc[w] = "sweep" /\ c \in todo[w] /\ ~c.active
    /\ cur' = [cur EXCEPT ![w] = c]
    /\ todo' = [todo EXCEPT ![w] = @ \ {c}]
    /\ pc' = [pc EXCEPT ![w] = "failed"]
    /\ UNCHANGED <<rows, accepted, queued, faults>>
-----------------------------------------------------------------------------
(* An error escapes deliver_webhook's saves or its scheduling: its last handler marks the
   delivery failed, and schedules nothing.  The copies keep what the save that
   failed had put into them. *)
Unexpected(w) ==
    /\ faults < MaxFaults /\ cur[w].resend
    /\ pc[w] \in {"post", "answered", "record_success", "failed", "record_failure", "recorded"}
    /\ faults' = faults + 1
    /\ pc' = [pc EXCEPT ![w] = "failed"]
    /\ cur' = [cur EXCEPT ![w].resend = FALSE,
                          ![w].attempts = IF pc[w] = "failed" THEN @ + 1 ELSE @,
                          ![w].failures = CASE pc[w] = "record_success" -> 0
                                            [] pc[w] = "record_failure" -> @ + 1
                                            [] OTHER -> @]
    /\ UNCHANGED <<rows, accepted, queued, todo>>

(* A worker dies; its task was acknowledged when it was taken, so it is lost. *)
Die(w) == /\ faults < MaxFaults /\ pc[w] # "idle"
          /\ faults' = faults + 1
          /\ pc' = [pc EXCEPT ![w] = "idle"]
          /\ cur' = [cur EXCEPT ![w] = Blank]
          /\ todo' = [todo EXCEPT ![w] = {}]
          /\ UNCHANGED <<rows, accepted, queued>>
-----------------------------------------------------------------------------
SweepStep(w) == \E c \in todo[w] : SweepRetry(w, c) \/ SweepFail(w, c)

Step(w) == \/ SkipInactive(w) \/ Post(w)
           \/ MarkSuccess(w) \/ RecordSuccess(w)
           \/ MarkFailed(w) \/ RecordFailure(w) \/ ScheduleRetry(w)
           \/ SweepStep(w)

Next == \/ \E d \in Delivery : TriggerWebhookEvent(d) \/ EndRequest(d) \/ BecomeDue(d)
        \/ \E w \in Worker, d \in Delivery : NotFound(w, d) \/ Begin(w, d)
        \/ \E w \in Worker : BeginSweep(w) \/ Step(w) \/ Unexpected(w) \/ Die(w)
        \/ Toggle

Spec == Init /\ [][Next]_vars

(* A worker carries on with its task, the clock advances, and the queue hands
   out tasks, the sweep's included, in the order they came. *)
Fairness == /\ \A w \in Worker : WF_vars(Step(w))
            /\ \A d \in Delivery : WF_vars(BecomeDue(d))
            /\ \A d \in Delivery : SF_vars(\E w \in Worker : Begin(w, d))
            /\ SF_vars(\E w \in Worker : BeginSweep(w))
FairSpec == Spec /\ Fairness
-----------------------------------------------------------------------------
(* The type of every variable. *)
TypeOK == /\ status \in [Delivery -> Status \cup {"none", "uncommitted", "undone"}]
          /\ attempts \in [Delivery -> Nat]
          /\ due \in [Delivery -> {"null", "later", "now"}]
          /\ accepted \in [Delivery -> BOOLEAN]
          /\ active \in BOOLEAN /\ failures \in Nat
          /\ queued \in [Delivery -> 0..MaxTasks]
          /\ pc \in [Worker -> {"idle", "skip", "post", "answered", "record_success", "failed",
                                "record_failure", "recorded", "sweep"}]
          /\ cur \in [Worker -> Copies]
          /\ todo \in [Worker -> SUBSET Copies]
          /\ faults \in 0..MaxFaults

(* What the columns of a delivery say together stays true however many tasks of
   it overlap, each writing what its own copy says: given up only after every
   attempt, waiting for a retry only with attempts left and a time the sweep will
   find, untouched while pending, successful only if the endpoint took it. *)
GivenUp == \A d \in Delivery : status[d] = "FAILED" => Spent(attempts[d])
Recoverable == \A d \in Delivery : status[d] = "RETRYING" => ~Spent(attempts[d]) /\ due[d] # "null"
Untried == \A d \in Delivery : status[d] \notin Status \ {"PENDING"} => attempts[d] = 0 /\ due[d] = "null"
Taken == /\ \A d \in Delivery : status[d] = "SUCCESS" => accepted[d]
         /\ \A w \in Worker : pc[w] = "answered" => accepted[cur[w].delivery]
RetryInvariant == GivenUp /\ Recoverable /\ Untried /\ Taken

(* "Automatically retry failed webhook deliveries": each delivery is retried to
   an end, delivered or given up, although workers die, retries are lost, stale
   copies set its attempts back, and the tenant switches the webhook off and on. *)
RetriesEnd == \A d \in Delivery : <>[](status[d] # "RETRYING")
=============================================================================
