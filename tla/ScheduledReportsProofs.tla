------------------------ MODULE ScheduledReportsProofs ------------------------
(* Type correctness of ScheduledReports, and the proofs that no run is skipped and
   that tasks change a status only as they may, for every set of schedules, workers
   and frequencies. *)
EXTENDS ScheduledReports, TLAPS

Instants == Nat \cup {None}
Statuses == {"none", "deleted"} \cup Status
Dated == AllDates \cup {None}
Rows == [status : Statuses, freq : Frequency \cup {None}, dates : Dated, last : Instants,
         next : Instants]
Jobs == [sched : Schedule \cup {None}, retries : 0..MaxRetries,
         freq : Frequency \cup {None}, dates : Dated, last : Instants]
Copies == [freq : Frequency \cup {None}, dates : Dated, last : Instants]
Forms == [sched : Schedule \cup {None}, last : Instants, next : Instants]
Queue == [0..MaxRetries -> 0..MaxQueued]

TypeRow == row \in [Schedule -> Rows]
TypeTasks == /\ queued \in [Schedule -> Queue]
             /\ pc \in [Worker -> {"idle", "complete", "run", "next", "save"}]
             /\ job \in [Worker -> Jobs]
             /\ failures \in [Schedule -> 0..MaxRetries + 1]
TypeCopies == /\ refresh \in [Schedule -> Copies \cup {None}]
              /\ form \in Forms
TypeTime == /\ now \in Instant /\ events \in 0..MaxEvents
            /\ latest \in [Schedule -> Nat] /\ had \in [Schedule -> SUBSET Frequency]

LEMMA Parts == TypeOK <=> TypeRow /\ TypeTasks /\ TypeCopies /\ TypeTime
BY DEF TypeOK, TypeRow, TypeTasks, TypeCopies, TypeTime, Rows, Statuses, Dated, Instants,
       Jobs, Copies, Forms, Queue

LEMMA PartsNext == TypeOK' <=> TypeRow' /\ TypeTasks' /\ TypeCopies' /\ TypeTime'
BY DEF TypeOK, TypeRow, TypeTasks, TypeCopies, TypeTime, Rows, Statuses, Dated, Instants,
       Jobs, Copies, Forms, Queue

LEMMA DateFields ==
    ASSUME NEW d \in AllDates
    PROVE  d.start \in Nat /\ d.end \in Nat \cup {None} /\ d # None
<1>1. PICK s \in Schedule : d \in Dates[s] BY DEF AllDates
<1>2. d \in [start : Nat, end : Nat \cup {None}] BY <1>1, ScheduleAssumption
<1>3. QED BY <1>2, ScheduleAssumption

(* What calculate_next_run returns is an instant or nothing. *)
LEMMA NextRunType ==
    ASSUME NEW d \in AllDates, NEW f \in Frequency, NEW last \in Instants
    PROVE  NextRun(d, f, last) \in Instants
<1>1. d.start \in Nat BY DateFields
<1>2. Base(d, last) \in Nat BY <1>1, ScheduleAssumption DEF Base, Instants
<1>3. f \in Recurring => Period[f] \in Nat BY ScheduleAssumption
<1>4. QED BY <1>1, <1>2, <1>3 DEF NextRun, Instants, Frequency

(* The columns that a row, a job or a form is changed to. *)
LEMMA RowUpdate ==
    ASSUME TypeRow, NEW s \in Schedule, NEW r \in Rows
    PROVE  [row EXCEPT ![s] = r] \in [Schedule -> Rows]
BY DEF TypeRow

LEMMA RowFields ==
    ASSUME TypeRow, NEW s \in Schedule
    PROVE  /\ row[s] \in Rows /\ row[s].status \in Statuses
           /\ row[s].freq \in Frequency \cup {None} /\ row[s].dates \in Dated
           /\ row[s].last \in Instants /\ row[s].next \in Instants
BY DEF TypeRow, Rows

(* What copies a row can be saved from: a frequency it has had, and dates people may
   have entered. *)
Copied(s, c) == c.freq \in had[s] /\ c.dates \in Dates[s]

Chosen ==
    /\ \A s \in Schedule : had[s] \subseteq Choices[s]
    /\ \A s \in Schedule : Exists(s) => Copied(s, row[s])
    /\ \A s \in Schedule : refresh[s] # None => Copied(s, refresh[s])
    /\ \A w \in Worker : pc[w] # "idle" => /\ job[w].sched \in Schedule
                                           /\ Copied(job[w].sched, job[w])
    /\ form # Closed => form.sched \in Schedule

LEMMA DatesOf == ASSUME NEW s \in Schedule PROVE Dates[s] \subseteq AllDates
BY DEF AllDates

LEMMA JobFields ==
    ASSUME TypeOK, Chosen, NEW w \in Worker, pc[w] # "idle"
    PROVE  /\ job[w].sched \in Schedule /\ job[w].freq \in Frequency
           /\ job[w].freq \in had[job[w].sched] /\ job[w].dates \in AllDates
           /\ job[w].retries \in 0..MaxRetries /\ job[w].last \in Instants
           /\ NextRun(job[w].dates, job[w].freq, job[w].last) \in Instants
<1>1. job[w] \in Jobs BY Parts DEF TypeTasks
<1>2. job[w].sched \in Schedule BY DEF Chosen
<1>3. job[w].freq \in had[job[w].sched] /\ job[w].dates \in Dates[job[w].sched]
  BY DEF Chosen, Copied
<1>4. job[w].freq \in Frequency /\ job[w].dates \in AllDates
  BY <1>2, <1>3, DatesOf, Parts DEF TypeTime
<1>5. job[w].last \in Instants BY <1>1 DEF Jobs
<1>6. job[w].retries \in 0..MaxRetries BY <1>1 DEF Jobs
<1>7. QED BY <1>2, <1>3, <1>4, <1>5, <1>6, NextRunType

LEMMA RefreshFields ==
    ASSUME TypeOK, Chosen, NEW s \in Schedule, refresh[s] # None
    PROVE  /\ refresh[s].freq \in Frequency /\ refresh[s].last \in Instants
           /\ refresh[s].freq \in had[s] /\ refresh[s].dates \in AllDates
           /\ NextOf(s) \in Instants
<1>1. refresh[s] \in Copies BY Parts DEF TypeCopies
<1>2. refresh[s].freq \in had[s] /\ refresh[s].dates \in Dates[s] BY DEF Chosen, Copied
<1>3. refresh[s].freq \in Frequency /\ refresh[s].dates \in AllDates
  BY <1>2, DatesOf, Parts DEF TypeTime
<1>4. refresh[s].last \in Instants BY <1>1 DEF Copies
<1>5. QED BY <1>2, <1>3, <1>4, NextRunType DEF NextOf

LEMMA LeaveType ==
    ASSUME TypeTasks, NEW w \in Worker, Leave(w)
    PROVE  /\ pc' \in [Worker -> {"idle", "complete", "run", "next", "save"}]
           /\ job' \in [Worker -> Jobs]
<1>1. Free \in Jobs BY ScheduleAssumption DEF Free, Jobs, Instants, Dated
<1>2. QED BY <1>1 DEF TypeTasks, Leave

(* A change of one column keeps the type of the rows. *)
LEMMA StatusUpdate ==
    ASSUME TypeRow, NEW s \in Schedule, NEW status \in Statuses
    PROVE  [row EXCEPT ![s].status = status] \in [Schedule -> Rows]
<1>1. [row[s] EXCEPT !.status = status] \in Rows BY RowFields DEF Rows
<1>2. QED BY <1>1 DEF TypeRow

LEMMA NextUpdate ==
    ASSUME TypeRow, NEW s \in Schedule, NEW x \in Instants
    PROVE  [row EXCEPT ![s].next = x] \in [Schedule -> Rows]
<1>1. [row[s] EXCEPT !.next = x] \in Rows BY RowFields DEF Rows
<1>2. QED BY <1>1 DEF TypeRow

LEMMA RunUpdate ==
    ASSUME TypeRow, NEW s \in Schedule, NEW l \in Instants, NEW x \in Instants
    PROVE  [row EXCEPT ![s].last = l, ![s].next = x] \in [Schedule -> Rows]
<1>1. [[row[s] EXCEPT !.last = l] EXCEPT !.next = x] \in Rows BY RowFields DEF Rows
<1>2. [row EXCEPT ![s].last = l] \in [Schedule -> Rows]
  <2>1. [row[s] EXCEPT !.last = l] \in Rows BY RowFields DEF Rows
  <2>2. QED BY <2>1 DEF TypeRow
<1>3. [row EXCEPT ![s].last = l][s] = [row[s] EXCEPT !.last = l] BY DEF TypeRow
<1>4. QED BY <1>1, <1>2, <1>3

USE DEF plan, tasks, history
LEMMA TypeStep == ASSUME TypeOK, Chosen, [Next]_vars PROVE TypeOK'
<1>0. TypeRow /\ TypeTasks /\ TypeCopies /\ TypeTime BY Parts
<1>1. CASE Tick
  BY <1>0, <1>1, PartsNext, ScheduleAssumption
     DEF Tick, TypeRow, TypeTasks, TypeCopies, TypeTime, Instant
<1>2. ASSUME NEW s \in Schedule, Scan(s) PROVE TypeOK'
  <2>1. queued' \in [Schedule -> Queue]
    <3>1. queued[s] \in Queue /\ 0 \in 0..MaxRetries BY <1>0, ScheduleAssumption DEF TypeTasks
    <3>2. queued[s][0] + 1 \in 0..MaxQueued
      <4>1. queued[s][0] \in 0..MaxQueued BY <3>1 DEF Queue
      <4>2. queued[s][0] < MaxQueued BY <1>2 DEF Scan
      <4>3. MaxQueued \in Nat BY ScheduleAssumption
      <4>4. QED BY <4>1, <4>2, <4>3
    <3>3. [queued[s] EXCEPT ![0] = queued[s][0] + 1] \in Queue BY <3>1, <3>2 DEF Queue
    <3>4. QED BY <1>0, <1>2, <3>3 DEF Scan, TypeTasks
  <2>2. QED BY <1>0, <1>2, <2>1, PartsNext DEF Scan, TypeRow, TypeTasks, TypeCopies, TypeTime
<1>3. ASSUME NEW w \in Worker, NEW s \in Schedule, NEW r \in 0..MaxRetries, Take(w, s, r)
      PROVE  TypeOK'
  <2>1. queued' \in [Schedule -> Queue]
    <3>1. queued[s] \in Queue BY <1>0 DEF TypeTasks
    <3>2. queued[s][r] - 1 \in 0..MaxQueued
      BY <1>3, <3>1, ScheduleAssumption DEF Take, Queue
    <3>3. [queued[s] EXCEPT ![r] = queued[s][r] - 1] \in Queue BY <3>1, <3>2 DEF Queue
    <3>4. QED BY <1>0, <1>3, <3>3 DEF Take, TypeTasks
  <2>2. pc' \in [Worker -> {"idle", "complete", "run", "next", "save"}]
    BY <1>0, <1>3 DEF Take, TypeTasks
  <2>3. job' \in [Worker -> Jobs]
    <3>1. [sched |-> s, retries |-> r, freq |-> row[s].freq, dates |-> row[s].dates,
           last |-> None] \in Jobs
      BY <1>0, RowFields DEF Jobs, Instants
    <3>2. QED BY <1>0, <1>3, <3>1 DEF Take, TypeTasks
  <2>4. QED
    BY <1>0, <1>3, <2>1, <2>2, <2>3, PartsNext
       DEF Take, TypeRow, TypeTasks, TypeCopies, TypeTime
<1>4. ASSUME NEW w \in Worker, Complete(w) PROVE TypeOK'
  <2>1. job[w].sched \in Schedule BY <1>4, JobFields DEF Complete
  <2>2. TypeRow' BY <1>0, <1>4, <2>1, StatusUpdate DEF Complete, TypeRow, Statuses, Status
  <2>3. TypeTasks' BY <1>0, <1>4, LeaveType DEF Complete, TypeTasks
  <2>4. QED BY <1>0, <1>4, <2>2, <2>3, PartsNext DEF Complete, TypeCopies, TypeTime
<1>5. ASSUME NEW w \in Worker, Run(w) PROVE TypeOK'
  <2>1. job[w].sched \in Schedule BY <1>5, JobFields DEF Run
  <2>2. now \in Nat BY <1>0, ScheduleAssumption DEF TypeTime, Instant
  <2>3. latest' \in [Schedule -> Nat] /\ had' = had
    BY <1>0, <1>5, <2>1, <2>2 DEF Run, TypeTime, Later
  <2>4. [job[w] EXCEPT !.last = now] \in Jobs BY <1>0, <2>2 DEF TypeTasks, Jobs, Instants
  <2>5. TypeTasks' BY <1>0, <1>5, <2>4 DEF Run, TypeTasks
  <2>6. QED BY <1>0, <1>5, <2>3, <2>5, PartsNext DEF Run, TypeRow, TypeCopies, TypeTime
<1>6. ASSUME NEW w \in Worker, SaveNext(w) PROVE TypeOK'
  <2>1. job[w].sched \in Schedule /\ NextRun(job[w].dates, job[w].freq, job[w].last) \in Instants
    BY <1>6, JobFields DEF SaveNext
  <2>2. TypeRow' BY <1>0, <1>6, <2>1, NextUpdate DEF SaveNext, TypeRow
  <2>3. TypeTasks' BY <1>0, <1>6 DEF SaveNext, TypeTasks
  <2>4. QED BY <1>0, <1>6, <2>2, <2>3, PartsNext DEF SaveNext, TypeCopies, TypeTime
<1>7. ASSUME NEW w \in Worker, SaveRun(w) PROVE TypeOK'
  <2>1. /\ job[w].sched \in Schedule /\ job[w].last \in Instants
        /\ NextRun(job[w].dates, job[w].freq, job[w].last) \in Instants
    BY <1>7, JobFields DEF SaveRun
  <2>2. TypeRow' BY <1>0, <1>7, <2>1, RunUpdate DEF SaveRun, TypeRow
  <2>3. TypeTasks' BY <1>0, <1>7, LeaveType DEF SaveRun, TypeTasks
  <2>4. QED BY <1>0, <1>7, <2>2, <2>3, PartsNext DEF SaveRun, TypeCopies, TypeTime
<1>8. ASSUME NEW w \in Worker, Fail(w) PROVE TypeOK'
  <2> DEFINE s == job[w].sched
             r == job[w].retries
  <2>1. s \in Schedule /\ r \in 0..MaxRetries BY <1>8, JobFields DEF Fail
  <2>2. TypeRow'
    <3>1. "FAILED" \in Statuses BY DEF Statuses, Status
    <3>2. [row EXCEPT ![s].status = "FAILED"] \in [Schedule -> Rows]
      BY <1>0, <2>1, <3>1, StatusUpdate
    <3>3. row' = row \/ row' = [row EXCEPT ![s].status = "FAILED"] BY <1>8 DEF Fail
    <3>4. QED BY <1>0, <3>2, <3>3 DEF TypeRow
  <2>3. failures' \in [Schedule -> 0..MaxRetries + 1]
    <3>1. AtMost(failures[s] + 1, MaxRetries + 1) \in 0..MaxRetries + 1
      <4>1. failures[s] \in 0..MaxRetries + 1 BY <1>0, <2>1 DEF TypeTasks
      <4>2. MaxRetries \in Nat BY ScheduleAssumption
      <4>3. QED BY <4>1, <4>2 DEF AtMost
    <3>2. QED BY <1>0, <1>8, <2>1, <3>1 DEF Fail, TypeTasks
  <2>4. queued' \in [Schedule -> Queue]
    <3>1. CASE r < MaxRetries
      <4>1. r + 1 \in 0..MaxRetries BY <2>1, <3>1, ScheduleAssumption
      <4>2. queued[s] \in Queue BY <1>0, <2>1 DEF TypeTasks
      <4>3. AtMost(queued[s][r + 1] + 1, MaxQueued) \in 0..MaxQueued
        <5>1. queued[s][r + 1] \in 0..MaxQueued BY <4>1, <4>2 DEF Queue
        <5>2. MaxQueued \in Nat BY ScheduleAssumption
        <5>3. QED BY <5>1, <5>2 DEF AtMost
      <4>4. [queued[s] EXCEPT ![r + 1] = AtMost(queued[s][r + 1] + 1, MaxQueued)] \in Queue
        BY <4>1, <4>2, <4>3 DEF Queue
      <4>5. QED BY <1>0, <1>8, <2>1, <3>1, <4>4 DEF Fail, TypeTasks
    <3>2. CASE ~(r < MaxRetries) BY <1>0, <1>8, <3>2 DEF Fail, TypeTasks
    <3>3. QED BY <3>1, <3>2
  <2>5. TypeTasks' BY <1>0, <1>8, <2>3, <2>4, LeaveType DEF Fail, TypeTasks
  <2>6. QED BY <1>0, <1>8, <2>2, <2>5, PartsNext DEF Fail, TypeCopies, TypeTime
<1>9. ASSUME NEW w \in Worker, Crash(w) PROVE TypeOK'
  <2>1. events' \in 0..MaxEvents
    BY <1>0, <1>9, ScheduleAssumption DEF Crash, Event, TypeTime
  <2>2. TypeTasks' BY <1>0, <1>9, LeaveType DEF Crash, TypeTasks
  <2>3. QED BY <1>0, <1>9, <2>1, <2>2, PartsNext DEF Crash, TypeRow, TypeCopies, TypeTime
<1>10. CASE BeginRefresh
  <2>1. \A s \in Schedule :
          [freq |-> row[s].freq, dates |-> row[s].dates, last |-> row[s].last] \in Copies
    BY <1>0, RowFields DEF Copies
  <2>2. refresh' \in [Schedule -> Copies \cup {None}] BY <1>10, <2>1 DEF BeginRefresh
  <2>3. QED
    BY <1>0, <1>10, <2>2, PartsNext DEF BeginRefresh, TypeRow, TypeTasks, TypeCopies, TypeTime
<1>11. ASSUME NEW s \in Schedule, RefreshOne(s) PROVE TypeOK'
  <2>1. refresh[s] # None BY <1>11 DEF RefreshOne, Newest, Pending
  <2>2. TypeRow' BY <1>0, <1>11, <2>1, RefreshFields, NextUpdate DEF RefreshOne, TypeRow
  <2>3. refresh' \in [Schedule -> Copies \cup {None}]
    BY <1>0, <1>11 DEF RefreshOne, TypeCopies
  <2>4. QED
    BY <1>0, <1>11, <2>2, <2>3, PartsNext DEF RefreshOne, TypeTasks, TypeCopies, TypeTime
<1>12. ASSUME NEW s \in Schedule, AbortRefresh(s) PROVE TypeOK'
  BY <1>0, <1>12, PartsNext DEF AbortRefresh, TypeRow, TypeTasks, TypeCopies, TypeTime
<1>13. ASSUME NEW s \in Schedule, NEW status \in Status, NEW f \in Choices[s],
              NEW d \in Dates[s], Create(s, status, f, d)
       PROVE  TypeOK'
  <2>1. f \in Frequency /\ d \in AllDates /\ None \in Instants
    BY ScheduleAssumption, DatesOf DEF Instants
  <2> DEFINE x == IF status = "ACTIVE" THEN NextRun(d, f, None) ELSE None
  <2>2. x \in Instants BY <2>1, NextRunType
  <2>3. [status |-> status, freq |-> f, dates |-> d, last |-> None, next |-> x] \in Rows
    <3> HIDE DEF x
    <3> QED BY <2>1, <2>2 DEF Rows, Statuses, Dated
  <2>4. TypeRow' BY <1>0, <1>13, <2>3, RowUpdate DEF Create, TypeRow
  <2>5. TypeTime'
    <3>1. d.start \in Nat BY <2>1, DateFields
    <3>2. QED BY <1>0, <1>13, <2>1, <3>1 DEF Create, TypeTime, Later
  <2>6. QED BY <1>0, <1>13, <2>4, <2>5, PartsNext DEF Create, TypeTasks, TypeCopies
<1>14. ASSUME NEW s \in Schedule, OpenForm(s) PROVE TypeOK'
  <2>1. form' \in Forms BY <1>0, <1>14, RowFields DEF OpenForm, Forms
  <2>2. events' \in 0..MaxEvents
    BY <1>0, <1>14, ScheduleAssumption DEF OpenForm, Event, TypeTime
  <2>3. QED
    BY <1>0, <1>14, <2>1, <2>2, PartsNext DEF OpenForm, TypeRow, TypeTasks, TypeCopies, TypeTime
<1>15. ASSUME NEW status \in Status, NEW f \in Frequency, NEW d \in AllDates,
              SaveForm(status, f, d)
       PROVE  TypeOK'
  <2>1. form.sched \in Schedule BY <1>15 DEF SaveForm, Chosen
  <2>2. form.last \in Instants /\ form.next \in Instants BY <1>0 DEF TypeCopies, Forms
  <2>3. NextRun(d, f, form.last) \in Instants BY <2>2, NextRunType
  <2> DEFINE x == IF status = "ACTIVE" THEN NextRun(d, f, form.last)
                  ELSE IF Exists(form.sched) THEN form.next ELSE None
  <2>4. x \in Instants BY <2>2, <2>3 DEF Instants
  <2>5. [status |-> status, freq |-> f, dates |-> d, last |-> form.last, next |-> x] \in Rows
    <3> HIDE DEF x
    <3> QED BY <2>2, <2>4 DEF Rows, Statuses, Dated
  <2>6. TypeRow' BY <1>0, <1>15, <2>1, <2>5, RowUpdate DEF SaveForm, TypeRow
  <2>7. Closed \in Forms BY DEF Closed, Forms, Instants
  <2>8. TypeTime'
    <3>1. d.start \in Nat BY DateFields
    <3>2. QED BY <1>0, <1>15, <2>1, <3>1 DEF SaveForm, TypeTime, Later
  <2>9. QED
    BY <1>0, <1>15, <2>6, <2>7, <2>8, PartsNext DEF SaveForm, TypeTasks, TypeCopies
<1>16. CASE DropForm
  <2>1. Closed \in Forms BY DEF Closed, Forms, Instants
  <2>2. QED
    BY <1>0, <1>16, <2>1, PartsNext DEF DropForm, TypeRow, TypeTasks, TypeCopies, TypeTime
<1>17. ASSUME NEW s \in Schedule, NEW status \in {"ACTIVE", "PAUSED"}, MarkStatus(s, status)
       PROVE  TypeOK'
  <2>1. TypeRow' BY <1>0, <1>17, StatusUpdate DEF MarkStatus, TypeRow, Statuses, Status
  <2>2. events' \in 0..MaxEvents
    BY <1>0, <1>17, ScheduleAssumption DEF MarkStatus, Event, TypeTime
  <2>3. QED BY <1>0, <1>17, <2>1, <2>2, PartsNext DEF MarkStatus, TypeTasks, TypeCopies, TypeTime
<1>18. ASSUME NEW s \in Schedule, Delete(s) PROVE TypeOK'
  <2>1. [NoRow EXCEPT !.status = "deleted"] \in Rows
    BY DEF NoRow, Rows, Statuses, Instants, Dated
  <2>2. TypeRow' BY <1>0, <1>18, <2>1, RowUpdate DEF Delete, TypeRow
  <2>3. events' \in 0..MaxEvents
    BY <1>0, <1>18, ScheduleAssumption DEF Delete, Event, TypeTime
  <2>4. QED BY <1>0, <1>18, <2>2, <2>3, PartsNext DEF Delete, TypeTasks, TypeCopies, TypeTime
<1>19. CASE UNCHANGED vars
  BY <1>0, <1>19, PartsNext DEF vars, TypeRow, TypeTasks, TypeCopies, TypeTime
<1>20. QED
  BY <1>1, <1>2, <1>3, <1>4, <1>5, <1>6, <1>7, <1>8, <1>9, <1>10, <1>11, <1>12, <1>13, <1>14,
     <1>15, <1>16, <1>17, <1>18, <1>19 DEF Next, Refresh, People, Work
-----------------------------------------------------------------------------
LEMMA ChosenStep == ASSUME TypeOK, Chosen, [Next]_vars PROVE Chosen'
<1>0. TypeRow /\ TypeTasks /\ TypeCopies BY Parts
<1> USE <1>0 DEF TypeRow, TypeTasks, TypeCopies, Chosen, Copied
<1>1. CASE Tick BY <1>1 DEF Tick, Exists
<1>2. ASSUME NEW s \in Schedule, Scan(s) PROVE Chosen' BY <1>2 DEF Scan, Exists
<1>3. ASSUME NEW w \in Worker, NEW s \in Schedule, NEW r \in 0..MaxRetries, Take(w, s, r)
      PROVE  Chosen'
  <2>1. CASE Active(s)
    <3>1. Exists(s) BY <2>1 DEF Active, Exists
    <3>2. job' = [job EXCEPT ![w] = [sched |-> s, retries |-> r, freq |-> row[s].freq,
                                     dates |-> row[s].dates, last |-> None]]
      BY <1>3, <2>1 DEF Take
    <3>3. pc' = [pc EXCEPT ![w] = IF Over(row[s].dates) THEN "complete" ELSE "run"]
      BY <1>3, <2>1 DEF Take
    <3>4. \A v \in Worker : pc'[v] # "idle" => /\ job'[v].sched \in Schedule
                                               /\ job'[v].freq \in had[job'[v].sched]
                                               /\ job'[v].dates \in Dates[job'[v].sched]
      <4>1. row[s].freq \in had[s] /\ row[s].dates \in Dates[s] BY <3>1
      <4>2. /\ job'[w].sched = s /\ job'[w].freq = row[s].freq /\ job'[w].dates = row[s].dates
            /\ \A v \in Worker \ {w} : job'[v] = job[v] /\ pc'[v] = pc[v]
        BY <3>2, <3>3
      <4>3. QED BY <4>1, <4>2
    <3>5. QED BY <1>3, <3>4 DEF Take, Exists
  <2>2. CASE ~Active(s) BY <1>3, <2>2 DEF Take, Exists
  <2>3. QED BY <2>1, <2>2
<1>4. ASSUME NEW w \in Worker, Complete(w) PROVE Chosen'
  BY <1>4 DEF Complete, Leave, Exists
<1>5. ASSUME NEW w \in Worker, Run(w) PROVE Chosen' BY <1>5 DEF Run, Exists, Jobs
<1>6. ASSUME NEW w \in Worker, SaveNext(w) PROVE Chosen' BY <1>6 DEF SaveNext, Exists
<1>7. ASSUME NEW w \in Worker, SaveRun(w) PROVE Chosen'
  BY <1>7 DEF SaveRun, Leave, Exists, Rows
<1>8. ASSUME NEW w \in Worker, Fail(w) PROVE Chosen'
  <2>1. \A s \in Schedule :
          Exists(s)' => row'[s].freq \in had[s] /\ row'[s].dates \in Dates[s]
    <3>1. row' = row \/ (Exists(job[w].sched) /\ row' = [row EXCEPT ![job[w].sched].status = "FAILED"])
      BY <1>8 DEF Fail
    <3>2. job[w].sched \in Schedule BY <1>8, JobFields DEF Fail
    <3>3. CASE row' = row BY <3>3 DEF Exists
    <3>4. CASE /\ Exists(job[w].sched)
               /\ row' = [row EXCEPT ![job[w].sched].status = "FAILED"]
      <4>1. \A s \in Schedule : row'[s].freq = row[s].freq /\ row'[s].dates = row[s].dates
        BY <3>4 DEF Rows
      <4>2. \A s \in Schedule : s # job[w].sched => row'[s] = row[s] BY <3>4
      <4>3. \A s \in Schedule : Exists(s)' => Exists(s) BY <3>4, <4>2 DEF Exists
      <4>4. QED BY <4>1, <4>3
    <3>5. QED BY <3>1, <3>3, <3>4
  <2>2. QED BY <1>8, <2>1 DEF Fail, Leave
<1>9. ASSUME NEW w \in Worker, Crash(w) PROVE Chosen' BY <1>9 DEF Crash, Leave, Exists
<1>10. CASE BeginRefresh BY <1>10 DEF BeginRefresh, Exists, Active
<1>11. ASSUME NEW s \in Schedule, RefreshOne(s) PROVE Chosen'
  BY <1>11 DEF RefreshOne, Refuses, Exists
<1>12. ASSUME NEW s \in Schedule, AbortRefresh(s) PROVE Chosen'
  BY <1>12 DEF AbortRefresh, Exists
<1>13. ASSUME NEW s \in Schedule, NEW status \in Status, NEW f \in Choices[s],
              NEW d \in Dates[s], Create(s, status, f, d)
       PROVE  Chosen'
  <2>1. /\ \A t \in Schedule : had[t] \subseteq had'[t] /\ had'[t] \subseteq Choices[t]
        /\ f \in had'[s]
    BY <1>13, Parts DEF Create, TypeTime
  <2>2. row'[s].freq = f /\ row'[s].dates = d /\ \A t \in Schedule \ {s} : row'[t] = row[t]
    BY <1>13 DEF Create
  <2>3. UNCHANGED <<refresh, form, pc, job>> BY <1>13 DEF Create
  <2>4. QED BY <2>1, <2>2, <2>3 DEF Exists
<1>14. ASSUME NEW s \in Schedule, OpenForm(s) PROVE Chosen' BY <1>14 DEF OpenForm, Exists
<1>15. ASSUME NEW status \in Status, NEW f \in Frequency, NEW d \in AllDates,
              SaveForm(status, f, d)
       PROVE  Chosen'
  <2> DEFINE s == form.sched
  <2>1. s \in Schedule /\ f \in Choices[s] /\ d \in Dates[s] BY <1>15 DEF SaveForm
  <2>2. had' = [had EXCEPT ![s] = @ \cup {f}] BY <1>15 DEF SaveForm
  <2>3. /\ \A t \in Schedule : had[t] \subseteq had'[t] /\ had'[t] \subseteq Choices[t]
        /\ f \in had'[s]
    BY <2>1, <2>2, Parts DEF TypeTime
  <2>4. row'[s].freq = f /\ row'[s].dates = d /\ \A t \in Schedule \ {s} : row'[t] = row[t]
    BY <1>15, <2>1 DEF SaveForm
  <2>5. UNCHANGED <<refresh, pc, job>> /\ form' = Closed BY <1>15 DEF SaveForm
  <2> HIDE DEF s
  <2>6. QED BY <2>1, <2>3, <2>4, <2>5 DEF Exists
<1>16. CASE DropForm BY <1>16 DEF DropForm, Exists
<1>17. ASSUME NEW s \in Schedule, NEW status \in {"ACTIVE", "PAUSED"}, MarkStatus(s, status)
       PROVE  Chosen'
  BY <1>17 DEF MarkStatus, Exists
<1>18. ASSUME NEW s \in Schedule, Delete(s) PROVE Chosen'
  BY <1>18 DEF Delete, NoRow, Exists
<1>19. CASE UNCHANGED vars BY <1>19 DEF vars, Exists
<1>20. QED
  BY <1>1, <1>2, <1>3, <1>4, <1>5, <1>6, <1>7, <1>8, <1>9, <1>10, <1>11, <1>12, <1>13, <1>14,
     <1>15, <1>16, <1>17, <1>18, <1>19 DEF Next, Refresh, People, Work

LEMMA InitTypes == ASSUME Init PROVE TypeOK /\ Chosen
<1>1. NoRow \in Rows BY DEF NoRow, Rows, Statuses, Instants, Dated
<1>2. Free \in Jobs BY ScheduleAssumption DEF Free, Jobs, Instants, Dated
<1>3. Closed \in Forms BY DEF Closed, Forms, Instants
<1>4. TypeRow /\ TypeCopies BY <1>1, <1>3 DEF Init, TypeRow, TypeCopies
<1>5. TypeTasks BY <1>2, ScheduleAssumption DEF Init, TypeTasks, Queue
<1>6. TypeTime BY ScheduleAssumption DEF Init, TypeTime, Instant
<1>7. Chosen BY DEF Init, Chosen, Exists, NoRow
<1>8. QED BY <1>4, <1>5, <1>6, <1>7, Parts

(* The columns of the schedules, and every copy of them, keep their types. *)
THEOREM TypeCorrect == Spec => []TypeOK
<1>1. TypeOK /\ Chosen /\ [Next]_vars => (TypeOK /\ Chosen)' BY TypeStep, ChosenStep
<1>2. QED BY InitTypes, <1>1, PTL DEF Spec
-----------------------------------------------------------------------------
(* What bounds the next run of a schedule when its latest run or start is at l and its
   frequencies have been those of h. *)
NotAfter(l, x) == x # None => x <= l
Within(l, h, x) == x # None => x <= l \/ \E f \in h \cap Recurring : x <= l + Period[f]

(* Every copy of a schedule's columns is as old as its latest run, or older. *)
InTimeCopy(c, l) == NotAfter(l, c.last) /\ (c.dates # None => c.dates.start <= l)
InTimeRow(r, l, h) == InTimeCopy(r, l) /\ Within(l, h, r.next)
InTimeForm(c, l, h) == NotAfter(l, c.last) /\ Within(l, h, c.next)

InTime ==
    /\ \A s \in Schedule : InTimeRow(row[s], latest[s], had[s])
    /\ \A s \in Schedule : refresh[s] # None => InTimeCopy(refresh[s], latest[s])
    /\ \A w \in Worker : pc[w] # "idle" => InTimeCopy(job[w], latest[job[w].sched])
    /\ form # Closed => InTimeForm(form, latest[form.sched], had[form.sched])

(* A next run computed from such a copy is within a period of the latest run. *)
LEMMA NextRunWithin ==
    ASSUME NEW l \in Nat, NEW h \in SUBSET Frequency, NEW f \in h, NEW d \in AllDates,
           NEW last \in Instants, NotAfter(l, last), d.start <= l
    PROVE  Within(l, h, NextRun(d, f, last))
<1>1. d.start \in Nat BY DateFields
<1>2. f \in Frequency OBVIOUS
<1>3. Base(d, last) \in Nat /\ Base(d, last) <= l
  BY <1>1, ScheduleAssumption DEF Base, NotAfter, Instants
<1>4. CASE f \in Recurring
  <2>1. Period[f] \in Nat BY <1>4, ScheduleAssumption
  <2>2. f # "ONCE" /\ f # "CUSTOM" BY <1>4, ScheduleAssumption
  <2>3. NextRun(d, f, last) = None \/ NextRun(d, f, last) = Base(d, last) + Period[f]
    BY <2>2 DEF NextRun
  <2>4. Base(d, last) + Period[f] <= l + Period[f] BY <1>3, <2>1
  <2>5. QED BY <1>4, <2>3, <2>4 DEF Within
<1>5. CASE f \notin Recurring
  <2>1. NextRun(d, f, last) = None \/ NextRun(d, f, last) = d.start
    BY <1>2, <1>5 DEF NextRun, Frequency
  <2>2. QED BY <2>1 DEF Within
<1>6. QED BY <1>4, <1>5

(* The bounds move up only. *)
LEMMA BoundsRise ==
    ASSUME NEW l \in Nat, NEW m \in Nat, l <= m, NEW h, NEW k, h \subseteq k,
           NEW x \in Instants
    PROVE  /\ NotAfter(l, x) => NotAfter(m, x)
           /\ Within(l, h, x) => Within(m, k, x)
<1>1. NotAfter(l, x) => NotAfter(m, x) BY DEF NotAfter, Instants
<1>2. ASSUME Within(l, h, x), x # None PROVE Within(m, k, x)
  <2>1. x \in Nat BY <1>2 DEF Instants
  <2>2. CASE x <= l BY <2>1, <2>2 DEF Within
  <2>3. ASSUME NEW f \in h \cap Recurring, x <= l + Period[f] PROVE Within(m, k, x)
    <3>1. Period[f] \in Nat BY ScheduleAssumption
    <3>2. x <= m + Period[f] BY <2>1, <2>3, <3>1
    <3>3. QED BY <3>2 DEF Within
  <2>4. QED BY <1>2, <2>2, <2>3 DEF Within
<1>3. QED BY <1>1, <1>2 DEF Within

LEMMA CopyRises ==
    ASSUME NEW l \in Nat, NEW m \in Nat, l <= m, NEW c, c.last \in Instants, c.dates \in Dated
    PROVE  InTimeCopy(c, l) => InTimeCopy(c, m)
<1>1. c.dates # None => c.dates.start \in Nat BY DateFields DEF Dated
<1>2. NotAfter(l, c.last) => NotAfter(m, c.last) BY BoundsRise
<1>3. QED BY <1>1, <1>2 DEF InTimeCopy

(* What holds of the copies with the old bounds holds with any that are higher. *)
LEMMA AllRise ==
    ASSUME TypeOK, Chosen, InTime, NEW l, NEW h,
           \A s \in Schedule : l[s] \in Nat /\ latest[s] <= l[s] /\ had[s] \subseteq h[s]
    PROVE  /\ \A s \in Schedule : InTimeRow(row[s], l[s], h[s])
           /\ \A s \in Schedule : refresh[s] # None => InTimeCopy(refresh[s], l[s])
           /\ \A w \in Worker : pc[w] # "idle" => InTimeCopy(job[w], l[job[w].sched])
           /\ form # Closed => InTimeForm(form, l[form.sched], h[form.sched])
<1>0. /\ \A s \in Schedule : latest[s] \in Nat
      /\ form.last \in Instants /\ form.next \in Instants
      /\ \A w \in Worker : job[w] \in Jobs
  BY Parts DEF TypeTime, TypeTasks, TypeCopies, Forms
<1>1. ASSUME NEW s \in Schedule PROVE InTimeRow(row[s], l[s], h[s])
  <2>1. row[s].last \in Instants /\ row[s].next \in Instants /\ row[s].dates \in Dated
    BY RowFields, Parts
  <2>2. InTimeCopy(row[s], latest[s]) /\ Within(latest[s], had[s], row[s].next)
    BY DEF InTime, InTimeRow
  <2>3. QED BY <1>0, <2>1, <2>2, CopyRises, BoundsRise DEF InTimeRow
<1>2. ASSUME NEW s \in Schedule, refresh[s] # None PROVE InTimeCopy(refresh[s], l[s])
  <2>1. refresh[s].last \in Instants /\ refresh[s].dates \in Dated
    BY <1>2, RefreshFields DEF Dated
  <2>2. QED BY <1>0, <1>2, <2>1, CopyRises DEF InTime
<1>3. ASSUME NEW w \in Worker, pc[w] # "idle" PROVE InTimeCopy(job[w], l[job[w].sched])
  <2>1. job[w].sched \in Schedule /\ job[w].last \in Instants /\ job[w].dates \in Dated
    BY <1>3, JobFields DEF Dated
  <2>2. QED BY <1>0, <1>3, <2>1, CopyRises DEF InTime
<1>4. ASSUME form # Closed PROVE InTimeForm(form, l[form.sched], h[form.sched])
  <2>1. form.sched \in Schedule BY <1>4 DEF Chosen
  <2>2. InTimeForm(form, latest[form.sched], had[form.sched]) BY <1>4 DEF InTime
  <2>3. QED BY <1>0, <2>1, <2>2, BoundsRise DEF InTimeForm
<1>5. QED BY <1>1, <1>2, <1>3, <1>4

LEMMA NothingInTime == \A l, h : NotAfter(l, None) /\ Within(l, h, None)
BY DEF NotAfter, Within

(* A step that gives one row a next run in time, and leaves its dates. *)
LEMMA NextInTime ==
    ASSUME TypeOK, InTime, NEW s \in Schedule, NEW x, Within(latest[s], had[s], x),
           UNCHANGED history,
           \A t \in Schedule \ {s} : row'[t] = row[t],
           row'[s].dates = row[s].dates, row'[s].next = x,
           NotAfter(latest[s], row'[s].last)
    PROVE  \A t \in Schedule : InTimeRow(row'[t], latest'[t], had'[t])
BY DEF InTime, InTimeRow, InTimeCopy

LEMMA InTimeStep == ASSUME TypeOK, Chosen, InTime, [Next]_vars PROVE InTime'
<1>0. TypeRow /\ TypeTasks /\ TypeCopies /\ TypeTime BY Parts
<1>a. /\ \A s \in Schedule : latest[s] \in Nat /\ had[s] \in SUBSET Frequency
      /\ now \in Nat
  BY <1>0, ScheduleAssumption DEF TypeTime, Instant
<1>1. ASSUME UNCHANGED <<row, refresh, pc, job, form, latest, had>> PROVE InTime'
  BY <1>1 DEF InTime
<1>2. CASE Tick BY <1>1, <1>2 DEF Tick
<1>3. ASSUME NEW s \in Schedule, Scan(s) PROVE InTime' BY <1>1, <1>3 DEF Scan
<1>4. ASSUME NEW w \in Worker, Leave(w), UNCHANGED <<refresh, form, latest, had>>,
             \A s \in Schedule : InTimeRow(row'[s], latest[s], had[s])
      PROVE  InTime'
  <2>1. \A v \in Worker : pc'[v] # "idle" => pc'[v] = pc[v] /\ job'[v] = job[v]
    BY <1>0, <1>4 DEF Leave, TypeTasks
  <2>2. QED BY <1>4, <2>1 DEF InTime
<1>5. ASSUME NEW w \in Worker, NEW s \in Schedule, NEW r \in 0..MaxRetries, Take(w, s, r)
      PROVE  InTime'
  <2>1. CASE Active(s)
    <3>1. job' = [job EXCEPT ![w] = [sched |-> s, retries |-> r, freq |-> row[s].freq,
                                     dates |-> row[s].dates, last |-> None]]
      BY <1>5, <2>1 DEF Take
    <3>2. \A v \in Worker \ {w} : job'[v] = job[v] /\ pc'[v] = pc[v]
      BY <1>0, <1>5, <2>1, <3>1 DEF Take, TypeTasks
    <3>3. job'[w].sched = s /\ job'[w].dates = row[s].dates /\ job'[w].last = None
      BY <1>0, <3>1 DEF TypeTasks
    <3>4. InTimeCopy(job'[w], latest[s])
      BY <3>3, NothingInTime DEF InTime, InTimeRow, InTimeCopy
    <3>5. QED BY <1>5, <3>2, <3>3, <3>4 DEF Take, InTime
  <2>2. CASE ~Active(s) BY <1>1, <1>5, <2>2 DEF Take
  <2>3. QED BY <2>1, <2>2
<1>6. ASSUME NEW w \in Worker, Complete(w) \/ Fail(w) PROVE InTime'
  <2>1. \E st : row' = row \/ row' = [row EXCEPT ![job[w].sched].status = st]
    BY <1>6 DEF Complete, Fail
  <2>2. \A s \in Schedule : /\ row'[s].last = row[s].last /\ row'[s].next = row[s].next
                            /\ row'[s].dates = row[s].dates
    BY <1>0, <2>1 DEF TypeRow, Rows
  <2>3. \A s \in Schedule : InTimeRow(row'[s], latest[s], had[s])
    BY <2>2 DEF InTime, InTimeRow, InTimeCopy
  <2>4. QED BY <1>4, <1>6, <2>3 DEF Complete, Fail
<1>7. ASSUME NEW w \in Worker, Run(w) PROVE InTime'
  <2> DEFINE s == job[w].sched
  <2>1. s \in Schedule BY <1>7, JobFields DEF Run
  <2>2. latest' = [latest EXCEPT ![s] = Later(@, now)] /\ had' = had BY <1>7 DEF Run
  <2>3. \A t \in Schedule : latest'[t] \in Nat /\ latest[t] <= latest'[t]
    BY <1>0, <1>a, <2>1, <2>2 DEF TypeTime, Later
  <2>4. latest'[s] >= now BY <1>0, <1>a, <2>1, <2>2 DEF TypeTime, Later
  <2>5. /\ \A t \in Schedule : InTimeRow(row[t], latest'[t], had'[t])
        /\ \A t \in Schedule : refresh[t] # None => InTimeCopy(refresh[t], latest'[t])
        /\ \A v \in Worker : pc[v] # "idle" => InTimeCopy(job[v], latest'[job[v].sched])
        /\ form # Closed => InTimeForm(form, latest'[form.sched], had'[form.sched])
    BY <2>2, <2>3, AllRise
  <2>6. \A v \in Worker \ {w} : job'[v] = job[v] /\ pc'[v] = pc[v]
    BY <1>0, <1>7 DEF Run, TypeTasks
  <2>7. job'[w].sched = s /\ job'[w].last = now /\ job'[w].dates = job[w].dates
    BY <1>0, <1>7 DEF Run, TypeTasks, Jobs
  <2>8. InTimeCopy(job'[w], latest'[s])
    <3>1. InTimeCopy(job[w], latest'[s]) BY <1>7, <2>5 DEF Run
    <3>2. QED BY <2>4, <2>7, <3>1 DEF InTimeCopy, NotAfter
  <2>9. UNCHANGED <<row, refresh, form>> BY <1>7 DEF Run
  <2> HIDE DEF s
  <2>10. QED BY <2>5, <2>6, <2>7, <2>8, <2>9 DEF InTime
<1>8. ASSUME NEW w \in Worker, SaveNext(w) \/ SaveRun(w) PROVE InTime'
  <2> DEFINE s == job[w].sched
             x == NextRun(job[w].dates, job[w].freq, job[w].last)
  <2>0. pc[w] # "idle" BY <1>8 DEF SaveNext, SaveRun
  <2>1. /\ s \in Schedule /\ job[w].last \in Instants /\ job[w].dates \in AllDates
        /\ job[w].freq \in had[s]
    BY <2>0, JobFields
  <2>2. NotAfter(latest[s], job[w].last) /\ job[w].dates.start <= latest[s]
    <3>1. job[w].dates # None BY <2>0, <2>1, DateFields
    <3>2. QED BY <2>0, <3>1 DEF InTime, InTimeCopy
  <2>3. Within(latest[s], had[s], x) BY <1>a, <2>1, <2>2, NextRunWithin
  <2>4. \/ row' = [row EXCEPT ![s].next = x]
        \/ row' = [row EXCEPT ![s].last = job[w].last, ![s].next = x]
    BY <1>8 DEF SaveNext, SaveRun
  <2>5. UNCHANGED <<refresh, form, latest, had>> BY <1>8 DEF SaveNext, SaveRun
  <2> HIDE DEF s, x
  <2>6. /\ \A t \in Schedule \ {s} : row'[t] = row[t]
        /\ row'[s].dates = row[s].dates /\ row'[s].next = x
        /\ row'[s].last = row[s].last \/ row'[s].last = job[w].last
    BY <1>0, <2>1, <2>4 DEF TypeRow, Rows
  <2>7. NotAfter(latest[s], row'[s].last)
    BY <2>1, <2>2, <2>6 DEF InTime, InTimeRow, InTimeCopy
  <2>8. \A t \in Schedule : InTimeRow(row'[t], latest[t], had[t])
    BY <2>1, <2>3, <2>5, <2>6, <2>7, NextInTime
  <2>9. CASE SaveNext(w)
    <3>1. job' = job /\ \A v \in Worker : pc'[v] # "idle" => pc[v] # "idle"
      BY <1>0, <2>0, <2>9 DEF SaveNext, TypeTasks
    <3>2. QED BY <2>5, <2>8, <3>1 DEF InTime
  <2>10. CASE SaveRun(w) BY <1>4, <2>5, <2>8, <2>10 DEF SaveRun
  <2>11. QED BY <1>8, <2>9, <2>10
<1>9. ASSUME NEW w \in Worker, Crash(w) PROVE InTime'
  BY <1>4, <1>9 DEF Crash, InTime
<1>10. CASE BeginRefresh
  <2>1. \A s \in Schedule : refresh'[s] # None => /\ refresh'[s].last = row[s].last
                                                  /\ refresh'[s].dates = row[s].dates
    BY <1>10 DEF BeginRefresh
  <2>2. \A s \in Schedule : refresh'[s] # None => InTimeCopy(refresh'[s], latest[s])
    BY <2>1 DEF InTime, InTimeRow, InTimeCopy
  <2>3. QED BY <1>10, <2>2 DEF BeginRefresh, InTime
<1>11. ASSUME NEW s \in Schedule, RefreshOne(s) PROVE InTime'
  <2>1. refresh[s] # None BY <1>11 DEF RefreshOne, Newest, Pending
  <2>2. /\ refresh[s].last \in Instants /\ refresh[s].dates \in AllDates
        /\ refresh[s].freq \in had[s]
    BY <2>1, RefreshFields
  <2>3. NotAfter(latest[s], refresh[s].last) /\ refresh[s].dates.start <= latest[s]
    BY <2>1, <2>2, DateFields DEF InTime, InTimeCopy
  <2>4. Within(latest[s], had[s], NextOf(s)) BY <1>a, <2>2, <2>3, NextRunWithin DEF NextOf
  <2>5. row' = [row EXCEPT ![s].next = NextOf(s)] /\ UNCHANGED <<pc, job, form, latest, had>>
    BY <1>11 DEF RefreshOne
  <2>6. /\ \A t \in Schedule \ {s} : row'[t] = row[t]
        /\ row'[s].dates = row[s].dates /\ row'[s].next = NextOf(s)
        /\ row'[s].last = row[s].last
    BY <1>0, <2>5 DEF TypeRow, Rows
  <2>7. NotAfter(latest[s], row'[s].last) BY <2>6 DEF InTime, InTimeRow, InTimeCopy
  <2>8. \A t \in Schedule : InTimeRow(row'[t], latest[t], had[t])
    BY <2>4, <2>5, <2>6, <2>7, NextInTime
  <2>9. \A t \in Schedule : refresh'[t] # None => refresh'[t] = refresh[t]
    BY <1>0, <1>11 DEF RefreshOne, TypeCopies
  <2>10. QED BY <2>5, <2>8, <2>9 DEF InTime
<1>12. ASSUME NEW s \in Schedule, AbortRefresh(s) PROVE InTime'
  BY <1>12 DEF AbortRefresh, InTime
<1>13. ASSUME NEW s \in Schedule, NEW f \in Frequency, NEW d \in AllDates,
              latest' = [latest EXCEPT ![s] = Later(@, d.start)],
              had' = [had EXCEPT ![s] = @ \cup {f}]
       PROVE  /\ \A t \in Schedule : /\ latest'[t] \in Nat /\ latest[t] <= latest'[t]
                                     /\ had[t] \subseteq had'[t]
              /\ d.start <= latest'[s] /\ f \in had'[s] /\ had'[s] \in SUBSET Frequency
  BY <1>0, <1>a, <1>13, DateFields DEF TypeTime, Later
<1>14. ASSUME NEW s \in Schedule, NEW status \in Status, NEW f \in Choices[s],
              NEW d \in Dates[s], Create(s, status, f, d)
       PROVE  InTime'
  <2>1. f \in Frequency /\ d \in AllDates /\ None \in Instants
    BY ScheduleAssumption, DatesOf DEF Instants
  <2>2. /\ \A t \in Schedule : /\ latest'[t] \in Nat /\ latest[t] <= latest'[t]
                               /\ had[t] \subseteq had'[t]
        /\ d.start <= latest'[s] /\ f \in had'[s] /\ had'[s] \in SUBSET Frequency
    BY <1>13, <1>14, <2>1 DEF Create
  <2>3. Within(latest'[s], had'[s], NextRun(d, f, None))
    BY <2>1, <2>2, NextRunWithin, NothingInTime
  <2>4. /\ \A t \in Schedule \ {s} : row'[t] = row[t]
        /\ row'[s].last = None /\ row'[s].dates = d
        /\ row'[s].next = None \/ row'[s].next = NextRun(d, f, None)
    BY <1>0, <1>14 DEF Create, TypeRow
  <2>5. InTimeRow(row'[s], latest'[s], had'[s])
    BY <2>2, <2>3, <2>4, NothingInTime DEF InTimeRow, InTimeCopy
  <2>6. UNCHANGED <<refresh, form, pc, job>> BY <1>14 DEF Create
  <2>7. QED BY <2>2, <2>4, <2>5, <2>6, AllRise DEF InTime
<1>15. ASSUME NEW s \in Schedule, OpenForm(s) PROVE InTime'
  <2>1. form'.sched = s /\ form'.last = row[s].last /\ form'.next = row[s].next
    BY <1>15 DEF OpenForm
  <2>2. InTimeForm(form', latest[s], had[s])
    BY <2>1 DEF InTime, InTimeRow, InTimeCopy, InTimeForm
  <2>3. QED BY <1>15, <2>1, <2>2 DEF OpenForm, InTime
<1>16. ASSUME NEW status \in Status, NEW f \in Frequency, NEW d \in AllDates,
              SaveForm(status, f, d)
       PROVE  InTime'
  <2> DEFINE s == form.sched
             x == IF status = "ACTIVE" THEN NextRun(d, f, form.last)
                  ELSE IF Exists(s) THEN form.next ELSE None
  <2>1. s \in Schedule /\ form # Closed BY <1>16 DEF SaveForm, Chosen
  <2>2. /\ \A t \in Schedule : /\ latest'[t] \in Nat /\ latest[t] <= latest'[t]
                               /\ had[t] \subseteq had'[t]
        /\ d.start <= latest'[s] /\ f \in had'[s] /\ had'[s] \in SUBSET Frequency
    BY <1>13, <1>16, <2>1 DEF SaveForm
  <2>3. form.last \in Instants /\ InTimeForm(form, latest'[s], had'[s])
    BY <1>0, <2>1, <2>2, AllRise DEF TypeCopies, Forms
  <2>4. Within(latest'[s], had'[s], NextRun(d, f, form.last))
    BY <2>1, <2>2, <2>3, NextRunWithin DEF InTimeForm
  <2>5. Within(latest'[s], had'[s], x) BY <2>3, <2>4, NothingInTime DEF InTimeForm
  <2>6. row' = [row EXCEPT ![s] = [status |-> status, freq |-> f, dates |-> d,
                                   last |-> form.last, next |-> x]]
    BY <1>16 DEF SaveForm
  <2> HIDE DEF s, x
  <2>7. /\ \A t \in Schedule \ {s} : row'[t] = row[t]
        /\ row'[s].last = form.last /\ row'[s].dates = d /\ row'[s].next = x
    BY <1>0, <2>1, <2>6 DEF TypeRow
  <2>8. InTimeRow(row'[s], latest'[s], had'[s])
    BY <2>2, <2>3, <2>5, <2>7 DEF InTimeRow, InTimeCopy, InTimeForm
  <2>9. UNCHANGED <<refresh, pc, job>> /\ form' = Closed BY <1>16 DEF SaveForm
  <2>10. QED BY <2>1, <2>2, <2>7, <2>8, <2>9, AllRise DEF InTime
<1>17. CASE DropForm BY <1>17 DEF DropForm, InTime
<1>18. ASSUME NEW s \in Schedule, NEW status \in {"ACTIVE", "PAUSED"}, MarkStatus(s, status)
       PROVE  InTime'
  <2>1. row' = [row EXCEPT ![s].status = status] BY <1>18 DEF MarkStatus
  <2>2. \A t \in Schedule : /\ row'[t].last = row[t].last /\ row'[t].next = row[t].next
                            /\ row'[t].dates = row[t].dates
    BY <1>0, <2>1 DEF TypeRow, Rows
  <2>3. QED BY <1>18, <2>2 DEF MarkStatus, InTime, InTimeRow, InTimeCopy
<1>19. ASSUME NEW s \in Schedule, Delete(s) PROVE InTime'
  <2>1. /\ \A t \in Schedule \ {s} : row'[t] = row[t]
        /\ row'[s].last = None /\ row'[s].dates = None /\ row'[s].next = None
    BY <1>0, <1>19 DEF Delete, NoRow, TypeRow
  <2>2. InTimeRow(row'[s], latest[s], had[s])
    BY <2>1, NothingInTime DEF InTimeRow, InTimeCopy
  <2>3. QED BY <1>19, <2>1, <2>2 DEF Delete, InTime
<1>20. CASE UNCHANGED vars BY <1>1, <1>20 DEF vars
<1>21. QED
  BY <1>2, <1>3, <1>5, <1>6, <1>7, <1>8, <1>9, <1>10, <1>11, <1>12, <1>14, <1>15, <1>16,
     <1>17, <1>18, <1>19, <1>20 DEF Next, Refresh, People, Work

LEMMA InitInTime == ASSUME Init PROVE InTime
BY NothingInTime DEF Init, InTime, InTimeRow, InTimeCopy, NoRow

(* Whatever stale copies are written back, the next run of every schedule is within one
   of the periods it has had of its latest run or a start it has had (models.py:264). *)
THEOREM NoPeriodSkippedHolds == Spec => []NoPeriodSkipped
<1>1. TypeOK /\ Chosen /\ InTime /\ [Next]_vars => (TypeOK /\ Chosen /\ InTime)'
  BY TypeStep, ChosenStep, InTimeStep
<1>2. InTime => NoPeriodSkipped BY DEF InTime, InTimeRow, Within, NoPeriodSkipped
<1>3. QED BY InitTypes, InitInTime, <1>1, <1>2, PTL DEF Spec
-----------------------------------------------------------------------------
Passed(d, t) == d.end # None /\ t > d.end

(* A message that has been retried, and a task that was started from one, stand for as
   many failures; a task that completes a schedule has seen its end. *)
Counted ==
    /\ \A s \in Schedule, r \in 0..MaxRetries : queued[s][r] > 0 => failures[s] >= r
    /\ \A w \in Worker : pc[w] # "idle" => failures[job[w].sched] >= job[w].retries
    /\ \A w \in Worker : pc[w] = "complete" => Passed(job[w].dates, now)

LEMMA OverStays ==
    ASSUME TypeOK, NEW d \in AllDates, [Next]_vars, Passed(d, now)
    PROVE  Passed(d, now')
<1>1. now \in Nat /\ (d.end \in Nat \/ d.end = None)
  BY DateFields, ScheduleAssumption, Parts DEF TypeTime, Instant
<1>2. now' = now \/ now' = now + 1
  BY DEF Next, Tick, Refresh, BeginRefresh, RefreshOne, AbortRefresh, People, Create, OpenForm,
         SaveForm, DropForm, MarkStatus, Delete, Scan, Work, Complete, Run, SaveNext, SaveRun,
         Fail, Crash, Take, vars
<1>3. QED BY <1>1, <1>2 DEF Passed

LEMMA CountedStep == ASSUME TypeOK, Chosen, Counted, [Next]_vars PROVE Counted'
<1>0. TypeRow /\ TypeTasks /\ TypeCopies /\ TypeTime BY Parts
<1> DEFINE Kept == failures' = failures /\ queued' = queued /\ pc' = pc /\ job' = job
<1>1. ASSUME Kept PROVE Counted'
  <2>1. \A w \in Worker : pc'[w] = "complete" => Passed(job'[w].dates, now')
    BY <1>1, OverStays, JobFields DEF Counted
  <2>2. QED BY <1>1, <2>1 DEF Counted
<1>2. ASSUME NEW w \in Worker, Leave(w), failures' = failures, queued' = queued
      PROVE  Counted'
  <2>1. \A v \in Worker : pc'[v] # "idle" => pc'[v] = pc[v] /\ job'[v] = job[v]
    BY <1>0, <1>2 DEF Leave, TypeTasks
  <2>2. \A v \in Worker : pc'[v] = "complete" => Passed(job'[v].dates, now')
    BY <2>1, OverStays, JobFields DEF Counted
  <2>3. QED BY <1>2, <2>1, <2>2 DEF Counted
<1>3. ASSUME NEW w \in Worker, pc[w] # "idle", failures' = failures, queued' = queued,
             job'[w].sched = job[w].sched, job'[w].retries = job[w].retries,
             job'[w].dates = job[w].dates,
             pc'[w] # "complete",
             \A v \in Worker \ {w} : job'[v] = job[v] /\ pc'[v] = pc[v]
      PROVE  Counted'
  <2>1. \A v \in Worker : pc'[v] = "complete" => Passed(job'[v].dates, now')
    BY <1>3, OverStays, JobFields DEF Counted
  <2>2. QED BY <1>3, <2>1 DEF Counted
<1>4. ASSUME NEW s \in Schedule, Scan(s) PROVE Counted'
  <2>1. failures' = failures /\ pc' = pc /\ job' = job BY <1>4 DEF Scan
  <2>2. \A v \in Worker : pc'[v] = "complete" => Passed(job'[v].dates, now')
    BY <2>1, OverStays, JobFields DEF Counted
  <2>3. \A t \in Schedule, r \in 0..MaxRetries : queued'[t][r] > 0 => failures[t] >= r
    <3>1. \A t \in Schedule, r \in 0..MaxRetries : r # 0 => queued'[t][r] = queued[t][r]
      BY <1>0, <1>4 DEF Scan, TypeTasks, Queue
    <3>2. \A t \in Schedule : failures[t] >= 0 BY <1>0, ScheduleAssumption DEF TypeTasks
    <3>3. QED BY <3>1, <3>2 DEF Counted
  <2>4. QED BY <2>1, <2>2, <2>3 DEF Counted
<1>5. ASSUME NEW w \in Worker, NEW s \in Schedule, NEW r \in 0..MaxRetries, Take(w, s, r)
      PROVE  Counted'
  <2>1. failures' = failures BY <1>5 DEF Take
  <2>2. \A t \in Schedule, q \in 0..MaxRetries : queued'[t][q] > 0 => queued[t][q] > 0
    <3>1. queued' = [queued EXCEPT ![s][r] = @ - 1] /\ queued[s][r] > 0 BY <1>5 DEF Take
    <3>2. queued[s] \in Queue BY <1>0 DEF TypeTasks
    <3>3. \A t \in Schedule, q \in 0..MaxRetries :
            queued'[t][q] = queued[t][q] \/ (t = s /\ q = r)
      BY <1>0, <3>1, <3>2 DEF TypeTasks, Queue
    <3>4. QED BY <3>1, <3>3
  <2>3. failures[s] >= r BY <1>5 DEF Take, Counted
  <2>4. CASE Active(s)
    <3>1. job' = [job EXCEPT ![w] = [sched |-> s, retries |-> r, freq |-> row[s].freq,
                                     dates |-> row[s].dates, last |-> None]]
      BY <1>5, <2>4 DEF Take
    <3>2. pc' = [pc EXCEPT ![w] = IF Over(row[s].dates) THEN "complete" ELSE "run"]
      BY <1>5, <2>4 DEF Take
    <3>3. job'[w].sched = s /\ job'[w].retries = r /\ job'[w].dates = row[s].dates
      BY <1>0, <3>1 DEF TypeTasks
    <3>4. \A v \in Worker \ {w} : job'[v] = job[v] /\ pc'[v] = pc[v] BY <3>1, <3>2
    <3>5. \A v \in Worker : pc'[v] # "idle" => failures[job'[v].sched] >= job'[v].retries
      BY <2>3, <3>3, <3>4 DEF Counted
    <3>6. \A v \in Worker : pc'[v] = "complete" => Passed(job'[v].dates, now)
      <4>1. pc'[w] = "complete" => Passed(row[s].dates, now)
        BY <1>0, <3>2 DEF TypeTasks, Over, Passed
      <4>2. QED BY <3>3, <3>4, <4>1 DEF Counted
    <3>7. row[s].dates \in AllDates
      BY <2>4, DatesOf DEF Chosen, Copied, Active, Exists
    <3>8. \A v \in Worker : pc'[v] = "complete" => Passed(job'[v].dates, now')
      <4> SUFFICES ASSUME NEW v \in Worker, pc'[v] = "complete" PROVE Passed(job'[v].dates, now')
        OBVIOUS
      <4>1. CASE v = w
        <5>1. Passed(row[s].dates, now) BY <3>3, <3>6, <4>1
        <5>2. Passed(row[s].dates, now') BY <3>7, <5>1, OverStays
        <5>3. QED BY <3>3, <4>1, <5>2
      <4>2. CASE v # w
        <5>1. pc[v] = "complete" /\ job'[v] = job[v] BY <3>4, <4>2
        <5>2. Passed(job[v].dates, now') BY <5>1, OverStays, JobFields DEF Counted
        <5>3. QED BY <5>1, <5>2
      <4>3. QED BY <4>1, <4>2
    <3>9. QED BY <2>1, <2>2, <3>5, <3>8 DEF Counted
  <2>5. CASE ~Active(s)
    <3>1. pc' = pc /\ job' = job BY <1>5, <2>5 DEF Take
    <3>2. \A v \in Worker : pc'[v] = "complete" => Passed(job'[v].dates, now')
      BY <3>1, OverStays, JobFields DEF Counted
    <3>3. QED BY <2>1, <2>2, <3>1, <3>2 DEF Counted
  <2>6. QED BY <2>4, <2>5
<1>6. ASSUME NEW w \in Worker, Fail(w) PROVE Counted'
  <2> DEFINE s == job[w].sched
             r == job[w].retries
  <2>1. s \in Schedule /\ r \in 0..MaxRetries /\ MaxRetries \in Nat
    BY <1>6, JobFields, ScheduleAssumption DEF Fail
  <2>2. failures[s] >= r BY <1>6 DEF Fail, Counted
  <2>3. \A t \in Schedule : failures[t] \in Nat /\ failures'[t] >= failures[t]
    <3>1. \A t \in Schedule : failures[t] \in 0..MaxRetries + 1 BY <1>0 DEF TypeTasks
    <3>2. AtMost(failures[s] + 1, MaxRetries + 1) >= failures[s]
      BY <2>1, <3>1 DEF AtMost
    <3>3. failures' = [failures EXCEPT ![s] = AtMost(failures[s] + 1, MaxRetries + 1)]
      BY <1>6 DEF Fail
    <3>4. QED BY <1>0, <2>1, <3>1, <3>2, <3>3 DEF TypeTasks
  <2>4. failures'[s] >= r + 1
    <3>1. failures[s] \in 0..MaxRetries + 1 BY <1>0, <2>1 DEF TypeTasks
    <3>2. failures'[s] = AtMost(failures[s] + 1, MaxRetries + 1)
      BY <1>0, <1>6, <2>1 DEF Fail, TypeTasks
    <3>3. QED BY <2>1, <2>2, <3>1, <3>2 DEF AtMost
  <2>5. \A t \in Schedule, q \in 0..MaxRetries :
          queued'[t][q] = queued[t][q] \/ (t = s /\ q = r + 1)
    BY SMTT(40), <1>0, <1>6, <2>1 DEF Fail, TypeTasks, Queue
  <2>6. \A t \in Schedule, q \in 0..MaxRetries : queued'[t][q] > 0 => failures'[t] >= q
    <3> SUFFICES ASSUME NEW t \in Schedule, NEW q \in 0..MaxRetries, queued'[t][q] > 0
                 PROVE  failures'[t] >= q
      OBVIOUS
    <3>1. CASE t = s /\ q = r + 1 BY <2>4, <3>1
    <3>2. CASE ~(t = s /\ q = r + 1)
      <4>1. failures[t] >= q BY <2>5, <3>2 DEF Counted
      <4>2. failures'[t] \in Nat
        <5>1. failures' \in [Schedule -> 0..MaxRetries + 1]
          BY <1>6, TypeStep, PartsNext DEF TypeTasks
        <5>2. QED BY <2>1, <5>1
      <4>3. QED BY <2>1, <2>3, <4>1, <4>2
    <3>3. QED BY <3>1, <3>2
  <2>7. \A v \in Worker : pc'[v] # "idle" => pc'[v] = pc[v] /\ job'[v] = job[v]
    BY <1>0, <1>6 DEF Fail, Leave, TypeTasks
  <2>8. \A v \in Worker : pc'[v] = "complete" => Passed(job'[v].dates, now')
    BY <2>7, OverStays, JobFields DEF Counted
  <2>9. \A v \in Worker : pc'[v] # "idle" => failures'[job'[v].sched] >= job'[v].retries
    <3> SUFFICES ASSUME NEW v \in Worker, pc'[v] # "idle"
                 PROVE  failures'[job'[v].sched] >= job'[v].retries
      OBVIOUS
    <3>1. pc[v] # "idle" /\ job'[v] = job[v] BY <2>7
    <3>2. /\ job[v].sched \in Schedule /\ job[v].retries \in 0..MaxRetries
          /\ failures[job[v].sched] >= job[v].retries
      BY <3>1, JobFields DEF Counted
    <3>3. failures'[job[v].sched] \in Nat
      <4>1. failures' \in [Schedule -> 0..MaxRetries + 1]
        BY <1>6, TypeStep, PartsNext DEF TypeTasks
      <4>2. QED BY <2>1, <3>2, <4>1
    <3>4. QED BY <2>1, <2>3, <3>1, <3>2, <3>3
  <2>10. QED BY <2>6, <2>8, <2>9 DEF Counted
<1>7. ASSUME NEW w \in Worker, Complete(w) \/ SaveRun(w) \/ Crash(w) PROVE Counted'
  BY <1>2, <1>7 DEF Complete, SaveRun, Crash
<1>8. ASSUME NEW w \in Worker, Run(w) \/ SaveNext(w) PROVE Counted'
  BY <1>0, <1>3, <1>8 DEF Run, SaveNext, TypeTasks, Jobs
<1>9. CASE Tick \/ Refresh \/ People \/ UNCHANGED vars
  <2>1. CASE Tick \/ Refresh \/ UNCHANGED vars
    BY <1>1, <2>1 DEF Tick, Refresh, BeginRefresh, RefreshOne, AbortRefresh, vars
  <2>2. ASSUME NEW s, NEW status, NEW f, NEW d,
               Create(s, status, f, d) \/ SaveForm(status, f, d)
        PROVE  Counted'
    BY <1>1, <2>2 DEF Create, SaveForm
  <2>3. ASSUME NEW s, NEW status, OpenForm(s) \/ Delete(s) \/ MarkStatus(s, status) \/ DropForm
        PROVE  Counted'
    BY <1>1, <2>3 DEF OpenForm, Delete, MarkStatus, DropForm
  <2>4. QED BY <1>9, <2>1, <2>2, <2>3 DEF People
<1>10. QED BY <1>4, <1>5, <1>6, <1>7, <1>8, <1>9 DEF Next, Work

LEMMA InitCounted == ASSUME Init PROVE Counted
BY ScheduleAssumption DEF Init, Counted

(* What a step that is not a person's does to a status. *)
Moves ==
    \A s \in Schedule :
      row'[s].status # row[s].status /\ Exists(s)
        /\ form' = form /\ events' = events =>
          \/ /\ row'[s].status = "COMPLETED"
             /\ Over(row[s].dates) \/ TaskOvertaken(s, {"complete"})
          \/ row'[s].status = "FAILED" /\ failures'[s] > MaxRetries

LEMMA StatusStep == ASSUME TypeOK, Chosen, Counted, [Next]_vars PROVE Moves
<1>0. TypeRow /\ TypeTasks /\ TypeTime BY Parts
<1> DEFINE Same == \A s \in Schedule : row'[s].status = row[s].status
<1>1. ASSUME Same PROVE Moves BY <1>1 DEF Moves
<1>2. ASSUME NEW w \in Worker, Complete(w) PROVE Moves
  <2>1. Over(row[job[w].sched].dates) \/ TaskOvertaken(job[w].sched, {"complete"})
    <3>1. pc[w] = "complete" /\ Over(job[w].dates)
      BY <1>2 DEF Complete, Counted, Over, Passed
    <3>2. CASE job[w].dates = row[job[w].sched].dates BY <3>1, <3>2
    <3>3. CASE job[w].dates # row[job[w].sched].dates BY <3>1, <3>3 DEF TaskOvertaken
    <3>4. QED BY <3>2, <3>3
  <2>2. row' = [row EXCEPT ![job[w].sched].status = "COMPLETED"] BY <1>2 DEF Complete
  <2>3. \A s \in Schedule : s # job[w].sched => row'[s] = row[s] BY <1>0, <2>2 DEF TypeRow
  <2>4. \A s \in Schedule : s = job[w].sched => row'[s].status = "COMPLETED"
    BY <1>0, <2>2 DEF TypeRow, Rows
  <2>5. QED BY <2>1, <2>3, <2>4 DEF Moves
<1>3. ASSUME NEW w \in Worker, Fail(w) PROVE Moves
  <2> DEFINE s == job[w].sched
  <2>1. s \in Schedule /\ job[w].retries \in 0..MaxRetries /\ MaxRetries \in Nat
    BY <1>3, JobFields, ScheduleAssumption DEF Fail
  <2>2. row' = row \/ (job[w].retries >= MaxRetries /\ row' = [row EXCEPT ![s].status = "FAILED"])
    BY <1>3, <2>1 DEF Fail
  <2>3. CASE row' = row BY <1>1, <2>3
  <2>4. CASE job[w].retries >= MaxRetries /\ row' = [row EXCEPT ![s].status = "FAILED"]
    <3>1. failures[s] >= job[w].retries BY <1>3 DEF Fail, Counted
    <3>2. failures[s] \in 0..MaxRetries + 1 BY <1>0, <2>1 DEF TypeTasks
    <3>3. failures'[s] = AtMost(failures[s] + 1, MaxRetries + 1)
      BY <1>0, <1>3, <2>1 DEF Fail, TypeTasks
    <3>4. failures'[s] > MaxRetries BY <2>1, <2>4, <3>1, <3>2, <3>3 DEF AtMost
    <3>5. \A t \in Schedule : t # s => row'[t] = row[t] BY <1>0, <2>4 DEF TypeRow
    <3>6. row'[s].status = "FAILED" BY <1>0, <2>1, <2>4 DEF TypeRow, Rows
    <3>7. QED BY <3>4, <3>5, <3>6 DEF Moves
  <2>5. QED BY <2>2, <2>3, <2>4
<1>4. ASSUME NEW w \in Worker, SaveNext(w) \/ SaveRun(w) PROVE Moves
  BY <1>0, <1>1, <1>4 DEF SaveNext, SaveRun, TypeRow, Rows
<1>5. ASSUME NEW w \in Worker, Run(w) \/ Crash(w) PROVE Moves
  BY <1>1, <1>5 DEF Run, Crash
<1>6. ASSUME NEW s \in Schedule, Scan(s) PROVE Moves BY <1>1, <1>6 DEF Scan
<1>7. ASSUME NEW w \in Worker, NEW s \in Schedule, NEW r \in 0..MaxRetries, Take(w, s, r)
      PROVE  Moves
  BY <1>1, <1>7 DEF Take
<1>8. CASE Tick \/ BeginRefresh \/ UNCHANGED vars
  BY <1>1, <1>8 DEF Tick, BeginRefresh, vars
<1>9. ASSUME NEW s \in Schedule, RefreshOne(s) \/ AbortRefresh(s) PROVE Moves
  BY <1>0, <1>1, <1>9 DEF RefreshOne, AbortRefresh, TypeRow, Rows
<1>10. CASE People
  <2>1. ASSUME NEW s \in Schedule, NEW status \in Status, NEW f \in Choices[s],
               NEW d \in Dates[s], Create(s, status, f, d)
        PROVE  Moves
    <3>1. ~Exists(s) /\ \A u \in Schedule \ {s} : row'[u] = row[u]
      BY <1>0, <2>1 DEF Create, Exists, TypeRow
    <3>2. QED BY <3>1 DEF Moves
  <2>2. \/ form' # form \/ events' # events
        \/ \E s \in Schedule : \E status \in Status, f \in Choices[s], d \in Dates[s] :
              Create(s, status, f, d)
    <3>1. events \in Nat BY <1>0, ScheduleAssumption DEF TypeTime
    <3>2. Event => events' # events BY <3>1 DEF Event
    <3>3. ASSUME NEW s \in Schedule, OpenForm(s) \/ Delete(s) PROVE events' # events
      BY <3>2, <3>3 DEF OpenForm, Delete
    <3>4. ASSUME NEW s \in Schedule, NEW status \in {"ACTIVE", "PAUSED"},
                 MarkStatus(s, status)
          PROVE  events' # events
      BY <3>2, <3>4 DEF MarkStatus
    <3>5. ASSUME NEW status, NEW f, NEW d, SaveForm(status, f, d) PROVE form' # form
      BY <3>5 DEF SaveForm
    <3>6. DropForm => form' # form BY DEF DropForm
    <3>7. QED BY <1>10, <3>3, <3>4, <3>5, <3>6 DEF People
  <2>3. QED BY <2>1, <2>2 DEF Moves
<1>11. QED
  BY <1>2, <1>3, <1>4, <1>5, <1>6, <1>7, <1>8, <1>9, <1>10 DEF Next, Work, Refresh

(* Whatever overlaps, tasks complete a schedule only after its end, or because its dates
   were edited after the task had found the end passed; they fail it only after every
   retry, and never make it active (tasks.py:103, 146). *)
THEOREM StatusMovesHold == Spec => StatusMoves
<1>1. TypeOK /\ Chosen /\ Counted /\ [Next]_vars => (TypeOK /\ Chosen /\ Counted)'
  BY TypeStep, ChosenStep, CountedStep
<1>2. TypeOK /\ Chosen /\ Counted /\ [Next]_vars => [Moves]_vars BY StatusStep
<1>3. [Moves]_vars <=>
        [\A s \in Schedule :
           row'[s].status # row[s].status /\ Exists(s)
             /\ form' = form /\ events' = events =>
               \/ /\ row'[s].status = "COMPLETED"
                  /\ Over(row[s].dates) \/ TaskOvertaken(s, {"complete"})
               \/ row'[s].status = "FAILED" /\ failures'[s] > MaxRetries]_vars
  BY DEF Moves
<1>4. QED BY InitTypes, InitCounted, <1>1, <1>2, <1>3, PTL DEF Spec, StatusMoves
-----------------------------------------------------------------------------
-----------------------------------------------------------------------------
(* What a step that is not a form's does to the next run of a recurring schedule. *)
Kept ==
    \A s \in Schedule :
      Recurs(s) /\ Exists(s) /\ row[s].next # None /\ row'[s].next = None
        /\ Exists(s)' /\ form' = form =>
          Ended(row[s].dates) \/ TaskOvertaken(s, {"next", "save"}) \/ RefreshOvertaken(s)

(* The calculation knows a next run of a recurring schedule until the end it is given
   (models.py:264). *)
LEMMA NextRunKnown ==
    ASSUME TypeOK, Chosen, NEW s \in Schedule, NEW f \in had[s], NEW d \in AllDates,
           NEW last \in Instants, Recurs(s), NextRun(d, f, last) = None
    PROVE  Ended(d)
<1>1. f \in Recurring /\ f # "ONCE" /\ f # "CUSTOM"
  BY ScheduleAssumption DEF Recurs, Chosen
<1>2. Period[f] \in Nat /\ Base(d, last) \in Nat
  BY <1>1, DateFields, ScheduleAssumption DEF Base, Instants
<1>3. Base(d, last) + Period[f] \in Nat BY <1>2
<1>4. QED BY <1>1, <1>3, ScheduleAssumption DEF NextRun

LEMMA KeptStep == ASSUME TypeOK, Chosen, [Next]_vars PROVE Kept
<1>0. TypeRow /\ TypeTasks /\ TypeTime BY Parts
<1>1. ASSUME \A s \in Schedule : row'[s].next = row[s].next PROVE Kept BY <1>1 DEF Kept
<1>2. CASE Tick \/ BeginRefresh \/ UNCHANGED vars
  BY <1>1, <1>2 DEF Tick, BeginRefresh, vars
<1>3. ASSUME NEW s \in Schedule, Scan(s) \/ AbortRefresh(s) PROVE Kept
  BY <1>1, <1>3 DEF Scan, AbortRefresh
<1>4. ASSUME NEW w \in Worker,
             \/ Run(w) \/ Crash(w)
             \/ \E s \in Schedule, r \in 0..MaxRetries : Take(w, s, r)
      PROVE  Kept
  BY <1>1, <1>4 DEF Run, Crash, Take
<1>5. ASSUME NEW w \in Worker, Complete(w) \/ Fail(w) PROVE Kept
  <2>1. \E st : row' = row \/ row' = [row EXCEPT ![job[w].sched].status = st]
    BY <1>5 DEF Complete, Fail
  <2>2. \A s \in Schedule : row'[s].next = row[s].next BY <1>0, <2>1 DEF TypeRow, Rows
  <2>3. QED BY <1>1, <2>2
<1>6. ASSUME NEW w \in Worker, SaveNext(w) \/ SaveRun(w) PROVE Kept
  <2> DEFINE s == job[w].sched
             x == NextRun(job[w].dates, job[w].freq, job[w].last)
  <2>0. pc[w] \in {"next", "save"} BY <1>6 DEF SaveNext, SaveRun
  <2>1. /\ s \in Schedule /\ job[w].last \in Instants /\ job[w].dates \in AllDates
        /\ job[w].freq \in had[s]
    BY <2>0, JobFields
  <2>2. Recurs(s) /\ x = None => Ended(job[w].dates) BY <2>1, NextRunKnown
  <2>3. Recurs(s) /\ x = None =>
          Ended(row[s].dates) \/ TaskOvertaken(s, {"next", "save"})
    <3>1. CASE job[w].dates = row[s].dates BY <2>2, <3>1
    <3>2. CASE job[w].dates # row[s].dates BY <2>0, <3>2 DEF TaskOvertaken
    <3>3. QED BY <3>1, <3>2
  <2>4. \/ row' = [row EXCEPT ![s].next = x]
        \/ row' = [row EXCEPT ![s].last = job[w].last, ![s].next = x]
    BY <1>6 DEF SaveNext, SaveRun
  <2> HIDE DEF s, x
  <2>5. row'[s].next = x /\ \A u \in Schedule \ {s} : row'[u] = row[u]
    BY <1>0, <2>1, <2>4 DEF TypeRow, Rows
  <2>6. QED BY <2>3, <2>5 DEF Kept
<1>7. ASSUME NEW s \in Schedule, RefreshOne(s) PROVE Kept
  <2>1. refresh[s] # None BY <1>7 DEF RefreshOne, Newest, Pending
  <2>2. /\ refresh[s].last \in Instants /\ refresh[s].dates \in AllDates
        /\ refresh[s].freq \in had[s]
    BY <2>1, RefreshFields
  <2>3. Recurs(s) /\ NextOf(s) = None => Ended(refresh[s].dates)
    BY <2>2, NextRunKnown DEF NextOf
  <2>4. Recurs(s) /\ NextOf(s) = None => Ended(row[s].dates) \/ RefreshOvertaken(s)
    BY <2>1, <2>3 DEF RefreshOvertaken
  <2>5. row' = [row EXCEPT ![s].next = NextOf(s)] BY <1>7 DEF RefreshOne
  <2>6. row'[s].next = NextOf(s) /\ \A u \in Schedule \ {s} : row'[u] = row[u]
    BY <1>0, <2>5 DEF TypeRow, Rows
  <2>7. QED BY <2>4, <2>6 DEF Kept
<1>8. CASE People
  <2>1. ASSUME NEW s \in Schedule, NEW status \in Status, NEW f \in Choices[s],
               NEW d \in Dates[s], Create(s, status, f, d)
        PROVE  Kept
    <3>1. ~Exists(s) /\ \A u \in Schedule \ {s} : row'[u] = row[u]
      BY <1>0, <2>1 DEF Create, Exists, TypeRow
    <3>2. QED BY <3>1 DEF Kept
  <2>2. ASSUME NEW s \in Schedule, OpenForm(s) PROVE Kept BY <1>1, <2>2 DEF OpenForm
  <2>3. ASSUME NEW status, NEW f, NEW d, SaveForm(status, f, d) PROVE Kept
    <3>1. form' # form BY <2>3 DEF SaveForm
    <3>2. QED BY <3>1 DEF Kept
  <2>4. CASE DropForm BY <1>1, <2>4 DEF DropForm
  <2>5. ASSUME NEW s \in Schedule, NEW status, MarkStatus(s, status) PROVE Kept
    <3>1. row' = [row EXCEPT ![s].status = status] BY <2>5 DEF MarkStatus
    <3>2. \A u \in Schedule : row'[u].next = row[u].next BY <1>0, <3>1 DEF TypeRow, Rows
    <3>3. QED BY <1>1, <3>2
  <2>6. ASSUME NEW s \in Schedule, Delete(s) PROVE Kept
    <3>1. ~Exists(s)' /\ \A u \in Schedule \ {s} : row'[u] = row[u]
      BY <1>0, <2>6 DEF Delete, Exists, NoRow, TypeRow
    <3>2. QED BY <3>1 DEF Kept
  <2>7. QED BY <1>8, <2>1, <2>2, <2>3, <2>4, <2>5, <2>6 DEF People
<1>9. QED BY <1>2, <1>3, <1>4, <1>5, <1>6, <1>7, <1>8 DEF Next, Work, Refresh

(* Stale copies of tasks and the refresh never take the next run of a recurring schedule
   away before its end, unless its dates were edited after they had been read
   (models.py:264). *)
THEOREM NextRunKeptHolds == Spec => NextRunKept
<1>1. TypeOK /\ Chosen /\ [Next]_vars => (TypeOK /\ Chosen)' BY TypeStep, ChosenStep
<1>2. TypeOK /\ Chosen /\ [Next]_vars => [Kept]_vars BY KeptStep
<1>3. [Kept]_vars <=>
        [\A s \in Schedule :
           Recurs(s) /\ Exists(s) /\ row[s].next # None /\ row'[s].next = None
             /\ Exists(s)' /\ form' = form =>
               Ended(row[s].dates) \/ TaskOvertaken(s, {"next", "save"})
                                 \/ RefreshOvertaken(s)]_vars
  BY DEF Kept
<1>4. QED BY InitTypes, <1>1, <1>2, <1>3, PTL DEF Spec, NextRunKept
===============================================================================
