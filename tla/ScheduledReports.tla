--------------------------- MODULE ScheduledReports ---------------------------
(* Reports that run on a schedule.  Beat scans for the schedules that are due and
   queues a task for each; a task runs the report and writes the schedule's
   columns in commits of their own, from the copy of the row it read first; a daily
   task recomputes every next run; people create, edit, pause and delete schedules
   meanwhile. *)
EXTENDS Integers, FiniteSets

CONSTANTS Schedule,   \* ReportSchedule rows, numbered in the order of their creation
          Choices,    \* Choices[s]: frequencies that are chosen for a schedule
          Period,     \* Period[f]: time between two runs, for the frequencies that recur
          Dates,      \* Dates[s]: a start_date and an end_date, or None, people may enter
          NoSuchDay,  \* NoSuchDay[f]: instants the calendar has no date one period after
          MaxRetries, \* max_retries of the task
          Worker,     \* Celery worker processes
          MaxQueued,  \* bound: messages of one schedule and retry told apart
          MaxEvents,  \* bound: requests that change schedules, and workers that die
          Horizon,    \* bound: the last instant
          None

Recurring == DOMAIN Period
Frequency == Recurring \cup {"ONCE", "CUSTOM"}
Instant == 0..Horizon
AllDates == UNION {Dates[s] : s \in Schedule}

ASSUME ScheduleAssumption ==
    /\ Schedule \subseteq Nat /\ Schedule # {}
    /\ Choices \in [Schedule -> SUBSET Frequency]
    /\ Period \in [Recurring -> Nat \ {0}] /\ {"ONCE", "CUSTOM"} \cap Recurring = {}
    /\ Dates \in [Schedule -> SUBSET [start : Nat, end : Nat \cup {None}]]
    /\ NoSuchDay \in [Recurring -> SUBSET Nat]
    /\ MaxRetries \in Nat /\ MaxQueued \in Nat \ {0} /\ MaxEvents \in Nat
    /\ Horizon \in Nat
    /\ None \notin Nat \cup Schedule \cup AllDates

VARIABLES
  now,      \* the time
  row,      \* row[s]: the columns of a schedule that its runs depend on
  queued,   \* queued[s][r]: waiting tasks of a schedule that have been retried r times
  pc,       \* pc[w]: where a worker has got to
  job,      \* job[w]: its schedule and retries, and the copy of the row it acts on
  refresh,  \* refresh[s]: the daily task's copy of a row it has yet to save, or None
  form,     \* the request that saves a form: its schedule, and its copy of the row
  latest,   \* latest[s]: the latest of the runs of a schedule and the starts it has had
  had,      \* had[s]: the frequencies it has had
  failures, \* failures[s]: attempts that have failed, counted up to MaxRetries + 1
  events    \* requests and deaths so far

plan == <<row, refresh, form, events>>
tasks == <<queued, pc, job, failures>>
history == <<latest, had>>
vars == <<now, plan, tasks, history>>

Free == [sched |-> None, retries |-> 0, freq |-> None, dates |-> None, last |-> None]
Closed == [sched |-> None, last |-> None, next |-> None]
NoRow == [status |-> "none", freq |-> None, dates |-> None, last |-> None, next |-> None]

Init == /\ now = 0
        /\ row = [s \in Schedule |-> NoRow]
        /\ queued = [s \in Schedule |-> [r \in 0..MaxRetries |-> 0]]
        /\ pc = [w \in Worker |-> "idle"]
        /\ job = [w \in Worker |-> Free]
        /\ refresh = [s \in Schedule |-> None]
        /\ form = Closed
        /\ latest = [s \in Schedule |-> 0]
        /\ had = [s \in Schedule |-> {}]
        /\ failures = [s \in Schedule |-> 0]
        /\ events = 0
-----------------------------------------------------------------------------
(* calculate_next_run, of an active schedule with the dates d. *)
Ended(d) == d.end # None /\ now >= d.end
Base(d, last) == IF last = None THEN d.start ELSE last

\* Mutant: the next run is counted from the present.
NextRunFromNow(d, f, last) ==
    IF Ended(d) \/ f \notin Recurring THEN None ELSE now + Period[f]

\* Mutant: there is none after the end.
NextRunBeforeEnd(d, f, last) ==
    IF Ended(d) \/ f \notin Recurring THEN None
    ELSE IF d.end # None /\ Base(d, last) + Period[f] > d.end THEN None
    ELSE Base(d, last) + Period[f]

NextRun(d, f, last) ==
    IF Ended(d) \/ f = "CUSTOM" \/ (f = "ONCE" /\ last # None) THEN None
    ELSE IF f = "ONCE" THEN d.start ELSE Base(d, last) + Period[f]

\* date.replace() has no 31st of November to return.
Raises(d, f, last) == ~Ended(d) /\ f \in Recurring /\ Base(d, last) \in NoSuchDay[f]

Event == events < MaxEvents /\ events' = events + 1

Exists(s) == row[s].status \notin {"none", "deleted"}
Active(s) == row[s].status = "ACTIVE"
Due(s) == Active(s) /\ row[s].next # None /\ row[s].next <= now

Tick == /\ now < Horizon
        /\ now' = now + 1
        /\ UNCHANGED <<plan, tasks, history>>
-----------------------------------------------------------------------------
(* The scan of every quarter of an hour, and the task it queues. *)
AtMost(n, max) == IF n <= max THEN n ELSE max
Later(m, n) == IF m > n THEN m ELSE n

Scan(s) ==
    /\ Due(s) /\ queued[s][0] < MaxQueued
    /\ queued' = [queued EXCEPT ![s][0] = @ + 1]
    /\ UNCHANGED <<now, plan, pc, job, failures, history>>

Over(d) == d.end # None /\ now > d.end

\* The message is acknowledged and the row read.  A task whose schedule is not active
\* ends at once.
Take(w, s, r) ==
    /\ pc[w] = "idle" /\ queued[s][r] > 0
    /\ queued' = [queued EXCEPT ![s][r] = @ - 1]
    /\ IF Active(s)
       THEN /\ pc' = [pc EXCEPT ![w] = IF Over(row[s].dates) THEN "complete"
                                          ELSE "run"]
            /\ job' = [job EXCEPT ![w] = [sched |-> s, retries |-> r,
                                          freq |-> row[s].freq,
                                          dates |-> row[s].dates, last |-> None]]
       ELSE UNCHANGED <<pc, job>>
    /\ UNCHANGED <<now, plan, failures, history>>

Leave(w) == /\ pc' = [pc EXCEPT ![w] = "idle"]
            /\ job' = [job EXCEPT ![w] = Free]

\* Mutant: the status is one that executions have.
Cancel(w) ==
    LET s == job[w].sched IN
    /\ pc[w] = "complete" /\ Exists(s)
    /\ row' = [row EXCEPT ![s].status = "CANCELLED"]
    /\ Leave(w)
    /\ UNCHANGED <<now, queued, refresh, form, history, failures, events>>

Complete(w) ==
    LET s == job[w].sched IN
    /\ pc[w] = "complete" /\ Exists(s)
    /\ row' = [row EXCEPT ![s].status = "COMPLETED"]
    /\ Leave(w)
    /\ UNCHANGED <<now, queued, refresh, form, history, failures, events>>

\* The report is computed and mailed; last_run_at and run_count change in the copy.
Run(w) ==
    LET s == job[w].sched IN
    /\ pc[w] = "run"
    /\ pc' = [pc EXCEPT ![w] = "next"]
    /\ job' = [job EXCEPT ![w].last = now]
    /\ latest' = [latest EXCEPT ![s] = Later(@, now)]
    /\ UNCHANGED <<now, plan, queued, failures, had>>

\* update_next_run() commits next_run_at ...
SaveNext(w) ==
    LET s == job[w].sched IN
    /\ pc[w] = "next" /\ Exists(s) /\ ~Raises(job[w].dates, job[w].freq, job[w].last)
    /\ row' = [row EXCEPT ![s].next = NextRun(job[w].dates, job[w].freq, job[w].last)]
    /\ pc' = [pc EXCEPT ![w] = "save"]
    /\ UNCHANGED <<now, queued, job, refresh, form, history, failures, events>>

\* Mutant: the whole row is saved.
SaveRunRow(w) ==
    LET s == job[w].sched IN
    /\ pc[w] = "save" /\ Exists(s)
    /\ row' = [row EXCEPT ![s] = [status |-> "ACTIVE", freq |-> job[w].freq,
                                  dates |-> job[w].dates, last |-> job[w].last,
                                  next |-> NextRun(job[w].dates, job[w].freq, job[w].last)]]
    /\ Leave(w)
    /\ UNCHANGED <<now, queued, refresh, form, history, failures, events>>

\* ... and save() the rest.
SaveRun(w) ==
    LET s == job[w].sched IN
    /\ pc[w] = "save" /\ Exists(s) /\ ~Raises(job[w].dates, job[w].freq, job[w].last)
    /\ row' = [row EXCEPT ![s].last = job[w].last,
                          ![s].next = NextRun(job[w].dates, job[w].freq, job[w].last)]
    /\ Leave(w)
    /\ UNCHANGED <<now, queued, refresh, form, history, failures, events>>

\* Mutant: the status changes in the copy alone.
FailUnmarked(w) ==
    LET s == job[w].sched r == job[w].retries IN
    /\ pc[w] # "idle"
    /\ failures' = [failures EXCEPT ![s] = AtMost(@ + 1, MaxRetries + 1)]
    /\ queued' = IF r = MaxRetries THEN queued
                 ELSE [queued EXCEPT ![s][r + 1] = AtMost(@ + 1, MaxQueued)]
    /\ Leave(w)
    /\ UNCHANGED <<now, row, refresh, form, history, events>>

\* Anything the task does can raise: it is queued again, or, at its last retry, the
\* schedule is given up.
Fail(w) ==
    LET s == job[w].sched r == job[w].retries IN
    /\ pc[w] # "idle"
    /\ failures' = [failures EXCEPT ![s] = AtMost(@ + 1, MaxRetries + 1)]
    /\ IF r < MaxRetries
       THEN /\ queued' = [queued EXCEPT ![s][r + 1] = AtMost(@ + 1, MaxQueued)]
            /\ row' = row
       ELSE /\ row' = IF Exists(s) THEN [row EXCEPT ![s].status = "FAILED"] ELSE row
            /\ queued' = queued
    /\ Leave(w)
    /\ UNCHANGED <<now, refresh, form, history, events>>

Crash(w) ==
    /\ pc[w] # "idle" /\ Event
    /\ Leave(w)
    /\ UNCHANGED <<now, row, refresh, form, queued, failures, history>>
-----------------------------------------------------------------------------
(* The daily task: it reads the active rows, then saves one after the other, the
   newest first.  A calculation that raises, or a row that is gone, ends it. *)
Pending == {s \in Schedule : refresh[s] # None}
Newest(s) == s \in Pending /\ \A t \in Pending : t <= s

BeginRefresh ==
    /\ Pending = {}
    /\ refresh' = [s \in Schedule |-> IF Active(s) THEN [freq |-> row[s].freq,
                                                         dates |-> row[s].dates,
                                                         last |-> row[s].last]
                                      ELSE None]
    /\ UNCHANGED <<now, row, form, events, tasks, history>>

NextOf(s) == NextRun(refresh[s].dates, refresh[s].freq, refresh[s].last)
Refuses(s) == ~Exists(s) \/ Raises(refresh[s].dates, refresh[s].freq, refresh[s].last)

\* Mutant: a next run that is there is left alone.
RefreshMissing(s) ==
    /\ Newest(s) /\ ~Refuses(s)
    /\ row' = IF row[s].next # None THEN row
              ELSE [row EXCEPT ![s].next = NextOf(s)]
    /\ refresh' = [refresh EXCEPT ![s] = None]
    /\ UNCHANGED <<now, form, events, tasks, history>>

RefreshOne(s) ==
    /\ Newest(s) /\ ~Refuses(s)
    /\ row' = [row EXCEPT ![s].next = NextOf(s)]
    /\ refresh' = [refresh EXCEPT ![s] = None]
    /\ UNCHANGED <<now, form, events, tasks, history>>

AbortRefresh(s) ==
    /\ Newest(s) /\ Refuses(s)
    /\ refresh' = [t \in Schedule |-> None]
    /\ UNCHANGED <<now, row, form, events, tasks, history>>
-----------------------------------------------------------------------------
(* People.  Both forms validate the dates.  Saving an active schedule recomputes its next
   run, and a calculation that raises undoes the request. *)
Status == {"ACTIVE", "PAUSED", "COMPLETED", "FAILED"}
Valid(d) == d.end # None => d.end > d.start

Create(s, status, f, d) ==
    /\ row[s].status = "none" /\ Valid(d)
    /\ ~(status = "ACTIVE" /\ Raises(d, f, None))
    /\ row' = [row EXCEPT ![s] =
                 [status |-> status, freq |-> f, dates |-> d, last |-> None,
                  next |-> IF status = "ACTIVE" THEN NextRun(d, f, None) ELSE None]]
    /\ latest' = [latest EXCEPT ![s] = Later(@, d.start)]
    /\ had' = [had EXCEPT ![s] = @ \cup {f}]
    /\ UNCHANGED <<now, refresh, form, events, tasks>>

OpenForm(s) ==
    /\ Exists(s) /\ form = Closed /\ Event
    /\ form' = [sched |-> s, last |-> row[s].last, next |-> row[s].next]
    /\ UNCHANGED <<now, row, refresh, tasks, history>>

\* The whole row, with what the copy says of the columns the form does not show.  A row
\* deleted since is inserted again.
SaveForm(status, f, d) ==
    LET s == form.sched IN
    /\ form # Closed /\ f \in Choices[s] /\ d \in Dates[s] /\ Valid(d)
    /\ ~(status = "ACTIVE" /\ Raises(d, f, form.last))
    /\ row' = [row EXCEPT ![s] =
                 [status |-> status, freq |-> f, dates |-> d, last |-> form.last,
                  next |-> IF status = "ACTIVE" THEN NextRun(d, f, form.last)
                           ELSE IF Exists(s) THEN form.next ELSE None]]
    /\ latest' = [latest EXCEPT ![s] = Later(@, d.start)]
    /\ had' = [had EXCEPT ![s] = @ \cup {f}]
    /\ form' = Closed
    /\ UNCHANGED <<now, refresh, events, tasks>>

\* It does not validate, or is rolled back.
DropForm == /\ form # Closed
            /\ form' = Closed
            /\ UNCHANGED <<now, row, refresh, events, tasks, history>>

\* The admin's actions write the status alone.
MarkStatus(s, status) ==
    /\ Exists(s) /\ Event
    /\ row' = [row EXCEPT ![s].status = status]
    /\ UNCHANGED <<now, refresh, form, tasks, history>>

Delete(s) ==
    /\ Exists(s) /\ Event
    /\ row' = [row EXCEPT ![s] = [NoRow EXCEPT !.status = "deleted"]]
    /\ UNCHANGED <<now, refresh, form, tasks, history>>
-----------------------------------------------------------------------------
Work(w) == Complete(w) \/ Run(w) \/ SaveNext(w) \/ SaveRun(w) \/ Fail(w)
Refresh == BeginRefresh \/ \E s \in Schedule : RefreshOne(s) \/ AbortRefresh(s)
People == \/ \E s \in Schedule :
                \/ \E status \in Status, f \in Choices[s], d \in Dates[s] :
                      Create(s, status, f, d)
                \/ OpenForm(s) \/ Delete(s)
                \/ \E status \in {"ACTIVE", "PAUSED"} : MarkStatus(s, status)
          \/ \E status \in Status, f \in Frequency, d \in AllDates : SaveForm(status, f, d)
          \/ DropForm

Next == \/ Tick \/ Refresh \/ People
        \/ \E s \in Schedule : Scan(s)
        \/ \E w \in Worker : \/ Work(w) \/ Crash(w)
                             \/ \E s \in Schedule, r \in 0..MaxRetries : Take(w, s, r)

Spec == Init /\ [][Next]_vars

(* Beat keeps sending the scan and the daily task, workers go on with what they have
   taken, and no message waits for ever while others are taken. *)
FairSpec == /\ Spec /\ WF_vars(Refresh)
            /\ \A s \in Schedule : WF_vars(Scan(s))
            /\ \A w \in Worker : WF_vars(Work(w))
            /\ \A s \in Schedule, r \in 0..MaxRetries :
                 SF_vars(\E w \in Worker : Take(w, s, r))
-----------------------------------------------------------------------------
(* Types of the columns and of the copies of them. *)
TypeOK ==
    /\ now \in Instant
    /\ row \in [Schedule -> [status : {"none", "deleted"} \cup Status,
                             freq : Frequency \cup {None}, dates : AllDates \cup {None},
                             last : Nat \cup {None}, next : Nat \cup {None}]]
    /\ queued \in [Schedule -> [0..MaxRetries -> 0..MaxQueued]]
    /\ pc \in [Worker -> {"idle", "complete", "run", "next", "save"}]
    /\ job \in [Worker -> [sched : Schedule \cup {None}, retries : 0..MaxRetries,
                           freq : Frequency \cup {None}, dates : AllDates \cup {None},
                           last : Nat \cup {None}]]
    /\ refresh \in [Schedule -> [freq : Frequency \cup {None}, dates : AllDates \cup {None},
                                 last : Nat \cup {None}] \cup {None}]
    /\ form \in [sched : Schedule \cup {None}, last : Nat \cup {None},
                 next : Nat \cup {None}]
    /\ latest \in [Schedule -> Nat] /\ had \in [Schedule -> SUBSET Frequency]
    /\ failures \in [Schedule -> 0..MaxRetries + 1]
    /\ events \in 0..MaxEvents

(* Whatever stale copies the tasks, the daily refresh and the form write back, the next
   run of a schedule is never later than one of the periods it has had after its latest
   run or a start it has had.  No run is skipped because somebody did not see another's:
   only for dates or a frequency that were edited since they were read (models.py:264). *)
NoPeriodSkipped ==
    \A s \in Schedule :
        row[s].next # None =>
            \/ row[s].next <= latest[s]
            \/ \E f \in had[s] \cap Recurring : row[s].next <= latest[s] + Period[f]

\* A task at one of these places, or the refresh, has read dates of a schedule that are no
\* longer the row's.
TaskOvertaken(s, places) ==
    \E w \in Worker : pc[w] \in places /\ job[w].sched = s /\ job[w].dates # row[s].dates
RefreshOvertaken(s) == refresh[s] # None /\ refresh[s].dates # row[s].dates

(* No task takes a pause back: a step that is not a person's makes a schedule COMPLETED
   once its end has passed, or because its dates were edited after the task had
   found the end passed; or FAILED once an attempt and all its retries have failed; and
   nothing else (tasks.py:103, 146). *)
StatusMoves ==
    [][\A s \in Schedule :
         row'[s].status # row[s].status /\ Exists(s)
           /\ form' = form /\ events' = events =>
             \/ /\ row'[s].status = "COMPLETED"
                /\ Over(row[s].dates) \/ TaskOvertaken(s, {"complete"})
             \/ row'[s].status = "FAILED" /\ failures'[s] > MaxRetries]_vars

\* The frequencies chosen for the schedule all recur.
Recurs(s) == Choices[s] \subseteq Recurring

(* Tasks and the refresh take the next run away from a recurring schedule only once
   its end has passed, or because its dates were edited after they had read them:
   otherwise the scan would not find it again (models.py:264). *)
NextRunKept ==
    [][\A s \in Schedule :
         Recurs(s) /\ Exists(s) /\ row[s].next # None /\ row'[s].next = None
           /\ Exists(s)' /\ form' = form =>
             Ended(row[s].dates) \/ TaskOvertaken(s, {"next", "save"})
                               \/ RefreshOvertaken(s)]_vars

(* A schedule that is due does not stay so: it is run, completed or given up, however
   many workers die and copies are stale (tasks.py:48). *)
DueIsServed == \A s \in Schedule : Due(s) ~> ~Due(s)

Agrees(s) == Active(s) => row[s].next = NextRun(row[s].dates, row[s].freq, row[s].last)
Stuck == \E s \in Schedule : Active(s) /\ Raises(row[s].dates, row[s].freq, row[s].last)

(* The daily refresh gives an active schedule the next run its own columns call for,
   unless the columns of some active schedule make the calculation raise
   (tasks.py:319). *)
Rescheduled == \A s \in Schedule : (~Agrees(s)) ~> (Agrees(s) \/ Stuck)
===============================================================================
