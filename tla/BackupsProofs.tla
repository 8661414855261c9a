---------------------------- MODULE BackupsProofs ----------------------------
(* Proofs, for every value of the constants, about Backups. *)
EXTENDS Backups, TLAPS

(* The type invariant in two parts: what the workers do, and what they share. *)
TasksOK == pc \in [Worker -> Place] /\ cur \in [Worker -> Task]
SharedOK ==
    /\ status \in [Backup -> {"none", "deleted", "IN_PROGRESS", "COMPLETED", "VERIFIED", "FAILED"}]
    /\ paths \in [Backup -> SUBSET Store]
    /\ encName \in [Backup -> BOOLEAN]
    /\ age \in [Backup -> {"new", "month", "year"}]
    /\ held \in [Name -> SUBSET Store]
    /\ original \in [Name -> BOOLEAN]
    /\ scratch \in [Name -> {"none", "part", "whole"}]
    /\ forced \in BOOLEAN /\ broken \in BOOLEAN /\ tenantLock \in BOOLEAN
    /\ log \in [Backup -> {"none", "queued", "IN_PROGRESS", "COMPLETED", "FAILED"}]
    /\ faults \in 0..MaxFaults
    /\ contended \in SUBSET Name /\ died \in SUBSET Backup

LEMMA BlankType == Blank \in Task
<1>1. (CHOOSE b \in Backup : TRUE) \in Backup
  BY BackupAssumption
<1> QED
  BY <1>1 DEF Blank, Task, Store

LEMMA FaultType == ASSUME faults \in 0..MaxFaults, NEW x \in BOOLEAN, Fault(x) PROVE faults' \in 0..MaxFaults
  BY BackupAssumption DEF Fault

(* What a task's variables are and may become. *)
LEMMA TaskParts ==
  ASSUME NEW t \in Task
  PROVE  /\ t.job \in Backup /\ t.todo \in SUBSET Store /\ t.stored \in SUBSET Store
         /\ t.ok \in BOOLEAN /\ t.list \in SUBSET (Backup \X Store)
  BY DEF Task
LEMMA JobType == ASSUME NEW t \in Task, NEW j \in Backup PROVE [t EXCEPT !.job = j] \in Task
  BY DEF Task
LEMMA TodoType == ASSUME NEW t \in Task, NEW d \in SUBSET Store PROVE [t EXCEPT !.todo = d] \in Task
  BY DEF Task
LEMMA StoredType == ASSUME NEW t \in Task, NEW d \in SUBSET Store PROVE [t EXCEPT !.stored = d] \in Task
  BY DEF Task
LEMMA OkType == ASSUME NEW t \in Task, NEW o \in BOOLEAN PROVE [t EXCEPT !.ok = o] \in Task
  BY DEF Task
LEMMA ListType == ASSUME NEW t \in Task, NEW l \in SUBSET (Backup \X Store) PROVE [t EXCEPT !.list = l] \in Task
  BY DEF Task

LEMMA NameOf == \A b \in Backup : File[b] \in Name
  BY DEF Name

LEMMA CloudStore == Cloud \subseteq Store /\ Local \in Store
  BY DEF Store

(* A row that is saved keeps the types of its columns. *)
LEMMA SaveType ==
  ASSUME SharedOK, NEW b, NEW st \in {"COMPLETED", "VERIFIED", "FAILED"},
         NEW d \in SUBSET Store, Save(b, st, d)
  PROVE  /\ status' \in [Backup -> {"none", "deleted", "IN_PROGRESS", "COMPLETED", "VERIFIED", "FAILED"}]
         /\ paths' \in [Backup -> SUBSET Store]
         /\ age' \in [Backup -> {"new", "month", "year"}]
  BY DEF Save, SharedOK

-----------------------------------------------------------------------------
(* Kinds of steps.  Only a worker that is writing a backup saves its row. *)
Job(w) == cur[w].job
Writing == Place \ (Retaining \cup Restoring)
WalPlace == {"create", "compress", "compressing", "send", "archive", "tidy", "confirm"}

(* A step of worker w leaves the tasks of the others alone. *)
OnlyTask(w) == \A v \in Worker \ {w} : pc'[v] = pc[v] /\ cur'[v] = cur[v]

\* The task goes on writing its backup, and saves no row.
GoesOn(w) == \/ DisableForce(w) \/ StartDump(w) \/ EndDump(w) \/ EnableForce(w) \/ Dump(w)
             \/ CompressAndEncrypt(w) \/ NoLocalCopy(w) \/ Error(w)
             \/ CompressWal(w) \/ CompressedWal(w) \/ NoCloudCopy(w) \/ TidyWal(w)
             \/ \E s \in Store : Upload(w, s)
             \/ \E s \in Cloud : SendWal(w, s)
\* It saves the row; it creates the row, or takes up a segment.
Saves(w) == SaveCompleted(w) \/ Verify(w) \/ ArchiveWal(w) \/ Fail(w) \/ ConfirmWal(w)
Starts(w) == BeginWal(w) \/ \E b \in Backup : Begin(w, b) \/ ScanWal(w, b)
\* It deletes a file that it has listed; it deletes rows, or paths of rows.
Deletes(w) == \E b \in Backup : \E s \in Store : ExpireFile(w, b, s) \/ DeleteFile(w, b, s)
Clears(w) == ClearPath(w) \/ DeleteOrphans(w) \/ \E b \in Backup : ExpireRow(w, b)
\* It ends, lists what is to be deleted, or restores.
Reads(w) == \/ Done(w) \/ Die(w) \/ Download(w) \/ EndRestore(w)
            \/ BeginExpire(w) \/ BeginCleanup(w) \/ ListCloud(w)
            \/ \E b \in Backup : BeginRestore(w, b) \/ Recover(w, b)

(* Every step is of one of these kinds, lets a row grow old, or changes nothing of this. *)
LEMMA StepKinds ==
  ASSUME [Next]_vars
  PROVE  \/ \E w \in Worker : \/ GoesOn(w) \/ Saves(w) \/ Starts(w)
                              \/ Deletes(w) \/ Clears(w) \/ Reads(w)
         \/ \E b \in Backup : GrowOld(b)
         \/ UNCHANGED <<status, paths, encName, age, held, original, scratch, pc, cur, marks>>
<1>1. ASSUME NEW w \in Worker, BackupStep(w) PROVE GoesOn(w) \/ Saves(w) \/ Reads(w)
  BY <1>1 DEF BackupStep, GoesOn, Saves, Reads
<1>2. ASSUME NEW w \in Worker, WalStep(w) PROVE GoesOn(w) \/ Saves(w) \/ Starts(w)
  BY <1>2 DEF WalStep, GoesOn, Saves, Starts
<1>3. ASSUME NEW w \in Worker, RetentionStep(w) PROVE Deletes(w) \/ Clears(w) \/ Reads(w)
  BY <1>3 DEF RetentionStep, Deletes, Clears, Reads
<1>4. ASSUME NEW w \in Worker,
             \/ Download(w) \/ EndRestore(w) \/ BeginCleanup(w) \/ Error(w) \/ Die(w)
             \/ \E b \in Backup : \/ Begin(w, b) \/ ScanWal(w, b) \/ BeginRestore(w, b) \/ Recover(w, b)
      PROVE  GoesOn(w) \/ Starts(w) \/ Reads(w)
  BY <1>4 DEF GoesOn, Starts, Reads
<1>5. CASE ExpireLock \/ (\E b \in Backup : TriggerRestore(b)) \/ UNCHANGED vars
  BY <1>5 DEF ExpireLock, TriggerRestore, vars, rows, files
<1> QED
  BY <1>1, <1>2, <1>3, <1>4, <1>5 DEF Next, Step

(* A task that goes on touches its own variables and no row. *)
LEMMA GoesOnFrame ==
  ASSUME TasksOK, NEW w \in Worker, GoesOn(w)
  PROVE  /\ UNCHANGED <<status, paths, age>> /\ OnlyTask(w)
         /\ pc[w] \in Writing /\ pc'[w] \in Writing
         /\ pc'[w] \in WalPlace => pc[w] \in WalPlace
         /\ Job(w)' = Job(w) /\ cur'[w].list = cur[w].list
<1>1. UNCHANGED <<status, paths, age>> /\ OnlyTask(w)
  BY DEF GoesOn, DisableForce, StartDump, EndDump, EnableForce, Dump, CompressAndEncrypt, NoLocalCopy,
     Error, CompressWal, CompressedWal, NoCloudCopy, TidyWal, Upload, SendWal, OnlyTask, TasksOK, Goto,
     rows
<1>2. pc[w] \in Writing /\ pc'[w] \in Writing /\ (pc'[w] \in WalPlace => pc[w] \in WalPlace)
  <2>1. CASE \/ DisableForce(w) \/ StartDump(w) \/ EndDump(w) \/ EnableForce(w) \/ Dump(w)
             \/ CompressAndEncrypt(w) \/ NoLocalCopy(w) \/ Error(w)
    BY <2>1 DEF DisableForce, StartDump, EndDump, EnableForce, Dump, CompressAndEncrypt, NoLocalCopy,
       Error, TasksOK, Goto, Writing, WalPlace, Place, Retaining, Restoring, DumpPlaces
  <2>2. CASE CompressWal(w) \/ CompressedWal(w) \/ NoCloudCopy(w) \/ TidyWal(w)
    BY <2>2 DEF CompressWal, CompressedWal, NoCloudCopy, TidyWal, TasksOK, Goto, Writing, WalPlace,
       Place, Retaining, Restoring
  <2>3. CASE (\E s \in Store : Upload(w, s)) \/ (\E s \in Cloud : SendWal(w, s))
    BY <2>3 DEF Upload, SendWal, TasksOK, Goto, Writing, WalPlace, Place, Retaining, Restoring
  <2> QED
    BY <2>1, <2>2, <2>3 DEF GoesOn
<1>3. Job(w)' = Job(w) /\ cur'[w].list = cur[w].list
  <2>0. cur[w] \in Task
    BY DEF TasksOK
  <2>1. CASE UNCHANGED cur
    BY <2>1 DEF Job
  <2>2. CASE EndDump(w) \/ CompressAndEncrypt(w) \/ CompressedWal(w)
    BY <2>0, <2>2 DEF EndDump, CompressAndEncrypt, CompressedWal, TasksOK, Task, Job
  <2>3. CASE NoLocalCopy(w)
    BY <2>0, <2>3 DEF NoLocalCopy, TasksOK, Task, Job
  <2>4. CASE Error(w)
    BY <2>0, <2>4 DEF Error, TasksOK, Task, Job
  <2>5. ASSUME NEW s \in Store, Upload(w, s) PROVE Job(w)' = Job(w) /\ cur'[w].list = cur[w].list
    BY <2>0, <2>5 DEF Upload, TasksOK, Task, Job
  <2>6. ASSUME NEW s \in Cloud, SendWal(w, s) PROVE Job(w)' = Job(w) /\ cur'[w].list = cur[w].list
    BY <2>0, <2>6 DEF SendWal, TasksOK, Task, Job
  <2> QED
    BY <2>1, <2>2, <2>3, <2>4, <2>5, <2>6 DEF GoesOn, DisableForce, StartDump, EnableForce, Dump, CompressWal, NoCloudCopy,
       TidyWal
<1> QED
  BY <1>1, <1>2, <1>3

(* A task that saves touches no file, and of the rows its own. *)
LEMMA SavesFrame ==
  ASSUME TasksOK, NEW w \in Worker, Saves(w)
  PROVE  /\ held' = held /\ OnlyTask(w) /\ pc[w] \in Writing
         /\ \/ UNCHANGED <<status, paths, age>>
            \/ \E st \in {"COMPLETED", "VERIFIED", "FAILED"} : \E d : Save(Job(w), st, d)
         /\ pc'[w] \in Writing => Job(w)' = Job(w)
         /\ pc'[w] \in WalPlace => pc[w] \in WalPlace
         /\ cur'[w].list \subseteq cur[w].list
<1>1. held' = held /\ OnlyTask(w)
  BY DEF Saves, SaveCompleted, Verify, ArchiveWal, Fail, ConfirmWal, Finish, OnlyTask, TasksOK, Goto, files
<1>2. pc[w] \in Writing /\ (pc'[w] \in WalPlace => pc[w] \in WalPlace)
  BY DEF Saves, SaveCompleted, Verify, ArchiveWal, Fail, ConfirmWal, Finish, TasksOK, Goto,
     Writing, WalPlace, Place, Retaining, Restoring, DumpPlaces
<1>3. \/ UNCHANGED <<status, paths, age>>
      \/ \E st \in {"COMPLETED", "VERIFIED", "FAILED"} : \E d : Save(Job(w), st, d)
  BY DEF Saves, SaveCompleted, Verify, ArchiveWal, Fail, ConfirmWal, Job
<1>4. CASE SaveCompleted(w) \/ Verify(w) \/ ArchiveWal(w)
  <2>1. Job(w)' = Job(w) /\ cur'[w].list = cur[w].list
    BY <1>4 DEF SaveCompleted, Verify, ArchiveWal, TasksOK, Task, Job
  <2> QED
    BY <1>1, <1>2, <1>3, <2>1
<1>5. CASE Fail(w) \/ ConfirmWal(w)
  <2>1. pc'[w] \notin Writing /\ cur'[w].list = {}
    BY <1>5 DEF Fail, ConfirmWal, Finish, Blank, TasksOK, Goto, Writing, Retaining, Restoring
  <2> QED
    BY <1>1, <1>2, <1>3, <2>1
<1> QED
  BY <1>4, <1>5 DEF Saves

(* A task that starts has a row that no file belongs to yet, or its own. *)
LEMMA StartsFrame ==
  ASSUME TasksOK, SharedOK, NEW w \in Worker, Starts(w)
  PROVE  /\ UNCHANGED <<paths, age, held>> /\ OnlyTask(w)
         /\ \A b \in Backup : status'[b] \in {status[b], "IN_PROGRESS"}
         /\ cur'[w].list \subseteq cur[w].list
         /\ pc'[w] \in WalPlace => IsWal(Job(w)') \/ (pc[w] \in WalPlace /\ Job(w)' = Job(w))
         /\ \/ pc[w] \in Writing /\ Job(w)' = Job(w)
            \/ Job(w)' \in Backup /\ status[Job(w)'] = "none"
<1>1. CASE BeginWal(w)
  <2>1. pc[w] \in Writing /\ Job(w)' = Job(w) /\ cur'[w].list = {}
    BY <1>1 DEF BeginWal, Create, Blank, TasksOK, Job, Task, Writing, Place, Retaining, Restoring
  <2> QED
    BY <1>1, <2>1 DEF BeginWal, Create, OnlyTask, TasksOK, Goto, files, WalPlace
<1>2. ASSUME NEW b \in Backup, Begin(w, b) PROVE Job(w)' = b /\ cur'[w].list = {} /\ pc'[w] \notin WalPlace
  BY <1>2 DEF Begin, Create, Blank, TasksOK, Job, Goto, WalPlace
<1>3. ASSUME NEW b \in Backup, ScanWal(w, b)
      PROVE  Job(w)' = b /\ cur'[w].list = cur[w].list /\ IsWal(b)
  BY <1>3 DEF ScanWal, TasksOK, Task, Job
<1>4. ASSUME NEW b \in Backup, Begin(w, b) \/ ScanWal(w, b)
      PROVE  /\ UNCHANGED <<paths, age, held>> /\ OnlyTask(w) /\ status[b] = "none"
             /\ status' = status \/ status' = [status EXCEPT ![b] = "IN_PROGRESS"]
  BY <1>4 DEF Begin, Create, ScanWal, Unused, Taken, OnlyTask, TasksOK, Goto, rows, files
<1>5. ASSUME NEW b \in Backup, Begin(w, b) \/ ScanWal(w, b)
      PROVE  \A c \in Backup : status'[c] \in {status[c], "IN_PROGRESS"}
  BY <1>4, <1>5 DEF SharedOK
<1> QED
  BY <1>1, <1>2, <1>3, <1>4, <1>5 DEF Starts

(* A task that writes no backup afterwards. *)
LEMMA RestsFrame ==
  ASSUME TasksOK, NEW w \in Worker, Deletes(w) \/ Clears(w) \/ Reads(w)
  PROVE  /\ age' = age /\ OnlyTask(w) /\ pc'[w] \notin Writing
         /\ \A b \in Backup : status'[b] \in {status[b], "deleted"}
<1>1. age' = age /\ OnlyTask(w)
  BY DEF Deletes, ExpireFile, DeleteFile, Clears, ClearPath, DeleteOrphans, ExpireRow, Reads, Done, Die,
     Download, EndRestore, BeginExpire, BeginCleanup, ListCloud, BeginRestore, Recover, Finish,
     OnlyTask, TasksOK, Goto, rows
<1>2. pc'[w] \notin Writing
  BY DEF Deletes, ExpireFile, DeleteFile, Clears, ClearPath, DeleteOrphans, ExpireRow, Reads, Done, Die,
     Download, EndRestore, BeginExpire, BeginCleanup, ListCloud, BeginRestore, Recover, Finish,
     TasksOK, Goto, Writing, Retaining, Restoring
<1>3. \A b \in Backup : status'[b] \in {status[b], "deleted"}
  BY DEF Deletes, ExpireFile, DeleteFile, Clears, ClearPath, DeleteOrphans, ExpireRow, RemoveRows, Reads,
     Done, Die, Download, EndRestore, BeginExpire, BeginCleanup, ListCloud, BeginRestore, Recover, rows
<1> QED
  BY <1>1, <1>2, <1>3

(* What a task lists anew is older than a month; in a cloud store, its row names the store,
   and is a segment's or older than a year. *)
LEMMA ListsOld ==
  ASSUME TasksOK, NEW w \in Worker, Deletes(w) \/ Clears(w) \/ Reads(w),
         NEW b \in Backup, NEW s \in Store, Listed(w, b, s)'
  PROVE  \/ Listed(w, b, s)
         \/ /\ age[b] # "new"
            /\ s \in Cloud => s \in paths[b] /\ (IsWal(b) \/ age[b] = "year")
<1>0. cur[w] \in Task
  BY DEF TasksOK
<1>1. CASE Deletes(w) \/ Clears(w)
  <2>1. ASSUME NEW c \in Backup, NEW t \in Store, ExpireFile(w, c, t) \/ DeleteFile(w, c, t)
        PROVE  cur'[w].list \subseteq cur[w].list
    BY <1>0, <2>1 DEF ExpireFile, DeleteFile, TasksOK, Task
  <2>2. CASE ClearPath(w)
    BY <1>0, <2>2 DEF ClearPath, TasksOK, Task, Listed
  <2>3. ASSUME NEW c \in Backup, ExpireRow(w, c) PROVE cur'[w].list \subseteq cur[w].list
    BY <1>0, <2>3 DEF ExpireRow, TasksOK, Task
  <2>4. CASE DeleteOrphans(w)
    BY <2>4 DEF DeleteOrphans, Blank, TasksOK, Listed
  <2> QED
    BY <1>1, <2>1, <2>2, <2>3, <2>4 DEF Deletes, Clears, Listed
<1>2. CASE BeginExpire(w)
  <2>1. cur'[w].list = {p \in OldWal \X Store : p[2] = Local \/ p[2] \in paths[p[1]]}
    BY <1>0, <1>2 DEF BeginExpire, TasksOK, Task
  <2> QED
    BY <2>1, BackupAssumption DEF Listed, OldWal
<1>3. CASE BeginCleanup(w)
  <2>1. cur'[w].list = {p \in Backup \X {Local} : Exists(p[1]) /\ age[p[1]] # "new" /\ Local \in paths[p[1]]}
    BY <1>3 DEF BeginCleanup, Blank, TasksOK
  <2> QED
    BY <2>1, BackupAssumption DEF Listed
<1>4. CASE ListCloud(w)
  <2>1. cur'[w].list = {p \in Backup \X Cloud : Exists(p[1]) /\ age[p[1]] = "year" /\ p[2] \in paths[p[1]]}
    BY <1>0, <1>4 DEF ListCloud, TasksOK, Task
  <2> QED
    BY <2>1 DEF Listed
<1>5. CASE Done(w) \/ Die(w) \/ EndRestore(w) \/ \E c \in Backup : BeginRestore(w, c) \/ Recover(w, c)
  <2>1. CASE Done(w) \/ Die(w) \/ EndRestore(w)
    <3>1. cur'[w] = Blank
      BY <2>1 DEF Done, Die, EndRestore, Finish, TasksOK
    <3> QED
      BY <3>1 DEF Blank, Listed
  <2>2. ASSUME NEW c \in Backup, BeginRestore(w, c) \/ Recover(w, c) PROVE cur'[w].list = {}
    BY <2>2 DEF BeginRestore, Recover, Blank, TasksOK
  <2> QED
    BY <1>5, <2>1, <2>2 DEF Listed
<1>6. CASE Download(w)
  BY <1>6 DEF Download, Listed
<1> QED
  BY <1>1, <1>2, <1>3, <1>4, <1>5, <1>6 DEF Reads
-----------------------------------------------------------------------------
(* Every step takes its worker to a place of its task. *)
LEMMA PlaceStep == ASSUME TasksOK, [Next]_vars PROVE pc' \in [Worker -> Place]
<1> USE DEF TasksOK, Goto, Finish, Place, Retaining, Restoring, DumpPlaces
<1>1. ASSUME NEW w \in Worker, BackupStep(w) PROVE pc' \in [Worker -> Place]
  BY <1>1 DEF BackupStep, DisableForce, StartDump, EndDump, EnableForce, Dump, CompressAndEncrypt, Upload,
     SaveCompleted, NoLocalCopy, Verify, Done, Fail
<1>2. ASSUME NEW w \in Worker, WalStep(w) PROVE pc' \in [Worker -> Place]
  BY <1>2 DEF WalStep, BeginWal, CompressWal, CompressedWal, SendWal, NoCloudCopy, ArchiveWal, TidyWal,
     ConfirmWal
<1>3. ASSUME NEW w \in Worker, RetentionStep(w) PROVE pc' \in [Worker -> Place]
  BY <1>3 DEF RetentionStep, BeginExpire, ListCloud, ClearPath, DeleteOrphans, ExpireRow, ExpireFile,
     DeleteFile
<1>4. ASSUME NEW w \in Worker, Download(w) \/ EndRestore(w) \/ BeginCleanup(w) \/ Error(w) \/ Die(w)
      PROVE  pc' \in [Worker -> Place]
  BY <1>4 DEF Download, EndRestore, BeginCleanup, Error, Die
<1>5. ASSUME NEW w \in Worker, NEW b \in Backup,
             Begin(w, b) \/ ScanWal(w, b) \/ BeginRestore(w, b) \/ Recover(w, b)
      PROVE  pc' \in [Worker -> Place]
  BY <1>5 DEF Begin, ScanWal, BeginRestore, Recover
<1>6. CASE \/ \E b \in Backup : GrowOld(b) \/ TriggerRestore(b)
           \/ ExpireLock \/ UNCHANGED vars
  BY <1>6 DEF GrowOld, TriggerRestore, ExpireLock, vars
<1> QED
  BY <1>1, <1>2, <1>3, <1>4, <1>5, <1>6 DEF Next, Step

(* A store that has been dealt with, and the file it told to have taken. *)
LEMMA MarkType ==
  ASSUME NEW t \in Task, NEW s \in Store, NEW told \in BOOLEAN
  PROVE  [t EXCEPT !.todo = @ \ {s}, !.stored = IF told THEN @ \cup {s} ELSE @] \in Task
<1> DEFINE t1 == [t EXCEPT !.todo = @ \ {s}]
<1>1. t1 \in Task
  BY TodoType, TaskParts
<1>2. (IF told THEN t1.stored \cup {s} ELSE t1.stored) \in SUBSET Store
  BY <1>1, TaskParts
<1> HIDE DEF t1
<1>3. [t1 EXCEPT !.stored = IF told THEN @ \cup {s} ELSE @] \in Task
  BY <1>1, <1>2, StoredType
<1> QED
  BY <1>3 DEF t1

(* Every step leaves its worker with a task. *)
LEMMA TaskStep == ASSUME TasksOK, SharedOK, [Next]_vars PROVE cur' \in [Worker -> Task]
<1>0. \A w \in Worker : cur[w] \in Task
  BY DEF TasksOK
<1>1. ASSUME NEW w \in Worker, NEW t \in Task, cur' = [cur EXCEPT ![w] = t]
      PROVE  cur' \in [Worker -> Task]
  BY <1>1 DEF TasksOK
<1>2. ASSUME NEW w \in Worker, GoesOn(w) PROVE cur' \in [Worker -> Task]
  <2>1. ASSUME NEW s \in Store, Upload(w, s) \/ (s \in Cloud /\ SendWal(w, s))
        PROVE  cur' \in [Worker -> Task]
    <3>1. PICK told \in BOOLEAN :
             cur' = [cur EXCEPT ![w].todo = @ \ {s}, ![w].stored = IF told THEN @ \cup {s} ELSE @]
      BY <2>1 DEF Upload, SendWal
    <3> DEFINE t == [cur[w] EXCEPT !.todo = @ \ {s}, !.stored = IF told THEN @ \cup {s} ELSE @]
    <3>2. t \in Task
      BY <1>0, MarkType
    <3>3. cur' = [cur EXCEPT ![w] = t]
      BY <3>1 DEF TasksOK
    <3> HIDE DEF t
    <3> QED
      BY <1>1, <3>2, <3>3
  <2>2. CASE EndDump(w) \/ CompressAndEncrypt(w) \/ CompressedWal(w) \/ NoLocalCopy(w)
    BY <1>0, <1>1, <2>2, TodoType, StoredType, OkType, CloudStore
       DEF EndDump, CompressAndEncrypt, CompressedWal, NoLocalCopy, TasksOK
  <2>3. CASE Error(w)
    BY <1>0, <2>3, TaskParts, StoredType, CloudStore DEF Error, TasksOK
  <2>4. CASE \/ DisableForce(w) \/ StartDump(w) \/ EnableForce(w) \/ Dump(w) \/ CompressWal(w)
             \/ NoCloudCopy(w) \/ TidyWal(w)
    BY <2>4 DEF DisableForce, StartDump, EnableForce, Dump, CompressWal, NoCloudCopy, TidyWal, TasksOK
  <2> QED
    BY <1>2, <2>1, <2>2, <2>3, <2>4, CloudStore DEF GoesOn
<1>3. ASSUME NEW w \in Worker, Saves(w) PROVE cur' \in [Worker -> Task]
  <2>1. CASE ArchiveWal(w)
    BY <1>0, <2>1, TaskParts, StoredType, CloudStore DEF ArchiveWal, TasksOK
  <2> QED
    BY <1>3, <2>1, BlankType DEF Saves, SaveCompleted, Verify, Fail, ConfirmWal, Finish, TasksOK
<1>4. ASSUME NEW w \in Worker, Starts(w) PROVE cur' \in [Worker -> Task]
  <2>1. ASSUME NEW b \in Backup, Create(w, b) PROVE cur' \in [Worker -> Task]
    BY <1>1, <2>1, JobType, BlankType DEF Create
  <2>2. ASSUME NEW b \in Backup, ScanWal(w, b) PROVE cur' \in [Worker -> Task]
    BY <1>0, <2>2, JobType DEF ScanWal, TasksOK
  <2>3. cur[w].job \in Backup
    BY <1>0, TaskParts
  <2> QED
    BY <1>4, <2>1, <2>2, <2>3 DEF Starts, BeginWal, Begin
<1>5. ASSUME NEW w \in Worker, NEW b \in Backup, NEW s \in Store, DeleteFile(w, b, s)
      PROVE  cur' \in [Worker -> Task]
  <2>1. PICK ok \in BOOLEAN :
           cur' = [cur EXCEPT ![w].list = @ \ {<<b, s>>}, ![w].job = b, ![w].todo = IF ok THEN {s} ELSE {}]
    BY <1>5 DEF DeleteFile
  <2> DEFINE t1 == [cur[w] EXCEPT !.list = @ \ {<<b, s>>}]
             t2 == [t1 EXCEPT !.job = b]
             t3 == [t2 EXCEPT !.todo = IF ok THEN {s} ELSE {}]
  <2>2. t1 \in Task
    BY <1>0, ListType, TaskParts
  <2>3. t2 \in Task
    BY <2>2, JobType
  <2>4. t3 \in Task
    BY <2>3, TodoType
  <2> QED
    BY <2>1, <2>4 DEF TasksOK
<1>6. ASSUME NEW w \in Worker, NEW b \in Backup, NEW s \in Store, ExpireFile(w, b, s)
      PROVE  cur' \in [Worker -> Task]
  BY <1>0, <1>6, TaskParts, ListType DEF ExpireFile, TasksOK
<1>7. ASSUME NEW w \in Worker, Clears(w) PROVE cur' \in [Worker -> Task]
  <2>1. CASE ClearPath(w)
    BY <1>0, <2>1, TodoType DEF ClearPath, TasksOK
  <2>2. CASE DeleteOrphans(w)
    BY <2>2, BlankType DEF DeleteOrphans, TasksOK
  <2>3. ASSUME NEW b \in Backup, ExpireRow(w, b) PROVE cur' \in [Worker -> Task]
    BY <1>0, <2>3, TaskParts, ListType DEF ExpireRow, TasksOK
  <2> QED
    BY <1>7, <2>1, <2>2, <2>3 DEF Clears
<1>8. ASSUME NEW w \in Worker, Reads(w) PROVE cur' \in [Worker -> Task]
  <2>1. CASE BeginExpire(w)
    <3> DEFINE l == {p \in OldWal \X Store : p[2] = Local \/ p[2] \in paths[p[1]]}
    <3>1. l \in SUBSET (Backup \X Store)
      BY DEF OldWal
    <3>2. cur' = [cur EXCEPT ![w].list = l]
      BY <2>1 DEF BeginExpire
    <3> HIDE DEF l
    <3> QED
      BY <1>0, <3>1, <3>2, ListType DEF TasksOK
  <2>2. CASE BeginCleanup(w) \/ ListCloud(w)
    <3>1. PICK l \in SUBSET (Backup \X Store) :
             cur' = [cur EXCEPT ![w] = [Blank EXCEPT !.list = l]] \/ cur' = [cur EXCEPT ![w].list = l]
      BY <2>2, CloudStore DEF BeginCleanup, ListCloud
    <3> QED
      BY <1>0, <3>1, BlankType, ListType DEF TasksOK
  <2>3. CASE Done(w) \/ Die(w) \/ Download(w) \/ EndRestore(w)
    BY <1>0, <2>3, BlankType DEF Done, Die, Download, EndRestore, Finish, TasksOK
  <2>4. ASSUME NEW b \in Backup, BeginRestore(w, b) \/ Recover(w, b) PROVE cur' \in [Worker -> Task]
    <3>1. [Blank EXCEPT !.job = b, !.stored = paths[b]] \in Task
      BY BlankType DEF SharedOK, Task
    <3> QED
      BY <1>1, <2>4, <3>1 DEF BeginRestore, Recover
  <2> QED
    BY <1>8, <2>1, <2>2, <2>3, <2>4 DEF Reads
<1>9. CASE (\E b \in Backup : GrowOld(b)) \/ UNCHANGED cur
  BY <1>9 DEF GrowOld, TasksOK
<1> QED
  BY <1>2, <1>3, <1>4, <1>5, <1>6, <1>7, <1>8, <1>9, StepKinds DEF Deletes

(* Only the archived segment gets its final file name, and an error after it. *)
LEMMA EncName ==
  ASSUME [Next]_vars
  PROVE  encName' = encName \/ \E w \in Worker : Error(w) \/ ArchiveWal(w)
<1>1. ASSUME NEW w \in Worker, BackupStep(w) PROVE encName' = encName
  BY <1>1 DEF BackupStep, DisableForce, StartDump, EndDump, EnableForce, Dump, CompressAndEncrypt, Upload,
     SaveCompleted, NoLocalCopy, Verify, Done, Fail, rows
<1>2. ASSUME NEW w \in Worker, WalStep(w), ~ArchiveWal(w) PROVE encName' = encName
  BY <1>2 DEF WalStep, BeginWal, Create, CompressWal, CompressedWal, SendWal, NoCloudCopy, TidyWal,
     ConfirmWal, rows
<1>3. ASSUME NEW w \in Worker, Deletes(w) \/ Clears(w) \/ Reads(w) PROVE encName' = encName
  BY <1>3 DEF Deletes, ExpireFile, DeleteFile, Clears, ClearPath, DeleteOrphans, ExpireRow, Reads, Done,
     Die, Download, EndRestore, BeginExpire, BeginCleanup, ListCloud, BeginRestore, Recover, rows
<1>4. ASSUME NEW w \in Worker, NEW b \in Backup, Begin(w, b) \/ ScanWal(w, b) PROVE encName' = encName
  BY <1>4 DEF Begin, Create, ScanWal, rows
<1>5. CASE \E b \in Backup : GrowOld(b)
  BY <1>5 DEF GrowOld
<1> QED
  BY <1>1, <1>2, <1>3, <1>4, <1>5, StepKinds DEF GoesOn, Saves, Starts, BackupStep, WalStep

(* Every step keeps the types of what the workers share. *)
LEMMA RowsType ==
  ASSUME TasksOK, SharedOK, [Next]_vars
  PROVE  /\ status' \in [Backup -> {"none", "deleted", "IN_PROGRESS", "COMPLETED", "VERIFIED", "FAILED"}]
         /\ paths' \in [Backup -> SUBSET Store]
         /\ encName' \in [Backup -> BOOLEAN]
         /\ age' \in [Backup -> {"new", "month", "year"}]
<1> DEFINE RowsOK == /\ status \in [Backup -> {"none", "deleted", "IN_PROGRESS", "COMPLETED", "VERIFIED", "FAILED"}]
                     /\ paths \in [Backup -> SUBSET Store]
                     /\ age \in [Backup -> {"new", "month", "year"}]
<1>0. encName' \in [Backup -> BOOLEAN]
  <2>1. ASSUME NEW w \in Worker, Error(w) \/ ArchiveWal(w) PROVE encName' \in [Backup -> BOOLEAN]
    BY <2>1 DEF Error, ArchiveWal, IsWal, SharedOK
  <2>2. CASE encName' = encName
    BY <2>2 DEF SharedOK
  <2> QED
    BY <2>1, <2>2, EncName
<1>1. ASSUME NEW w \in Worker, GoesOn(w) PROVE RowsOK'
  BY <1>1, GoesOnFrame DEF SharedOK
<1>2. ASSUME NEW w \in Worker, Saves(w) PROVE RowsOK'
  <2>1. Job(w) \in Backup /\ cur[w].stored \in SUBSET Store /\ cur[w].stored \cup {Local} \in SUBSET Store
    BY TaskParts, CloudStore DEF TasksOK, Job
  <2>2. \/ UNCHANGED <<status, paths, age>>
        \/ \E st \in {"COMPLETED", "VERIFIED", "FAILED"} :
              \E d \in {cur[w].stored, cur[w].stored \cup {Local}} : Save(Job(w), st, d)
    BY <1>2 DEF Saves, SaveCompleted, Verify, ArchiveWal, Fail, ConfirmWal, Job
  <2> QED
    BY <2>1, <2>2, SaveType DEF SharedOK
<1>3. ASSUME NEW w \in Worker, Starts(w) PROVE RowsOK'
  BY <1>3 DEF Starts, BeginWal, Begin, ScanWal, Create, SharedOK, rows
<1>4. ASSUME NEW w \in Worker, Clears(w) PROVE RowsOK'
  BY <1>4 DEF Clears, ClearPath, DeleteOrphans, ExpireRow, RemoveRows, SharedOK
<1>5. ASSUME NEW w \in Worker, Deletes(w) \/ Reads(w) PROVE RowsOK'
  <2>1. UNCHANGED <<status, paths, age>>
    BY <1>5 DEF Deletes, ExpireFile, DeleteFile, Reads, Done, Die, Download, EndRestore, BeginExpire,
       BeginCleanup, ListCloud, BeginRestore, Recover, rows
  <2> QED
    BY <2>1 DEF SharedOK
<1>6. ASSUME NEW b \in Backup, GrowOld(b) PROVE RowsOK'
  <2>1. UNCHANGED <<status, paths>> /\ \E a \in {"month", "year"} : age' = [age EXCEPT ![b] = a]
    BY <1>6 DEF GrowOld
  <2> QED
    BY <2>1 DEF SharedOK
<1>7. CASE UNCHANGED <<status, paths, age>>
  BY <1>0, <1>7 DEF SharedOK
<1> QED
  BY <1>0, <1>1, <1>2, <1>3, <1>4, <1>5, <1>6, <1>7, StepKinds

(* The files, the faults, and the rest of what is shared. *)
LEMMA FilesType ==
  ASSUME TasksOK, SharedOK, [Next]_vars
  PROVE  /\ held' \in [Name -> SUBSET Store]
         /\ original' \in [Name -> BOOLEAN]
         /\ scratch' \in [Name -> {"none", "part", "whole"}]
<1> DEFINE FilesOK == /\ held \in [Name -> SUBSET Store]
                      /\ original \in [Name -> BOOLEAN]
                      /\ scratch \in [Name -> {"none", "part", "whole"}]
<1>0. FilesOK /\ \A b \in Backup : File[b] \in Name /\ held[File[b]] \subseteq Store
  BY NameOf DEF SharedOK
<1>1. ASSUME NEW w \in Worker, CompressWal(w) \/ CompressedWal(w) \/ TidyWal(w) PROVE FilesOK'
  BY <1>0, <1>1 DEF CompressWal, CompressedWal, TidyWal
<1>2. ASSUME NEW w \in Worker, NEW s \in Store, Upload(w, s) \/ (s \in Cloud /\ SendWal(w, s)) PROVE FilesOK'
  <2>1. PICK H \in SUBSET Store :
           held' = [held EXCEPT ![File[Job(w)]] = H] /\ UNCHANGED <<original, scratch>>
    <3>1. Job(w) \in Backup
      BY TaskParts DEF TasksOK, Job
    <3>2. CASE Upload(w, s)
      <4>1. PICK kept \in BOOLEAN : held' = [held EXCEPT ![File[Job(w)]] = IF kept THEN @ \cup {s} ELSE @]
        BY <3>2 DEF Upload, Job
      <4>2. held' = [held EXCEPT ![File[Job(w)]] = held'[File[Job(w)]]] /\ held'[File[Job(w)]] \in SUBSET Store
        BY <1>0, <3>1, <4>1
      <4> QED
        BY <3>2, <4>2 DEF Upload
    <3>3. CASE SendWal(w, s)
      <4>1. PICK kept, whole \in BOOLEAN :
               held' = [held EXCEPT ![File[Job(w)]] = IF ~kept THEN @
                                                      ELSE IF whole THEN @ \cup {s} ELSE @ \ {s}]
        BY <3>3 DEF SendWal, Job
      <4>2. held' = [held EXCEPT ![File[Job(w)]] = held'[File[Job(w)]]] /\ held'[File[Job(w)]] \in SUBSET Store
        BY <1>0, <3>1, <4>1
      <4> QED
        BY <3>3, <4>2 DEF SendWal
    <3> QED
      BY <1>2, <3>2, <3>3
  <2> QED
    BY <1>0, <2>1
<1>3. ASSUME NEW w \in Worker, Deletes(w) PROVE FilesOK'
  BY <1>0, <1>3 DEF Deletes, ExpireFile, DeleteFile
<1>4. ASSUME NEW w \in Worker, GoesOn(w), UNCHANGED files PROVE FilesOK'
  BY <1>0, <1>4 DEF files
<1>5. ASSUME NEW w \in Worker, Saves(w) \/ Starts(w) \/ Clears(w) \/ Reads(w) PROVE UNCHANGED files
  BY <1>5 DEF Saves, SaveCompleted, Verify, ArchiveWal, Fail, ConfirmWal, Starts, BeginWal, Begin, Create,
     ScanWal, Clears, ClearPath, DeleteOrphans, ExpireRow, Reads, Done, Die, Download, EndRestore,
     BeginExpire, BeginCleanup, ListCloud, BeginRestore, Recover
<1>6. ASSUME NEW w \in Worker, GoesOn(w)
      PROVE  \/ CompressWal(w) \/ CompressedWal(w) \/ TidyWal(w)
             \/ \E s \in Store : Upload(w, s) \/ (s \in Cloud /\ SendWal(w, s))
             \/ UNCHANGED files
  BY <1>6, CloudStore DEF GoesOn, DisableForce, StartDump, EndDump, EnableForce, Dump, CompressAndEncrypt,
     NoLocalCopy, Error, NoCloudCopy
<1>7. CASE (\E b \in Backup : GrowOld(b)) \/ UNCHANGED <<held, original, scratch>>
  BY <1>0, <1>7 DEF GrowOld, files
<1>8. ASSUME NEW w \in Worker, GoesOn(w) PROVE FilesOK'
  BY <1>1, <1>2, <1>4, <1>6, <1>8, CloudStore
<1>9. ASSUME NEW w \in Worker, Saves(w) \/ Starts(w) \/ Clears(w) \/ Reads(w) PROVE FilesOK'
  BY <1>0, <1>5, <1>9 DEF files
<1> QED
  BY <1>3, <1>7, <1>8, <1>9, StepKinds

LEMMA FaultsType == ASSUME SharedOK, [Next]_vars PROVE faults' \in 0..MaxFaults
<1>0. faults \in 0..MaxFaults
  BY DEF SharedOK
<1>1. \/ faults' = faults
      \/ \E x \in BOOLEAN : Fault(x)
  <2>1. ASSUME NEW w \in Worker, BackupStep(w) \/ WalStep(w) \/ RetentionStep(w)
        PROVE  faults' = faults \/ \E x \in BOOLEAN : Fault(x)
    BY <2>1 DEF BackupStep, DisableForce, StartDump, EndDump, EnableForce, Dump, CompressAndEncrypt, Upload,
       SaveCompleted, NoLocalCopy, Verify, Done, Fail, WalStep, BeginWal, Create, CompressWal, CompressedWal,
       SendWal, NoCloudCopy, ArchiveWal, TidyWal, ConfirmWal, RetentionStep, BeginExpire, ListCloud,
       ClearPath, DeleteOrphans, ExpireRow, ExpireFile, DeleteFile
  <2>2. ASSUME NEW w \in Worker, Download(w) \/ EndRestore(w) \/ BeginCleanup(w) \/ Error(w) \/ Die(w)
        PROVE  faults' = faults \/ \E x \in BOOLEAN : Fault(x)
    BY <2>2 DEF Download, EndRestore, BeginCleanup, Error, Die
  <2>3. ASSUME NEW w \in Worker, NEW b \in Backup,
               Begin(w, b) \/ ScanWal(w, b) \/ BeginRestore(w, b) \/ Recover(w, b)
        PROVE  faults' = faults
    BY <2>3 DEF Begin, Create, ScanWal, BeginRestore, Recover
  <2>4. CASE \/ \E b \in Backup : GrowOld(b) \/ TriggerRestore(b)
             \/ ExpireLock \/ UNCHANGED vars
    BY <2>4 DEF GrowOld, TriggerRestore, ExpireLock, vars
  <2> QED
    BY <2>1, <2>2, <2>3, <2>4 DEF Next, Step
<1> QED
  BY <1>0, <1>1, FaultType

(* Only the taking up of a segment that another task handles contends it, and only a death
   is remembered as one. *)
LEMMA MarksFrame ==
  ASSUME NEW w \in Worker, GoesOn(w) \/ Saves(w) \/ Deletes(w) \/ Clears(w) \/ Reads(w)
  PROVE  contended' = contended /\ (died' = died \/ Die(w))
<1>1. CASE GoesOn(w)
  BY <1>1 DEF GoesOn, DisableForce, StartDump, EndDump, EnableForce, Dump, CompressAndEncrypt, NoLocalCopy,
     Error, CompressWal, CompressedWal, NoCloudCopy, TidyWal, Upload, SendWal, marks
<1>2. CASE Saves(w)
  BY <1>2 DEF Saves, SaveCompleted, Verify, ArchiveWal, Fail, ConfirmWal, marks
<1>3. CASE Deletes(w) \/ Clears(w)
  BY <1>3 DEF Deletes, ExpireFile, DeleteFile, Clears, ClearPath, DeleteOrphans, ExpireRow, marks
<1>4. CASE Reads(w)
  BY <1>4 DEF Reads, Done, Die, Download, EndRestore, BeginExpire, BeginCleanup, ListCloud, BeginRestore,
     Recover, marks
<1> QED
  BY <1>1, <1>2, <1>3, <1>4

LEMMA MarksType ==
  ASSUME TasksOK, SharedOK, [Next]_vars
  PROVE  contended' \in SUBSET Name /\ died' \in SUBSET Backup
<1>0. contended \in SUBSET Name /\ died \in SUBSET Backup
  BY DEF SharedOK
<1>1. ASSUME NEW w \in Worker, GoesOn(w) \/ Saves(w) \/ Deletes(w) \/ Clears(w) \/ Reads(w)
      PROVE  contended' \in SUBSET Name /\ died' \in SUBSET Backup
  <2>1. CASE Die(w)
    <3>1. Job(w) \in Backup
      BY TaskParts DEF TasksOK, Job
    <3>2. died' = died \/ died' = died \cup {Job(w)}
      BY <2>1 DEF Die, Job
    <3> QED
      BY <1>0, <1>1, <3>1, <3>2, MarksFrame
  <2>2. CASE ~Die(w)
    BY <1>0, <1>1, <2>2, MarksFrame
  <2> QED
    BY <2>1, <2>2
<1>2. ASSUME NEW w \in Worker, NEW b \in Backup, ScanWal(w, b)
      PROVE  contended' \in SUBSET Name /\ died' \in SUBSET Backup
  BY <1>0, <1>2, NameOf DEF ScanWal
<1>3. CASE (\E w \in Worker : BeginWal(w) \/ \E b \in Backup : Begin(w, b)) \/ \E b \in Backup : GrowOld(b)
  BY <1>0, <1>3 DEF Begin, BeginWal, Create, GrowOld, marks
<1>4. CASE UNCHANGED marks
  BY <1>0, <1>4 DEF marks
<1> QED
  BY <1>1, <1>2, <1>3, <1>4, StepKinds DEF Starts

LEMMA SwitchesType ==
  ASSUME SharedOK, [Next]_vars
  PROVE  /\ forced' \in BOOLEAN /\ broken' \in BOOLEAN /\ tenantLock' \in BOOLEAN
         /\ log' \in [Backup -> {"none", "queued", "IN_PROGRESS", "COMPLETED", "FAILED"}]
<1> USE DEF SharedOK, security
<1> DEFINE OK == /\ forced \in BOOLEAN /\ broken \in BOOLEAN /\ tenantLock \in BOOLEAN
                 /\ log \in [Backup -> {"none", "queued", "IN_PROGRESS", "COMPLETED", "FAILED"}]
<1>1. ASSUME NEW w \in Worker, BackupStep(w) PROVE OK'
  BY <1>1 DEF BackupStep, DisableForce, StartDump, EndDump, EnableForce, Dump, CompressAndEncrypt, Upload,
     SaveCompleted, NoLocalCopy, Verify, Done, Fail, Finish
<1>2. ASSUME NEW w \in Worker, WalStep(w) PROVE OK'
  BY <1>2 DEF WalStep, BeginWal, Create, CompressWal, CompressedWal, SendWal, NoCloudCopy, ArchiveWal,
     TidyWal, ConfirmWal, Finish
<1>3. ASSUME NEW w \in Worker, RetentionStep(w) PROVE OK'
  <2>1. UNCHANGED <<forced, broken, tenantLock>> /\ (log' = log \/ \E gone : RemoveRows(gone))
    BY <1>3 DEF RetentionStep, BeginExpire, ListCloud, ClearPath, DeleteOrphans, ExpireRow, ExpireFile,
       DeleteFile
  <2> QED
    BY <2>1 DEF RemoveRows
<1>4. ASSUME NEW w \in Worker, Download(w) \/ EndRestore(w) \/ BeginCleanup(w) \/ Error(w) \/ Die(w) PROVE OK'
  <2>1. CASE EndRestore(w)
    <3>1. UNCHANGED <<forced, broken, tenantLock>> /\ \E r \in {log[cur[w].job], "COMPLETED", "FAILED"} :
             log' = [log EXCEPT ![cur[w].job] = r]
      BY <2>1 DEF EndRestore
    <3>2. PICK r : log' = [log EXCEPT ![cur[w].job] = r] /\ r \in {log[cur[w].job], "COMPLETED", "FAILED"}
      BY <3>1
    <3>3. CASE cur[w].job \in Backup
      BY <3>1, <3>2, <3>3
    <3>4. CASE cur[w].job \notin Backup
      BY <3>1, <3>2, <3>4
    <3> QED
      BY <3>3, <3>4
  <2>2. CASE Download(w) \/ BeginCleanup(w) \/ Error(w)
    BY <2>2 DEF Download, BeginCleanup, Error
  <2>3. CASE Die(w)
    BY <2>3 DEF Die
  <2> QED
    BY <1>4, <2>1, <2>2, <2>3
<1>5. ASSUME NEW w \in Worker, NEW b \in Backup,
             Begin(w, b) \/ ScanWal(w, b) \/ BeginRestore(w, b) \/ Recover(w, b)
      PROVE  OK'
  BY <1>5 DEF Begin, Create, ScanWal, BeginRestore, Recover
<1>6. CASE \/ \E b \in Backup : GrowOld(b) \/ TriggerRestore(b)
           \/ ExpireLock \/ UNCHANGED vars
  BY <1>6 DEF GrowOld, TriggerRestore, ExpireLock, vars
<1> QED
  BY <1>1, <1>2, <1>3, <1>4, <1>5, <1>6 DEF Next, Step

(* The type invariant is inductive by itself. *)
LEMMA TypeStep == ASSUME TasksOK, SharedOK, [Next]_vars PROVE TasksOK' /\ SharedOK'
  BY PlaceStep, TaskStep, RowsType, FilesType, FaultsType, SwitchesType, MarksType DEF TasksOK, SharedOK

LEMMA InitType == Init => TasksOK /\ SharedOK
<1> SUFFICES ASSUME Init PROVE TasksOK /\ SharedOK
  OBVIOUS
<1>1. TasksOK
  BY BlankType DEF Init, TasksOK, Place, Retaining, Restoring
<1>2. original \in [Name -> BOOLEAN]
  BY DEF Init
<1>3. faults \in 0..MaxFaults
  BY BackupAssumption DEF Init
<1> QED
  BY <1>1, <1>2, <1>3 DEF Init, SharedOK

(* Every reachable state of the backup tasks is well typed. *)
THEOREM TypeCorrect == Spec => []TypeOK
<1>1. Init => TasksOK /\ SharedOK
  BY InitType
<1>2. TasksOK /\ SharedOK /\ [Next]_vars => TasksOK' /\ SharedOK'
  BY TypeStep
<1>3. TasksOK /\ SharedOK => TypeOK
  BY DEF TasksOK, SharedOK, TypeOK
<1> QED
  BY <1>1, <1>2, <1>3, PTL DEF Spec
-----------------------------------------------------------------------------
(* Only a dump of the whole database touches the row-security switch. *)
LEMMA OutsideDump ==
  ASSUME TasksOK, [Next]_vars,
         \A w \in Worker : /\ ~DisableForce(w) /\ ~StartDump(w) /\ ~EndDump(w)
                           /\ ~EnableForce(w) /\ ~Die(w)
  PROVE  /\ UNCHANGED security
         /\ \A w \in Worker : pc[w] \in DumpPlaces => pc'[w] = pc[w]
<1> USE DEF TasksOK, Goto, DumpPlaces
<1> DEFINE Kept == /\ UNCHANGED security
                   /\ \A v \in Worker : pc[v] \in DumpPlaces => pc'[v] = pc[v]
<1>1. ASSUME NEW w \in Worker, BackupStep(w) PROVE Kept
  BY <1>1 DEF BackupStep, Dump, CompressAndEncrypt, Upload, SaveCompleted, NoLocalCopy, Verify, Done,
     Fail, Finish
<1>2. ASSUME NEW w \in Worker, WalStep(w) PROVE Kept
  BY <1>2 DEF WalStep, BeginWal, Create, CompressWal, CompressedWal, SendWal, NoCloudCopy, ArchiveWal,
     TidyWal, ConfirmWal, Finish
<1>3. ASSUME NEW w \in Worker, RetentionStep(w) PROVE Kept
  BY <1>3 DEF RetentionStep, BeginExpire, ListCloud, ClearPath, DeleteOrphans, ExpireRow, ExpireFile,
     DeleteFile
<1>4. ASSUME NEW w \in Worker, Download(w) \/ EndRestore(w) \/ BeginCleanup(w) \/ Error(w) PROVE Kept
  BY <1>4 DEF Download, EndRestore, BeginCleanup, Error
<1>5. ASSUME NEW w \in Worker, NEW b \in Backup,
             Begin(w, b) \/ ScanWal(w, b) \/ BeginRestore(w, b) \/ Recover(w, b)
      PROVE  Kept
  BY <1>5 DEF Begin, Create, ScanWal, BeginRestore, Recover
<1>6. ASSUME NEW b \in Backup, GrowOld(b) \/ TriggerRestore(b) PROVE Kept
  BY <1>6 DEF GrowOld, TriggerRestore
<1>7. CASE ExpireLock \/ UNCHANGED vars
  BY <1>7 DEF ExpireLock, vars
<1> QED
  BY <1>1, <1>2, <1>3, <1>4, <1>5, <1>6, <1>7 DEF Next, Step

LEMMA SecurityStep == ASSUME TasksOK, RowSecurityBack, [Next]_vars PROVE RowSecurityBack'
<1> USE DEF RowSecurityBack, TasksOK, Goto, DumpPlaces
<1>1. ASSUME NEW w \in Worker, DisableForce(w) \/ StartDump(w) \/ EndDump(w) PROVE RowSecurityBack'
  <2>1. pc'[w] \in DumpPlaces
    BY <1>1 DEF DisableForce, StartDump, EndDump
  <2> QED
    BY <2>1
<1>2. ASSUME NEW w \in Worker, EnableForce(w) PROVE RowSecurityBack'
  <2>1. PICK failed \in BOOLEAN : forced' = (forced \/ ~failed) /\ broken' = failed
    BY <1>2 DEF EnableForce
  <2>2. CASE failed
    BY <2>1, <2>2
  <2>3. CASE ~failed
    BY <2>1, <2>3
  <2> QED
    BY <2>2, <2>3
<1>3. ASSUME NEW w \in Worker, Die(w) PROVE RowSecurityBack'
  BY <1>3 DEF Die
<1>4. CASE \A w \in Worker : /\ ~DisableForce(w) /\ ~StartDump(w) /\ ~EndDump(w)
                             /\ ~EnableForce(w) /\ ~Die(w)
  BY <1>4, OutsideDump DEF security
<1> QED
  BY <1>1, <1>2, <1>3, <1>4

(* However many full backups overlap, fail or swallow errors, row security of the tenants table
   is off only inside a dump, or after a task died in one. *)
THEOREM RowSecurityReturns == Spec => []RowSecurityBack
<1>1. Init => TasksOK /\ SharedOK /\ RowSecurityBack
  BY InitType DEF Init, RowSecurityBack
<1>2. TasksOK /\ SharedOK /\ RowSecurityBack /\ [Next]_vars => TasksOK' /\ SharedOK' /\ RowSecurityBack'
  BY TypeStep, SecurityStep
<1> QED
  BY <1>1, <1>2, PTL DEF Spec
-----------------------------------------------------------------------------
(* Why a file that a verified row stands for is still there: whoever may write a row's columns
   works on a young row, and what the retention tasks have listed is old.  A row grows old only
   when no task works on it, so no two of them meet. *)
Young == /\ \A w \in Worker : pc[w] \in Writing => age[Job(w)] = "new"
         /\ \A b \in Backup : status[b] = "none" => age[b] = "new"
WalTasks == \A w \in Worker : pc[w] \in WalPlace => IsWal(Job(w))
ListedOld == \A w \in Worker : \A b \in Backup : \A s \in Store : Listed(w, b, s) => age[b] # "new"

(* A row that a task saves does not change its age. *)
LEMMA SaveAge ==
  ASSUME TasksOK, SharedOK, Young, NEW w \in Worker, pc[w] \in Writing, NEW st, NEW d,
         Save(Job(w), st, d)
  PROVE  age' = age
  BY TaskParts DEF Save, Young, TasksOK, SharedOK, Job

(* The tasks at the places of continuous_wal_archiving have rows of segments. *)
LEMMA WalTasksStep == ASSUME TasksOK, SharedOK, WalTasks, [Next]_vars PROVE WalTasks'
<1> USE DEF WalTasks, IsWal
<1>1. ASSUME NEW w \in Worker, GoesOn(w) \/ Saves(w) PROVE WalTasks'
  <2>1. OnlyTask(w) /\ (pc'[w] \in WalPlace => pc[w] \in WalPlace /\ Job(w)' = Job(w))
    BY <1>1, GoesOnFrame, SavesFrame DEF WalPlace, Writing, Place, Retaining, Restoring
  <2> QED
    BY <2>1 DEF OnlyTask, Job
<1>2. ASSUME NEW w \in Worker, Starts(w) PROVE WalTasks'
  BY <1>2, StartsFrame DEF OnlyTask, Job
<1>3. ASSUME NEW w \in Worker, Deletes(w) \/ Clears(w) \/ Reads(w) PROVE WalTasks'
  BY <1>3, RestsFrame DEF OnlyTask, Job, WalPlace, Writing, Place, Retaining, Restoring
<1>4. CASE (\E b \in Backup : GrowOld(b)) \/ UNCHANGED <<pc, cur>>
  BY <1>4 DEF GrowOld, Job
<1> QED
  BY <1>1, <1>2, <1>3, <1>4, StepKinds

LEMMA YoungTask ==
  ASSUME TasksOK, SharedOK, Young, ListedOld, NEW w \in Worker, OnlyTask(w), age' = age,
         \A b \in Backup : status'[b] = "none" => age[b] = "new",
         pc'[w] \in Writing => age[Job(w)'] = "new",
         \A b \in Backup : \A s \in Store : Listed(w, b, s)' => Listed(w, b, s) \/ age[b] # "new"
  PROVE  Young' /\ ListedOld'
  BY DEF Young, ListedOld, Listed, OnlyTask, Job

LEMMA YoungStep == ASSUME TasksOK, SharedOK, Young, ListedOld, [Next]_vars PROVE Young' /\ ListedOld'
<1>1. ASSUME NEW w \in Worker, GoesOn(w) PROVE Young' /\ ListedOld'
  <2>1. /\ UNCHANGED <<status, age>> /\ OnlyTask(w) /\ pc[w] \in Writing
        /\ Job(w)' = Job(w) /\ cur'[w].list = cur[w].list
    BY <1>1, GoesOnFrame
  <2> QED
    BY <2>1, YoungTask DEF Young, Listed
<1>2. ASSUME NEW w \in Worker, Saves(w) PROVE Young' /\ ListedOld'
  <2>1. /\ OnlyTask(w) /\ pc[w] \in Writing
        /\ \/ UNCHANGED <<status, paths, age>>
           \/ \E st \in {"COMPLETED", "VERIFIED", "FAILED"} : \E d : Save(Job(w), st, d)
        /\ pc'[w] \in Writing => Job(w)' = Job(w)
        /\ cur'[w].list \subseteq cur[w].list
    BY <1>2, SavesFrame
  <2>2. age' = age
    BY <2>1, SaveAge
  <2>3. \A b \in Backup : status'[b] = "none" => status[b] = "none"
    BY <2>1 DEF Save, SharedOK
  <2> QED
    BY <2>1, <2>2, <2>3, YoungTask DEF Young, Listed
<1>3. ASSUME NEW w \in Worker, Starts(w) PROVE Young' /\ ListedOld'
  <2>1. /\ age' = age /\ OnlyTask(w) /\ cur'[w].list \subseteq cur[w].list
        /\ \A b \in Backup : status'[b] \in {status[b], "IN_PROGRESS"}
        /\ \/ pc[w] \in Writing /\ Job(w)' = Job(w)
           \/ Job(w)' \in Backup /\ status[Job(w)'] = "none"
    BY <1>3, StartsFrame
  <2>2. \A b \in Backup : status'[b] = "none" => age[b] = "new"
    BY <2>1 DEF Young
  <2>3. age[Job(w)'] = "new"
    BY <2>1 DEF Young
  <2> QED
    BY <2>1, <2>2, <2>3, YoungTask DEF Listed
<1>4. ASSUME NEW w \in Worker, Deletes(w) \/ Clears(w) \/ Reads(w) PROVE Young' /\ ListedOld'
  <2>1. /\ age' = age /\ OnlyTask(w) /\ pc'[w] \notin Writing
        /\ \A b \in Backup : status'[b] \in {status[b], "deleted"}
    BY <1>4, RestsFrame
  <2>2. \A b \in Backup : status'[b] = "none" => age[b] = "new"
    BY <2>1 DEF Young
  <2>3. \A b \in Backup : \A s \in Store : Listed(w, b, s)' => Listed(w, b, s) \/ age[b] # "new"
    BY <1>4, ListsOld
  <2> QED
    BY <2>1, <2>2, <2>3, YoungTask
<1>5. ASSUME NEW b \in Backup, GrowOld(b) PROVE Young' /\ ListedOld'
  <2>1. /\ \A w \in Worker : pc[w] \in Writing => Job(w) # b
        /\ status[b] # "none" /\ UNCHANGED <<status, pc, cur>>
    BY <1>5 DEF GrowOld, InUse, Exists, Writing, Job
  <2>2. age' = [age EXCEPT ![b] = IF @ = "new" THEN "month" ELSE "year"]
    BY <1>5 DEF GrowOld
  <2>3. age'[b] # "new" /\ \A c \in Backup \ {b} : age'[c] = age[c]
    BY <2>2 DEF SharedOK
  <2>4. ASSUME NEW w \in Worker, pc[w] \in Writing PROVE age'[Job(w)] = "new"
    <3>1. Job(w) \in Backup \ {b}
      BY <2>1, <2>4, TaskParts DEF Job, TasksOK
    <3> QED
      BY <2>3, <2>4, <3>1 DEF Young
  <2>5. Young'
    BY <2>1, <2>3, <2>4 DEF Young, Job
  <2>6. ListedOld'
    BY <2>1, <2>3 DEF ListedOld, Listed
  <2> QED
    BY <2>5, <2>6
<1>6. CASE UNCHANGED <<status, age, pc, cur>>
  BY <1>6 DEF Young, ListedOld, Listed, Job
<1> QED
  BY <1>1, <1>2, <1>3, <1>4, <1>5, <1>6, StepKinds

LEMMA VerifiedStep ==
  ASSUME TasksOK, SharedOK, Young, ListedOld, WalTasks, VerifiedEverywhere, [Next]_vars
  PROVE  VerifiedEverywhere'
<1> USE DEF VerifiedEverywhere, IsWal
<1>0. ASSUME NEW w \in Worker PROVE Job(w) \in Backup
  BY TaskParts DEF Job, TasksOK
<1>1. ASSUME NEW w \in Worker, GoesOn(w) PROVE VerifiedEverywhere'
  <2>1. UNCHANGED <<status, age>>
    BY <1>1, GoesOnFrame
  <2>2. ASSUME NEW b \in Backup, ~IsWal(b), held[File[b]] = Store PROVE held'[File[b]] = Store
    <3>1. CASE held' = held
      BY <2>2, <3>1
    <3>2. ASSUME NEW s \in Store, Upload(w, s) PROVE held'[File[b]] = Store
      BY <2>2, <3>2, NameOf DEF Upload, SharedOK
    <3>3. ASSUME NEW s \in Cloud, SendWal(w, s) PROVE held'[File[b]] = Store
      <4>1. File[Job(w)] # File[b]
        BY <1>0, <2>2, <3>3, BackupAssumption DEF SendWal, WalTasks, WalPlace
      <4>2. held'[File[b]] = held[File[b]]
        BY <3>3, <4>1, NameOf DEF SendWal, SharedOK, Job
      <4> QED
        BY <2>2, <4>2
    <3> QED
      BY <1>1, <3>1, <3>2, <3>3 DEF GoesOn, DisableForce, StartDump, EndDump, EnableForce, Dump,
         CompressAndEncrypt, NoLocalCopy, Error, CompressWal, CompressedWal, NoCloudCopy, TidyWal, files
  <2> QED
    BY <2>1, <2>2
<1>2. ASSUME NEW w \in Worker, Verify(w) PROVE VerifiedEverywhere'
  <2>1. PICK valid \in BOOLEAN :
           /\ valid => Store \subseteq held[File[Job(w)]]
           /\ IF valid THEN Save(Job(w), "VERIFIED", cur[w].stored) ELSE UNCHANGED <<status, age>>
    BY <1>2 DEF Verify, Job
  <2>2. held' = held /\ held[File[Job(w)]] \subseteq Store
    BY <1>0, <1>2, NameOf DEF Verify, files, SharedOK
  <2>3. CASE ~valid
    BY <2>1, <2>2, <2>3
  <2>4. CASE valid
    <3>1. age' = age
      BY <1>2, <2>1, <2>4, SaveAge DEF Verify, Writing, Place, Retaining, Restoring
    <3> QED
      BY <1>0, <2>1, <2>2, <2>4, <3>1 DEF Save, SharedOK
  <2> QED
    BY <2>3, <2>4
<1>3. ASSUME NEW w \in Worker, SaveCompleted(w) \/ ArchiveWal(w) \/ Fail(w) \/ ConfirmWal(w)
      PROVE  VerifiedEverywhere'
  <2>1. PICK st \in {"COMPLETED", "VERIFIED", "FAILED"} :
           /\ \E d : Save(Job(w), st, d)
           /\ st = "VERIFIED" => IsWal(Job(w))
    BY <1>3 DEF SaveCompleted, ArchiveWal, Fail, ConfirmWal, WalTasks, WalPlace, Job
  <2>2. age' = age /\ held' = held
    BY <1>3, <2>1, SavesFrame, SaveAge DEF Saves
  <2> QED
    BY <1>0, <2>1, <2>2 DEF Save, SharedOK
<1>4. ASSUME NEW w \in Worker, Starts(w) PROVE VerifiedEverywhere'
  BY <1>4, StartsFrame
<1>5. ASSUME NEW w \in Worker, NEW b \in Backup, NEW s \in Store, ExpireFile(w, b, s) \/ DeleteFile(w, b, s)
      PROVE  VerifiedEverywhere'
  <2>1. UNCHANGED <<status, age>> /\ age[b] # "new"
    BY <1>5 DEF ExpireFile, DeleteFile, ListedOld, rows
  <2>2. ASSUME NEW c \in Backup, ~IsWal(c), c # b PROVE held'[File[c]] = held[File[c]]
    BY <1>5, <2>2, BackupAssumption, NameOf DEF ExpireFile, DeleteFile, SharedOK
  <2> QED
    BY <2>1, <2>2
<1>6. ASSUME NEW w \in Worker, Clears(w) \/ Reads(w) PROVE VerifiedEverywhere'
  <2>1. held' = held
    BY <1>6 DEF Clears, ClearPath, DeleteOrphans, ExpireRow, Reads, Done, Die, Download, EndRestore,
       BeginExpire, BeginCleanup, ListCloud, BeginRestore, Recover, files
  <2> QED
    BY <1>6, <2>1, RestsFrame
<1>7. ASSUME NEW b \in Backup, GrowOld(b) PROVE VerifiedEverywhere'
  BY <1>7 DEF GrowOld, SharedOK, files
<1>8. CASE UNCHANGED <<status, age, held>>
  BY <1>8
<1> QED
  BY <1>1, <1>2, <1>3, <1>4, <1>5, <1>6, <1>7, <1>8, StepKinds DEF Saves, Deletes

(* All stores hold the file of a verified backup for its first month, whatever uploads,
   retention tasks and dying workers do meanwhile. *)
THEOREM VerifiedHolds == Spec => []VerifiedEverywhere
<1> DEFINE IInv == TasksOK /\ SharedOK /\ Young /\ ListedOld /\ WalTasks /\ VerifiedEverywhere
<1>1. Init => IInv
  <2>1. Init => TasksOK /\ SharedOK
    BY InitType
  <2>2. Init => Young /\ ListedOld /\ WalTasks /\ VerifiedEverywhere
    BY DEF Init, Young, ListedOld, Listed, WalTasks, WalPlace, Blank, VerifiedEverywhere, Writing, Retaining, Restoring
  <2> QED BY <2>1, <2>2
<1>2. IInv /\ [Next]_vars => IInv'
  BY TypeStep, YoungStep, WalTasksStep, VerifiedStep
<1> QED
  BY <1>1, <1>2, PTL DEF Spec
-----------------------------------------------------------------------------
(* The files that rows name.  At most one task at a time writes the rows and the files of
   one name, unless it is the name of a segment that two have handled at once. *)
BackupPlace == DumpPlaces \cup {"dump", "encrypt", "upload", "save", "verify", "monitor", "done"}
Storing(w) == pc[w] \in Writing \ {"create"}

(* What the place of a task says of its variables, and of the row and the files of its job. *)
Shape(w) == /\ pc[w] \in BackupPlace => ~IsWal(Job(w))
            /\ pc[w] \in WalPlace => IsWal(Job(w))
            /\ pc[w] \in {"compress", "compressing"} => cur[w].stored = {}
            /\ pc[w] \in {"tidy", "confirm"} => cur[w].stored # {} /\ encName[Job(w)]
            /\ pc[w] = "failed" /\ IsWal(Job(w)) /\ cur[w].stored # {} => encName[Job(w)]
            /\ pc[w] = "send" => scratch[File[Job(w)]] = "whole" \/ File[Job(w)] \in contended
            /\ Storing(w) => status[Job(w)] # "none"
            /\ Storing(w) /\ IsWal(Job(w)) /\ cur[w].stored # {} => cur[w].stored \cap Cloud # {}
            /\ pc[w] \in {"local", "cloud"} /\ cur[w].todo # {} => age[Job(w)] # "new"
TaskShape == \A w \in Worker : Shape(w)

(* A file of b may be missing from s: a row of a segment names the local store for nothing,
   and of a contended one half may have been sent. *)
InStore(b, s) == s \in held[File[b]] \/ (IsWal(b) /\ s = Local) \/ File[b] \in contended
Holds(w) == \A s \in cur[w].stored : Storing(w) => InStore(Job(w), s)
StoredHeld == \A w \in Worker : Holds(w)

RowShape == \A b \in Backup : paths[b] # {} =>
    /\ Exists(b)
    /\ IsWal(b) => encName[b] /\ (age[b] = "new" => paths[b] \cap Cloud # {})
    /\ \A c \in Backup \ {b} : File[c] = File[b] => paths[c] = {} \/ File[b] \in contended

(* No other task writes the same file, no other row names it, and no retention task is
   about to delete it from a cloud store. *)
Alone(w) ==
    /\ \A v \in Worker \ {w} : pc[v] \in Writing => File[Job(v)] # File[Job(w)]
    /\ \A b \in Backup \ {Job(w)} : File[b] = File[Job(w)] => paths[b] = {}
    /\ \A v \in Worker : \A b \in Backup : \A s \in Cloud :
          Listed(v, b, s) => File[b] # File[Job(w)]
WritesAlone == \A w \in Worker : pc[w] \in Writing => Alone(w) \/ File[Job(w)] \in contended

ListedAlone == \A v \in Worker : \A b \in Backup : \A s \in Cloud : Listed(v, b, s) =>
    /\ \A c \in Backup \ {b} : File[c] = File[b] => paths[c] = {} \/ File[b] \in contended
    /\ ~IsWal(b) => age[b] = "year"

FileInvariant == TaskShape /\ StoredHeld /\ RowShape /\ WritesAlone /\ ListedAlone /\ Restorable

(* A task that writes nothing, after a step that changes no row and no file; what it
   puts on its list is old, and its row names the store. *)
LEMMA ReadStep ==
  ASSUME TasksOK, SharedOK, Young, ListedOld, FileInvariant, NEW w \in Worker, OnlyTask(w),
         UNCHANGED <<status, paths, encName, age, held, scratch, contended>>,
         pc'[w] \notin Writing,
         pc'[w] \in {"local", "cloud"} => cur'[w].todo = {},
         \A b \in Backup : \A s \in Cloud : Listed(w, b, s)' =>
            \/ Listed(w, b, s)
            \/ s \in paths[b] /\ age[b] # "new" /\ (~IsWal(b) => age[b] = "year")
  PROVE  FileInvariant'
<1> USE DEF FileInvariant, OnlyTask
<1>1. TaskShape'
  BY DEF TaskShape, Shape, Job, Storing, Writing, WalPlace, BackupPlace, Place, Retaining, Restoring, DumpPlaces
<1>2. StoredHeld'
  BY DEF StoredHeld, Holds, InStore, Job, Storing
<1>3. RowShape' /\ Restorable'
  BY DEF RowShape, Exists, Restorable, Expired
<1>4. WritesAlone'
  <2> SUFFICES ASSUME NEW v \in Worker, pc'[v] \in Writing, File[Job(v)'] \notin contended PROVE Alone(v)'
    BY DEF WritesAlone
  <2>1. v # w /\ Alone(v) /\ Job(v)' = Job(v) /\ pc[v] \in Writing /\ Job(v) \in Backup
    BY TaskParts DEF WritesAlone, Job, TasksOK
  <2>2. \A u \in Worker : \A b \in Backup : \A s \in Cloud :
           Listed(u, b, s)' => File[b] # File[Job(v)]
    <3> SUFFICES ASSUME NEW b \in Backup, NEW s \in Cloud, Listed(w, b, s)'
                 PROVE  File[b] # File[Job(v)]
      BY <2>1 DEF Alone, Listed
    <3>1. CASE Listed(w, b, s)
      BY <2>1, <3>1 DEF Alone
    <3>2. CASE s \in paths[b] /\ age[b] # "new"
      BY <2>1, <3>2 DEF Alone, Young, Job
    <3> QED
      BY <3>1, <3>2
  <2>3. \A u \in Worker \ {v} : pc'[u] \in Writing => File[Job(u)'] # File[Job(v)]
    BY <2>1 DEF Alone, Job
  <2> QED
    BY <2>1, <2>2, <2>3 DEF Alone
<1>5. ListedAlone'
  BY DEF ListedAlone, Listed, RowShape
<1> QED
  BY <1>1, <1>2, <1>3, <1>4, <1>5

(* A task that goes on with its job, adds to its files and leaves the rows alone. *)
LEMMA WriteStep ==
  ASSUME TasksOK, SharedOK, Young, ListedOld, FileInvariant, NEW w \in Worker, OnlyTask(w),
         pc[w] \in Writing, pc'[w] \in Writing, Job(w)' = Job(w), cur'[w].list \subseteq cur[w].list,
         UNCHANGED <<paths, age, contended>>,
         \A b \in Backup : status'[b] \in {status[b], "IN_PROGRESS"},
         \A b \in Backup : IsWal(b) /\ encName[b] => encName'[b],
         \A f \in Name \ contended : held[f] \subseteq held'[f],
         \A f \in Name \ {File[Job(w)]} : scratch'[f] = scratch[f],
         Shape(w)', Holds(w)'
  PROVE  FileInvariant'
<1> USE DEF FileInvariant, OnlyTask
<1>0. \A v \in Worker : Job(v) \in Backup /\ File[Job(v)] \in Name /\ Job(v)' = Job(v)
  BY TaskParts, NameOf DEF Job, TasksOK
<1>1. TaskShape'
  <2> SUFFICES ASSUME NEW v \in Worker \ {w} PROVE Shape(v)'
    BY DEF TaskShape
  <2>1. pc[v] = "send" => \/ scratch'[File[Job(v)]] = scratch[File[Job(v)]]
                          \/ File[Job(v)] \in contended
    BY <1>0 DEF WritesAlone, Alone, Writing, Place, Retaining, Restoring
  <2>2. pc[v] \in {"tidy", "confirm"} => encName'[Job(v)]
    BY <1>0 DEF TaskShape, Shape, WalPlace
  <2> QED
    BY <1>0, <2>1, <2>2 DEF TaskShape, Shape, Storing
<1>2. StoredHeld'
  BY <1>0 DEF StoredHeld, Holds, InStore, Storing, Job
<1>3. RowShape' /\ Restorable'
  BY NameOf DEF RowShape, Exists, Restorable, Expired
<1>4. WritesAlone'
  BY <1>0 DEF WritesAlone, Alone, Listed
<1>5. ListedAlone'
  BY DEF ListedAlone, Listed
<1> QED
  BY <1>1, <1>2, <1>3, <1>4, <1>5

(* A task that saves the row of its job with stores that hold the file. *)
LEMMA SaveStep ==
  ASSUME TasksOK, SharedOK, Young, ListedOld, FileInvariant, NEW w \in Worker, OnlyTask(w),
         Storing(w), NEW st \in {"COMPLETED", "VERIFIED", "FAILED"}, NEW d \in SUBSET Store,
         Save(Job(w), st, d), UNCHANGED <<held, scratch, contended>>,
         \A b \in Backup : IsWal(b) /\ encName[b] => encName'[b],
         \A s \in d : InStore(Job(w), s),
         d # {} /\ IsWal(Job(w)) => encName'[Job(w)] /\ d \cap Cloud # {},
         cur'[w].list \subseteq cur[w].list,
         pc'[w] \in Writing => pc[w] \in Writing /\ Job(w)' = Job(w),
         Shape(w)', Holds(w)'
  PROVE  FileInvariant'
<1> USE DEF FileInvariant, OnlyTask
<1>0. /\ pc[w] \in Writing /\ age' = age
      /\ \A v \in Worker : Job(v) \in Backup /\ File[Job(v)] \in Name
      /\ \A v \in Worker \ {w} : Job(v)' = Job(v)
  BY TaskParts, NameOf, SaveAge DEF Job, TasksOK, Storing
<1>1. /\ status'[Job(w)] = st /\ paths'[Job(w)] = d
      /\ \A b \in Backup \ {Job(w)} : status'[b] = status[b] /\ paths'[b] = paths[b]
  BY <1>0 DEF Save, SharedOK
<1>2. Alone(w) \/ File[Job(w)] \in contended
  BY <1>0 DEF WritesAlone
<1>3. TaskShape'
  <2> SUFFICES ASSUME NEW v \in Worker \ {w} PROVE Shape(v)'
    BY DEF TaskShape
  <2>1. Storing(v) => status'[Job(v)] # "none"
    BY <1>0, <1>1 DEF TaskShape, Shape
  <2>2. pc[v] \in {"tidy", "confirm"} => encName'[Job(v)]
    BY <1>0 DEF TaskShape, Shape, WalPlace
  <2>3. IsWal(Job(v)) /\ encName[Job(v)] => encName'[Job(v)]
    BY <1>0
  <2> QED
    BY <1>0, <2>1, <2>2, <2>3 DEF TaskShape, Shape, Storing
<1>4. StoredHeld'
  BY <1>0 DEF StoredHeld, Holds, InStore, Storing, Job
<1>5. RowShape'
  <2> SUFFICES ASSUME NEW b \in Backup, paths'[b] # {}
               PROVE  /\ Exists(b)'
                      /\ IsWal(b) => encName'[b] /\ (age'[b] = "new" => paths'[b] \cap Cloud # {})
                      /\ \A c \in Backup \ {b} : File[c] = File[b] => paths'[c] = {} \/ File[b] \in contended
    BY DEF RowShape
  <2>1. CASE b = Job(w)
    BY <1>1, <1>2, <2>1 DEF Exists, Alone
  <2>2. CASE b # Job(w)
    <3>1. File[b] # File[Job(w)] \/ File[b] \in contended
      BY <1>1, <1>2, <2>2 DEF Alone
    <3> QED
      BY <1>0, <1>1, <2>2, <3>1 DEF RowShape, Exists
  <2> QED
    BY <2>1, <2>2
<1>6. Restorable'
  BY <1>0, <1>1 DEF Restorable, Expired, InStore
<1>7. WritesAlone'
  <2> SUFFICES ASSUME NEW v \in Worker, pc'[v] \in Writing, File[Job(v)'] \notin contended PROVE Alone(v)'
    BY DEF WritesAlone
  <2>1. pc[v] \in Writing /\ Job(v)' = Job(v) /\ Alone(v)
    BY <1>0 DEF WritesAlone
  <2>2. \A u \in Worker \ {v} : pc'[u] \in Writing => File[Job(u)'] # File[Job(v)]
    BY <1>0, <2>1 DEF Alone
  <2>3. \A b \in Backup \ {Job(v)} : File[b] = File[Job(v)] => paths'[b] = {}
    BY <1>0, <1>1, <1>2, <2>1 DEF Alone
  <2>4. \A u \in Worker : \A b \in Backup : \A s \in Cloud :
           Listed(u, b, s)' => File[b] # File[Job(v)]
    BY <2>1 DEF Alone, Listed
  <2> QED
    BY <2>1, <2>2, <2>3, <2>4 DEF Alone
<1>8. ListedAlone'
  <2> SUFFICES ASSUME NEW v \in Worker, NEW b \in Backup, NEW s \in Cloud, Listed(v, b, s)'
               PROVE  /\ \A c \in Backup \ {b} : File[c] = File[b] => paths'[c] = {} \/ File[b] \in contended
                      /\ ~IsWal(b) => age'[b] = "year"
    BY DEF ListedAlone
  <2>1. Listed(v, b, s)
    BY DEF Listed
  <2> QED
    BY <1>0, <1>1, <1>2, <2>1 DEF ListedAlone, Alone
<1> QED
  BY <1>3, <1>4, <1>5, <1>6, <1>7, <1>8

(* A retention task that deletes a file it has listed, from a cloud store or of a row
   that is old. *)
LEMMA DeleteStep ==
  ASSUME TasksOK, SharedOK, Young, ListedOld, FileInvariant, NEW w \in Worker, OnlyTask(w),
         UNCHANGED <<status, paths, encName, age, scratch, contended>>, pc[w] \notin Writing,
         pc'[w] = pc[w], cur'[w].list \subseteq cur[w].list,
         NEW b \in Backup, NEW s \in Store, Listed(w, b, s),
         \A f \in Name : held[f] \subseteq held'[f] \cup (IF f = File[b] THEN {s} ELSE {}),
         pc[w] \in {"local", "cloud"} /\ cur'[w].todo # {} => Job(w)' = b
  PROVE  FileInvariant'
<1> USE DEF FileInvariant, OnlyTask
<1>0. /\ \A v \in Worker : Job(v) \in Backup
      /\ \A c \in Backup : \A r \in Store : r \in held[File[c]] =>
            r \in held'[File[c]] \/ (File[c] = File[b] /\ r = s)
      /\ age[b] # "new" /\ (s \in Cloud /\ ~IsWal(b) => age[b] = "year")
      /\ s \in Cloud \/ s = Local
  BY TaskParts, NameOf DEF Job, TasksOK, ListedOld, ListedAlone, Listed, Store
<1>1. TaskShape'
  BY <1>0 DEF TaskShape, Shape, Job, Storing, Writing, WalPlace, BackupPlace, Place, Retaining, Restoring, DumpPlaces
<1>2. StoredHeld'
  <2> SUFFICES ASSUME NEW v \in Worker, NEW r \in cur'[v].stored, Storing(v)'
               PROVE  InStore(Job(v), r)' /\ Job(v)' = Job(v)
    BY DEF StoredHeld, Holds, InStore
  <2>1. v # w /\ cur'[v] = cur[v] /\ Storing(v) /\ pc[v] \in Writing /\ Job(v)' = Job(v)
    BY DEF Storing, Job
  <2>2. r \in Store /\ InStore(Job(v), r) /\ Job(v) # b /\ Job(v) \in Backup
    BY <1>0, <2>1, TaskParts DEF StoredHeld, Holds, Young, Job, TasksOK
  <2>3. CASE File[Job(v)] = File[b]
    <3>1. s \notin Cloud \/ File[Job(v)] \in contended
      BY <2>1, <2>3 DEF WritesAlone, Alone
    <3>2. IsWal(Job(v))
      BY <2>2, <2>3, BackupAssumption
    <3> QED
      BY <1>0, <2>1, <2>2, <3>1, <3>2 DEF InStore
  <2>4. CASE File[Job(v)] # File[b]
    BY <1>0, <2>1, <2>2, <2>4 DEF InStore
  <2> QED
    BY <2>3, <2>4
<1>3. RowShape'
  BY DEF RowShape, Exists
<1>4. Restorable'
  <2> SUFFICES ASSUME NEW c \in Backup, NEW r \in paths[c]
               PROVE  \/ r \in held'[File[c]] \/ Expired(c, r) \/ (IsWal(c) /\ r = Local)
                      \/ File[c] \in contended
    BY DEF Restorable, Expired
  <2>0. /\ r \in Store
        /\ \/ r \in held[File[c]] \/ Expired(c, r) \/ (IsWal(c) /\ r = Local)
           \/ File[c] \in contended
    BY DEF Restorable, SharedOK
  <2>1. CASE File[c] = File[b] /\ r = s
    <3>1. CASE c = b
      BY <1>0, <2>1, <3>1 DEF Expired, SharedOK
    <3>2. CASE c # b
      <4>1. IsWal(c)
        BY <2>1, <3>2, BackupAssumption
      <4>2. s \notin Cloud \/ File[c] \in contended
        BY <2>1, <3>2 DEF ListedAlone
      <4> QED
        BY <1>0, <2>1, <4>1, <4>2
    <3> QED
      BY <3>1, <3>2
  <2>2. CASE ~(File[c] = File[b] /\ r = s)
    BY <1>0, <2>0, <2>2
  <2> QED
    BY <2>1, <2>2
<1>5. WritesAlone'
  BY <1>0 DEF WritesAlone, Alone, Listed, Job
<1>6. ListedAlone'
  BY DEF ListedAlone, Listed
<1> QED
  BY <1>1, <1>2, <1>3, <1>4, <1>5, <1>6

(* A retention task that clears paths, all of a row or of an old one, and removes rows
   without a path. *)
LEMMA ClearStep ==
  ASSUME TasksOK, SharedOK, Young, ListedOld, FileInvariant, NEW w \in Worker, OnlyTask(w),
         UNCHANGED <<encName, age, held, scratch, contended>>, pc[w] \notin Writing, pc'[w] \notin Writing,
         pc'[w] \in {"local", "cloud"} => cur'[w].todo = {},
         cur'[w].list \subseteq cur[w].list,
         \A b \in Backup :
            /\ paths'[b] = paths[b] \/ paths'[b] = {}
                  \/ (paths'[b] \subseteq paths[b] /\ age[b] # "new")
            /\ status'[b] = status[b] \/ (status'[b] = "deleted" /\ paths'[b] = {})
  PROVE  FileInvariant'
<1> USE DEF FileInvariant, OnlyTask
<1>0. /\ \A v \in Worker : Job(v) \in Backup
      /\ \A b \in Backup : paths'[b] \subseteq paths[b]
  BY TaskParts DEF Job, TasksOK
<1>1. TaskShape'
  BY <1>0 DEF TaskShape, Shape, Job, Storing, Writing, WalPlace, BackupPlace, Place, Retaining, Restoring, DumpPlaces
<1>2. StoredHeld'
  BY DEF StoredHeld, Holds, InStore, Job, Storing
<1>3. RowShape'
  BY <1>0 DEF RowShape, Exists
<1>4. Restorable'
  BY <1>0 DEF Restorable, Expired
<1>5. WritesAlone'
  BY <1>0 DEF WritesAlone, Alone, Listed, Job
<1>6. ListedAlone'
  BY <1>0 DEF ListedAlone, Listed
<1> QED
  BY <1>1, <1>2, <1>3, <1>4, <1>5, <1>6

(* Begin and ScanWal: a task that takes up a name nobody writes, or a contended one. *)
LEMMA StartStep ==
  ASSUME TasksOK, SharedOK, Young, ListedOld, FileInvariant, Young', NEW w \in Worker, OnlyTask(w),
         NEW b \in Backup, status[b] = "none", UNCHANGED <<paths, encName, age, held, scratch>>,
         \A c \in Backup \ {b} : status'[c] = status[c], status'[b] \in {"none", "IN_PROGRESS"},
         contended \subseteq contended',
         pc[w] \notin Writing, pc'[w] \in Writing, Job(w)' = b, Storing(w)' => cur'[w].stored = {},
         \A v \in Worker \ {w} : pc[v] \in Writing => File[Job(v)] # File[b] \/ File[b] \in contended',
         \A c \in Backup : File[c] = File[b] => paths[c] = {},
         \A v \in Worker : \A c \in Backup : \A s \in Cloud : Listed(v, c, s)' =>
            Listed(v, c, s) /\ (File[c] # File[b] \/ File[b] \in contended'),
         Shape(w)'
  PROVE  FileInvariant'
<1> USE DEF FileInvariant, OnlyTask
<1>0. \A v \in Worker : Job(v) \in Backup
  BY TaskParts DEF Job, TasksOK
<1>1. TaskShape'
  BY <1>0 DEF TaskShape, Shape, Job, Storing
<1>2. StoredHeld'
  BY DEF StoredHeld, Holds, InStore, Job, Storing
<1>3. RowShape' /\ Restorable'
  BY DEF RowShape, Exists, Restorable, Expired
<1>4. WritesAlone'
  BY <1>0 DEF WritesAlone, Alone, Job
<1>5. ListedAlone'
  BY DEF ListedAlone
<1> QED
  BY <1>1, <1>2, <1>3, <1>4, <1>5

(* A task that goes on with its backup: what it has stored is there, and for a segment its
   encrypted file is whole while it is sent. *)
LEMMA GoesOnShape ==
  ASSUME TasksOK, SharedOK, FileInvariant, NEW w \in Worker, GoesOn(w)
  PROVE  /\ contended' = contended
         /\ \A b \in Backup : IsWal(b) /\ encName[b] => encName'[b]
         /\ \A f \in Name \ contended : held[f] \subseteq held'[f]
         /\ \A f \in Name \ {File[Job(w)]} : scratch'[f] = scratch[f]
         /\ Shape(w)' /\ Holds(w)'
<1> DEFINE Kept == /\ \A b \in Backup : IsWal(b) /\ encName[b] => encName'[b]
                   /\ \A f \in Name \ contended : held[f] \subseteq held'[f]
                   /\ \A f \in Name \ {File[Job(w)]} : scratch'[f] = scratch[f]
<1>0. /\ Job(w) \in Backup /\ File[Job(w)] \in Name /\ cur[w] \in Task /\ Shape(w) /\ Holds(w)
      /\ UNCHANGED <<status, contended>> /\ Job(w)' = Job(w) /\ pc[w] \in Writing /\ pc'[w] \in Writing
  BY GoesOnFrame, MarksFrame, TaskParts, NameOf DEF Job, TasksOK, FileInvariant, TaskShape, StoredHeld
<1> USE DEF Shape, Holds, InStore, Storing, Writing, WalPlace, BackupPlace, Place, Retaining, Restoring, DumpPlaces
<1>1. CASE \/ DisableForce(w) \/ StartDump(w) \/ EndDump(w) \/ EnableForce(w) \/ Dump(w)
           \/ CompressAndEncrypt(w)
  <2>1. /\ UNCHANGED <<encName, held, scratch>>
        /\ pc[w] \in BackupPlace /\ pc'[w] \in BackupPlace \cup {"failed"}
    BY <1>1 DEF DisableForce, StartDump, EndDump, EnableForce, Dump, CompressAndEncrypt, TasksOK, Goto,
       rows, files
  <2>2. cur'[w].stored = cur[w].stored
    BY <1>0, <1>1 DEF DisableForce, StartDump, EndDump, EnableForce, Dump, CompressAndEncrypt, TasksOK, Task
  <2> QED
    BY <1>0, <2>1, <2>2
<1>2. ASSUME NEW s \in Store, Upload(w, s) PROVE Kept /\ Shape(w)' /\ Holds(w)'
  <2>1. PICK kept, told \in BOOLEAN :
           /\ told => kept
           /\ held' = [held EXCEPT ![File[Job(w)]] = IF kept THEN @ \cup {s} ELSE @]
           /\ cur' = [cur EXCEPT ![w].todo = @ \ {s},
                                 ![w].stored = IF told THEN @ \cup {s} ELSE @]
    BY <1>2 DEF Upload, Job
  <2>2. cur'[w].stored = IF told THEN cur[w].stored \cup {s} ELSE cur[w].stored
    BY <1>0, <2>1 DEF TasksOK, Task
  <2>3. /\ \A f \in Name : held[f] \subseteq held'[f]
        /\ kept => s \in held'[File[Job(w)]]
    BY <1>0, <2>1 DEF SharedOK
  <2>4. /\ UNCHANGED <<encName, scratch>>
        /\ pc[w] \in BackupPlace /\ pc'[w] \in BackupPlace
    BY <1>2 DEF Upload, TasksOK, Goto, rows
  <2>5. Shape(w)'
    BY <1>0, <2>4
  <2>6. Holds(w)'
    BY <1>0, <2>1, <2>2, <2>3, <2>4
  <2> QED
    BY <2>3, <2>4, <2>5, <2>6
<1>3. CASE NoLocalCopy(w)
  <2>1. /\ UNCHANGED <<encName, held, scratch>> /\ cur'[w].stored = {}
        /\ pc[w] = "save" /\ pc'[w] = "failed"
    BY <1>0, <1>3 DEF NoLocalCopy, TasksOK, Goto, Task, rows, files
  <2> QED
    BY <1>0, <2>1
<1>4. CASE CompressWal(w) \/ CompressedWal(w)
  <2>1. /\ UNCHANGED <<encName, held>> /\ pc'[w] \in {"compressing", "send", "failed"}
        /\ pc[w] \in {"compress", "compressing"}
        /\ pc'[w] = "send" => scratch'[File[Job(w)]] = "whole"
        /\ \A f \in Name \ {File[Job(w)]} : scratch'[f] = scratch[f]
    BY <1>0, <1>4 DEF CompressWal, CompressedWal, SharedOK, TasksOK, Goto, rows, Job
  <2>2. cur'[w].stored = cur[w].stored
    BY <1>0, <1>4 DEF CompressWal, CompressedWal, TasksOK, Task
  <2> QED
    BY <1>0, <2>1, <2>2
<1>5. ASSUME NEW s \in Cloud, SendWal(w, s) PROVE Kept /\ Shape(w)' /\ Holds(w)'
  <2>1. /\ UNCHANGED <<encName, scratch>> /\ pc[w] = "send" /\ pc'[w] \in {"send", "archive"}
        /\ scratch[File[Job(w)]] = "whole" \/ File[Job(w)] \in contended
    BY <1>0, <1>5 DEF SendWal, TasksOK, Goto, rows
  <2>2. PICK kept, told, whole \in BOOLEAN :
           /\ told => kept
           /\ scratch[File[Job(w)]] = "whole" /\ File[Job(w)] \notin contended => whole
           /\ held' = [held EXCEPT ![File[Job(w)]] = IF ~kept THEN @
                                                     ELSE IF whole THEN @ \cup {s} ELSE @ \ {s}]
           /\ cur' = [cur EXCEPT ![w].todo = @ \ {s},
                                 ![w].stored = IF told THEN @ \cup {s} ELSE @]
    BY <1>5, <2>1 DEF SendWal, Job
  <2>3. cur'[w].stored = IF told THEN cur[w].stored \cup {s} ELSE cur[w].stored
    BY <1>0, <2>2 DEF TasksOK, Task
  <2>4. /\ \A f \in Name \ contended : held[f] \subseteq held'[f]
        /\ kept => s \in held'[File[Job(w)]] \/ File[Job(w)] \in contended
    BY <1>0, <2>1, <2>2 DEF SharedOK
  <2>5. Shape(w)'
    BY <1>0, <2>1, <2>3
  <2>6. Holds(w)'
    BY <1>0, <2>1, <2>2, <2>3, <2>4
  <2> QED
    BY <2>1, <2>4, <2>5, <2>6
<1>6. CASE NoCloudCopy(w) \/ TidyWal(w)
  <2>1. /\ UNCHANGED <<encName, held, scratch, cur>>
        /\ \/ pc[w] = "archive" /\ pc'[w] = "failed" /\ cur[w].stored = {}
           \/ pc[w] = "tidy" /\ pc'[w] = "confirm"
    BY <1>6 DEF NoCloudCopy, TidyWal, TasksOK, Goto, rows, files
  <2> QED
    BY <1>0, <2>1
<1>7. CASE Error(w)
  <2> DEFINE stored == IF IsWal(Job(w)) THEN cur[w].stored \cup {Local} ELSE cur[w].stored
  <2>1. /\ pc[w] \in {"save", "verify", "monitor", "archive", "confirm"} /\ pc'[w] = "failed"
        /\ pc[w] = "archive" => cur[w].stored # {}
        /\ encName' = [encName EXCEPT ![Job(w)] = IsWal(Job(w))]
        /\ cur'[w].stored = stored /\ UNCHANGED <<held, scratch>>
    BY <1>0, <1>7 DEF Error, Goto, Job, TasksOK, Task, files
  <2>2. IsWal(Job(w)) => cur[w].stored # {} /\ stored \cap Cloud # {} /\ encName'[Job(w)]
    BY <1>0, <2>1 DEF SharedOK
  <2>3. \A b \in Backup : IsWal(b) /\ encName[b] => encName'[b]
    BY <2>1 DEF SharedOK
  <2> HIDE DEF stored
  <2>4. Shape(w)'
    BY <1>0, <2>1, <2>2
  <2>5. Holds(w)'
    BY <1>0, <2>1, <2>2 DEF stored
  <2> QED
    BY <1>0, <2>1, <2>3, <2>4, <2>5
<1> QED
  BY <1>0, <1>1, <1>2, <1>3, <1>4, <1>5, <1>6, <1>7 DEF GoesOn


(* A task that saves a row names stores that hold the file. *)
LEMMA SavesFile ==
  ASSUME TasksOK, SharedOK, Young, ListedOld, FileInvariant, NEW w \in Worker, Saves(w), ~Verify(w)
  PROVE  FileInvariant'
<1> USE DEF Storing, Writing, WalPlace, BackupPlace, Place, Retaining, Restoring, DumpPlaces
<1>0. /\ Job(w) \in Backup /\ cur[w] \in Task /\ cur[w].stored \subseteq Store /\ Shape(w) /\ Holds(w)
      /\ OnlyTask(w) /\ held' = held /\ cur'[w].list \subseteq cur[w].list
      /\ pc'[w] \in Writing => Job(w)' = Job(w)
  BY SavesFrame, TaskParts DEF Job, TasksOK, FileInvariant, TaskShape, StoredHeld
<1>1. scratch' = scratch /\ contended' = contended /\ Storing(w)
  BY MarksFrame DEF Saves, SaveCompleted, Fail, ArchiveWal, ConfirmWal, files
<1>2. CASE Fail(w) \/ ConfirmWal(w)
  <2>1. PICK st \in {"FAILED", "VERIFIED"} : Save(Job(w), st, cur[w].stored)
    BY <1>2 DEF Fail, ConfirmWal, Job
  <2>2. encName' = encName /\ pc'[w] \in {"expire", "idle"} /\ cur'[w] = Blank
    BY <1>2 DEF Fail, ConfirmWal, Finish, Goto, TasksOK
  <2>3. pc[w] \in {"failed", "confirm"}
    BY <1>2 DEF Fail, ConfirmWal
  <2>4. /\ \A s \in cur[w].stored : InStore(Job(w), s)
        /\ cur[w].stored # {} /\ IsWal(Job(w)) => encName'[Job(w)] /\ cur[w].stored \cap Cloud # {}
    BY <1>0, <1>1, <2>2, <2>3 DEF Shape, Holds
  <2>5. Shape(w)' /\ Holds(w)'
    BY <2>2 DEF Shape, Holds, Blank
  <2> QED
    BY <1>0, <1>1, <2>1, <2>2, <2>4, <2>5, SaveStep
<1>3. CASE SaveCompleted(w)
  <2>1. /\ Save(Job(w), "COMPLETED", cur[w].stored)
        /\ UNCHANGED <<encName, cur>> /\ pc[w] = "save" /\ pc'[w] = "verify"
    BY <1>3 DEF SaveCompleted, Goto, TasksOK, Job
  <2>2. ~IsWal(Job(w)) /\ status'[Job(w)] = "COMPLETED" /\ \A s \in cur[w].stored : InStore(Job(w), s)
    BY <1>0, <2>1 DEF Save, SharedOK, Shape, Holds
  <2>3. Shape(w)' /\ Holds(w)'
    BY <1>0, <1>1, <2>1, <2>2 DEF Shape, Holds, InStore
  <2> QED
    BY <1>0, <1>1, <2>1, <2>2, <2>3, SaveStep
<1>4. CASE ArchiveWal(w)
  <2>1. /\ Save(Job(w), "COMPLETED", cur[w].stored \cup {Local})
        /\ encName' = [encName EXCEPT ![Job(w)] = TRUE]
        /\ pc[w] = "archive" /\ pc'[w] = "tidy" /\ cur[w].stored # {}
    BY <1>4 DEF ArchiveWal, Goto, TasksOK, Job
  <2>2. cur'[w].stored = cur[w].stored \cup {Local}
    BY <1>0, <1>4 DEF ArchiveWal, TasksOK, Task
  <2>3. /\ IsWal(Job(w)) /\ status'[Job(w)] = "COMPLETED" /\ encName'[Job(w)]
        /\ \A b \in Backup : IsWal(b) /\ encName[b] => encName'[b]
    BY <1>0, <2>1 DEF Save, SharedOK, Shape
  <2>4. /\ \A s \in cur[w].stored \cup {Local} : InStore(Job(w), s)
        /\ (cur[w].stored \cup {Local}) \cap Cloud # {}
    BY <1>0, <1>1, <2>1, <2>3 DEF Shape, Holds, InStore
  <2>5. Shape(w)'
    BY <1>0, <2>1, <2>2, <2>3, <2>4 DEF Shape
  <2>6. Holds(w)'
    BY <1>0, <1>1, <2>1, <2>2, <2>3, <2>4 DEF Holds, InStore
  <2>7. cur[w].stored \cup {Local} \in SUBSET Store
    BY <1>0, CloudStore
  <2> QED
    BY <1>0, <1>1, <2>1, <2>3, <2>4, <2>5, <2>6, <2>7, SaveStep
<1> QED
  BY <1>2, <1>3, <1>4 DEF Saves

(* Every step of the backups is of one of the six kinds, or changes none of this. *)
LEMMA FileStep ==
  ASSUME TasksOK, SharedOK, Young, ListedOld, Young', FileInvariant, [Next]_vars
  PROVE  FileInvariant'
<1>0. ASSUME NEW w \in Worker
      PROVE  Job(w) \in Backup /\ cur[w] \in Task /\ pc[w] \in Place /\ Shape(w) /\ Holds(w)
  BY TaskParts DEF Job, TasksOK, FileInvariant, TaskShape, StoredHeld
<1>1. ASSUME NEW w \in Worker, GoesOn(w) PROVE FileInvariant'
  <2>1. /\ OnlyTask(w) /\ pc[w] \in Writing /\ pc'[w] \in Writing /\ Job(w)' = Job(w)
        /\ cur'[w].list \subseteq cur[w].list /\ UNCHANGED <<paths, age>>
        /\ \A b \in Backup : status'[b] \in {status[b], "IN_PROGRESS"}
    BY <1>1, GoesOnFrame
  <2> QED
    BY <1>1, <2>1, GoesOnShape, WriteStep
<1>2. ASSUME NEW w \in Worker, Verify(w) PROVE FileInvariant'
  <2>1. /\ OnlyTask(w) /\ pc[w] = "verify" /\ pc'[w] \in {"monitor", "done"}
        /\ UNCHANGED <<cur, encName, held, scratch, contended>>
    BY <1>0, <1>2 DEF Verify, OnlyTask, Goto, TasksOK, files, marks
  <2>2. /\ pc[w] \in Writing /\ pc'[w] \in Writing /\ Storing(w) /\ Storing(w)' /\ ~IsWal(Job(w))
        /\ Job(w)' = Job(w) /\ \A s \in cur[w].stored : InStore(Job(w), s)
    BY <1>0, <2>1 DEF Storing, Job, Shape, Holds, Writing, WalPlace, BackupPlace, Place, Retaining, Restoring,
       DumpPlaces
  <2>3. CASE UNCHANGED <<status, paths, age>>
    <3>1. Shape(w)' /\ Holds(w)'
      BY <1>0, <2>1, <2>2, <2>3 DEF Shape, Holds, InStore, Job, Storing, Writing, WalPlace,
         BackupPlace, Place, Retaining, Restoring, DumpPlaces
    <3> QED
      BY <2>1, <2>2, <2>3, <3>1, WriteStep
  <2>4. CASE Save(Job(w), "VERIFIED", cur[w].stored)
    <3>1. status'[Job(w)] = "VERIFIED"
      BY <1>0, <2>4 DEF Save, SharedOK
    <3>2. Shape(w)' /\ Holds(w)'
      BY <1>0, <2>1, <2>2, <3>1 DEF Shape, Holds, InStore, Job, Storing, Writing, WalPlace,
         BackupPlace, Place, Retaining, Restoring, DumpPlaces
    <3>3. cur[w].stored \in SUBSET Store
      BY <1>0, TaskParts
    <3> QED
      BY <2>1, <2>2, <2>4, <3>2, <3>3, SaveStep
  <2> QED
    BY <1>2, <2>3, <2>4 DEF Verify, Job
<1>3. ASSUME NEW w \in Worker, Reads(w) PROVE FileInvariant'
  <2>1. OnlyTask(w) /\ pc'[w] \notin Writing
    BY <1>3, RestsFrame
  <2>2. UNCHANGED <<status, paths, encName, age, held, scratch, contended>>
    BY <1>3, MarksFrame DEF Reads, Done, Die, Download, EndRestore, BeginExpire, BeginCleanup, ListCloud, BeginRestore,
       Recover, rows, files
  <2>3. pc'[w] \in {"local", "cloud"} => cur'[w].todo = {}
    <3>1. CASE Done(w) \/ Die(w) \/ Download(w) \/ EndRestore(w) \/ BeginExpire(w)
               \/ \E b \in Backup : BeginRestore(w, b) \/ Recover(w, b)
      BY <3>1 DEF Done, Die, Download, EndRestore, BeginExpire, BeginRestore, Recover, Finish, Goto, TasksOK
    <3>2. CASE BeginCleanup(w)
      BY <3>2 DEF BeginCleanup, Blank, TasksOK
    <3>3. CASE ListCloud(w)
      BY <1>0, <3>3 DEF ListCloud, TasksOK, Task
    <3> QED
      BY <1>3, <3>1, <3>2, <3>3 DEF Reads
  <2>4. \A b \in Backup : \A s \in Cloud : Listed(w, b, s)' =>
           \/ Listed(w, b, s)
           \/ s \in paths[b] /\ age[b] # "new" /\ (~IsWal(b) => age[b] = "year")
    BY <1>3, ListsOld, CloudStore
  <2> QED
    BY <2>1, <2>2, <2>3, <2>4, ReadStep
<1>4. ASSUME NEW w \in Worker, NEW b \in Backup, NEW s \in Store, ExpireFile(w, b, s) \/ DeleteFile(w, b, s)
      PROVE  FileInvariant'
  <2>1. /\ OnlyTask(w) /\ UNCHANGED <<status, paths, encName, age, scratch, pc, contended>>
        /\ pc[w] \notin Writing /\ Listed(w, b, s)
    BY <1>4 DEF ExpireFile, DeleteFile, OnlyTask, TasksOK, rows, marks, Writing, Retaining, Restoring
  <2>2. /\ cur'[w].list \subseteq cur[w].list
        /\ pc[w] \in {"local", "cloud"} => Job(w)' = b
    BY <1>0, <1>4 DEF ExpireFile, DeleteFile, Job, Task, TasksOK
  <2>3. \A f \in Name : held[f] \subseteq held'[f] \cup (IF f = File[b] THEN {s} ELSE {})
    BY <1>4 DEF ExpireFile, DeleteFile, SharedOK
  <2> QED
    BY <2>1, <2>2, <2>3, DeleteStep
<1>5. ASSUME NEW w \in Worker, Clears(w) PROVE FileInvariant'
  <2>1. /\ OnlyTask(w) /\ UNCHANGED <<encName, age, held, scratch, contended>>
        /\ pc[w] \notin Writing /\ pc'[w] \notin Writing
    BY <1>5, MarksFrame DEF Clears, ClearPath, DeleteOrphans, ExpireRow, OnlyTask, Goto, TasksOK, files, Writing, Retaining, Restoring
  <2>2. /\ pc'[w] \in {"local", "cloud"} => cur'[w].todo = {}
        /\ cur'[w].list \subseteq cur[w].list
    <3>1. CASE ClearPath(w)
      BY <1>0, <3>1 DEF ClearPath, TasksOK, Task
    <3>2. CASE DeleteOrphans(w)
      BY <3>2 DEF DeleteOrphans, Blank, TasksOK
    <3>3. ASSUME NEW b \in Backup, ExpireRow(w, b)
          PROVE  pc'[w] \in {"idle", "expiring"} /\ cur'[w].list \subseteq cur[w].list
      BY <1>0, <3>3 DEF ExpireRow, Goto, TasksOK, Task
    <3> QED
      BY <1>5, <3>1, <3>2, <3>3 DEF Clears
  <2>3. \A c \in Backup :
           /\ paths'[c] = paths[c] \/ paths'[c] = {} \/ (paths'[c] \subseteq paths[c] /\ age[c] # "new")
           /\ status'[c] = status[c] \/ (status'[c] = "deleted" /\ paths'[c] = {})
    BY <1>0, <1>5 DEF Clears, ClearPath, DeleteOrphans, ExpireRow, RemoveRows, Shape, Job, SharedOK
  <2> QED
    BY <2>1, <2>2, <2>3, ClearStep
<1>6. ASSUME NEW w \in Worker, BeginWal(w) PROVE FileInvariant'
  <2>1. /\ OnlyTask(w) /\ pc[w] = "create" /\ pc'[w] \in {"compress", "failed"}
        /\ cur'[w] = [Blank EXCEPT !.job = Job(w)]
        /\ UNCHANGED <<paths, age, encName, held, scratch, contended>>
        /\ \A b \in Backup : status'[b] = IF b = Job(w) THEN "IN_PROGRESS" ELSE status[b]
    BY <1>0, <1>6 DEF BeginWal, Create, OnlyTask, Job, Goto, TasksOK, SharedOK, files, marks
  <2>2. /\ Job(w)' = Job(w) /\ cur'[w].stored = {} /\ cur'[w].list = {}
        /\ pc[w] \in Writing /\ pc'[w] \in Writing
    BY <2>1 DEF Blank, Job, Writing, WalPlace, BackupPlace, Place, Retaining, Restoring, DumpPlaces
  <2>3. Shape(w)' /\ Holds(w)'
    BY <1>0, <2>1, <2>2 DEF Shape, Holds, Writing, WalPlace, BackupPlace, Place, Retaining, Restoring, DumpPlaces
  <2>4. \A b \in Backup : status'[b] \in {status[b], "IN_PROGRESS"}
    BY <2>1
  <2> QED
    BY <2>1, <2>2, <2>3, <2>4, WriteStep
<1>7. ASSUME NEW w \in Worker, NEW b \in Backup, Begin(w, b) PROVE FileInvariant'
  <2>1. /\ OnlyTask(w) /\ UNCHANGED <<paths, encName, age, held, scratch, contended>>
        /\ pc[w] \notin Writing /\ pc'[w] \in Writing /\ cur'[w] = [Blank EXCEPT !.job = b]
        /\ status[b] = "none" /\ ~IsWal(b) /\ status'[b] = "IN_PROGRESS"
        /\ \A c \in Backup \ {b} : status'[c] = status[c]
    BY <1>0, <1>7 DEF Begin, Create, Unused, Taken, OnlyTask, Goto, TasksOK, SharedOK, files, marks, Writing,
       WalPlace, BackupPlace, Place, Retaining, Restoring, DumpPlaces
  <2>2. Job(w)' = b /\ cur'[w].stored = {} /\ cur'[w].list = {}
    BY <2>1 DEF Blank, Job
  <2>3. \A v \in Worker \ {w} : pc[v] \in Writing => File[Job(v)] # File[b]
    <3> SUFFICES ASSUME NEW v \in Worker \ {w}, pc[v] \in Writing PROVE File[Job(v)] # File[b]
      OBVIOUS
    <3>1. Job(v) # b
      BY <1>0, <1>7, <2>1 DEF Begin, Unused, Taken, Job, Shape, Storing
    <3> QED
      BY <1>0, <2>1, <3>1, BackupAssumption
  <2>4. \A c \in Backup : File[c] = File[b] => c = b /\ paths[c] = {}
    BY <2>1, BackupAssumption DEF FileInvariant, RowShape, Exists
  <2>5. \A v \in Worker : \A c \in Backup : \A s \in Cloud :
           Listed(v, c, s)' => Listed(v, c, s) /\ File[c] # File[b]
    BY <2>1, <2>2, <2>4, CloudStore DEF Listed, OnlyTask, ListedOld, Young
  <2>6. Shape(w)'
    BY <1>7, <2>1, <2>2 DEF Begin, Shape, Goto, Storing, TasksOK, Writing, WalPlace, BackupPlace,
       Place, Retaining, Restoring, DumpPlaces
  <2>7. /\ status'[b] \in {"none", "IN_PROGRESS"}
        /\ \A c \in Backup : File[c] = File[b] => paths[c] = {}
        /\ Storing(w)' => cur'[w].stored = {}
        /\ contended \subseteq contended'
    BY <2>1, <2>2, <2>4
  <2>8. /\ \A v \in Worker \ {w} : pc[v] \in Writing => File[Job(v)] # File[b] \/ File[b] \in contended'
        /\ \A v \in Worker : \A c \in Backup : \A s \in Cloud :
              Listed(v, c, s)' => Listed(v, c, s) /\ (File[c] # File[b] \/ File[b] \in contended')
    BY <2>3, <2>5
  <2> QED
    BY <2>1, <2>2, <2>6, <2>7, <2>8, StartStep
<1>8. ASSUME NEW w \in Worker, NEW b \in Backup, ScanWal(w, b) PROVE FileInvariant'
  <2>1. /\ OnlyTask(w) /\ UNCHANGED <<status, paths, encName, age, held, scratch>>
        /\ pc[w] = "idle" /\ pc'[w] = "create" /\ cur' = [cur EXCEPT ![w].job = b]
        /\ status[b] = "none" /\ IsWal(b)
        /\ ~AlreadyArchived(File[b]) /\ contended \subseteq contended'
        /\ File[b] \in contended' \/ \A v \in Worker : ~Handles(v, File[b])
    BY <1>0, <1>8 DEF ScanWal, Unused, Taken, OnlyTask, Goto, TasksOK, rows, files
  <2>2. Job(w)' = b /\ cur'[w].stored = cur[w].stored /\ cur'[w].list = cur[w].list /\ pc'[w] \in Writing
        /\ pc[w] \notin Writing /\ ~Storing(w)'
    BY <1>0, <2>1 DEF Job, Task, TasksOK, Storing, Writing, WalPlace, BackupPlace, Place, Retaining, Restoring,
       DumpPlaces
  <2>3. \A v \in Worker \ {w} : pc[v] \in Writing => File[Job(v)] # File[b] \/ File[b] \in contended'
    BY <2>1 DEF Handles, Job, Writing
  <2>4. \A c \in Backup : File[c] = File[b] => paths[c] = {}
    BY <2>1, BackupAssumption DEF AlreadyArchived, FileInvariant, RowShape
  <2>5. \A v \in Worker : \A c \in Backup : \A s \in Cloud :
           Listed(v, c, s)' => Listed(v, c, s) /\ (File[c] # File[b] \/ File[b] \in contended')
    <3> SUFFICES ASSUME NEW v \in Worker, NEW c \in Backup, NEW s \in Cloud, Listed(v, c, s)'
                 PROVE  Listed(v, c, s) /\ (File[c] # File[b] \/ File[b] \in contended')
      OBVIOUS
    <3>1. <<c, s>> \in cur[v].list
      BY <2>1, <2>2 DEF Listed, OnlyTask
    <3>2. <<c, s>>[1] = c
      OBVIOUS
    <3> QED
      BY <2>1, <3>1, <3>2 DEF Handles, Listed
  <2>6. Shape(w)'
    BY <2>1, <2>2 DEF Shape, Writing, WalPlace, BackupPlace, Place, Retaining, Restoring, DumpPlaces
  <2> QED
    BY <2>1, <2>2, <2>3, <2>4, <2>5, <2>6, StartStep
<1>9. ASSUME NEW b \in Backup, GrowOld(b) PROVE FileInvariant'
  <2>1. /\ UNCHANGED <<status, paths, encName, held, scratch, pc, cur, contended>>
        /\ ~InUse(b) /\ age[b] # "year"
        /\ age' = [age EXCEPT ![b] = IF @ = "new" THEN "month" ELSE "year"]
    BY <1>9 DEF GrowOld, files, marks
  <2>2. /\ age'[b] # "new" /\ \A c \in Backup : age'[c] = "new" => age[c] = "new"
        /\ \A c \in Backup : age[c] = "month" => age'[c] \in {"month", "year"}
        /\ \A c \in Backup : age[c] = "year" => age'[c] = "year"
    BY <2>1 DEF SharedOK
  <2>3. TaskShape' /\ StoredHeld'
    BY <1>0, <2>1, <2>2 DEF FileInvariant, TaskShape, Shape, StoredHeld, Holds, InStore, Job, Storing
  <2>4. RowShape' /\ Restorable'
    BY <2>1, <2>2 DEF FileInvariant, RowShape, Exists, Restorable, Expired
  <2>5. WritesAlone' /\ ListedAlone'
    BY <2>1, <2>2 DEF FileInvariant, WritesAlone, Alone, ListedAlone, Listed, Job
  <2> QED
    BY <2>3, <2>4, <2>5 DEF FileInvariant
<1>10. CASE UNCHANGED <<status, paths, encName, age, held, original, scratch, pc, cur, marks>>
  BY <1>10 DEF marks, FileInvariant, TaskShape, Shape, StoredHeld, Holds, InStore, RowShape, Exists, Restorable,
               Expired, WritesAlone, Alone, ListedAlone, Listed, Job, Storing
<1>11. ASSUME NEW w \in Worker, Saves(w) PROVE FileInvariant'
  BY <1>2, <1>11, SavesFile
<1>12. ASSUME NEW w \in Worker, Starts(w) \/ Deletes(w) PROVE FileInvariant'
  BY <1>4, <1>6, <1>7, <1>8, <1>12 DEF Starts, Deletes
<1> QED
  BY <1>1, <1>3, <1>5, <1>9, <1>10, <1>11, <1>12, StepKinds

(* At the start there is no file, no path and no task. *)
LEMMA FileInit == Init => FileInvariant
  BY DEF Init, FileInvariant, TaskShape, Shape, StoredHeld, Holds, RowShape, WritesAlone, ListedAlone,
         Restorable, Listed, Storing, Writing, WalPlace, BackupPlace, Place, Retaining, Restoring, DumpPlaces, Blank

(* What a row names is there: for any number of tasks that overlap in any way, uploads that
   fail or lie, retentions and deaths; of segments, those that no two tasks have handled at
   once (tasks.py:1017 takes up one that another task handles). *)
THEOREM RestorableHolds == Spec => []Restorable
<1>1. Init => TasksOK /\ SharedOK /\ Young /\ ListedOld /\ FileInvariant
  BY InitType, FileInit DEF Init, Young, ListedOld, Listed, Writing, Place, Retaining, Restoring, Blank
<1>2. TasksOK /\ SharedOK /\ Young /\ ListedOld /\ FileInvariant /\ [Next]_vars
        => TasksOK' /\ SharedOK' /\ Young' /\ ListedOld' /\ FileInvariant'
  BY TypeStep, YoungStep, FileStep
<1>3. FileInvariant => Restorable
  BY DEF FileInvariant
<1> QED
  BY <1>1, <1>2, <1>3, PTL DEF Spec

(* A young row of a segment with a path names a cloud store, which holds the file, unless two
   tasks have handled the segment at once: the segment may leave the WAL directory. *)
THEOREM WalKeptHolds == Spec => []WalKept
<1>1. Init => TasksOK /\ SharedOK /\ Young /\ ListedOld /\ FileInvariant
  BY InitType, FileInit DEF Init, Young, ListedOld, Listed, Writing, Place, Retaining, Restoring, Blank
<1>2. TasksOK /\ SharedOK /\ Young /\ ListedOld /\ FileInvariant /\ [Next]_vars
        => TasksOK' /\ SharedOK' /\ Young' /\ ListedOld' /\ FileInvariant'
  BY TypeStep, YoungStep, FileStep
<1>3. FileInvariant => WalKept
  <2> SUFFICES ASSUME FileInvariant, NEW b \in Backup, IsWal(b), paths[b] # {}, age[b] = "new"
               PROVE  held[File[b]] \cap Cloud # {} \/ File[b] \in contended
    BY DEF WalKept
  <2>1. PICK s \in paths[b] : s \in Cloud
    BY DEF FileInvariant, RowShape
  <2>2. s # Local
    BY <2>1, BackupAssumption
  <2> QED
    BY <2>1, <2>2 DEF FileInvariant, Restorable, Expired
<1> QED
  BY <1>1, <1>2, <1>3, PTL DEF Spec
-----------------------------------------------------------------------------
(* The same promise for all backups but those of segments, whatever overlaps: a file has
   one row, and nobody deletes the file of a row that a task still writes. *)
NamedHeld == \A b \in Backup : \A s \in paths[b] :
                ~IsWal(b) => s \in held[File[b]] \/ Expired(b, s)
StoredThere == \A w \in Worker : pc[w] \in Writing /\ ~IsWal(Job(w)) =>
                   cur[w].stored \subseteq held[File[Job(w)]]
ListedExpired == \A w \in Worker : \A b \in Backup : \A s \in Store :
                    ~IsWal(b) /\ Listed(w, b, s) => Expired(b, s)
PlainFiles == NamedHeld /\ StoredThere /\ ListedExpired

\* What a task may have stored after a step, and what it may have listed.
StoresOn(w) == pc'[w] \in Writing /\ ~IsWal(Job(w)') => \A s \in cur'[w].stored :
                  \/ s \in held'[File[Job(w)']]
                  \/ pc[w] \in Writing /\ Job(w)' = Job(w) /\ s \in cur[w].stored
ListsOn(w) == \A b \in Backup : \A s \in Store :
                 ~IsWal(b) /\ Listed(w, b, s)' => Listed(w, b, s) \/ Expired(b, s)'

Typed == TasksOK /\ SharedOK

(* A row names no store it did not name, unless the file is there; a file disappears
   when it has expired; and no row grows younger. *)
LEMMA PlainKeeps ==
  ASSUME Typed, Typed', Young', PlainFiles,
         \A b \in Backup : \A s \in paths'[b] :
            ~IsWal(b) => s \in paths[b] \/ s \in held'[File[b]],
         \A b \in Backup : \A s \in Store : Expired(b, s) => Expired(b, s)',
         \A b \in Backup : \A s \in held[File[b]] :
            ~IsWal(b) => s \in held'[File[b]] \/ Expired(b, s)',
         \A w \in Worker : StoresOn(w) /\ ListsOn(w)
  PROVE  PlainFiles'
<1>1. NamedHeld'
  <2> SUFFICES ASSUME NEW b \in Backup, NEW s \in paths'[b], ~IsWal(b), s \notin held'[File[b]]
               PROVE  Expired(b, s)'
    BY DEF NamedHeld, IsWal
  <2>1. s \in paths[b] /\ s \in Store
    BY DEF Typed, SharedOK
  <2>2. CASE Expired(b, s)
    BY <2>1, <2>2
  <2>3. CASE s \in held[File[b]]
    BY <2>3
  <2> QED
    BY <2>1, <2>2, <2>3 DEF PlainFiles, NamedHeld
<1>2. StoredThere'
  <2> SUFFICES ASSUME NEW w \in Worker, pc'[w] \in Writing, ~IsWal(Job(w)'), NEW s \in cur'[w].stored
               PROVE  s \in held'[File[Job(w)']]
    BY DEF StoredThere, IsWal
  <2>1. CASE pc[w] \in Writing /\ Job(w)' = Job(w) /\ s \in cur[w].stored
    <3>1. Job(w) \in Backup /\ s \in held[File[Job(w)]]
      BY <2>1, TaskParts DEF PlainFiles, StoredThere, Typed, TasksOK, Job
    <3>2. age'[Job(w)] = "new"
      BY <2>1 DEF Young, Job
    <3>3. ~Expired(Job(w), s)'
      BY <2>1, <3>2 DEF Expired, Job
    <3> QED
      BY <2>1, <3>1, <3>3 DEF Expired, IsWal
  <2> QED
    BY <2>1 DEF StoresOn
<1>3. ListedExpired'
  BY DEF ListedExpired, ListsOn, PlainFiles, IsWal
<1> QED
  BY <1>1, <1>2, <1>3 DEF PlainFiles

LEMMA PlainTask ==
  ASSUME Typed, Typed', Young', PlainFiles, NEW w \in Worker, OnlyTask(w), age' = age,
         \A b \in Backup : \A s \in paths'[b] :
            ~IsWal(b) => s \in paths[b] \/ s \in held'[File[b]],
         \A b \in Backup : \A s \in held[File[b]] :
            ~IsWal(b) => s \in held'[File[b]] \/ Expired(b, s),
         StoresOn(w), ListsOn(w)
  PROVE  PlainFiles'
<1>1. \A b \in Backup : \A s : Expired(b, s)' <=> Expired(b, s)
  BY DEF Expired, IsWal
<1>2. ASSUME NEW v \in Worker \ {w} PROVE StoresOn(v) /\ ListsOn(v)
  BY DEF StoresOn, ListsOn, OnlyTask, Job, Listed
<1> QED
  BY <1>1, <1>2, PlainKeeps

(* A task that changes no path and no file, and lists nothing. *)
LEMMA PlainReads ==
  ASSUME Typed, Typed', Young', PlainFiles, NEW w \in Worker, OnlyTask(w),
         UNCHANGED <<paths, age, held>>, ListsOn(w),
         \/ pc'[w] \notin Writing \/ IsWal(Job(w)') \/ cur'[w].stored = {}
         \/ pc[w] \in Writing /\ Job(w)' = Job(w) /\ cur'[w].stored = cur[w].stored
  PROVE  PlainFiles'
<1>1. StoresOn(w)
  BY DEF StoresOn, IsWal
<1> QED
  BY <1>1, PlainTask

(* A row is saved with what its task has stored. *)
LEMMA PlainSaves ==
  ASSUME Typed, Typed', Young, Young', PlainFiles, NEW w \in Worker, OnlyTask(w),
         pc[w] \in Writing, NEW st, NEW d, Save(Job(w), st, d), held' = held,
         IsWal(Job(w)) \/ d \subseteq cur[w].stored, ListsOn(w),
         \/ pc'[w] \notin Writing \/ IsWal(Job(w)')
         \/ Job(w)' = Job(w) /\ cur'[w].stored = cur[w].stored
  PROVE  PlainFiles'
<1>1. age' = age
  BY SaveAge DEF Typed, Job
<1>2. Job(w) \in Backup
  BY TaskParts DEF Typed, TasksOK, Job
<1>3. \A b \in Backup : \A s \in paths'[b] : ~IsWal(b) => s \in paths[b] \/ s \in held'[File[b]]
  <2>1. ~IsWal(Job(w)) => d \subseteq held[File[Job(w)]]
    BY DEF PlainFiles, StoredThere
  <2> QED
    BY <1>2, <2>1 DEF Save, Typed, SharedOK
<1>4. StoresOn(w)
  BY DEF StoresOn, IsWal
<1> QED
  BY <1>1, <1>3, <1>4, PlainTask

LEMMA PlainStep == ASSUME Typed, Typed', Young, Young', WalTasks, PlainFiles, [Next]_vars
                   PROVE PlainFiles'
<1> USE DEF Typed
<1>0. ASSUME NEW w \in Worker PROVE Job(w) \in Backup /\ cur[w] \in Task
  BY TaskParts DEF Job, TasksOK
<1>1. ASSUME NEW w \in Worker,
             \/ DisableForce(w) \/ StartDump(w) \/ EnableForce(w) \/ Dump(w)
             \/ CompressWal(w) \/ NoCloudCopy(w) \/ TidyWal(w)
      PROVE  PlainFiles'
  <2>1. UNCHANGED <<paths, age, held, cur>> /\ pc[w] \in Writing /\ OnlyTask(w)
    BY <1>1 DEF DisableForce, StartDump, EnableForce, Dump, CompressWal, NoCloudCopy, TidyWal,
       OnlyTask, Goto, TasksOK, rows, files, Writing, Place, Retaining, Restoring, DumpPlaces
  <2> QED
    BY <2>1, PlainReads DEF ListsOn, Listed, Job
<1>2. ASSUME NEW w \in Worker, EndDump(w) \/ CompressAndEncrypt(w) \/ CompressedWal(w)
      PROVE  PlainFiles'
  <2>1. UNCHANGED <<paths, age, held>> /\ pc[w] \in Writing /\ OnlyTask(w)
    BY <1>2 DEF EndDump, CompressAndEncrypt, CompressedWal,
       OnlyTask, Goto, TasksOK, rows, files, Writing, Place, Retaining, Restoring, DumpPlaces
  <2>2. Job(w)' = Job(w) /\ cur'[w].stored = cur[w].stored /\ cur'[w].list = cur[w].list
    BY <1>2, <1>0 DEF EndDump, CompressAndEncrypt, CompressedWal, TasksOK, Task, Job
  <2> QED
    BY <2>1, <2>2, PlainReads DEF ListsOn, Listed
<1>3. ASSUME NEW w \in Worker, NEW s \in Store, Upload(w, s) PROVE PlainFiles'
  <2>1. UNCHANGED <<paths, age>> /\ pc[w] \in Writing /\ OnlyTask(w)
    BY <1>3 DEF Upload, OnlyTask, Goto, TasksOK, rows, Writing, Place, Retaining, Restoring, DumpPlaces
  <2>2. PICK kept, told \in BOOLEAN :
           /\ told => kept
           /\ held' = [held EXCEPT ![File[Job(w)]] = IF kept THEN @ \cup {s} ELSE @]
           /\ cur' = [cur EXCEPT ![w].todo = @ \ {s},
                                 ![w].stored = IF told THEN @ \cup {s} ELSE @]
    BY <1>3 DEF Upload, Job
  <2>3. /\ Job(w)' = Job(w) /\ cur'[w].list = cur[w].list
        /\ cur'[w].stored = IF told THEN cur[w].stored \cup {s} ELSE cur[w].stored
    BY <2>2, <1>0 DEF TasksOK, Task, Job
  <2>4. /\ \A f \in Name : held[f] \subseteq held'[f]
        /\ kept => s \in held'[File[Job(w)]]
    BY <2>2, <1>0, NameOf DEF SharedOK
  <2>5. ASSUME NEW t \in cur'[w].stored
        PROVE  t \in cur[w].stored \/ t \in held'[File[Job(w)]]
    <3>1. CASE t \in cur[w].stored
      BY <3>1
    <3>2. CASE t = s /\ told
      BY <2>2, <2>4, <3>2
    <3> QED
      BY <2>3, <3>1, <3>2
  <2>6. StoresOn(w)
    BY <2>1, <2>3, <2>5 DEF StoresOn
  <2>7. ListsOn(w)
    BY <2>3 DEF ListsOn, Listed
  <2> QED
    BY <2>1, <2>4, <2>6, <2>7, NameOf, PlainTask
<1>4. ASSUME NEW w \in Worker, NEW s \in Cloud, SendWal(w, s) PROVE PlainFiles'
  <2>1. UNCHANGED <<paths, age>> /\ OnlyTask(w) /\ IsWal(Job(w))
    BY <1>4 DEF SendWal, OnlyTask, Goto, TasksOK, rows, WalTasks, WalPlace, Job
  <2>2. Job(w)' = Job(w) /\ cur'[w].list = cur[w].list
    BY <1>4, <1>0 DEF SendWal, TasksOK, Task, Job
  <2>3. \A f \in Name \ {File[Job(w)]} : held'[f] = held[f]
    BY <1>4 DEF SendWal, SharedOK, Job
  <2>4. \A b \in Backup : ~IsWal(b) => File[b] # File[Job(w)]
    BY <1>0, <2>1, BackupAssumption
  <2>5. StoresOn(w) /\ ListsOn(w)
    BY <2>1, <2>2 DEF StoresOn, ListsOn, Listed
  <2> QED
    BY <2>1, <2>3, <2>4, <2>5, NameOf, PlainTask
<1>5. ASSUME NEW w \in Worker, SaveCompleted(w) \/ Verify(w) PROVE PlainFiles'
  <2>1. /\ held' = held /\ cur' = cur /\ pc[w] \in Writing /\ OnlyTask(w)
    BY <1>5 DEF SaveCompleted, Verify, OnlyTask, Goto, TasksOK, files, Writing, Place, Retaining, Restoring,
       DumpPlaces
  <2>2. CASE UNCHANGED <<paths, age>>
    BY <2>1, <2>2, PlainReads DEF ListsOn, Listed, Job
  <2>3. CASE \E st : Save(Job(w), st, cur[w].stored)
    BY <2>1, <2>3, PlainSaves DEF ListsOn, Listed, Job
  <2> QED
    BY <1>5, <2>2, <2>3 DEF SaveCompleted, Verify, Job
<1>6. ASSUME NEW w \in Worker, Fail(w) \/ ConfirmWal(w) PROVE PlainFiles'
  <2>1. /\ held' = held /\ cur'[w].list = {} /\ OnlyTask(w)
        /\ pc[w] \in Writing /\ pc'[w] \notin Writing
    BY <1>6 DEF Fail, ConfirmWal, Finish, Blank, OnlyTask, Goto, TasksOK, files, Writing, Place,
       Retaining, Restoring, DumpPlaces
  <2>2. PICK st \in {"FAILED", "VERIFIED"} : Save(Job(w), st, cur[w].stored)
    BY <1>6 DEF Fail, ConfirmWal, Job
  <2> QED
    BY <2>1, <2>2, PlainSaves DEF ListsOn, Listed
<1>7. ASSUME NEW w \in Worker, ArchiveWal(w) PROVE PlainFiles'
  <2>1. held' = held /\ pc[w] \in Writing /\ OnlyTask(w) /\ IsWal(Job(w))
    BY <1>7 DEF ArchiveWal, OnlyTask, Goto, TasksOK, files, Writing, Place, Retaining, Restoring, DumpPlaces,
       WalTasks, WalPlace, Job
  <2>2. Job(w)' = Job(w) /\ cur'[w].list = cur[w].list
    BY <1>7, <1>0 DEF ArchiveWal, TasksOK, Task, Job
  <2>3. Save(Job(w), "COMPLETED", cur[w].stored \cup {Local})
    BY <1>7 DEF ArchiveWal, Job
  <2> QED
    BY <2>1, <2>2, <2>3, PlainSaves DEF ListsOn, Listed
<1>8. ASSUME NEW w \in Worker, Error(w) PROVE PlainFiles'
  <2>1. UNCHANGED <<paths, age, held>> /\ pc[w] \in Writing /\ OnlyTask(w)
    BY <1>8 DEF Error, OnlyTask, Goto, TasksOK, files, Writing, Place, Retaining, Restoring, DumpPlaces
  <2>2. /\ Job(w)' = Job(w) /\ cur'[w].list = cur[w].list
        /\ IsWal(Job(w)) \/ cur'[w].stored = cur[w].stored
    BY <1>8, <1>0 DEF Error, TasksOK, Task, Job
  <2> QED
    BY <2>1, <2>2, PlainReads DEF ListsOn, Listed
<1>9. ASSUME NEW w \in Worker, Done(w) \/ EndRestore(w) \/ Die(w) PROVE PlainFiles'
  <2>1. UNCHANGED <<paths, age, held>> /\ OnlyTask(w) /\ cur'[w] = Blank
    BY <1>9 DEF Done, EndRestore, Die, Finish, OnlyTask, Goto, TasksOK, rows, files
  <2>2. cur'[w].list = {} /\ cur'[w].stored = {}
    BY <2>1 DEF Blank
  <2> QED
    BY <2>1, <2>2, PlainReads DEF ListsOn, Listed
<1>10. ASSUME NEW w \in Worker, NoLocalCopy(w) PROVE PlainFiles'
  <2>1. UNCHANGED <<paths, age, held>> /\ OnlyTask(w)
    BY <1>10 DEF NoLocalCopy, OnlyTask, Goto, TasksOK, rows, files
  <2>2. cur'[w].list = cur[w].list /\ cur'[w].stored = {}
    BY <1>10, <1>0 DEF NoLocalCopy, TasksOK, Task
  <2> QED
    BY <2>1, <2>2, PlainReads DEF ListsOn, Listed
<1>11. ASSUME NEW w \in Worker, NEW b \in Backup, Begin(w, b) \/ (BeginWal(w) /\ b = Job(w))
       PROVE  PlainFiles'
  <2>1. UNCHANGED <<paths, age, held>> /\ OnlyTask(w) /\ cur'[w] = [Blank EXCEPT !.job = b]
    BY <1>11 DEF Begin, BeginWal, Create, OnlyTask, Goto, TasksOK, files, Job
  <2>2. cur'[w].list = {} /\ cur'[w].stored = {}
    BY <2>1 DEF Blank
  <2> QED
    BY <2>1, <2>2, PlainReads DEF ListsOn, Listed
<1>12. ASSUME NEW w \in Worker, Download(w) PROVE PlainFiles'
  <2>1. UNCHANGED <<paths, age, held, cur>> /\ OnlyTask(w) /\ pc'[w] \notin Writing
    BY <1>12 DEF Download, OnlyTask, Goto, TasksOK, rows, files, Writing, Restoring
  <2> QED
    BY <2>1, PlainReads DEF ListsOn, Listed
<1>13. ASSUME NEW w \in Worker, NEW b \in Backup, BeginRestore(w, b) \/ Recover(w, b)
       PROVE  PlainFiles'
  <2>1. UNCHANGED <<paths, age, held>> /\ OnlyTask(w) /\ pc'[w] \notin Writing
        /\ cur'[w] = [Blank EXCEPT !.job = b, !.stored = paths[b]]
    BY <1>13 DEF BeginRestore, Recover, OnlyTask, Goto, TasksOK, rows, files, Writing, Restoring
  <2>2. cur'[w].list = {}
    BY <2>1 DEF Blank
  <2> QED
    BY <2>1, <2>2, PlainReads DEF ListsOn, Listed
<1>14. ASSUME NEW w \in Worker, NEW b \in Backup, ScanWal(w, b) PROVE PlainFiles'
  <2>1. UNCHANGED <<paths, age, held>> /\ OnlyTask(w) /\ IsWal(b)
    BY <1>14 DEF ScanWal, OnlyTask, Goto, TasksOK, rows, files
  <2>2. cur'[w].list = cur[w].list /\ Job(w)' = b
    BY <1>14, <1>0 DEF ScanWal, TasksOK, Task, Job
  <2> QED
    BY <2>1, <2>2, PlainReads DEF ListsOn, Listed
<1>15. ASSUME NEW w \in Worker, BeginExpire(w) \/ BeginCleanup(w) \/ ListCloud(w)
       PROVE  PlainFiles'
  <2>1. UNCHANGED <<paths, age, held>> /\ OnlyTask(w) /\ pc'[w] \notin Writing
    BY <1>15 DEF BeginExpire, BeginCleanup, ListCloud, OnlyTask, Goto, TasksOK, rows, files, Writing,
       Retaining, Restoring
  <2>2. CASE BeginExpire(w)
    <3>1. cur'[w].list = {p \in OldWal \X Store : p[2] = Local \/ p[2] \in paths[p[1]]}
      BY <1>0, <2>2 DEF BeginExpire, TasksOK, Task
    <3>2. ListsOn(w)
      BY <3>1 DEF ListsOn, Listed, OldWal
    <3> QED
      BY <2>1, <3>2, PlainReads
  <2>3. CASE BeginCleanup(w)
    <3>1. cur'[w].list = {p \in Backup \X {Local} : Exists(p[1]) /\ age[p[1]] # "new" /\ Local \in paths[p[1]]}
      BY <2>3 DEF BeginCleanup, TasksOK, Blank
    <3>2. \A b \in Backup : \A s \in Store : Listed(w, b, s)' => s = Local /\ age[b] \in {"month", "year"}
      BY <3>1 DEF Listed, SharedOK
    <3>3. ListsOn(w)
      BY <2>1, <3>2 DEF ListsOn, Expired
    <3> QED
      BY <2>1, <3>3, PlainReads
  <2>4. CASE ListCloud(w)
    <3>1. cur'[w].list = {p \in Backup \X Cloud : Exists(p[1]) /\ age[p[1]] = "year" /\ p[2] \in paths[p[1]]}
      BY <1>0, <2>4 DEF ListCloud, TasksOK, Task
    <3>2. \A b \in Backup : \A s \in Store : Listed(w, b, s)' => age[b] = "year"
      BY <3>1 DEF Listed
    <3>3. ListsOn(w)
      BY <2>1, <3>2 DEF ListsOn, Expired
    <3> QED
      BY <2>1, <3>3, PlainReads
  <2> QED
    BY <1>15, <2>2, <2>3, <2>4
<1>16. ASSUME NEW w \in Worker, NEW b \in Backup, NEW s \in Store,
              ExpireFile(w, b, s) \/ DeleteFile(w, b, s)
       PROVE  PlainFiles'
  <2>1. UNCHANGED <<paths, age, pc>> /\ OnlyTask(w) /\ pc[w] \notin Writing /\ Listed(w, b, s)
    BY <1>16 DEF ExpireFile, DeleteFile, OnlyTask, TasksOK, rows, Writing, Retaining, Restoring
  <2>2. cur'[w].list \subseteq cur[w].list
    BY <1>16, <1>0 DEF ExpireFile, DeleteFile, TasksOK, Task
  <2>3. \/ held' = held
        \/ held' = [held EXCEPT ![File[b]] = @ \ {s}]
    BY <1>16, NameOf DEF ExpireFile, DeleteFile, SharedOK
  <2>4. ASSUME NEW c \in Backup, NEW t \in held[File[c]], ~IsWal(c)
        PROVE  t \in held'[File[c]] \/ Expired(c, t)
    <3>1. CASE c = b /\ t = s
      BY <2>1, <2>4, <3>1 DEF PlainFiles, ListedExpired
    <3>2. CASE c # b
      <4>1. File[c] # File[b]
        BY <2>4, <3>2, BackupAssumption
      <4> QED
        BY <2>3, <4>1, NameOf DEF SharedOK
    <3>3. CASE t # s
      BY <2>3, <3>3, NameOf DEF SharedOK
    <3> QED
      BY <3>1, <3>2, <3>3
  <2>5. StoresOn(w) /\ ListsOn(w)
    BY <2>1, <2>2 DEF StoresOn, ListsOn, Listed
  <2> QED
    BY <2>1, <2>4, <2>5, PlainTask
<1>17. ASSUME NEW w \in Worker,
              ClearPath(w) \/ DeleteOrphans(w) \/ \E b \in Backup : ExpireRow(w, b)
       PROVE  PlainFiles'
  <2>1. UNCHANGED <<age, held>> /\ OnlyTask(w) /\ pc'[w] \notin Writing
    BY <1>17 DEF ClearPath, DeleteOrphans, ExpireRow, OnlyTask, Goto, TasksOK, files, Writing, Retaining, Restoring
  <2>2. cur'[w].list \subseteq cur[w].list
    <3>1. CASE DeleteOrphans(w)
      BY <3>1 DEF DeleteOrphans, TasksOK, Blank
    <3>2. CASE ClearPath(w)
      BY <1>0, <3>2 DEF ClearPath, TasksOK, Task
    <3>3. ASSUME NEW b \in Backup, ExpireRow(w, b) PROVE cur'[w].list \subseteq cur[w].list
      BY <1>0, <3>3 DEF ExpireRow, TasksOK, Task
    <3> QED
      BY <1>17, <3>1, <3>2, <3>3
  <2>3. \A b \in Backup : paths'[b] \subseteq paths[b]
    BY <1>17 DEF ClearPath, DeleteOrphans, ExpireRow, RemoveRows, SharedOK
  <2>4. StoresOn(w) /\ ListsOn(w)
    BY <2>1, <2>2 DEF StoresOn, ListsOn, Listed
  <2> QED
    BY <2>1, <2>3, <2>4, PlainTask
<1>18. ASSUME NEW b \in Backup, GrowOld(b) PROVE PlainFiles'
  <2>1. UNCHANGED <<paths, held, pc, cur>>
    BY <1>18 DEF GrowOld, files
  <2>2. \A c \in Backup : \A s \in Store : Expired(c, s) => Expired(c, s)'
    BY <1>18 DEF GrowOld, Expired, SharedOK, IsWal
  <2>3. \A w \in Worker : StoresOn(w) /\ ListsOn(w)
    BY <2>1 DEF StoresOn, ListsOn, Listed, Job
  <2> QED
    BY <2>1, <2>2, <2>3, PlainKeeps
<1>19. ASSUME UNCHANGED <<paths, age, held, pc, cur>> PROVE PlainFiles'
  BY <1>19 DEF PlainFiles, NamedHeld, StoredThere, ListedExpired, Expired, Listed, Job, IsWal
<1>20. ASSUME NEW b \in Backup, TriggerRestore(b) PROVE PlainFiles'
  BY <1>19, <1>20 DEF TriggerRestore, rows, files
<1>21. CASE ExpireLock
  BY <1>19, <1>21 DEF ExpireLock, rows, files
<1>22. CASE UNCHANGED vars
  BY <1>19, <1>22 DEF vars, rows, files
<1>23. ASSUME NEW w \in Worker, Step(w) PROVE PlainFiles'
  <2>1. CASE BackupStep(w)
    BY <2>1, <1>1, <1>2, <1>3, <1>5, <1>6, <1>9, <1>10 DEF BackupStep
  <2>2. CASE WalStep(w)
    BY <2>2, <1>0, <1>1, <1>2, <1>4, <1>6, <1>7, <1>11 DEF WalStep
  <2>3. CASE RetentionStep(w)
    BY <2>3, <1>15, <1>16, <1>17 DEF RetentionStep
  <2> QED
    BY <1>23, <2>1, <2>2, <2>3, <1>9, <1>12 DEF Step
<1> QED
  BY <1>8, <1>9, <1>13, <1>15, <1>18, <1>20, <1>21, <1>22, <1>23, <1>11, <1>14 DEF Next

(* What the row of a full, a tenant's or a configuration's backup names is there, for any
   number of tasks that overlap in any way: the row and the file of one backup are only
   ever written by the task that made them (tasks.py:341). *)
THEOREM PlainBackupsHeld == Spec => []NamedHeld
<1> DEFINE IInv == Typed /\ Young /\ ListedOld /\ WalTasks /\ PlainFiles
<1>1. Init => IInv
  <2>1. Init => Typed
    BY InitType DEF Typed
  <2>2. Init => Young /\ ListedOld /\ WalTasks
    BY DEF Init, Young, ListedOld, Listed, WalTasks, WalPlace, Blank, Writing, Retaining, Restoring
  <2>3. Init => PlainFiles
    BY DEF Init, PlainFiles, NamedHeld, StoredThere, ListedExpired, Listed, Blank, Writing, Retaining, Restoring
  <2> QED
    BY <2>1, <2>2, <2>3
<1>2. ASSUME IInv, [Next]_vars PROVE IInv'
  <2>1. Typed'
    BY <1>2, TypeStep DEF Typed
  <2>2. Young' /\ ListedOld' /\ WalTasks'
    BY <1>2, YoungStep, WalTasksStep DEF Typed
  <2>3. PlainFiles'
    BY <1>2, <2>1, <2>2, PlainStep
  <2> QED
    BY <2>1, <2>2, <2>3
<1>3. IInv => NamedHeld
  BY DEF PlainFiles
<1> QED
  BY <1>1, <1>2, <1>3, PTL DEF Spec
-----------------------------------------------------------------------------
(* Row security is off only between the two ALTER TABLE statements of a running backup,
   or after a fault. *)
OffInside == \/ forced \/ faults > 0
             \/ \E w \in Worker : pc[w] \in {"start", "dumping", "enable"}
BrokenByFault == broken => faults > 0
FaultFree == OffInside /\ BrokenByFault

\* Faults are only counted up.
LEMMA FaultsGrow == ASSUME Typed, [Next]_vars
                    PROVE faults' >= faults /\ faults \in Nat
<1>0. faults \in Nat
  BY BackupAssumption DEF Typed, SharedOK
<1>1. ASSUME faults' = faults \/ \E x : Fault(x) PROVE faults' >= faults
  BY <1>0, <1>1 DEF Fault
<1>2. ASSUME NEW w \in Worker, BackupStep(w) PROVE faults' >= faults
  BY <1>1, <1>2 DEF BackupStep, DisableForce, StartDump, EndDump, EnableForce, Dump, CompressAndEncrypt,
     Upload, SaveCompleted, NoLocalCopy, Verify, Done, Fail
<1>3. ASSUME NEW w \in Worker, WalStep(w) PROVE faults' >= faults
  BY <1>1, <1>3 DEF WalStep, BeginWal, Create, CompressWal, CompressedWal, SendWal, NoCloudCopy,
     ArchiveWal, TidyWal, ConfirmWal
<1>4. ASSUME NEW w \in Worker, RetentionStep(w) PROVE faults' >= faults
  BY <1>1, <1>4 DEF RetentionStep, BeginExpire, ListCloud, ClearPath, DeleteOrphans, ExpireRow,
     ExpireFile, DeleteFile
<1>5. ASSUME NEW w \in Worker,
             Download(w) \/ EndRestore(w) \/ BeginCleanup(w) \/ Error(w) \/ Die(w)
      PROVE  faults' >= faults
  BY <1>1, <1>5 DEF Download, EndRestore, BeginCleanup, Error, Die
<1>6. ASSUME NEW w \in Worker, NEW b \in Backup,
             Begin(w, b) \/ ScanWal(w, b) \/ BeginRestore(w, b) \/ Recover(w, b)
      PROVE  faults' >= faults
  BY <1>1, <1>6 DEF Begin, Create, ScanWal, BeginRestore, Recover
<1>7. ASSUME NEW b \in Backup, GrowOld(b) \/ TriggerRestore(b) PROVE faults' >= faults
  BY <1>1, <1>7 DEF GrowOld, TriggerRestore
<1>8. CASE ExpireLock \/ UNCHANGED vars
  <2>1. faults' = faults
    BY <1>8 DEF ExpireLock, vars
  <2> QED
    BY <1>0, <2>1
<1> QED
  BY <1>0, <1>2, <1>3, <1>4, <1>5, <1>6, <1>7, <1>8 DEF Next, Step

LEMMA FaultFreeStep == ASSUME Typed, Typed', FaultFree, [Next]_vars
                       PROVE FaultFree'
<1>0. faults' >= faults /\ faults \in Nat /\ faults' \in Nat
  BY FaultsGrow, BackupAssumption DEF Typed, SharedOK
<1> USE DEF FaultFree, OffInside, BrokenByFault, TasksOK, Typed, Goto
<1>1. ASSUME NEW w \in Worker, Die(w) PROVE FaultFree'
  <2>1. faults' = faults + 1
    BY <1>1 DEF Die, Fault
  <2>2. faults' > 0
    BY <1>0, <2>1
  <2> QED
    BY <2>2
<1>2. ASSUME NEW w \in Worker, DisableForce(w) PROVE FaultFree'
  <2>1. pc'[w] = "start" /\ UNCHANGED <<broken, faults>>
    BY <1>2 DEF DisableForce
  <2> QED
    BY <2>1
<1>3. ASSUME NEW w \in Worker, StartDump(w) \/ EndDump(w) PROVE FaultFree'
  <2>1. pc'[w] \in {"dumping", "enable"} /\ UNCHANGED broken
    BY <1>3 DEF StartDump, EndDump, security
  <2>2. faults > 0 => faults' > 0
    BY <1>0
  <2> QED
    BY <2>1, <2>2
<1>4. ASSUME NEW w \in Worker, EnableForce(w) PROVE FaultFree'
  <2>1. PICK failed \in BOOLEAN : /\ forced' = (forced \/ ~failed)
                                  /\ broken' = failed /\ Fault(failed)
    BY <1>4 DEF EnableForce
  <2>2. CASE failed
    <3>1. faults' > 0
      BY <1>0, <2>1, <2>2 DEF Fault
    <3> QED
      BY <3>1
  <2>3. CASE ~failed
    BY <2>1, <2>3
  <2> QED
    BY <2>2, <2>3
<1>5. CASE \A w \in Worker : /\ ~DisableForce(w) /\ ~StartDump(w) /\ ~EndDump(w)
                             /\ ~EnableForce(w) /\ ~Die(w)
  <2>1. /\ UNCHANGED <<forced, broken>>
        /\ \A w \in Worker : pc[w] \in DumpPlaces => pc'[w] = pc[w]
    BY <1>5, OutsideDump DEF security
  <2>2. faults > 0 => faults' > 0
    BY <1>0
  <2> QED
    BY <2>1, <2>2 DEF DumpPlaces
<1> QED
  BY <1>1, <1>2, <1>3, <1>4, <1>5

(* Without a fault, row security comes back with every dump, although the dumps of
   several full backups overlap and switch it on before each other's end
   (tasks.py:161). *)
THEOREM RowSecurityFaultFree == Spec => []OffInside
<1>1. Init => Typed /\ FaultFree
  BY InitType DEF Init, Typed, FaultFree, OffInside, BrokenByFault
<1>2. Typed /\ [Next]_vars => Typed'
  BY TypeStep DEF Typed
<1>3. Typed /\ Typed' /\ FaultFree /\ [Next]_vars => FaultFree'
  BY FaultFreeStep
<1>4. FaultFree => OffInside
  BY DEF FaultFree
<1> QED
  BY <1>1, <1>2, <1>3, <1>4, PTL DEF Spec
=============================================================================
