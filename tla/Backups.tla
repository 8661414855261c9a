------------------------------- MODULE Backups -------------------------------
(* The backup tasks of the platform: full, tenant and configuration backups, the
   archiving of write-ahead log (WAL) segments, the retention tasks and restores.
   Tasks run in Celery workers outside a transaction; what they share are the
   Backup rows, the files in three stores, the WAL directory, the row-security
   switch of the tenants table and a lock in Redis. *)
EXTENDS Integers, FiniteSets

CONSTANTS Backup,    \* Backup rows that can be created
          Kind,      \* Kind[b]: "full", "tenant", "config" or "wal"
          File,      \* File[b]: the name of its file; for "wal" the segment's name
          Local,     \* the local store
          Cloud,     \* the cloud stores, R2 and B2
          Worker,    \* Celery worker processes
          MaxBackups, \* bound: rows created in one behaviour
          MaxRestores, \* bound: restores logged at a time
          MaxFaults  \* bound: failed steps, escaped errors and dead workers

IsWal(b) == Kind[b] = "wal"

ASSUME BackupAssumption ==
    /\ Kind \in [Backup -> {"full", "tenant", "config", "wal"}]
    /\ DOMAIN File = Backup
    /\ \A b, c \in Backup : File[b] = File[c] => b = c \/ (IsWal(b) /\ IsWal(c))
    /\ Backup # {} /\ Local \notin Cloud /\ MaxFaults \in Nat

VARIABLES
  status,   \* status[b]: Backup.status; "none" before, "deleted" after the row exists
  paths,    \* paths[b]: the stores with a non-empty local_path, r2_path, b2_path
  encName,  \* encName[b]: a WAL row's filename has become <segment>.gz.enc
  age,      \* age[b]: created less than 30 days ago ("new"), less than a year ("month"), more
  held,     \* held[f]: the stores that hold file f whole
  original, \* original[f]: segment f is still in the WAL directory
  scratch,  \* scratch[f]: the encrypted file beside it: "none", "part" or "whole"
  forced,   \* FORCE ROW LEVEL SECURITY is on for the tenants table
  broken,   \* a task died, or failed to switch it on again, since it was last switched on
  tenantLock, \* the Redis key backup:tenant:<id>:in_progress exists
  log,      \* log[b]: a restore of b: "none", "queued", or BackupRestoreLog.status
  pc,       \* pc[w]: where worker w is
  cur,      \* cur[w]: its task's variables
  faults,   \* faults so far
  contended, \* names of segments that two tasks have handled at once
  died      \* history: backups whose worker died

rows == <<status, paths, encName, age>>
files == <<held, original, scratch>>
security == <<forced, broken>>
marks == <<contended, died>>
vars == <<rows, files, security, tenantLock, log, pc, cur, faults, marks>>

Store == {Local} \cup Cloud
Name == {File[b] : b \in Backup}
Completed == {"COMPLETED", "VERIFIED"}
Taken(b) == status[b] # "none" \/ \E w \in Worker : pc[w] = "create" /\ cur[w].job = b
Unused(b) == ~Taken(b) /\ Cardinality({c \in Backup : Taken(c)}) < MaxBackups
NoLog(b) == log[b] = "none" /\ Cardinality({c \in Backup : log[c] # "none"}) < MaxRestores
Exists(b) == status[b] \notin {"none", "deleted"}

(* job: the backup; todo: stores not yet tried; stored: stores whose upload reported
   success; ok: the dump succeeded; list: what a retention task has still to delete. *)
Task == [job : Backup, todo : SUBSET Store, stored : SUBSET Store, ok : BOOLEAN,
         list : SUBSET (Backup \X Store)]
Blank == [job |-> CHOOSE b \in Backup : TRUE, todo |-> {}, stored |-> {}, ok |-> FALSE,
          list |-> {}]

Init == /\ status = [b \in Backup |-> "none"]
        /\ paths = [b \in Backup |-> {}]
        /\ encName = [b \in Backup |-> FALSE]
        /\ age = [b \in Backup |-> "new"]
        /\ held = [f \in Name |-> {}]
        /\ original = [f \in Name |-> \E b \in Backup : IsWal(b) /\ File[b] = f]
        /\ scratch = [f \in Name |-> "none"]
        /\ forced = TRUE /\ broken = FALSE
        /\ tenantLock = FALSE
        /\ log = [b \in Backup |-> "none"]
        /\ pc = [w \in Worker |-> "idle"]
        /\ cur = [w \in Worker |-> Blank]
        /\ faults = 0
        /\ contended = {} /\ died = {}
-----------------------------------------------------------------------------
Goto(w, place) == pc' = [pc EXCEPT ![w] = place]

(* A step that fails costs a fault. *)
Fault(failed) == /\ failed => faults < MaxFaults
                 /\ faults' = IF failed THEN faults + 1 ELSE faults

(* The finally clauses: the tenant's lock is deleted, whoever holds it now.  A WAL task
   ends with its own retention. *)
Finish(w) == /\ Goto(w, IF IsWal(cur[w].job) THEN "expire" ELSE "idle")
             /\ cur' = [cur EXCEPT ![w] = Blank]
             /\ tenantLock' = (tenantLock /\ Kind[cur[w].job] # "tenant")
-----------------------------------------------------------------------------
(* daily_full_database_backup, _do_weekly_per_tenant_backup, configuration_backup:
   the row is created first, in progress and without a path. *)
Create(w, b) == /\ status' = [status EXCEPT ![b] = "IN_PROGRESS"]
                /\ cur' = [cur EXCEPT ![w] = [Blank EXCEPT !.job = b]]
                /\ UNCHANGED <<paths, encName, age, files, security, log, faults, marks>>

Begin(w, b) ==
    /\ pc[w] = "idle" /\ Unused(b) /\ ~IsWal(b)
    /\ Kind[b] = "tenant" => ~tenantLock
    /\ tenantLock' = (tenantLock \/ Kind[b] = "tenant")
    /\ Create(w, b)
    /\ Goto(w, IF Kind[b] = "full" THEN "disable" ELSE "dump")

(* The key expires after 20 minutes, a task may run for 30. *)
ExpireLock == /\ tenantLock
              /\ tenantLock' = FALSE
              /\ UNCHANGED <<rows, files, security, log, pc, cur, faults, marks>>

(* create_pg_dump.  ALTER TABLE waits for the table lock that a running pg_dump of
   the whole database holds. *)
NoDumpRuns == \A v \in Worker : pc[v] # "dumping"

DisableForce(w) ==
    /\ pc[w] = "disable" /\ NoDumpRuns
    /\ forced' = FALSE
    /\ Goto(w, "start")
    /\ UNCHANGED <<rows, files, broken, tenantLock, log, cur, faults, marks>>

(* pg_dump refuses a table whose policies apply to it. *)
StartDump(w) ==
    /\ pc[w] = "start"
    /\ Goto(w, IF forced THEN "enable" ELSE "dumping")
    /\ UNCHANGED <<rows, files, security, tenantLock, log, cur, faults, marks>>

EndDump(w) ==
    /\ pc[w] = "dumping"
    /\ \E ok \in BOOLEAN : /\ cur' = [cur EXCEPT ![w].ok = ok]
                           /\ Fault(~ok)
    /\ Goto(w, "enable")
    /\ UNCHANGED <<rows, files, security, tenantLock, log, marks>>

\* Mutant: switched on again after a successful dump only.
EnableAfterSuccess(w) ==
    /\ pc[w] = "enable" /\ NoDumpRuns
    /\ forced' = (forced \/ cur[w].ok)
    /\ UNCHANGED <<broken, faults>>
    /\ Goto(w, IF cur[w].ok THEN "encrypt" ELSE "failed")
    /\ UNCHANGED <<rows, files, tenantLock, log, cur, marks>>
(* The finally clause; an error in it is logged and swallowed. *)
EnableForce(w) ==
    /\ pc[w] = "enable" /\ NoDumpRuns
    /\ \E failed \in BOOLEAN : /\ forced' = (forced \/ ~failed)
                               /\ broken' = failed
                               /\ Fault(failed)
    /\ Goto(w, IF cur[w].ok THEN "encrypt" ELSE "failed")
    /\ UNCHANGED <<rows, files, tenantLock, log, cur, marks>>

(* create_tenant_pg_dump, or the archive of collect_configuration_files. *)
Dump(w) ==
    /\ pc[w] = "dump"
    /\ \E ok \in BOOLEAN : Fault(~ok) /\ Goto(w, IF ok THEN "encrypt" ELSE "failed")
    /\ UNCHANGED <<rows, files, security, tenantLock, log, cur, marks>>

CompressAndEncrypt(w) ==
    /\ pc[w] = "encrypt"
    /\ \E ok \in BOOLEAN : Fault(~ok) /\ Goto(w, IF ok THEN "upload" ELSE "failed")
    /\ cur' = [cur EXCEPT ![w].todo = Store]
    /\ UNCHANGED <<rows, files, security, tenantLock, log, marks>>

(* upload_to_all_storages, the local store first.  A failed upload may have
   stored the file all the same. *)
Upload(w, s) ==
    LET f == File[cur[w].job] IN
    /\ pc[w] = "upload" /\ s \in cur[w].todo /\ (Local \in cur[w].todo => s = Local)
    /\ \E kept, told \in BOOLEAN :
          /\ told => kept
          /\ Fault(~told)
          /\ held' = [held EXCEPT ![f] = IF kept THEN @ \cup {s} ELSE @]
          /\ cur' = [cur EXCEPT ![w].todo = @ \ {s},
                                ![w].stored = IF told THEN @ \cup {s} ELSE @]
    /\ Goto(w, IF cur[w].todo = {s} THEN "save" ELSE "upload")
    /\ UNCHANGED <<rows, original, scratch, security, tenantLock, log, marks>>

(* Backup.save writes every column, and inserts the row again if it is gone. *)
Save(b, state, stored) == /\ status' = [status EXCEPT ![b] = state]
                          /\ paths' = [paths EXCEPT ![b] = stored]
                          /\ age' = [age EXCEPT ![b] = IF Exists(b) THEN @ ELSE "new"]

\* Mutant: the row names every store, whatever the uploads reported.
SaveAllPaths(w) ==
    /\ pc[w] = "save" /\ Local \in cur[w].stored
    /\ Save(cur[w].job, "COMPLETED", Store)
    /\ Goto(w, "verify")
    /\ UNCHANGED <<encName, files, security, tenantLock, log, cur, faults, marks>>
SaveCompleted(w) ==
    /\ pc[w] = "save" /\ Local \in cur[w].stored
    /\ Save(cur[w].job, "COMPLETED", cur[w].stored)
    /\ Goto(w, "verify")
    /\ UNCHANGED <<encName, files, security, tenantLock, log, cur, faults, marks>>

NoLocalCopy(w) ==
    /\ pc[w] = "save" /\ Local \notin cur[w].stored
    /\ cur' = [cur EXCEPT ![w].stored = {}]
    /\ Goto(w, "failed")
    /\ UNCHANGED <<rows, files, security, tenantLock, log, faults, marks>>

(* verify_backup_integrity looks for the file in all stores, named by the row or not. *)
\* Mutant: the stores that the row names are looked at, and no others.
VerifyNamedStores(w) ==
    LET b == cur[w].job IN
    /\ pc[w] = "verify"
    /\ \E valid \in BOOLEAN :
          /\ valid => cur[w].stored \subseteq held[File[b]]
          /\ Fault(~valid)
          /\ Save(b, IF valid THEN "VERIFIED" ELSE "COMPLETED", cur[w].stored)
    /\ Goto(w, IF Kind[b] = "full" THEN "monitor" ELSE "done")
    /\ UNCHANGED <<encName, files, security, tenantLock, log, cur, marks>>
Verify(w) ==
    LET b == cur[w].job
        Whole == Store \subseteq held[File[b]]
    IN /\ pc[w] = "verify"
       /\ \E valid \in BOOLEAN :
             /\ valid => Whole
             /\ Fault(Whole /\ ~valid)
             /\ IF valid THEN Save(b, "VERIFIED", cur[w].stored)
                         ELSE UNCHANGED <<status, paths, age>>
       /\ Goto(w, IF Kind[b] = "full" THEN "monitor" ELSE "done")
       /\ UNCHANGED <<encName, files, security, tenantLock, log, cur, marks>>

Done(w) == /\ pc[w] \in {"monitor", "done"}
           /\ UNCHANGED <<rows, files, security, log, faults, marks>>
           /\ Finish(w)

\* Mutant: the exception handler does not save the row.
FailUnsaved(w) == /\ pc[w] = "failed"
                  /\ UNCHANGED <<rows, files, security, log, faults, marks>>
                  /\ Finish(w)
(* The exception handlers: the copy is saved as FAILED with what it holds by then. *)
Fail(w) == /\ pc[w] = "failed"
           /\ Save(cur[w].job, "FAILED", cur[w].stored)
           /\ UNCHANGED <<encName, files, security, log, faults, marks>>
           /\ Finish(w)

(* An error after the fields of the copy were set: in its save, an alert or the monitoring. *)
Error(w) ==
    LET b == cur[w].job IN
    /\ pc[w] \in {"save", "verify", "monitor", "archive", "confirm"}
    /\ pc[w] = "save" => Local \in cur[w].stored
    /\ pc[w] = "archive" => cur[w].stored # {}
    /\ Fault(TRUE)
    /\ encName' = [encName EXCEPT ![b] = IsWal(b)]
    /\ cur' = [cur EXCEPT ![w].stored = IF IsWal(b) THEN @ \cup {Local} ELSE @]
    /\ Goto(w, "failed")
    /\ UNCHANGED <<status, paths, age, files, security, tenantLock, log, marks>>
-----------------------------------------------------------------------------
(* continuous_wal_archiving.  A segment is taken up unless a row has its final file
   name; the row that is created has another one until the segment is archived, so that
   two tasks may take up the same segment. *)
AlreadyArchived(f) == \E b \in Backup : Exists(b) /\ File[b] = f /\ encName[b]

(* Task v works on file f, or has it on its list. *)
Retaining == {"idle", "expire", "expiring", "local", "cloud"}
Handles(v, f) == \/ (pc[v] \notin Retaining \/ cur[v].todo # {}) /\ File[cur[v].job] = f
                 \/ \E p \in cur[v].list : File[p[1]] = f

ScanWal(w, b) ==
    /\ pc[w] = "idle" /\ Unused(b) /\ IsWal(b)
    /\ original[File[b]] /\ ~AlreadyArchived(File[b])
    /\ contended' = contended \cup {f \in {File[b]} : \E v \in Worker : Handles(v, f)}
    /\ cur' = [cur EXCEPT ![w].job = b]
    /\ Goto(w, "create")
    /\ UNCHANGED <<rows, files, security, tenantLock, log, faults, died>>

BeginWal(w) == /\ pc[w] = "create"
               /\ Create(w, cur[w].job)
               /\ Goto(w, IF original[File[cur[w].job]] THEN "compress" ELSE "failed")
               /\ UNCHANGED tenantLock

(* compress_and_encrypt_file writes beside the segment, in place; another task may have
   removed the segment by now. *)
CompressWal(w) == LET f == File[cur[w].job] IN
                  /\ pc[w] = "compress"
                  /\ scratch' = [scratch EXCEPT ![f] = IF original[f] THEN "part" ELSE @]
                  /\ Goto(w, IF original[f] THEN "compressing" ELSE "failed")
                  /\ UNCHANGED <<rows, held, original, security, tenantLock, log, cur, faults,
                                 marks>>

(* Two tasks at once write the same files, and each removes the compressed one when it
   is done: the other may miss it, and what either sends may be half-written. *)
CompressedWal(w) ==
    /\ pc[w] = "compressing"
    /\ \E ok \in BOOLEAN :
          /\ Fault(~ok /\ File[cur[w].job] \notin contended)
          /\ scratch' = [scratch EXCEPT ![File[cur[w].job]] = IF ok THEN "whole" ELSE @]
          /\ Goto(w, IF ok THEN "send" ELSE "failed")
    /\ cur' = [cur EXCEPT ![w].todo = Cloud]
    /\ UNCHANGED <<rows, held, original, security, tenantLock, log, marks>>

(* The upload sends what the encrypted file holds at the time. *)
SendWal(w, s) ==
    LET f == File[cur[w].job]
    IN /\ pc[w] = "send" /\ s \in cur[w].todo
       /\ \E kept, told, whole \in BOOLEAN :
             /\ told => kept
             /\ scratch[f] = "whole" /\ f \notin contended => whole
             /\ Fault(~told)
             /\ held' = [held EXCEPT ![f] = IF ~kept THEN @
                                            ELSE IF whole THEN @ \cup {s} ELSE @ \ {s}]
             /\ cur' = [cur EXCEPT ![w].todo = @ \ {s},
                                   ![w].stored = IF told THEN @ \cup {s} ELSE @]
       /\ Goto(w, IF cur[w].todo = {s} THEN "archive" ELSE "send")
       /\ UNCHANGED <<rows, original, scratch, security, tenantLock, log, marks>>

NoCloudCopy(w) == /\ pc[w] = "archive" /\ cur[w].stored = {}
                  /\ Goto(w, "failed")
                  /\ UNCHANGED <<rows, files, security, tenantLock, log, cur, faults, marks>>

(* The row is given a local_path, although the local store was not used. *)
\* Mutant: one cloud copy is not required.
ArchiveAlways(w) ==
    LET b == cur[w].job
        stored == cur[w].stored \cup {Local}
    IN /\ pc[w] = "archive"
       /\ Save(b, "COMPLETED", stored)
       /\ encName' = [encName EXCEPT ![b] = TRUE]
       /\ cur' = [cur EXCEPT ![w].stored = stored]
       /\ Goto(w, "tidy")
       /\ UNCHANGED <<files, security, tenantLock, log, faults, marks>>
ArchiveWal(w) ==
    LET b == cur[w].job
        stored == cur[w].stored \cup {Local}
    IN /\ pc[w] = "archive" /\ cur[w].stored # {}
       /\ Save(b, "COMPLETED", stored)
       /\ encName' = [encName EXCEPT ![b] = TRUE]
       /\ cur' = [cur EXCEPT ![w].stored = stored]
       /\ Goto(w, "tidy")
       /\ UNCHANGED <<files, security, tenantLock, log, faults, marks>>

(* The encrypted file stays, the segment is removed; errors are swallowed. *)
TidyWal(w) == /\ pc[w] = "tidy"
              /\ \E removed \in BOOLEAN :
                    /\ Fault(~removed)
                    /\ original' = [original EXCEPT ![File[cur[w].job]] = @ /\ ~removed]
              /\ Goto(w, "confirm")
              /\ UNCHANGED <<rows, held, scratch, security, tenantLock, log, cur, marks>>

ConfirmWal(w) == /\ pc[w] = "confirm"
                 /\ Save(cur[w].job, "VERIFIED", cur[w].stored)
                 /\ UNCHANGED <<encName, files, security, log, faults, marks>>
                 /\ Finish(w)
-----------------------------------------------------------------------------
(* Time passes, slowly beside the 30 minutes a task may take. *)
InUse(b) == \E v \in Worker : pc[v] \notin Retaining /\ cur[v].job = b

GrowOld(b) ==
    /\ Exists(b) /\ age[b] # "year" /\ ~InUse(b)
    /\ age' = [age EXCEPT ![b] = IF @ = "new" THEN "month" ELSE "year"]
    /\ UNCHANGED <<status, paths, encName, files, security, tenantLock, log, pc, cur, faults,
                   marks>>

(* A retention task has listed <<b, s>>: the file of row b in store s. *)
Listed(w, b, s) == <<b, s>> \in cur[w].list

RemoveRows(gone) ==
    /\ status' = [b \in Backup |-> IF b \in gone THEN "deleted" ELSE status[b]]
    /\ paths' = [b \in Backup |-> IF b \in gone THEN {} ELSE paths[b]]
    /\ log' = [b \in Backup |-> IF b \in gone THEN "none" ELSE log[b]]

(* cleanup_old_wal_archives: both cloud files of a row, then the row, whether or not
   they could be deleted.  <<b, Local>> is listed for the row. *)
OldWal == {b \in Backup : IsWal(b) /\ Exists(b) /\ age[b] # "new"}

BeginExpire(w) ==
    LET list == {p \in OldWal \X Store : p[2] = Local \/ p[2] \in paths[p[1]]} IN
    /\ pc[w] = "expire"
    /\ cur' = [cur EXCEPT ![w].list = list]
    /\ Goto(w, IF list = {} THEN "idle" ELSE "expiring")
    /\ UNCHANGED <<rows, files, security, tenantLock, log, faults, marks>>

ExpireFile(w, b, s) ==
    /\ pc[w] = "expiring" /\ Listed(w, b, s) /\ s # Local
    /\ \E ok \in BOOLEAN : /\ Fault(~ok)
                           /\ held' = [held EXCEPT ![File[b]] = IF ok THEN @ \ {s} ELSE @]
    /\ cur' = [cur EXCEPT ![w].list = @ \ {<<b, s>>}]
    /\ UNCHANGED <<rows, original, scratch, security, tenantLock, log, pc, marks>>

ExpireRow(w, b) ==
    /\ pc[w] = "expiring" /\ Listed(w, b, Local) /\ \A s \in Cloud : ~Listed(w, b, s)
    /\ RemoveRows({b})
    /\ cur' = [cur EXCEPT ![w].list = @ \ {<<b, Local>>}]
    /\ Goto(w, IF cur[w].list = {<<b, Local>>} THEN "idle" ELSE "expiring")
    /\ UNCHANGED <<encName, age, files, security, tenantLock, faults, marks>>

(* cleanup_old_backups: local files after 30 days, cloud files after a year, then
   every row without a path.  todo: the store whose file has just been deleted.  Nothing
   in the repository schedules it: it starts when somebody starts it, or never. *)
BeginCleanup(w) ==
    /\ pc[w] = "idle"
    /\ cur' = [cur EXCEPT ![w] = [Blank EXCEPT !.list =
                  {p \in Backup \X {Local} : Exists(p[1]) /\ age[p[1]] # "new" /\ Local \in paths[p[1]]}]]
    /\ Goto(w, "local")
    /\ UNCHANGED <<rows, files, security, tenantLock, log, faults, marks>>

DeleteFile(w, b, s) ==
    /\ pc[w] \in {"local", "cloud"} /\ cur[w].todo = {} /\ Listed(w, b, s)
    /\ \E ok \in BOOLEAN :
          /\ Fault(~ok)
          /\ held' = [held EXCEPT ![File[b]] = IF ok THEN @ \ {s} ELSE @]
          /\ cur' = [cur EXCEPT ![w].list = @ \ {<<b, s>>}, ![w].job = b,
                                ![w].todo = IF ok THEN {s} ELSE {}]
    /\ UNCHANGED <<rows, original, scratch, security, tenantLock, log, pc, marks>>

ClearPath(w) ==
    LET b == cur[w].job IN
    /\ pc[w] \in {"local", "cloud"} /\ cur[w].todo # {}
    /\ paths' = [paths EXCEPT ![b] = @ \ cur[w].todo]
    /\ cur' = [cur EXCEPT ![w].todo = {}]
    /\ UNCHANGED <<status, encName, age, files, security, tenantLock, log, pc, faults, marks>>

ListCloud(w) ==
    /\ pc[w] = "local" /\ cur[w].list = {} /\ cur[w].todo = {}
    /\ cur' = [cur EXCEPT ![w].list =
                  {p \in Backup \X Cloud : Exists(p[1]) /\ age[p[1]] = "year" /\ p[2] \in paths[p[1]]}]
    /\ Goto(w, "cloud")
    /\ UNCHANGED <<rows, files, security, tenantLock, log, faults, marks>>

DeleteOrphans(w) ==
    /\ pc[w] = "cloud" /\ cur[w].list = {} /\ cur[w].todo = {}
    /\ RemoveRows({b \in Backup : Exists(b) /\ paths[b] = {}})
    /\ Goto(w, "idle")
    /\ cur' = [cur EXCEPT ![w] = Blank]
    /\ UNCHANGED <<encName, age, files, security, tenantLock, faults, marks>>
-----------------------------------------------------------------------------
(* BackupService.trigger_restore, then perform_restore_operation. *)
TriggerRestore(b) ==
    /\ status[b] \in Completed /\ NoLog(b)
    /\ log' = [log EXCEPT ![b] = "queued"]
    /\ UNCHANGED <<rows, files, security, tenantLock, pc, cur, faults, marks>>

\* Mutant: a state that the log does not know.
RunRestore(w, b) ==
    /\ pc[w] = "idle" /\ log[b] = "queued"
    /\ log' = [log EXCEPT ![b] = "RUNNING"]
    /\ cur' = [cur EXCEPT ![w] = [Blank EXCEPT !.job = b, !.stored = paths[b]]]
    /\ Goto(w, IF status[b] \in Completed THEN "download" ELSE "unrestored")
    /\ UNCHANGED <<rows, files, security, tenantLock, faults, marks>>
BeginRestore(w, b) ==
    /\ pc[w] = "idle" /\ log[b] = "queued"
    /\ log' = [log EXCEPT ![b] = "IN_PROGRESS"]
    /\ cur' = [cur EXCEPT ![w] = [Blank EXCEPT !.job = b, !.stored = paths[b]]]
    /\ Goto(w, IF status[b] \in Completed THEN "download" ELSE "unrestored")
    /\ UNCHANGED <<rows, files, security, tenantLock, faults, marks>>

(* execute_disaster_recovery_runbook, from a completed full backup. *)
Recover(w, b) ==
    /\ pc[w] = "idle" /\ NoLog(b) /\ Kind[b] = "full" /\ status[b] \in Completed
    /\ log' = [log EXCEPT ![b] = "IN_PROGRESS"]
    /\ cur' = [cur EXCEPT ![w] = [Blank EXCEPT !.job = b, !.stored = paths[b]]]
    /\ Goto(w, "download")
    /\ UNCHANGED <<rows, files, security, tenantLock, faults, marks>>

(* The cloud stores are tried first, then the local one. *)
Download(w) ==
    LET Found == cur[w].stored \cap held[File[cur[w].job]] # {} IN
    /\ pc[w] = "download"
    /\ \E ok \in BOOLEAN : /\ ok => Found
                           /\ Fault(Found /\ ~ok)
                           /\ Goto(w, IF ok THEN "restore" ELSE "unrestored")
    /\ UNCHANGED <<rows, files, security, tenantLock, log, cur, marks>>

(* pg_restore reads archives; a plain dump it refuses, before it changes anything. *)
DumpFormat == "plain"
PgRestoreReads == {"custom", "directory", "tar"}

EndRestore(w) ==
    LET b == cur[w].job IN
    /\ pc[w] \in {"restore", "unrestored"}
    /\ \E broke \in BOOLEAN :
          LET Fine == pc[w] = "restore" /\ DumpFormat \in PgRestoreReads /\ ~broke IN
          /\ Fault(broke)
          /\ log' = [log EXCEPT ![b] = IF ~Exists(b) THEN @ ELSE IF Fine THEN "COMPLETED" ELSE "FAILED"]
    /\ Goto(w, "idle")
    /\ cur' = [cur EXCEPT ![w] = Blank]
    /\ UNCHANGED <<rows, files, security, tenantLock, marks>>
-----------------------------------------------------------------------------
(* A worker is killed, by the hard time limit for one; nothing of its task runs any
   more, and the keys it has set stay. *)
DumpPlaces == {"disable", "start", "dumping", "enable"}
Restoring == {"download", "restore", "unrestored"}
Die(w) == /\ pc[w] # "idle"
          /\ died' = IF pc[w] \in Retaining \cup Restoring THEN died ELSE died \cup {cur[w].job}
          /\ Fault(TRUE)
          /\ broken' = (broken \/ pc[w] \in DumpPlaces)
          /\ Goto(w, "idle")
          /\ cur' = [cur EXCEPT ![w] = Blank]
          /\ UNCHANGED <<rows, files, forced, tenantLock, log, contended>>

BackupStep(w) == \/ DisableForce(w) \/ StartDump(w) \/ EndDump(w) \/ EnableForce(w)
                 \/ Dump(w) \/ CompressAndEncrypt(w)
                 \/ \E s \in Store : Upload(w, s)
                 \/ SaveCompleted(w) \/ NoLocalCopy(w) \/ Verify(w) \/ Done(w) \/ Fail(w)
WalStep(w) == \/ BeginWal(w) \/ CompressWal(w) \/ CompressedWal(w)
              \/ \E s \in Cloud : SendWal(w, s)
              \/ NoCloudCopy(w) \/ ArchiveWal(w) \/ TidyWal(w) \/ ConfirmWal(w)
RetentionStep(w) == \/ BeginExpire(w) \/ ListCloud(w) \/ ClearPath(w) \/ DeleteOrphans(w)
                    \/ \E b \in Backup : \/ ExpireRow(w, b)
                                         \/ \E s \in Store : ExpireFile(w, b, s) \/ DeleteFile(w, b, s)
Step(w) == BackupStep(w) \/ WalStep(w) \/ RetentionStep(w) \/ Download(w) \/ EndRestore(w)

Next == \/ \E w \in Worker : \/ Step(w) \/ BeginCleanup(w) \/ Error(w) \/ Die(w)
                             \/ \E b \in Backup : \/ Begin(w, b) \/ ScanWal(w, b)
                                                  \/ BeginRestore(w, b) \/ Recover(w, b)
        \/ \E b \in Backup : GrowOld(b) \/ TriggerRestore(b)
        \/ ExpireLock

Spec == Init /\ [][Next]_vars

(* A worker that lives carries on with its task. *)
FairSpec == Spec /\ \A w \in Worker : WF_vars(Step(w))
-----------------------------------------------------------------------------
Place == Retaining \cup DumpPlaces
    \cup {"create", "compress", "compressing", "send", "archive", "tidy", "confirm"}
    \cup {"dump", "encrypt", "upload", "save", "verify", "monitor", "done", "failed"}
    \cup Restoring

(* The type of every variable. *)
TypeOK ==
    /\ status \in [Backup -> {"none", "deleted", "IN_PROGRESS", "COMPLETED", "VERIFIED", "FAILED"}]
    /\ paths \in [Backup -> SUBSET Store]
    /\ encName \in [Backup -> BOOLEAN]
    /\ age \in [Backup -> {"new", "month", "year"}]
    /\ held \in [Name -> SUBSET Store]
    /\ original \in [Name -> BOOLEAN]
    /\ scratch \in [Name -> {"none", "part", "whole"}]
    /\ forced \in BOOLEAN /\ broken \in BOOLEAN /\ tenantLock \in BOOLEAN
    /\ log \in [Backup -> {"none", "queued", "IN_PROGRESS", "COMPLETED", "FAILED"}]
    /\ pc \in [Worker -> Place]
    /\ cur \in [Worker -> Task]
    /\ faults \in 0..MaxFaults
    /\ contended \in SUBSET Name /\ died \in SUBSET Backup

(* "Local storage (30-day retention), R2, B2 (1-year retention)": while a file is within
   the retention of a store that its row names, the store holds it whole, although
   uploads fail, tasks of all kinds overlap, rows are deleted and written again, and
   workers die between a file and its row.  Excepted are the segments that two tasks have
   handled at once, one of which may have sent a half-written file over the other's
   (tasks.py:1017); every other kind of backup is held unconditionally.  (The local_path
   of a WAL row names no file of the local store.) *)
Expired(b, s) == age[b] = "year" \/ (age[b] = "month" /\ (s = Local \/ IsWal(b)))
Restorable == \A b \in Backup : \A s \in paths[b] :
                 \/ s \in held[File[b]]
                 \/ Expired(b, s)
                 \/ IsWal(b) /\ s = Local
                 \/ File[b] \in contended

(* "Verified": within the first month, all three stores hold the file of a verified
   backup, those whose upload had reported a failure included. *)
VerifiedEverywhere ==
    \A b \in Backup : status[b] = "VERIFIED" /\ age[b] = "new" /\ ~IsWal(b)
                         => held[File[b]] = Store

(* A segment that only one task at a time has handled leaves the WAL directory after a
   cloud store holds it whole, and the store keeps it as long as some row of it is younger
   than 30 days.  (Of a segment that two have handled at once, both may have sent half.) *)
WalKept == \A b \in Backup :
              IsWal(b) /\ ~original[File[b]] /\ paths[b] # {} /\ age[b] = "new"
                 => held[File[b]] \cap Cloud # {} \/ File[b] \in contended

(* "Re-enable FORCE RLS": row security of the tenants table is off only while a full backup
   is between the two ALTER TABLE statements, also when several backups overlap and dumps
   fail; after a task that died there, until the next full backup's end. *)
RowSecurityBack == forced \/ broken \/ \E w \in Worker : pc[w] \in DumpPlaces

(* No backup stays in progress for ever unless its worker died: its task ends it, whatever
   step fails, however backups wait for each other's dumps, and although a retention may
   remove the row of a task that still runs. *)
BackupsSettle == \A b \in Backup :
    status[b] = "IN_PROGRESS" ~> status[b] # "IN_PROGRESS" \/ b \in died
=============================================================================
