-------------------------------- MODULE Backups --------------------------------
(***************************************************************************)
(* Backups of one hosting environment (services/platform/backups.py) and   *)
(* the worker tasks that make and restore them (tasks_platform.py).  Rows  *)
(* live in PostgreSQL and change when a transaction commits; archives are  *)
(* files and off-site objects and change at once, whatever becomes of the  *)
(* transaction; a task is pushed to Redis before the transaction that      *)
(* inserted its row commits.                                               *)
(*                                                                         *)
(* Off-site storage is configured and local archives are unlinked after an *)
(* upload (backup_keep_local_after_offsite off); where unlinking fails     *)
(* both are there, as they are with the setting on.  Archives are told     *)
(* apart by the backup they were made for: their names hold the second,    *)
(* which is taken to differ.  Those no row names are left out, as are      *)
(* job rows and offsite_status, which are written but decide nothing, the  *)
(* dump of the platform's database and plans without automatic backups.    *)
(***************************************************************************)
EXTENDS Integers, FiniteSets

CONSTANTS
    Backups,     \* rows of environment_backups, numbered as they are created
    Actors,      \* worker loops and API calls, as many as are at work at a time
    Keep,        \* successful backups to retain (_retention_keep)
    MaxDay,      \* bound: days
    MaxAsked,    \* bound: restores, deletions and the termination
    MaxFaults    \* bound: failures, deaths of a worker, skipped files, damaged uploads

ASSUME BackupAssumption ==
    /\ Backups \subseteq Nat /\ IsFiniteSet(Actors)
    /\ Keep \in Nat \ {0} /\ MaxDay \in Nat \ {0}
    /\ MaxAsked \in Nat /\ MaxFaults \in Nat

VARIABLES
    day,        \* today
    env,        \* customer_environments.status
    site,       \* the document root
    rows,       \* environment_backups, committed
    local,      \* the archives on disk
    remote,     \* the archives off-site
    queue,      \* task messages, waiting or sleeping before a retry
    act,        \* what each actor is doing
    spoiled,    \* history: backups known to have no good archive, see below
    crossed,    \* history: "ticks", "prunes", "deletes" that overlapped others
    used,       \* bound: rows inserted so far
    asked,      \* bound: restores, deletions, the termination
    faults      \* bound: faults so far

vars == <<day, env, site, rows, local, remote, queue, act,
          spoiled, crossed, used, asked, faults>>
history == <<spoiled, crossed, used>>
stores == <<local, remote>>

Status == {"none", "pending", "queued", "running", "success", "failed"}
Row == [status : Status, born : 0 .. MaxDay, daily : BOOLEAN]
NoRow == [status |-> "none", born |-> 0, daily |-> FALSE]

\* None, of the whole site, of a part of it, or damaged in an upload.
Archive == {"none", "whole", "torn", "bad"}

Task == [kind : {"backup"}, of : Backups, attempt : 1 .. 2]
   \cup [kind : {"restore"}, of : Backups, attempt : {1}]

\* How a backup comes to be made: a queued task, a request, the daily tick.
How == {"task", "request", "daily"}
Idle == [at |-> "idle"]
Working == [at : {"inserted", "made", "deleting"}, of : Backups, row : Row,
            how : How, attempt : 0 .. 2, drop : SUBSET Backups]
Restoring == [at : {"emptied"}, is : Archive]

TypeOK ==
    /\ day \in 1 .. MaxDay
    /\ env \in {"active", "terminated"}
    /\ site \in {"whole", "torn", "gone"}
    /\ rows \in [Backups -> Row]
    /\ local \in [Backups -> Archive] /\ remote \in [Backups -> Archive]
    /\ queue \subseteq Task
    /\ act \in [Actors -> {Idle} \cup Working \cup Restoring]
    /\ spoiled \subseteq Backups /\ used \subseteq Backups
    /\ crossed \subseteq {"ticks", "prunes", "deletes"}
    /\ asked \in 0 .. MaxAsked /\ faults \in 0 .. MaxFaults

Init ==
    /\ day = 1 /\ env = "active" /\ site = "whole"
    /\ rows = [b \in Backups |-> NoRow]
    /\ local = [b \in Backups |-> "none"] /\ remote = [b \in Backups |-> "none"]
    /\ queue = {} /\ act = [a \in Actors |-> Idle]
    /\ spoiled = {} /\ crossed = {} /\ used = {}
    /\ asked = 0 /\ faults = 0

At(a, where) == act[a].at = where
Does(a, what) == act' = [act EXCEPT ![a] = what]
Busy == {a \in Actors : act[a].at \notin {"idle", "emptied"}}
Succeeded == {b \in Backups : rows[b].status = "success"}
Fault == faults < MaxFaults /\ faults' = faults + 1

-----------------------------------------------------------------------------
(***************************************************************************)
(* _push_offsite: the upload is "skipped" (or fails); it is "sent" and the *)
(* local archive unlinked; it arrives "damaged", which is noticed (or, of  *)
(* a large archive, not looked at) and recorded, and the local archive is  *)
(* unlinked all the same; or the local archive is "kept" as well.          *)
(***************************************************************************)
Uploads == {"skipped", "sent", "damaged", "kept"}
LocalAfter(upload, copied) == IF upload \in {"skipped", "kept"} THEN copied ELSE "none"
RemoteAfter(upload, copied) ==
    CASE upload = "skipped" -> "none" [] upload = "damaged" -> "bad" [] OTHER -> copied

(***************************************************************************)
(* _prune_old selects committed rows, so not the one that has just been    *)
(* made, the newest first.  _delete_storage removes the archives before    *)
(* the commit.                                                             *)
(***************************************************************************)
Beyond(keep, old) ==
    /\ Cardinality(Succeeded \ old) = IF Cardinality(Succeeded) < keep
                                      THEN Cardinality(Succeeded) ELSE keep
    /\ \A b \in old, n \in Succeeded \ old : b < n

\* Slip: one backup more is kept.
BeyondOne(old) == Beyond(Keep + 1, old)

Prunable(old) == Beyond(Keep, old)

DeleteStorage(old, store) == [b \in Backups |-> IF b \in old THEN "none" ELSE store[b]]

(***************************************************************************)
(* run_backup, up to its commit: by a worker for a task, or by whoever     *)
(* could not push the task.                                                *)
(***************************************************************************)
\* _build_archive: files that it cannot copy, or that are removed while it
\* does, are skipped, and the archive is as good as any other.
Copied == {site, "torn"}

RunBackup(a, b, row, how, attempt) ==
    /\ site # "gone"
    /\ \E upload \in Uploads, copied \in Copied, old \in SUBSET Succeeded :
        /\ Prunable(old)
        /\ IF upload \in {"damaged", "kept"} \/ copied # site THEN Fault ELSE UNCHANGED faults
        /\ local' = [DeleteStorage(old, local) EXCEPT ![b] = LocalAfter(upload, copied)]
        /\ remote' = [DeleteStorage(old, remote) EXCEPT ![b] = RemoteAfter(upload, copied)]
        /\ Does(a, [at |-> "made", of |-> b, how |-> how, attempt |-> attempt, drop |-> old,
                    row |-> [row EXCEPT !.status = "success"]])
        /\ spoiled' = IF copied = "torn" \/ upload = "damaged" THEN spoiled \cup {b} ELSE spoiled

Overlapping(how, made) ==
    (IF how = "daily" /\ \E a \in Busy : act[a].how = "daily" THEN {"ticks"} ELSE {})
    \cup (IF made /\ \E a \in Busy : At(a, "made") THEN {"prunes"} ELSE {})

-----------------------------------------------------------------------------
(***************************************************************************)
(* queue_backup, by the customer or by the daily tick: the row is inserted *)
(* and the task pushed; without Redis the backup is made at once, in the   *)
(* same transaction.                                                       *)
(***************************************************************************)
\* Slip: only what has succeeded counts as today's backup.
DueUnlessDone == \A b \in Backups : rows[b].status = "success" => rows[b].born # day

\* _auto_backup_due: nothing but a failed backup was made today.
AutoBackupDue == \A b \in Backups : rows[b].status \notin {"none", "failed"} => rows[b].born # day

\* Every worker process enqueues its own daily tick, so ticks may overlap.
MayInsert(a, b, how) ==
    /\ At(a, "idle") /\ (\A u \in used : u < b) /\ env # "terminated"
    /\ how = "daily" => env = "active" /\ AutoBackupDue
    /\ used' = used \cup {b}

NewRow(how, status) == [status |-> status, born |-> day, daily |-> how = "daily"]

QueueBackup(a, b, how) ==
    /\ MayInsert(a, b, how)
    /\ queue' = queue \cup {[kind |-> "backup", of |-> b, attempt |-> 1]}
    /\ Does(a, [at |-> "inserted", of |-> b, how |-> how, attempt |-> 0, drop |-> {},
                row |-> NewRow(how, "queued")])
    /\ crossed' = crossed \cup Overlapping(how, FALSE)
    /\ UNCHANGED <<day, env, site, rows, stores, spoiled, asked, faults>>

BackupInline(a, b, how) ==
    /\ MayInsert(a, b, how)
    /\ RunBackup(a, b, NewRow(how, "running"), how, 0)
    /\ crossed' = crossed \cup Overlapping(how, TRUE)
    /\ UNCHANGED <<day, env, site, rows, queue, asked>>

\* The daily tick survives a backup that is refused, and commits it as failed.
DailyRefused(a, b) ==
    /\ MayInsert(a, b, "daily") /\ Fault
    /\ Does(a, [at |-> "inserted", of |-> b, how |-> "daily", attempt |-> 0, drop |-> {},
                row |-> NewRow("daily", "failed")])
    /\ crossed' = crossed \cup Overlapping("daily", FALSE)
    /\ UNCHANGED <<day, env, site, rows, stores, queue, spoiled, asked>>

\* delete_backup, up to its commit.  A row without an archive yet names none.
DeleteBackup(a, b) ==
    /\ At(a, "idle") /\ rows[b] # NoRow /\ asked < MaxAsked
    /\ local' = DeleteStorage({b} \cap Succeeded, local)
    /\ remote' = DeleteStorage({b} \cap Succeeded, remote)
    /\ Does(a, [at |-> "deleting", of |-> b, how |-> "request", attempt |-> 0,
                drop |-> {b} \cap Succeeded, row |-> NoRow])
    /\ asked' = asked + 1
    /\ UNCHANGED <<day, env, site, rows, queue, faults, history>>

-----------------------------------------------------------------------------
(***************************************************************************)
(* _ensure_local_archive: the local archive if there is one, good or not,  *)
(* else the off-site object, which is fetched.                             *)
(***************************************************************************)
ArchiveOf(b) == IF local[b] # "none" THEN local[b] ELSE remote[b]

EnsureLocalArchive(b) ==
    /\ ArchiveOf(b) # "none"
    /\ local' = [local EXCEPT ![b] = ArchiveOf(b)]

\* verify_archive_checksum
Verified(b) == ArchiveOf(b) # "bad"

(***************************************************************************)
(* BackupEnvironmentTask.  A worker may look before the row is committed,  *)
(* does not find it and fails.  A failure would be recorded in a second    *)
(* session, but the task names a class there that it does not import: the  *)
(* row keeps its status, and the task is tried again, once.                *)
(***************************************************************************)
\* Slip: the limit of attempts is off by one.
RetriedOnceMore(t) ==
    queue' = IF t.kind = "backup" /\ t.attempt <= 2
             THEN (queue \ {t}) \cup {[t EXCEPT !.attempt = @ + 1]}
             ELSE queue \ {t}

Retried(t) ==
    queue' = IF t.kind = "backup" /\ t.attempt < 2
             THEN (queue \ {t}) \cup {[t EXCEPT !.attempt = @ + 1]}
             ELSE queue \ {t}

BackupEnvironment(w, t) ==
    /\ At(w, "idle") /\ t \in queue /\ t.kind = "backup" /\ rows[t.of] # NoRow
    /\ RunBackup(w, t.of, rows[t.of], "task", t.attempt)
    /\ queue' = queue \ {t}
    /\ crossed' = crossed \cup Overlapping("task", TRUE)
    /\ UNCHANGED <<day, env, site, rows, used, asked>>

\* No row yet or no longer, no site to back up, no archive or a damaged one.
Hopeless(t) ==
    rows[t.of] = NoRow \/ (IF t.kind = "backup" THEN site = "gone"
                           ELSE ArchiveOf(t.of) \in {"none", "bad"})

TaskFails(w, t) ==
    /\ At(w, "idle") /\ t \in queue
    /\ IF Hopeless(t) THEN UNCHANGED faults ELSE Fault
    /\ Retried(t)
    /\ UNCHANGED <<day, env, site, rows, stores, act, asked, history>>

(***************************************************************************)
(* The ends of these transactions.  A task keeps the row it makes locked.  *)
(***************************************************************************)
Locked(b) == {a \in Busy : act[a].of = b /\ act[a].how = "task"}

\* Slip: the archives of pruned rows go and the rows stay.
SavedUndropped(a, b) == IF b = act[a].of THEN act[a].row ELSE rows[b]

Saved(a, b) ==
    IF b = act[a].of THEN act[a].row
    ELSE IF b \in act[a].drop THEN NoRow ELSE rows[b]

Commit(a) ==
    /\ a \in Busy
    /\ \A b \in act[a].drop \cup {act[a].of} : Locked(b) \subseteq {a}
    /\ rows' = [b \in Backups |-> Saved(a, b)]
    /\ crossed' = IF At(a, "deleting") /\ \E d \in Busy : At(d, "made")
                  THEN crossed \cup {"deletes"} ELSE crossed
    /\ Does(a, Idle)
    /\ UNCHANGED <<day, env, site, stores, queue, spoiled, used, asked, faults>>

(***************************************************************************)
(* Any exception: the transaction is rolled back, but the archives that    *)
(* were removed are gone.                                                  *)
(***************************************************************************)
Fail(a) ==
    /\ a \in Busy /\ Fault
    /\ spoiled' = spoiled \cup act[a].drop
    /\ IF act[a].how = "task"
       THEN Retried([kind |-> "backup", of |-> act[a].of, attempt |-> act[a].attempt])
       ELSE UNCHANGED queue
    /\ Does(a, Idle)
    /\ UNCHANGED <<day, env, site, rows, stores, crossed, used, asked>>

\* A worker that dies takes the message with it.
Die(w) ==
    /\ w \in Busy /\ act[w].how # "request" /\ Fault
    /\ spoiled' = spoiled \cup act[w].drop
    /\ Does(w, Idle)
    /\ UNCHANGED <<day, env, site, rows, stores, queue, crossed, used, asked>>

-----------------------------------------------------------------------------
\* Without Redis the request runs the restore itself, as if a worker took it at once.
QueueRestore(a, b) ==
    /\ At(a, "idle") /\ asked < MaxAsked
    /\ env # "terminated" /\ b \in Succeeded
    /\ EnsureLocalArchive(b)
    /\ queue' = queue \cup {[kind |-> "restore", of |-> b, attempt |-> 1]}
    /\ asked' = asked + 1
    /\ UNCHANGED <<day, env, site, rows, remote, act, faults, history>>

(***************************************************************************)
(* run_restore looks at neither the status of the environment nor that of  *)
(* the backup.  _extract_archive empties the document root and then copies *)
(* the files into it.                                                      *)
(***************************************************************************)
RunRestore(w, t) ==
    /\ At(w, "idle") /\ t \in queue /\ t.kind = "restore" /\ rows[t.of] # NoRow
    /\ EnsureLocalArchive(t.of) /\ Verified(t.of)
    /\ queue' = queue \ {t}
    /\ site' = "torn"
    /\ Does(w, [at |-> "emptied", is |-> ArchiveOf(t.of)])
    /\ UNCHANGED <<day, env, rows, remote, asked, faults, history>>

\* Two restores that copy at the same time trip over each other's files.
Fill(w) ==
    /\ At(w, "emptied")
    /\ site' \in {act[w].is} \cup
                 (IF \E a \in Actors \ {w} : At(a, "emptied") THEN {"torn"} ELSE {})
    /\ Does(w, Idle)
    /\ UNCHANGED <<day, env, rows, stores, queue, asked, faults, history>>

\* The copy fails or the worker dies: the site stays as it is, and nothing retries.
FillFails(w) ==
    /\ At(w, "emptied") /\ Fault
    /\ Does(w, Idle)
    /\ UNCHANGED <<day, env, site, rows, stores, queue, asked, history>>

-----------------------------------------------------------------------------
\* terminate() of lifecycle.py removes the site, and no backup.
Terminate ==
    /\ env = "active" /\ asked < MaxAsked
    /\ env' = "terminated" /\ site' = "gone"
    /\ asked' = asked + 1
    /\ UNCHANGED <<day, rows, stores, queue, act, faults, history>>

NextDay ==
    /\ day < MaxDay /\ day' = day + 1
    /\ UNCHANGED <<env, site, rows, stores, queue, act, asked, faults, history>>

Next ==
    \/ \E a \in Actors :
        \/ \E b \in Backups, how \in {"request", "daily"} :
              QueueBackup(a, b, how) \/ BackupInline(a, b, how)
        \/ \E b \in Backups : DailyRefused(a, b) \/ DeleteBackup(a, b) \/ QueueRestore(a, b)
        \/ \E t \in queue : BackupEnvironment(a, t) \/ TaskFails(a, t) \/ RunRestore(a, t)
        \/ Commit(a) \/ Fail(a) \/ Die(a)
        \/ Fill(a) \/ FillFails(a)
    \/ Terminate \/ NextDay

Spec == Init /\ [][Next]_vars

-----------------------------------------------------------------------------
(***************************************************************************)
(* A successful backup can be restored: a restore would find an archive    *)
(* and accept it, and it holds the whole site.  Excepted are those spoiled *)
(* in a known way (made of a site that a restore had torn, or with files   *)
(* skipped; left with a damaged off-site copy only; or dropped by a        *)
(* transaction that failed afterwards) and those being dropped.            *)
(***************************************************************************)
Dropping == UNION {act[a].drop : a \in Busy}

SuccessIsRestorable == \A b \in Succeeded \ (spoiled \cup Dropping) : ArchiveOf(b) = "whole"

(***************************************************************************)
(* Pruning keeps what it should and no more: one backup above the limit,   *)
(* since the new one is not counted, or as many as can prune at once, for  *)
(* those do not count each other; and never less than the limit, unless    *)
(* the customer deletes one while a prune is not committed.                *)
(***************************************************************************)
Retained ==
    /\ Cardinality(Succeeded) <=
          Keep + (IF "prunes" \in crossed THEN Cardinality(Actors) ELSE 1)
    /\ "deletes" \notin crossed =>
         \A a \in Busy : At(a, "made") /\ act[a].drop # {} =>
             Cardinality(Succeeded \ act[a].drop) >= Keep

(***************************************************************************)
(* The daily tick makes one backup a day, unless two ticks overlapped; a   *)
(* backup that failed does not count.                                      *)
(***************************************************************************)
DailyOnce ==
    "ticks" \in crossed \/
    \A b, c \in {b \in Backups : rows[b].daily /\ rows[b].status # "failed"} :
        rows[b].born = rows[c].born => b = c

(***************************************************************************)
(* "Worker commits failure notify in a fresh session" (backups.py:316): a  *)
(* backup whose task has failed, and waits for its second attempt, is      *)
(* recorded as failed.                                                     *)
(***************************************************************************)
FailureIsRecorded ==
    \A t \in queue : t.attempt = 2 /\ rows[t.of] # NoRow => rows[t.of].status = "failed"

=============================================================================
