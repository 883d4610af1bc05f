---------------------------- MODULE BackupsProofs ----------------------------
(***************************************************************************)
(* What TLAPS proves of Backups for any number of backups, of workers and  *)
(* requests, of days and faults: its safety.                               *)
(*                                                                         *)
(* The proof says what a step does to the sessions (NobodyMoves, Starts,   *)
(* Stops) and that rows, tasks and sessions agree (Tidy): a backup that is *)
(* being made is nobody else's, but for a deletion that has to wait for    *)
(* the lock on its row.  On that rest what is known of the archives        *)
(* (Restorable), of the days (Daily) and of the number of backups (Kept),  *)
(* each a part of the invariant that an action can only disturb in the few *)
(* ways the lemmas name.                                                   *)
(***************************************************************************)
EXTENDS Backups, FiniteSetTheorems, WellFoundedInduction, TLAPS

-------------------------------------------------------------------------------
(***************************************************************************)
(* Types.                                                                  *)
(***************************************************************************)
Session == {Idle} \cup Working \cup Restoring

LEMMA NoRowIsRow == NoRow \in Row /\ NoRow.status = "none" /\ NoRow.daily = FALSE
BY BackupAssumption DEF NoRow, Row, Status

LEMMA BusyWorks ==
    ASSUME TypeOK, NEW a \in Busy
    PROVE  /\ a \in Actors
           /\ act[a] \in Working
           /\ act[a].at \in {"inserted", "made", "deleting"}
           /\ act[a].of \in Backups
           /\ act[a].row \in Row
           /\ act[a].how \in How
           /\ act[a].attempt \in 0 .. 2
           /\ act[a].drop \in SUBSET Backups
<1>1. a \in Actors /\ act[a].at # "idle" /\ act[a].at # "emptied"
  BY DEF Busy
<1>2. act[a] \in Session
  BY <1>1 DEF TypeOK, Session
<1>3. act[a] # Idle /\ act[a] \notin Restoring
  BY <1>1 DEF Idle, Restoring
<1>4. act[a] \in Working
  BY <1>2, <1>3 DEF Session
<1> QED BY <1>1, <1>4 DEF Working

LEMMA BusyIs == \A a \in Actors : a \in Busy <=> act[a].at # "idle" /\ act[a].at # "emptied"
BY DEF Busy

LEMMA BusyIsNext == \A a \in Actors : a \in Busy' <=> act'[a].at # "idle" /\ act'[a].at # "emptied"
BY DEF Busy

LEMMA WorkingIs ==
    ASSUME NEW at \in {"inserted", "made", "deleting"}, NEW b \in Backups, NEW row \in Row,
           NEW how \in How, NEW attempt \in 0 .. 2, NEW drop \in SUBSET Backups
    PROVE  [at |-> at, of |-> b, how |-> how, attempt |-> attempt, drop |-> drop, row |-> row] \in Session
BY DEF Working, Session

LEMMA DoesIs ==
    ASSUME TypeOK, NEW a \in Actors, NEW what, Does(a, what)
    PROVE  /\ act'[a] = what
           /\ \A c \in Actors \ {a} : act'[c] = act[c]
           /\ what \in Session => act' \in [Actors -> Session]
BY DEF TypeOK, Does, Session

LEMMA TaskFields ==
    ASSUME NEW t \in Task
    PROVE  /\ t.kind \in {"backup", "restore"} /\ t.of \in Backups
           /\ t.kind = "backup" => t.attempt \in 1 .. 2
BY DEF Task

LEMMA BackupTask == \A b \in Backups, n \in 1 .. 2 : [kind |-> "backup", of |-> b, attempt |-> n] \in Task
BY DEF Task

LEMMA RestoreTask == \A b \in Backups : [kind |-> "restore", of |-> b, attempt |-> 1] \in Task
BY DEF Task

\* A failed task is gone, or there again with the next attempt.
LEMMA RetriedIs ==
    ASSUME NEW t \in Task, Retried(t)
    PROVE  \/ queue' = queue \ {t}
           \/ /\ t.kind = "backup" /\ t.attempt \in 1 .. 1
              /\ queue' = (queue \ {t}) \cup {[kind |-> "backup", of |-> t.of, attempt |-> t.attempt + 1]}
<1>1. CASE t.kind = "backup" /\ t.attempt < 2
  <2>1. t \in [kind : {"backup"}, of : Backups, attempt : 1 .. 2]
    BY <1>1 DEF Task
  <2>2. [t EXCEPT !.attempt = t.attempt + 1] = [kind |-> "backup", of |-> t.of, attempt |-> t.attempt + 1]
    BY <1>1, <2>1
  <2> QED BY <1>1, <2>1, <2>2 DEF Retried
<1>2. CASE ~(t.kind = "backup" /\ t.attempt < 2)
  BY <1>2 DEF Retried
<1> QED BY <1>1, <1>2

LEMMA RetriedType ==
    ASSUME TypeOK, NEW t \in Task, Retried(t)
    PROVE  queue' \subseteq Task
<1>1. CASE queue' = queue \ {t}
  BY <1>1 DEF TypeOK
<1>2. CASE /\ t.kind = "backup" /\ t.attempt \in 1 .. 1
           /\ queue' = (queue \ {t}) \cup {[kind |-> "backup", of |-> t.of, attempt |-> t.attempt + 1]}
  <2>1. t.of \in Backups /\ t.attempt + 1 \in 1 .. 2
    BY <1>2, TaskFields
  <2> QED BY <1>2, <2>1, BackupTask DEF TypeOK
<1> QED BY <1>1, <1>2, RetriedIs

LEMMA FaultType ==
    ASSUME TypeOK, Fault
    PROVE  faults' \in 0 .. MaxFaults
BY BackupAssumption DEF TypeOK, Fault

LEMMA StoreTypes ==
    ASSUME NEW store \in [Backups -> Archive], NEW old
    PROVE  DeleteStorage(old, store) \in [Backups -> Archive]
BY DEF DeleteStorage, Archive

\* What run_backup has made, and dropped.
Makes(a, b, row, how, attempt, upload, copied, old, made) ==
    /\ made.status = "success" /\ made.born = row.born /\ made.daily = row.daily
    /\ Does(a, [at |-> "made", of |-> b, how |-> how, attempt |-> attempt, drop |-> old, row |-> made])
    /\ copied \in {"whole", "torn"} /\ Prunable(old)
    /\ local' = [DeleteStorage(old, local) EXCEPT ![b] = LocalAfter(upload, copied)]
    /\ remote' = [DeleteStorage(old, remote) EXCEPT ![b] = RemoteAfter(upload, copied)]
    /\ spoiled' = IF copied = "torn" \/ upload = "damaged" THEN spoiled \cup {b} ELSE spoiled
    /\ faults' \in 0 .. MaxFaults

LEMMA RunBackupIs ==
    ASSUME TypeOK, NEW a, NEW b \in Backups, NEW row \in Row, NEW how, NEW attempt,
           RunBackup(a, b, row, how, attempt)
    PROVE  \E upload \in Uploads, copied \in {"whole", "torn"}, old \in SUBSET Succeeded, made \in Row :
              Makes(a, b, row, how, attempt, upload, copied, old, made)
<1>1. site \in {"whole", "torn"}
  BY DEF RunBackup, TypeOK
<1>2. PICK upload \in Uploads, copied \in {site, "torn"}, old \in SUBSET Succeeded :
        /\ Prunable(old)
        /\ IF upload \in {"damaged", "kept"} \/ copied # site THEN Fault ELSE UNCHANGED faults
        /\ local' = [DeleteStorage(old, local) EXCEPT ![b] = LocalAfter(upload, copied)]
        /\ remote' = [DeleteStorage(old, remote) EXCEPT ![b] = RemoteAfter(upload, copied)]
        /\ Does(a, [at |-> "made", of |-> b, how |-> how, attempt |-> attempt, drop |-> old,
                    row |-> [row EXCEPT !.status = "success"]])
        /\ spoiled' = IF copied = "torn" \/ upload = "damaged" THEN spoiled \cup {b} ELSE spoiled
  BY DEF RunBackup, Copied
<1>3. PICK made \in Row : made = [row EXCEPT !.status = "success"]
  BY DEF Row, Status
<1>5. made.status = "success" /\ made.born = row.born /\ made.daily = row.daily
  BY <1>3 DEF Row
<1>4. faults' \in 0 .. MaxFaults
  <2>1. Fault \/ faults' = faults
    BY <1>2
  <2>2. CASE Fault
    BY <2>2, FaultType
  <2> QED BY <2>1, <2>2 DEF TypeOK
<1>6. copied \in {"whole", "torn"}
  BY <1>1
<1>7. Makes(a, b, row, how, attempt, upload, copied, old, made)
  BY <1>2, <1>3, <1>4, <1>5, <1>6 DEF Makes
<1> QED BY <1>6, <1>7

LEMMA AfterUpload ==
    ASSUME NEW upload \in Uploads, NEW copied \in {"whole", "torn"}
    PROVE  LocalAfter(upload, copied) \in Archive /\ RemoteAfter(upload, copied) \in Archive
BY DEF Uploads, LocalAfter, RemoteAfter, Archive

\* The archives of run_backup: those of the old ones are gone, that of the new one is there.
LEMMA StoresAfter ==
    ASSUME TypeOK, NEW upload \in Uploads, NEW copied \in {"whole", "torn"}, NEW old,
           NEW b \in Backups,
           local' = [DeleteStorage(old, local) EXCEPT ![b] = LocalAfter(upload, copied)],
           remote' = [DeleteStorage(old, remote) EXCEPT ![b] = RemoteAfter(upload, copied)]
    PROVE  /\ local' \in [Backups -> Archive] /\ remote' \in [Backups -> Archive]
           /\ local'[b] = LocalAfter(upload, copied) /\ remote'[b] = RemoteAfter(upload, copied)
           /\ \A c \in Backups \ {b} :
                c \notin old => local'[c] = local[c] /\ remote'[c] = remote[c]
<1>1. DeleteStorage(old, local) \in [Backups -> Archive]
  BY StoreTypes DEF TypeOK
<1>2. DeleteStorage(old, remote) \in [Backups -> Archive]
  BY StoreTypes DEF TypeOK
<1>3. \A c \in Backups : c \notin old =>
        DeleteStorage(old, local)[c] = local[c] /\ DeleteStorage(old, remote)[c] = remote[c]
  BY DEF DeleteStorage
<1> QED BY <1>1, <1>2, <1>3, AfterUpload

\* What a restore fetches is what it would have found.
LEMMA EnsureIs ==
    ASSUME TypeOK, NEW b \in Backups, EnsureLocalArchive(b), remote' = remote
    PROVE  /\ ArchiveOf(b) \in Archive \ {"none"}
           /\ local' \in [Backups -> Archive]
           /\ \A c \in Backups : ArchiveOf(c)' = ArchiveOf(c)
<1>1. ArchiveOf(b) \in Archive \ {"none"}
  BY DEF ArchiveOf, EnsureLocalArchive, TypeOK
<1>2. local' \in [Backups -> Archive] /\ local'[b] = ArchiveOf(b)
  BY <1>1 DEF EnsureLocalArchive, TypeOK
<1>3. \A c \in Backups \ {b} : local'[c] = local[c]
  BY DEF EnsureLocalArchive, TypeOK
<1>4. \A c \in Backups \ {b} : ArchiveOf(c)' = ArchiveOf(c)
  BY <1>3 DEF ArchiveOf
<1>5. ArchiveOf(b)' = ArchiveOf(b)
  BY <1>1, <1>2 DEF ArchiveOf
<1> QED BY <1>1, <1>2, <1>4, <1>5

(***************************************************************************)
(* Who is at work.                                                         *)
(***************************************************************************)
LEMMA OneActs ==
    ASSUME TypeOK, NEW a \in Actors, NEW what \in Session, Does(a, what)
    PROVE  /\ act'[a] = what
           /\ \A c \in Actors \ {a} : act'[c] = act[c] /\ (c \in Busy' <=> c \in Busy)
           /\ a \in Busy' <=> what.at \notin {"idle", "emptied"}
           /\ Busy' \subseteq Actors
BY DoesIs DEF Busy

\* Nobody starts or ends a transaction.
NobodyMoves == Busy' = Busy /\ \A c \in Busy : act'[c] = act[c]
Starts(a) ==
    /\ a \in Actors \ Busy /\ Busy' = Busy \cup {a}
    /\ \A c \in Busy : act'[c] = act[c]
Stops(a) ==
    /\ a \in Busy /\ Busy' = Busy \ {a}
    /\ \A c \in Busy \ {a} : act'[c] = act[c]

LEMMA StartsIs ==
    ASSUME TypeOK, NEW a \in Actors, At(a, "idle"),
           NEW what \in Session, what.at \notin {"idle", "emptied"}, Does(a, what)
    PROVE  Starts(a) /\ act'[a] = what
<1>1. a \notin Busy /\ Busy \subseteq Actors
  BY DEF Busy, At
<1> QED BY <1>1, OneActs DEF Starts

LEMMA StopsIs ==
    ASSUME TypeOK, NEW a \in Busy, Does(a, Idle)
    PROVE  Stops(a) /\ act' \in [Actors -> Session]
<1>1. Idle \in Session /\ Idle.at = "idle"
  BY DEF Session, Idle
<1>2. a \in Actors /\ Busy \subseteq Actors
  BY DEF Busy
<1> QED BY <1>1, <1>2, OneActs, DoesIs DEF Stops

LEMMA RestoreIs ==
    ASSUME TypeOK, NEW a \in Actors \ Busy, NEW what \in Session, what.at \in {"idle", "emptied"},
           Does(a, what)
    PROVE  NobodyMoves /\ act' \in [Actors -> Session]
<1>1. Busy \subseteq Actors
  BY DEF Busy
<1> QED BY <1>1, OneActs, DoesIs DEF NobodyMoves

LEMMA NobodyActs == ASSUME UNCHANGED act PROVE NobodyMoves
BY DEF NobodyMoves, Busy

-------------------------------------------------------------------------------
(***************************************************************************)
(* Type correctness.                                                       *)
(***************************************************************************)
\* What a restore copies into the site is an archive it has accepted.
Filled == \A a \in Actors : At(a, "emptied") => act[a].is \in {"whole", "torn"}

LEMMA EmptiedIs ==
    ASSUME TypeOK, NEW a \in Actors, At(a, "emptied")
    PROVE  act[a] \in Restoring /\ a \notin Busy
BY DEF TypeOK, At, Idle, Working, Restoring, Busy

LEMMA FilledKept == ASSUME Filled, UNCHANGED act PROVE Filled'
BY DEF Filled, At

LEMMA FilledStill ==
    ASSUME TypeOK, Filled, NEW a \in Actors, NEW what \in Session, what.at # "emptied", Does(a, what)
    PROVE  Filled'
<1>1. act'[a] = what /\ \A c \in Actors \ {a} : act'[c] = act[c]
  BY DoesIs
<1> QED BY <1>1 DEF Filled, At

LEMMA NewRowIs ==
    ASSUME TypeOK, NEW how, NEW status \in Status
    PROVE  /\ NewRow(how, status) \in Row
           /\ NewRow(how, status).status = status
           /\ NewRow(how, status).born = day
           /\ NewRow(how, status).daily = (how = "daily")
<1>1. day \in 0 .. MaxDay
  BY BackupAssumption DEF TypeOK
<1>2. (how = "daily") \in BOOLEAN
  OBVIOUS
<1> QED BY <1>1, <1>2 DEF NewRow, Row

LEMMA OverlappingType == \A how, made : Overlapping(how, made) \subseteq {"ticks", "prunes", "deletes"}
BY DEF Overlapping

Inserted(b, how, status) ==
    [at |-> "inserted", of |-> b, how |-> how, attempt |-> 0, drop |-> {}, row |-> NewRow(how, status)]

LEMMA InsertedIs ==
    ASSUME TypeOK, NEW b \in Backups, NEW how \in {"request", "daily"},
           NEW status \in {"queued", "failed"}
    PROVE  /\ Inserted(b, how, status) \in Session
           /\ Inserted(b, how, status).at = "inserted"
           /\ Inserted(b, how, status).of = b
           /\ Inserted(b, how, status).how = how
           /\ Inserted(b, how, status).drop = {}
           /\ Inserted(b, how, status).row = NewRow(how, status)
<1>1. NewRow(how, status) \in Row
  BY NewRowIs DEF Status
<1>2. how \in How
  BY DEF How
<1>3. Inserted(b, how, status) \in Session
  BY <1>1, <1>2 DEF Inserted, Session, Working
<1> QED BY <1>3 DEF Inserted

LEMMA MadeIs ==
    ASSUME NEW b \in Backups, NEW how \in How, NEW attempt \in 0 .. 2, NEW old \in SUBSET Backups,
           NEW made \in Row, NEW s,
           s = [at |-> "made", of |-> b, how |-> how, attempt |-> attempt, drop |-> old, row |-> made]
    PROVE  /\ s \in Session
           /\ s.at = "made" /\ s.of = b /\ s.how = how /\ s.drop = old /\ s.row = made
BY WorkingIs

LEMMA QueueBackupType ==
    ASSUME TypeOK, Filled, NEW a \in Actors, NEW b \in Backups, NEW how \in {"request", "daily"},
           QueueBackup(a, b, how)
    PROVE  TypeOK' /\ Filled'
<1>1. Does(a, Inserted(b, how, "queued"))
  BY DEF QueueBackup, Inserted
<1>2. Inserted(b, how, "queued") \in Session /\ Inserted(b, how, "queued").at = "inserted"
  BY InsertedIs
<1>3. act' \in [Actors -> Session]
  BY <1>1, <1>2, DoesIs
<1>4. used' \subseteq Backups /\ crossed' \subseteq {"ticks", "prunes", "deletes"}
  BY OverlappingType DEF TypeOK, QueueBackup, MayInsert
<1>5. queue' \subseteq Task
  <2>1. [kind |-> "backup", of |-> b, attempt |-> 1] \in Task
    BY 1 \in 1 .. 2, BackupTask
  <2> QED BY <2>1 DEF TypeOK, QueueBackup
<1>6. TypeOK'
  BY <1>3, <1>4, <1>5 DEF TypeOK, QueueBackup, stores, Session
<1> QED BY <1>1, <1>2, <1>6, FilledStill

LEMMA RunBackupType ==
    ASSUME TypeOK, Filled, NEW a \in Actors, NEW b \in Backups, NEW row \in Row, NEW how \in How,
           NEW attempt \in 0 .. 2, RunBackup(a, b, row, how, attempt),
           queue' \subseteq Task, used' \subseteq Backups, crossed' \subseteq {"ticks", "prunes", "deletes"},
           UNCHANGED <<day, env, site, rows, asked>>
    PROVE  TypeOK' /\ Filled'
<1>1. PICK upload \in Uploads, copied \in {"whole", "torn"}, old \in SUBSET Succeeded, made \in Row :
        Makes(a, b, row, how, attempt, upload, copied, old, made)
  BY RunBackupIs
<1>2. PICK s : s = [at |-> "made", of |-> b, how |-> how, attempt |-> attempt, drop |-> old, row |-> made]
  OBVIOUS
<1>3. old \in SUBSET Backups
  BY DEF Succeeded
<1>4. s \in Session /\ s.at = "made"
  BY <1>2, <1>3, MadeIs
<1>5. act' \in [Actors -> Session]
  BY <1>1, <1>2, <1>4, DoesIs DEF Makes
<1>6. local' \in [Backups -> Archive] /\ remote' \in [Backups -> Archive]
  BY <1>1, StoresAfter DEF Makes
<1>7. spoiled' \subseteq Backups
  BY <1>1 DEF TypeOK, Makes
<1>8. TypeOK'
  BY <1>1, <1>5, <1>6, <1>7 DEF TypeOK, Session, Makes
<1> QED BY <1>1, <1>2, <1>4, <1>8, FilledStill DEF Makes

LEMMA BackupInlineType ==
    ASSUME TypeOK, Filled, NEW a \in Actors, NEW b \in Backups, NEW how \in {"request", "daily"},
           BackupInline(a, b, how)
    PROVE  TypeOK' /\ Filled'
<1>1. NewRow(how, "running") \in Row
  BY NewRowIs DEF Status
<1>2. how \in How
  BY DEF How
<1>3. RunBackup(a, b, NewRow(how, "running"), how, 0)
  BY DEF BackupInline
<1>4. used' \subseteq Backups /\ crossed' \subseteq {"ticks", "prunes", "deletes"} /\ queue' \subseteq Task
  BY OverlappingType DEF TypeOK, BackupInline, MayInsert
<1>5. UNCHANGED <<day, env, site, rows, asked>>
  BY DEF BackupInline
<1> QED BY <1>1, <1>2, <1>3, <1>4, <1>5, 0 \in 0 .. 2, RunBackupType

LEMMA DailyRefusedType ==
    ASSUME TypeOK, Filled, NEW a \in Actors, NEW b \in Backups, DailyRefused(a, b)
    PROVE  TypeOK' /\ Filled'
<1>1. Does(a, Inserted(b, "daily", "failed"))
  BY DEF DailyRefused, Inserted
<1>2. Inserted(b, "daily", "failed") \in Session /\ Inserted(b, "daily", "failed").at = "inserted"
  BY InsertedIs
<1>3. act' \in [Actors -> Session]
  BY <1>1, <1>2, DoesIs
<1>4. used' \subseteq Backups /\ crossed' \subseteq {"ticks", "prunes", "deletes"}
  BY OverlappingType DEF TypeOK, DailyRefused, MayInsert
<1>5. faults' \in 0 .. MaxFaults
  BY FaultType DEF DailyRefused
<1>6. TypeOK'
  BY <1>3, <1>4, <1>5 DEF TypeOK, DailyRefused, stores, Session
<1> QED BY <1>1, <1>2, <1>6, FilledStill

Deleting(b, drop) ==
    [at |-> "deleting", of |-> b, how |-> "request", attempt |-> 0, drop |-> drop, row |-> NoRow]

LEMMA DeletingIs ==
    ASSUME NEW b \in Backups, NEW drop \in SUBSET Backups
    PROVE  /\ Deleting(b, drop) \in Session
           /\ Deleting(b, drop).at = "deleting" /\ Deleting(b, drop).of = b
           /\ Deleting(b, drop).how = "request" /\ Deleting(b, drop).drop = drop
           /\ Deleting(b, drop).row = NoRow
<1>1. Deleting(b, drop) \in Session
  BY NoRowIsRow DEF Deleting, Session, Working, How
<1> QED BY <1>1 DEF Deleting

LEMMA AskedType == ASSUME TypeOK, asked < MaxAsked, asked' = asked + 1 PROVE asked' \in 0 .. MaxAsked
BY BackupAssumption DEF TypeOK

LEMMA DeleteBackupType ==
    ASSUME TypeOK, Filled, NEW a \in Actors, NEW b \in Backups, DeleteBackup(a, b)
    PROVE  TypeOK' /\ Filled'
<1>1. Does(a, Deleting(b, {b} \cap Succeeded))
  BY DEF DeleteBackup, Deleting
<1>2. {b} \cap Succeeded \in SUBSET Backups
  OBVIOUS
<1>3. Deleting(b, {b} \cap Succeeded) \in Session /\ Deleting(b, {b} \cap Succeeded).at = "deleting"
  BY <1>2, DeletingIs
<1>4. act' \in [Actors -> Session]
  BY <1>1, <1>3, DoesIs
<1>5. local' \in [Backups -> Archive] /\ remote' \in [Backups -> Archive]
  BY StoreTypes DEF DeleteBackup, TypeOK
<1>6. asked' \in 0 .. MaxAsked
  BY AskedType DEF DeleteBackup
<1>7. TypeOK'
  BY <1>4, <1>5, <1>6 DEF TypeOK, DeleteBackup, history, Session
<1> QED BY <1>1, <1>3, <1>7, FilledStill

LEMMA BackupEnvironmentType ==
    ASSUME TypeOK, Filled, NEW w \in Actors, NEW t \in queue, BackupEnvironment(w, t)
    PROVE  TypeOK' /\ Filled'
<1>1. t \in Task
  BY DEF TypeOK
<1>2. t.of \in Backups /\ t.attempt \in 1 .. 2
  BY <1>1, TaskFields DEF BackupEnvironment
<1>3. rows[t.of] \in Row /\ t.attempt \in 0 .. 2 /\ "task" \in How
  BY <1>2 DEF TypeOK, How
<1>4. RunBackup(w, t.of, rows[t.of], "task", t.attempt)
  BY DEF BackupEnvironment
<1>5. used' \subseteq Backups /\ crossed' \subseteq {"ticks", "prunes", "deletes"} /\ queue' \subseteq Task
  BY OverlappingType DEF TypeOK, BackupEnvironment
<1> QED BY <1>2, <1>3, <1>4, <1>5, RunBackupType DEF BackupEnvironment

LEMMA TaskFailsType ==
    ASSUME TypeOK, Filled, NEW w \in Actors, NEW t \in queue, TaskFails(w, t)
    PROVE  TypeOK' /\ Filled'
<1>1. t \in Task
  BY DEF TypeOK
<1>2. queue' \subseteq Task
  BY <1>1, RetriedType DEF TaskFails
<1>3. Fault \/ faults' = faults
  BY DEF TaskFails
<1>4. faults' \in 0 .. MaxFaults
  <2>1. CASE Fault
    BY <2>1, FaultType
  <2> QED BY <1>3, <2>1 DEF TypeOK
<1>5. TypeOK'
  BY <1>2, <1>4 DEF TypeOK, TaskFails, stores, history, Session
<1> QED BY <1>5, FilledKept DEF TaskFails

LEMMA CommitType ==
    ASSUME TypeOK, Filled, NEW a \in Actors, Commit(a)
    PROVE  TypeOK' /\ Filled'
<1>1. a \in Busy /\ Does(a, Idle)
  BY DEF Commit
<1>2. act' \in [Actors -> Session]
  BY <1>1, StopsIs
<1>3. \A b \in Backups : Saved(a, b) \in Row
  BY <1>1, BusyWorks, NoRowIsRow DEF Saved, TypeOK
<1>4. rows' \in [Backups -> Row]
  BY <1>3 DEF Commit
<1>5. crossed' \subseteq {"ticks", "prunes", "deletes"}
  BY DEF Commit, TypeOK
<1>6. TypeOK'
  BY <1>2, <1>4, <1>5 DEF TypeOK, Commit, stores, Session
<1> QED BY <1>1, <1>6, FilledStill DEF Session, Idle

\* A failed transaction of a worker: its task goes, or comes again.
LEMMA FailedTask ==
    ASSUME NEW b \in Backups, NEW n \in 0 .. 2,
           Retried([kind |-> "backup", of |-> b, attempt |-> n])
    PROVE  \/ queue' \subseteq queue
           \/ /\ n + 1 \in 1 .. 2
              /\ queue' \subseteq queue \cup {[kind |-> "backup", of |-> b, attempt |-> n + 1]}
<1>1. PICK t : t = [kind |-> "backup", of |-> b, attempt |-> n]
  OBVIOUS
<1>2. [t EXCEPT !.attempt = t.attempt + 1] = [kind |-> "backup", of |-> b, attempt |-> n + 1]
  BY <1>1
<1>3. CASE n < 2
  BY <1>1, <1>2, <1>3 DEF Retried
<1>4. CASE ~(n < 2)
  BY <1>1, <1>4 DEF Retried
<1> QED BY <1>3, <1>4

LEMMA FailType ==
    ASSUME TypeOK, Filled, NEW a \in Actors, Fail(a)
    PROVE  TypeOK' /\ Filled'
<1>1. a \in Busy /\ Does(a, Idle)
  BY DEF Fail
<1>2. act' \in [Actors -> Session]
  BY <1>1, StopsIs
<1>3. act[a].of \in Backups /\ act[a].attempt \in 0 .. 2 /\ act[a].drop \in SUBSET Backups
  BY <1>1, BusyWorks
<1>4. queue' \subseteq Task
  <2>1. CASE act[a].how = "task"
    <3>1. Retried([kind |-> "backup", of |-> act[a].of, attempt |-> act[a].attempt])
      BY <2>1 DEF Fail
    <3>2. \/ queue' \subseteq queue
          \/ /\ act[a].attempt + 1 \in 1 .. 2
             /\ queue' \subseteq queue \cup
                    {[kind |-> "backup", of |-> act[a].of, attempt |-> act[a].attempt + 1]}
      BY <3>1, <1>3, FailedTask
    <3>3. CASE queue' \subseteq queue
      BY <3>3 DEF TypeOK
    <3>4. ASSUME act[a].attempt + 1 \in 1 .. 2
          PROVE  [kind |-> "backup", of |-> act[a].of, attempt |-> act[a].attempt + 1] \in Task
      BY <3>4, <1>3, BackupTask
    <3> QED BY <3>2, <3>3, <3>4 DEF TypeOK
  <2>2. CASE act[a].how # "task"
    BY <2>2 DEF Fail, TypeOK
  <2> QED BY <2>1, <2>2
<1>5. faults' \in 0 .. MaxFaults
  BY FaultType DEF Fail
<1>6. spoiled' \subseteq Backups
  BY <1>3 DEF Fail, TypeOK
<1>7. TypeOK'
  BY <1>2, <1>4, <1>5, <1>6 DEF TypeOK, Fail, stores, Session
<1> QED BY <1>1, <1>7, FilledStill DEF Session, Idle

LEMMA DieType ==
    ASSUME TypeOK, Filled, NEW w \in Actors, Die(w)
    PROVE  TypeOK' /\ Filled'
<1>1. w \in Busy /\ Does(w, Idle)
  BY DEF Die
<1>2. act' \in [Actors -> Session]
  BY <1>1, StopsIs
<1>3. act[w].drop \in SUBSET Backups
  BY <1>1, BusyWorks
<1>4. faults' \in 0 .. MaxFaults
  BY FaultType DEF Die
<1>5. spoiled' \subseteq Backups
  BY <1>3 DEF Die, TypeOK
<1>6. TypeOK'
  BY <1>2, <1>4, <1>5 DEF TypeOK, Die, stores, Session
<1> QED BY <1>1, <1>6, FilledStill DEF Session, Idle

LEMMA QueueRestoreType ==
    ASSUME TypeOK, Filled, NEW a \in Actors, NEW b \in Backups, QueueRestore(a, b)
    PROVE  TypeOK' /\ Filled'
<1>1. local' \in [Backups -> Archive]
  BY EnsureIs DEF QueueRestore
<1>2. queue' \subseteq Task
  BY RestoreTask DEF QueueRestore, TypeOK
<1>3. asked' \in 0 .. MaxAsked
  BY AskedType DEF QueueRestore
<1>4. TypeOK'
  BY <1>1, <1>2, <1>3 DEF TypeOK, QueueRestore, history, Session
<1> QED BY <1>4, FilledKept DEF QueueRestore

LEMMA RunRestoreIs ==
    ASSUME TypeOK, NEW w \in Actors, NEW t \in queue, RunRestore(w, t)
    PROVE  /\ t.of \in Backups /\ w \notin Busy
           /\ local' \in [Backups -> Archive]
           /\ \A b \in Backups : ArchiveOf(b)' = ArchiveOf(b)
           /\ \E s \in Session : /\ s.at = "emptied" /\ s.is \in {"whole", "torn"}
                                 /\ Does(w, s)
<1>1. t.of \in Backups
  BY TaskFields DEF TypeOK
<1>2. /\ ArchiveOf(t.of) \in Archive \ {"none"}
      /\ local' \in [Backups -> Archive]
      /\ \A b \in Backups : ArchiveOf(b)' = ArchiveOf(b)
  BY <1>1, EnsureIs DEF RunRestore
<1>3. ArchiveOf(t.of) \in {"whole", "torn"}
  BY <1>2 DEF RunRestore, Verified, Archive
<1>4. PICK s : s = [at |-> "emptied", is |-> ArchiveOf(t.of)]
  OBVIOUS
<1>5. s \in Session /\ s.at = "emptied" /\ s.is \in {"whole", "torn"}
  BY <1>2, <1>3, <1>4 DEF Session, Restoring
<1>6. Does(w, s) /\ w \notin Busy
  BY <1>4 DEF RunRestore, At, Busy
<1> QED BY <1>1, <1>2, <1>5, <1>6

LEMMA RunRestoreType ==
    ASSUME TypeOK, Filled, NEW w \in Actors, NEW t \in queue, RunRestore(w, t)
    PROVE  TypeOK' /\ Filled'
<1>1. PICK s \in Session : s.at = "emptied" /\ s.is \in {"whole", "torn"} /\ Does(w, s)
  BY RunRestoreIs
<1>2. act' \in [Actors -> Session] /\ act'[w] = s /\ \A c \in Actors \ {w} : act'[c] = act[c]
  BY <1>1, DoesIs
<1>3. local' \in [Backups -> Archive]
  BY RunRestoreIs
<1>4. TypeOK'
  BY <1>2, <1>3 DEF TypeOK, RunRestore, history, Session
<1>5. Filled'
  BY <1>1, <1>2 DEF Filled, At
<1> QED BY <1>4, <1>5

LEMMA IdleIs == Idle \in Session /\ Idle.at = "idle"
BY DEF Session, Idle

LEMMA FillType ==
    ASSUME TypeOK, Filled, NEW w \in Actors, Fill(w)
    PROVE  TypeOK' /\ Filled'
<1>1. Does(w, Idle)
  BY DEF Fill
<1>2. act' \in [Actors -> Session]
  BY <1>1, IdleIs, DoesIs
<1>3. site' \in {"whole", "torn", "gone"}
  BY DEF Fill, Filled
<1>4. TypeOK'
  BY <1>2, <1>3 DEF TypeOK, Fill, history, stores, Session
<1> QED BY <1>1, <1>4, IdleIs, FilledStill

LEMMA FillFailsType ==
    ASSUME TypeOK, Filled, NEW w \in Actors, FillFails(w)
    PROVE  TypeOK' /\ Filled'
<1>1. Does(w, Idle)
  BY DEF FillFails
<1>2. act' \in [Actors -> Session]
  BY <1>1, IdleIs, DoesIs
<1>3. faults' \in 0 .. MaxFaults
  BY FaultType DEF FillFails
<1>4. TypeOK'
  BY <1>2, <1>3 DEF TypeOK, FillFails, history, stores, Session
<1> QED BY <1>1, <1>4, IdleIs, FilledStill

LEMMA TerminateType ==
    ASSUME TypeOK, Filled, Terminate
    PROVE  TypeOK' /\ Filled'
<1>1. asked' \in 0 .. MaxAsked
  BY BackupAssumption DEF TypeOK, Terminate
<1>2. TypeOK'
  BY <1>1 DEF TypeOK, Terminate, history, stores
<1> QED BY <1>2, FilledKept DEF Terminate

LEMMA NextDayType ==
    ASSUME TypeOK, Filled, NextDay
    PROVE  TypeOK' /\ Filled'
<1>1. day' \in 1 .. MaxDay
  BY BackupAssumption DEF TypeOK, NextDay
<1>2. TypeOK'
  BY <1>1 DEF TypeOK, NextDay, history, stores
<1> QED BY <1>2, FilledKept DEF NextDay

LEMMA InitType == Init => TypeOK /\ Filled
<1> SUFFICES ASSUME Init PROVE TypeOK /\ Filled
  OBVIOUS
<1>1. NoRow \in Row
  BY NoRowIsRow
<1>2. act \in [Actors -> {Idle} \cup Working \cup Restoring]
  BY DEF Init
<1>3. TypeOK
  BY <1>1, <1>2, BackupAssumption DEF Init, TypeOK, Archive
<1>4. Filled
  BY DEF Init, Filled, At, Idle
<1> QED BY <1>3, <1>4

LEMMA NextType == TypeOK /\ Filled /\ [Next]_vars => TypeOK' /\ Filled'
<1> SUFFICES ASSUME TypeOK, Filled, [Next]_vars PROVE TypeOK' /\ Filled'
  OBVIOUS
<1>1. ASSUME NEW a \in Actors, NEW b \in Backups, NEW how \in {"request", "daily"},
             QueueBackup(a, b, how) \/ BackupInline(a, b, how)
      PROVE  TypeOK' /\ Filled'
  BY <1>1, QueueBackupType, BackupInlineType
<1>2. ASSUME NEW a \in Actors, NEW b \in Backups,
             DailyRefused(a, b) \/ DeleteBackup(a, b) \/ QueueRestore(a, b)
      PROVE  TypeOK' /\ Filled'
  BY <1>2, DailyRefusedType, DeleteBackupType, QueueRestoreType
<1>3. ASSUME NEW a \in Actors, NEW t \in queue,
             BackupEnvironment(a, t) \/ TaskFails(a, t) \/ RunRestore(a, t)
      PROVE  TypeOK' /\ Filled'
  BY <1>3, BackupEnvironmentType, TaskFailsType, RunRestoreType
<1>4. ASSUME NEW a \in Actors, Commit(a) \/ Fail(a) \/ Die(a)
      PROVE  TypeOK' /\ Filled'
  BY <1>4, CommitType, FailType, DieType
<1>5. ASSUME NEW a \in Actors, Fill(a) \/ FillFails(a)
      PROVE  TypeOK' /\ Filled'
  BY <1>5, FillType, FillFailsType
<1>6. CASE Terminate \/ NextDay
  BY <1>6, TerminateType, NextDayType
<1>7. CASE UNCHANGED vars
  <2>1. TypeOK'
    BY <1>7 DEF TypeOK, vars
  <2> QED BY <2>1, <1>7, FilledKept DEF vars
<1> QED BY <1>1, <1>2, <1>3, <1>4, <1>5, <1>6, <1>7 DEF Next

(***************************************************************************)
(* Rows, archives, tasks and sessions keep their types; in particular a    *)
(* restore never fills the site from an archive that is missing or bad.    *)
(***************************************************************************)
THEOREM TypeCorrect == Spec => []TypeOK
BY InitType, NextType, PTL DEF Spec

-------------------------------------------------------------------------------
(***************************************************************************)
(* Rows, tasks and sessions agree.                                         *)
(***************************************************************************)
Waits(b) == \E t \in queue : t.kind = "backup" /\ t.of = b

RowsOK ==
    \A b \in Backups : /\ rows[b].status = "none" => rows[b] = NoRow
                       /\ rows[b] # NoRow => b \in used

\* One task for a backup, which is not made yet.
QueueOK ==
    \A t \in queue : t.kind = "backup" =>
        /\ t.of \in used /\ rows[t.of].status \in {"none", "queued"}
        /\ \A u \in queue : u.kind = "backup" /\ u.of = t.of => u = t

\* What a transaction drops was made; what it makes was not there, or only queued.
SessionOK(a) ==
    /\ act[a].of \in used
    /\ \A b \in act[a].drop : b \in used /\ rows[b].status \in {"none", "success"} /\ ~Waits(b)
    /\ act[a].how = "request" => ~act[a].row.daily
    /\ At(a, "deleting") => act[a].row = NoRow /\ act[a].how = "request" /\ act[a].drop \subseteq {act[a].of}
    /\ At(a, "inserted") =>
          /\ act[a].how # "task" /\ act[a].drop = {} /\ act[a].row.status \in {"queued", "failed"}
          /\ Waits(act[a].of) => act[a].row.status = "queued"
    /\ At(a, "made") =>
          act[a].row.status = "success" /\ ~Waits(act[a].of) /\ act[a].of \notin act[a].drop
    /\ At(a, "made") /\ act[a].how = "task" =>
          /\ rows[act[a].of].status = "queued"
          /\ rows[act[a].of].born = act[a].row.born /\ rows[act[a].of].daily = act[a].row.daily
    /\ ~At(a, "deleting") /\ act[a].how # "task" => rows[act[a].of] = NoRow

\* A backup that is being made is nobody else's, but for a deletion that has to wait.
Apart(a, c) ==
    ~At(a, "deleting") =>
        /\ act[a].of \notin act[c].drop
        /\ act[c].of = act[a].of => At(c, "deleting") /\ act[a].how = "task"

Sessions == \A a \in Busy : SessionOK(a) /\ \A c \in Busy \ {a} : Apart(a, c)

Tidy == RowsOK /\ QueueOK /\ Sessions

LEMMA InitTidy == Init => Tidy
<1> SUFFICES ASSUME Init PROVE Tidy
  OBVIOUS
<1>1. RowsOK
  BY DEF Init, RowsOK, NoRow
<1>2. QueueOK
  BY DEF Init, QueueOK
<1>3. Busy = {}
  BY DEF Init, Busy, Idle
<1> QED BY <1>1, <1>2, <1>3 DEF Tidy, Sessions

(***************************************************************************)
(* The queue.                                                              *)
(***************************************************************************)
\* Of the waiting backups, none but those of b are new.
OnlyNew(b) == \A c \in Backups : Waits(c)' => Waits(c) \/ c = b
NoneNew == \A c \in Backups : Waits(c)' => Waits(c)

LEMMA QueueKept ==
    ASSUME QueueOK, rows' = rows, used \subseteq used',
           \A t \in queue' : t.kind = "backup" => t \in queue
    PROVE  QueueOK' /\ NoneNew
<1>1. QueueOK'
  BY DEF QueueOK
<1> QED BY <1>1 DEF NoneNew, Waits

LEMMA QueueGrows ==
    ASSUME QueueOK, rows' = rows, used \subseteq used', NEW b \in Backups, ~Waits(b), b \in used',
           rows[b].status \in {"none", "queued"},
           NEW t, t.kind = "backup", t.of = b, queue' \subseteq queue \cup {t}
    PROVE  QueueOK' /\ OnlyNew(b)
<1>1. \A u \in queue : u.kind = "backup" => u.of # b
  BY DEF Waits
<1>2. \A u \in queue' : u.kind = "backup" =>
        /\ u.of \in used' /\ rows'[u.of].status \in {"none", "queued"}
        /\ \A v \in queue' : v.kind = "backup" /\ v.of = u.of => v = u
  BY <1>1 DEF QueueOK
<1> QED BY <1>2 DEF QueueOK, OnlyNew, Waits

LEMMA QueueRetried ==
    ASSUME QueueOK, rows' = rows, used' = used, NEW t \in queue, t \in Task, Retried(t)
    PROVE  QueueOK' /\ NoneNew
<1>1. CASE queue' = queue \ {t}
  BY <1>1, QueueKept
<1>2. CASE /\ t.kind = "backup" /\ t.attempt \in 1 .. 1
           /\ queue' = (queue \ {t}) \cup {[kind |-> "backup", of |-> t.of, attempt |-> t.attempt + 1]}
  <2>1. PICK u : u = [kind |-> "backup", of |-> t.of, attempt |-> t.attempt + 1]
    OBVIOUS
  <2>2. u.kind = "backup" /\ u.of = t.of /\ queue' = (queue \ {t}) \cup {u}
    BY <1>2, <2>1
  <2>3. t.of \in used /\ rows[t.of].status \in {"none", "queued"}
    BY <1>2 DEF QueueOK
  <2>4. \A v \in queue \ {t} : v.kind = "backup" => v.of # t.of
    BY <1>2 DEF QueueOK
  <2>5. \A v \in queue' : v.kind = "backup" =>
          /\ v.of \in used' /\ rows'[v.of].status \in {"none", "queued"}
          /\ \A w \in queue' : w.kind = "backup" /\ w.of = v.of => w = v
    BY <2>2, <2>3, <2>4 DEF QueueOK
  <2>6. NoneNew
    BY <2>2, <1>2 DEF NoneNew, Waits
  <2> QED BY <2>5, <2>6 DEF QueueOK
<1> QED BY <1>1, <1>2, RetriedIs

(***************************************************************************)
(* Rows and sessions that a step leaves alone.                             *)
(***************************************************************************)
LEMMA RowsKept ==
    ASSUME RowsOK, rows' = rows, used \subseteq used'
    PROVE  RowsOK'
BY DEF RowsOK

\* What a session's invariant says depends on its rows and its waiting tasks.
LEMMA SessionStays ==
    ASSUME TypeOK, NEW a \in Busy, SessionOK(a), act'[a] = act[a], used \subseteq used',
           ~At(a, "deleting") =>
               rows'[act[a].of] = rows[act[a].of] /\ (Waits(act[a].of)' => Waits(act[a].of)),
           \A b \in act[a].drop : rows'[b].status \in {"none", "success"} /\ ~Waits(b)'
    PROVE  SessionOK(a)'
<1>1. act[a].at \in {"inserted", "made", "deleting"}
  BY BusyWorks
<1>2. PICK s : s = act[a]
  OBVIOUS
<1>3. act'[a] = s
  BY <1>2
<1>4. s.of \in used' /\ (s.how = "request" => ~s.row.daily)
  BY <1>2 DEF SessionOK
<1>5. \A b \in s.drop : b \in used' /\ rows'[b].status \in {"none", "success"} /\ ~Waits(b)'
  BY <1>2 DEF SessionOK
<1>6. s.at = "deleting" => s.row = NoRow /\ s.how = "request" /\ s.drop \subseteq {s.of}
  BY <1>2 DEF SessionOK, At
<1>7. s.at = "inserted" =>
          /\ s.how # "task" /\ s.drop = {} /\ s.row.status \in {"queued", "failed"}
          /\ Waits(s.of)' => s.row.status = "queued"
  BY <1>2 DEF SessionOK, At
<1>8. s.at = "made" => s.row.status = "success" /\ ~Waits(s.of)' /\ s.of \notin s.drop
  BY <1>2 DEF SessionOK, At
<1>9. s.at = "made" /\ s.how = "task" =>
          /\ rows'[s.of].status = "queued"
          /\ rows'[s.of].born = s.row.born /\ rows'[s.of].daily = s.row.daily
  BY <1>2 DEF SessionOK, At
<1>10. s.at # "deleting" /\ s.how # "task" => rows'[s.of] = NoRow
  BY <1>2 DEF SessionOK, At
<1>11. Waits(act[a].of)' <=> Waits(s.of)'
  BY <1>3 DEF Waits
<1> QED BY <1>3, <1>4, <1>5, <1>6, <1>7, <1>8, <1>9, <1>10, <1>11 DEF SessionOK, At

LEMMA ApartStays ==
    ASSUME NEW a, NEW c, Apart(a, c), act'[a] = act[a], act'[c] = act[c]
    PROVE  Apart(a, c)'
BY DEF Apart, At

\* A backup in a session that is not a deletion has not succeeded yet.
LEMMA NotMadeYet ==
    ASSUME TypeOK, Sessions, NEW a \in Busy, ~At(a, "deleting")
    PROVE  act[a].of \notin Succeeded
<1>1. SessionOK(a) /\ act[a].at \in {"inserted", "made"} /\ act[a].of \in Backups
  BY BusyWorks DEF Sessions, At
<1>2. rows[act[a].of].status # "success"
  BY <1>1, NoRowIsRow DEF SessionOK, At
<1> QED BY <1>2 DEF Succeeded

\* A new row's number is new.
LEMMA NewNumber ==
    ASSUME NEW a, NEW b \in Backups, NEW how, MayInsert(a, b, how)
    PROVE  b \notin used
BY BackupAssumption DEF MayInsert

\* A backup no row was ever inserted for is nobody's.
LEMMA FreshIs ==
    ASSUME TypeOK, Tidy, NEW b \in Backups, b \notin used
    PROVE  /\ rows[b] = NoRow /\ ~Waits(b)
           /\ \A c \in Busy : act[c].of # b /\ b \notin act[c].drop
<1>1. rows[b] = NoRow
  BY DEF Tidy, RowsOK
<1>2. ~Waits(b)
  BY DEF Tidy, QueueOK, Waits
<1>3. \A c \in Busy : act[c].of # b /\ b \notin act[c].drop
  BY DEF Tidy, Sessions, SessionOK
<1> QED BY <1>1, <1>2, <1>3

(***************************************************************************)
(* A step of nobody, the start and the end of a session.                   *)
(***************************************************************************)
\* A task that is new is not for a backup that the session counts on.
Undisturbed(c) ==
    \A b \in Backups : Waits(b)' =>
        Waits(b) \/ (b \notin act[c].drop /\ (b = act[c].of => At(c, "deleting")))

LEMMA StillOK ==
    ASSUME TypeOK, Sessions, NEW c \in Busy, act'[c] = act[c], rows' = rows, used \subseteq used',
           Undisturbed(c)
    PROVE  SessionOK(c)'
<1>1. SessionOK(c) /\ act[c].of \in Backups /\ act[c].drop \in SUBSET Backups
  BY BusyWorks DEF Sessions
<1>2. \A b \in act[c].drop : rows'[b].status \in {"none", "success"} /\ ~Waits(b)'
  BY <1>1 DEF SessionOK, Undisturbed
<1>3. ~At(c, "deleting") => rows'[act[c].of] = rows[act[c].of] /\ (Waits(act[c].of)' => Waits(act[c].of))
  <2>1. PICK b \in Backups : b = act[c].of
    BY <1>1
  <2>2. Waits(act[c].of)' <=> Waits(b)'
    BY <2>1 DEF Waits
  <2> QED BY <2>1, <2>2 DEF Undisturbed
<1> QED BY <1>1, <1>2, <1>3, SessionStays

LEMMA NoneNewIs == ASSUME NoneNew PROVE \A c \in Busy : Undisturbed(c)
BY DEF NoneNew, Undisturbed

LEMMA NobodyStep ==
    ASSUME TypeOK, Tidy, NobodyMoves, rows' = rows, used \subseteq used', QueueOK', NoneNew
    PROVE  Tidy'
<1>1. RowsOK'
  BY RowsKept DEF Tidy
<1>2. \A a \in Busy : SessionOK(a)'
  BY NoneNewIs, StillOK DEF Tidy, NobodyMoves
<1>3. \A a \in Busy : \A c \in Busy \ {a} : Apart(a, c)'
  BY ApartStays DEF Tidy, Sessions, NobodyMoves
<1>4. Sessions'
  BY <1>2, <1>3 DEF Sessions, NobodyMoves
<1> QED BY <1>1, <1>4 DEF Tidy

LEMMA StartStep ==
    ASSUME TypeOK, Tidy, NEW a, Starts(a), rows' = rows, used \subseteq used', QueueOK',
           \A c \in Busy : Undisturbed(c) /\ Apart(a, c)' /\ Apart(c, a)',
           SessionOK(a)'
    PROVE  Tidy'
<1>1. RowsOK'
  BY RowsKept DEF Tidy
<1>2. \A c \in Busy : SessionOK(c)'
  BY StillOK DEF Tidy, Starts
<1>3. \A c, d \in Busy : c # d => Apart(c, d)'
  BY ApartStays DEF Tidy, Sessions, Starts
<1>4. Sessions'
  BY <1>2, <1>3 DEF Sessions, Starts
<1> QED BY <1>1, <1>4 DEF Tidy

LEMMA StopStep ==
    ASSUME TypeOK, Tidy, NEW a, Stops(a), rows' = rows, used' = used, QueueOK',
           \A c \in Busy \ {a} : Undisturbed(c)
    PROVE  Tidy'
<1>1. RowsOK'
  BY RowsKept DEF Tidy
<1>2. \A c \in Busy \ {a} : SessionOK(c)'
  BY StillOK DEF Tidy, Stops
<1>3. \A c, d \in Busy \ {a} : c # d => Apart(c, d)'
  BY ApartStays DEF Tidy, Sessions, Stops
<1>4. Sessions'
  BY <1>2, <1>3 DEF Sessions, Stops
<1> QED BY <1>1, <1>4 DEF Tidy

(***************************************************************************)
(* The actions.                                                            *)
(***************************************************************************)
\* queue_backup, or a refused daily backup, has inserted a row.
LEMMA InsertStep ==
    ASSUME TypeOK, Tidy, NEW a \in Actors, NEW b \in Backups, NEW how \in {"request", "daily"},
           NEW status \in {"queued", "failed"}, MayInsert(a, b, how),
           Does(a, Inserted(b, how, status)), rows' = rows,
           queue' = queue \/ (status = "queued"
                              /\ queue' = queue \cup {[kind |-> "backup", of |-> b, attempt |-> 1]})
    PROVE  Tidy' /\ Starts(a) /\ act'[a] = Inserted(b, how, status)
<1>1. PICK s \in Session : s = Inserted(b, how, status)
  BY InsertedIs
<1>2. /\ s.at = "inserted" /\ s.of = b /\ s.how = how /\ s.drop = {}
      /\ s.row.status = status /\ s.row.daily = (how = "daily")
  BY <1>1, InsertedIs, NewRowIs DEF Status
<1>3. Starts(a) /\ act'[a] = s
  BY <1>1, <1>2, StartsIs DEF MayInsert
<1>4. b \notin used /\ used' = used \cup {b}
  BY NewNumber DEF MayInsert
<1>5. /\ rows[b] = NoRow /\ ~Waits(b)
      /\ \A c \in Busy : act[c].of # b /\ b \notin act[c].drop
  BY <1>4, FreshIs
<1>6. QueueOK' /\ OnlyNew(b) /\ (Waits(b)' => status = "queued")
  <2>1. CASE queue' = queue
    BY <2>1, <1>4, <1>5, QueueKept DEF OnlyNew, NoneNew, Waits, Tidy
  <2>2. CASE status = "queued" /\ queue' = queue \cup {[kind |-> "backup", of |-> b, attempt |-> 1]}
    <3>1. PICK t : t = [kind |-> "backup", of |-> b, attempt |-> 1]
      OBVIOUS
    <3>2. t.kind = "backup" /\ t.of = b
      BY <3>1
    <3>3. rows[b].status \in {"none", "queued"}
      BY <1>5, NoRowIsRow
    <3> QED BY <2>2, <3>1, <3>2, <3>3, <1>4, <1>5, QueueGrows DEF Tidy
  <2> QED BY <2>1, <2>2
<1>7. \A c \in Busy : Undisturbed(c)
  BY <1>5, <1>6 DEF OnlyNew, Undisturbed
<1>8. SessionOK(a)'
  <2>1. Waits(act[a].of)' <=> Waits(b)'
    BY <1>2, <1>3 DEF Waits
  <2> QED BY <2>1, <1>2, <1>3, <1>4, <1>5, <1>6 DEF SessionOK, At
<1>9. \A c \in Busy : Apart(a, c)' /\ Apart(c, a)'
  BY <1>2, <1>3, <1>5 DEF Apart, At, Starts
<1> QED BY <1>1, <1>3, <1>4, <1>6, <1>7, <1>8, <1>9, StartStep

\* run_backup for a row that nobody else knows, or for a queued one.
LEMMA MakeStep ==
    ASSUME TypeOK, Tidy, NEW a \in Actors, At(a, "idle"),
           NEW b \in Backups, NEW row \in Row, NEW how \in How, NEW attempt \in 0 .. 2,
           NEW upload, NEW copied, NEW old \in SUBSET Succeeded, NEW made \in Row,
           Makes(a, b, row, how, attempt, upload, copied, old, made),
           how = "request" => ~row.daily,
           rows' = rows, used \subseteq used', b \in used',
           QueueOK', NoneNew, ~Waits(b)',
           \A c \in Busy : b \notin act[c].drop /\ (act[c].of = b => how = "task" /\ At(c, "deleting")),
           IF how = "task" THEN row = rows[b] /\ row.status = "queued" ELSE rows[b] = NoRow
    PROVE  Tidy' /\ Starts(a)
<1>1. PICK s : s = [at |-> "made", of |-> b, how |-> how, attempt |-> attempt, drop |-> old, row |-> made]
  OBVIOUS
<1>2. old \in SUBSET Backups /\ \A c \in old : rows[c].status = "success"
  BY DEF Succeeded
<1>3. s \in Session /\ s.at = "made" /\ s.of = b /\ s.how = how /\ s.drop = old /\ s.row = made
  BY <1>1, <1>2, MadeIs
<1>4. Starts(a) /\ act'[a] = s
  BY <1>1, <1>3, StartsIs DEF Makes
<1>5. \A c \in old : ~Waits(c) /\ c \in used
  BY <1>2, NoRowIsRow DEF Tidy, QueueOK, Waits, RowsOK
<1>6. \A c \in old : c \in used' /\ rows'[c].status \in {"none", "success"} /\ ~Waits(c)'
  BY <1>2, <1>5 DEF NoneNew
<1>7. b \notin old
  BY <1>2, NoRowIsRow
<1>8. SessionOK(a)'
  <2>1. Waits(act[a].of)' <=> Waits(b)'
    BY <1>3, <1>4 DEF Waits
  <2>2. made.status = "success" /\ made.born = row.born /\ made.daily = row.daily
    BY DEF Makes
  <2> QED BY <2>1, <2>2, <1>3, <1>4, <1>6, <1>7 DEF SessionOK, At
<1>9. \A c \in Busy : ~At(c, "deleting") => act[c].of \notin old
  BY NotMadeYet DEF Tidy
<1>10. \A c \in Busy : Apart(a, c)' /\ Apart(c, a)'
  BY <1>3, <1>4, <1>7, <1>9 DEF Apart, At, Starts
<1> QED BY <1>4, <1>8, <1>10, NoneNewIs, StartStep

-------------------------------------------------------------------------------
(***************************************************************************)
(* Archives: what has succeeded, or is about to, is whole.                 *)
(***************************************************************************)
Whole(b) == b \in spoiled \/ ArchiveOf(b) = "whole"

Restorable ==
    /\ \A b \in Succeeded : b \in Dropping \/ Whole(b)
    /\ \A a \in Busy, b \in Backups : At(a, "made") /\ act[a].of = b => Whole(b)

LEMMA DroppingIs == \A b : b \in Dropping <=> \E a \in Busy : b \in act[a].drop
BY DEF Dropping

LEMMA DroppingIsNext == \A b : b \in Dropping' <=> \E a \in Busy' : b \in act'[a].drop
BY DEF Dropping

LEMMA InitRestorable == Init => Restorable
<1> SUFFICES ASSUME Init PROVE Restorable
  OBVIOUS
<1>1. Busy = {} /\ Succeeded = {}
  BY DEF Init, Busy, Idle, Succeeded, NoRow
<1> QED BY <1>1 DEF Restorable

\* A backup whose archive stays, or is known to be spoiled.
Stays(b) == ArchiveOf(b)' = ArchiveOf(b)

LEMMA WholeStays ==
    ASSUME NEW b, Whole(b), Stays(b), spoiled \subseteq spoiled'
    PROVE  Whole(b)'
BY DEF Whole, Stays

LEMMA RestorableNobody ==
    ASSUME Restorable, NobodyMoves, rows' = rows, spoiled \subseteq spoiled',
           \A b \in Backups : Stays(b)
    PROVE  Restorable'
<1>1. Succeeded' = Succeeded /\ Succeeded \subseteq Backups
  BY DEF Succeeded
<1>2. \A b \in Backups : b \in Dropping => b \in Dropping'
  BY DroppingIs, DroppingIsNext DEF NobodyMoves
<1>3. \A b \in Backups : Whole(b) => Whole(b)'
  BY WholeStays
<1>4. \A b \in Succeeded' : b \in Dropping' \/ Whole(b)'
  BY <1>1, <1>2, <1>3 DEF Restorable
<1>5. \A a \in Busy', b \in Backups : At(a, "made")' /\ act'[a].of = b => Whole(b)'
  BY <1>3 DEF Restorable, NobodyMoves, At
<1> QED BY <1>4, <1>5 DEF Restorable

LEMMA RestorableStart ==
    ASSUME Restorable, NEW a, Starts(a), rows' = rows, spoiled \subseteq spoiled',
           \A b \in Succeeded : Stays(b) \/ b \in act'[a].drop,
           \A c \in Busy, b \in Backups : At(c, "made") /\ act[c].of = b => Stays(b),
           \A b \in Backups : act'[a].at = "made" /\ act'[a].of = b => Whole(b)'
    PROVE  Restorable'
<1>1. Succeeded' = Succeeded /\ Succeeded \subseteq Backups
  BY DEF Succeeded
<1>2. \A b \in Backups : b \in Dropping \/ b \in act'[a].drop => b \in Dropping'
  BY DroppingIs, DroppingIsNext DEF Starts
<1>3. \A b \in Backups : Whole(b) /\ Stays(b) => Whole(b)'
  BY WholeStays
<1>4. \A b \in Succeeded' : b \in Dropping' \/ Whole(b)'
  BY <1>1, <1>2, <1>3 DEF Restorable
<1>5. \A c \in Busy', b \in Backups : At(c, "made")' /\ act'[c].of = b => Whole(b)'
  BY <1>3 DEF Restorable, Starts, At
<1> QED BY <1>4, <1>5 DEF Restorable

LEMMA RestorableStop ==
    ASSUME Restorable, NEW a, Stops(a), rows' = rows, spoiled' = spoiled \cup act[a].drop,
           UNCHANGED stores
    PROVE  Restorable'
<1>1. Succeeded' = Succeeded /\ Succeeded \subseteq Backups
  BY DEF Succeeded
<1>2. \A b \in Backups : b \in Dropping => b \in Dropping' \/ b \in spoiled'
  BY DroppingIs, DroppingIsNext DEF Stops
<1>3. \A b \in Backups : Stays(b)
  BY DEF Stays, ArchiveOf, stores
<1>4. \A b \in Backups : Whole(b) => Whole(b)'
  BY <1>3, WholeStays
<1>5. \A b \in Backups : b \in spoiled' => Whole(b)'
  BY DEF Whole
<1>6. \A b \in Succeeded' : b \in Dropping' \/ Whole(b)'
  BY <1>1, <1>2, <1>4, <1>5 DEF Restorable
<1>7. \A c \in Busy', b \in Backups : At(c, "made")' /\ act'[c].of = b => Whole(b)'
  BY <1>4 DEF Restorable, Stops, At
<1> QED BY <1>6, <1>7 DEF Restorable

\* The archives after run_backup.
LEMMA RestorableMake ==
    ASSUME TypeOK, Restorable, Sessions, NEW a, NEW b \in Backups, NEW row, NEW how, NEW attempt,
           NEW upload \in Uploads, NEW copied, NEW old \in SUBSET Succeeded, NEW made,
           Makes(a, b, row, how, attempt, upload, copied, old, made),
           Starts(a), rows' = rows, b \notin Succeeded,
           act'[a].at = "made", act'[a].of = b, act'[a].drop = old,
           \A c \in Busy : At(c, "made") => act[c].of # b
    PROVE  Restorable'
<1>1. /\ local'[b] = LocalAfter(upload, copied) /\ remote'[b] = RemoteAfter(upload, copied)
      /\ \A c \in Backups \ {b} : c \notin old => local'[c] = local[c] /\ remote'[c] = remote[c]
  <2>1. /\ local' = [DeleteStorage(old, local) EXCEPT ![b] = LocalAfter(upload, copied)]
        /\ remote' = [DeleteStorage(old, remote) EXCEPT ![b] = RemoteAfter(upload, copied)]
        /\ copied \in {"whole", "torn"}
    BY DEF Makes
  <2> QED BY ONLY TypeOK, <2>1, StoresAfter, upload \in Uploads, b \in Backups
<1>2. \A c \in Backups \ {b} : c \notin old => Stays(c)
  BY <1>1 DEF Stays, ArchiveOf
<1>3. Whole(b)'
  <2>1. copied = "torn" \/ upload = "damaged" => b \in spoiled'
    BY DEF Makes
  <2>2. copied = "whole" /\ upload = "skipped" => local'[b] = "whole"
    BY <1>1 DEF LocalAfter
  <2>3. copied = "whole" /\ upload = "kept" => local'[b] = "whole"
    BY <1>1 DEF LocalAfter
  <2>4. copied = "whole" /\ upload = "sent" => local'[b] = "none" /\ remote'[b] = "whole"
    BY <1>1 DEF LocalAfter, RemoteAfter
  <2>5. copied \in {"whole", "torn"}
    BY DEF Makes
  <2> QED BY <2>1, <2>2, <2>3, <2>4, <2>5 DEF Whole, ArchiveOf, Uploads
<1>4. \A c \in Succeeded : Stays(c) \/ c \in act'[a].drop
  BY <1>2 DEF Succeeded
<1>5. \A c \in Busy, d \in Backups : At(c, "made") /\ act[c].of = d => Stays(d)
  <2>1. \A c \in Busy : At(c, "made") => act[c].of \notin old
    BY NotMadeYet DEF At
  <2> QED BY <2>1, <1>2
<1>6. spoiled \subseteq spoiled'
  BY DEF Makes
<1> QED BY <1>3, <1>4, <1>5, <1>6, RestorableStart

-------------------------------------------------------------------------------
(***************************************************************************)
(* One daily backup a day.                                                 *)
(***************************************************************************)
Counts(b) == rows[b].daily /\ rows[b].status # "failed"

Daily ==
    "ticks" \in crossed \/
    /\ \A b, c \in Backups : Counts(b) /\ Counts(c) /\ rows[b].born = rows[c].born => b = c
    /\ \A a, c \in Busy : act[a].how = "daily" /\ act[c].how = "daily" => a = c
    /\ \A a \in Busy, b \in Backups :
          act[a].how = "daily" /\ act[a].row.status # "failed" /\ Counts(b) =>
              rows[b].born # act[a].row.born

LEMMA InitDaily == Init => Daily
<1> SUFFICES ASSUME Init PROVE Daily
  OBVIOUS
<1>1. Busy = {} /\ \A b \in Backups : ~Counts(b)
  BY DEF Init, Busy, Idle, Counts, NoRow
<1> QED BY <1>1 DEF Daily

LEMMA DailyNobody ==
    ASSUME Daily, NobodyMoves, rows' = rows, crossed \subseteq crossed'
    PROVE  Daily'
BY DEF Daily, NobodyMoves, Counts

LEMMA DailyStop ==
    ASSUME Daily, NEW a, Stops(a), rows' = rows, crossed' = crossed
    PROVE  Daily'
BY DEF Daily, Stops, Counts

\* A daily tick that starts finds no other, and no backup of today.
LEMMA DailyStart ==
    ASSUME TypeOK, RowsOK, Daily, NEW a, Starts(a), rows' = rows, crossed \subseteq crossed',
           act'[a].how = "daily" =>
               /\ AutoBackupDue /\ act'[a].row.born = day
               /\ (\E c \in Busy : act[c].how = "daily") => "ticks" \in crossed'
    PROVE  Daily'
<1>1. CASE "ticks" \in crossed'
  BY <1>1 DEF Daily
<1>2. CASE "ticks" \notin crossed' /\ act'[a].how = "daily"
  <2>1. \A b \in Backups : Counts(b) => rows[b].born # day
    BY <1>2, NoRowIsRow DEF AutoBackupDue, Counts, RowsOK
  <2> QED BY <1>2, <2>1 DEF Daily, Starts, Counts
<1>3. CASE "ticks" \notin crossed' /\ act'[a].how # "daily"
  BY <1>3 DEF Daily, Starts, Counts
<1> QED BY <1>1, <1>2, <1>3

-------------------------------------------------------------------------------
(***************************************************************************)
(* How many backups there are.  S are those that have succeeded, M the     *)
(* sessions that have made one more, d what each of these drops.           *)
(***************************************************************************)
Most == Keep + Cardinality(Actors)

\* Of any sessions, one has counted well: with what it keeps there is room for them all.
Fits(S, M, d) ==
    /\ IsFiniteSet(S) /\ Cardinality(S) <= Most
    /\ \A G \in SUBSET M : G # {} => \E a \in G : Cardinality(S \ d[a]) + Cardinality(G) <= Most

\* A session that is alone has counted all there were.
Lone(S, M, d) ==
    /\ Cardinality(S) <= Keep + 1
    /\ \A a \in M : M = {a} /\ Cardinality(S \ d[a]) <= Keep

\* The newest are kept by every session that drops something.
Top(S, M, d) ==
    (\A a \in M : d[a] = {}) \/
    \E kept \in SUBSET S :
        /\ Cardinality(kept) = Keep
        /\ \A a \in M : d[a] \cap kept = {}
        /\ \A b \in S \ kept, n \in kept : b < n

LEMMA MostIs == Cardinality(Actors) \in Nat /\ Keep \in Nat \ {0} /\ Most \in Nat
BY BackupAssumption, FS_CardinalityType DEF Most

LEMMA GroupIs ==
    ASSUME NEW M \in SUBSET Actors, NEW G \in SUBSET M
    PROVE  IsFiniteSet(G) /\ Cardinality(G) \in Nat /\ Cardinality(G) <= Cardinality(Actors)
BY BackupAssumption, FS_Subset, FS_CardinalityType

\* Something is least in a set of numbers.
LEMMA LeastOf ==
    ASSUME NEW T, T \subseteq Nat, T # {}
    PROVE  \E x \in T : \A y \in T : x <= y
<1>1. \E x \in T : \A y \in T : ~ (<<y, x>> \in OpToRel(<, Nat))
  BY WFMin, NatLessThanWellFounded, Zenon
<1>2. PICK x \in T : \A y \in T : ~ (<<y, x>> \in OpToRel(<, Nat))
  BY <1>1
<1>3. \A y \in T : ~ (y < x)
  BY <1>2, Zenon DEF OpToRel
<1> QED BY <1>3

LEMMA FewerFit ==
    ASSUME NEW S, NEW M \in SUBSET Actors, NEW d, Fits(S, M, d),
           NEW S2 \in SUBSET S, NEW M2 \in SUBSET M, NEW e, \A a \in M2 : e[a] = d[a]
    PROVE  Fits(S2, M2, e)
<1>1. \A T \in SUBSET S : IsFiniteSet(T) /\ Cardinality(T) \in Nat
  BY FS_Subset, FS_CardinalityType DEF Fits
<1>2. \A T \in SUBSET S : \A U \in SUBSET T : Cardinality(U) <= Cardinality(T)
  BY <1>1, FS_Subset
<1>3. Cardinality(S2) <= Most
  BY <1>1, <1>2, MostIs DEF Fits
<1>4. ASSUME NEW G \in SUBSET M2, G # {}
      PROVE  \E a \in G : Cardinality(S2 \ e[a]) + Cardinality(G) <= Most
  <2>1. PICK a \in G : Cardinality(S \ d[a]) + Cardinality(G) <= Most
    BY <1>4 DEF Fits
  <2>2. S2 \ e[a] \in SUBSET (S \ d[a]) /\ S \ d[a] \in SUBSET S
    OBVIOUS
  <2>3. Cardinality(S2 \ e[a]) <= Cardinality(S \ d[a])
    BY <2>2, <1>2
  <2>4. Cardinality(S2 \ e[a]) \in Nat /\ Cardinality(S \ d[a]) \in Nat
    BY <2>2, <1>1
  <2>5. G \in SUBSET M /\ e[a] = d[a]
    OBVIOUS
  <2>6. Cardinality(G) \in Nat
    BY <2>5, GroupIs
  <2>7. Cardinality(S2 \ e[a]) + Cardinality(G) <= Most
    BY <2>1, <2>3, <2>4, <2>6, MostIs
  <2> QED BY <2>7
<1> QED BY <1>1, <1>3, <1>4 DEF Fits

LEMMA FewerLone ==
    ASSUME NEW S, IsFiniteSet(S), NEW M, NEW d, Lone(S, M, d),
           NEW S2 \in SUBSET S, NEW M2 \in SUBSET M, NEW e, \A a \in M2 : e[a] = d[a]
    PROVE  Lone(S2, M2, e)
<1>1. \A T \in SUBSET S : IsFiniteSet(T) /\ Cardinality(T) \in Nat
  BY FS_Subset, FS_CardinalityType
<1>2. \A T \in SUBSET S : \A U \in SUBSET T : Cardinality(U) <= Cardinality(T)
  BY <1>1, FS_Subset
<1>3. Cardinality(S2) <= Keep + 1
  BY <1>1, <1>2, MostIs DEF Lone
<1>4. ASSUME NEW a \in M2 PROVE M2 = {a} /\ Cardinality(S2 \ e[a]) <= Keep
  <2>1. M = {a} /\ Cardinality(S \ d[a]) <= Keep
    BY DEF Lone
  <2>2. S2 \ e[a] \in SUBSET (S \ d[a]) /\ S \ d[a] \in SUBSET S
    OBVIOUS
  <2>3. Cardinality(S2 \ e[a]) <= Cardinality(S \ d[a])
    BY <2>2, <1>2
  <2>4. Cardinality(S2 \ e[a]) \in Nat /\ Cardinality(S \ d[a]) \in Nat
    BY <2>2, <1>1
  <2> QED BY <2>1, <2>3, <2>4, MostIs
<1> QED BY <1>3, <1>4 DEF Lone

LEMMA FewerTop ==
    ASSUME NEW S, NEW M, NEW d, Top(S, M, d),
           NEW M2 \in SUBSET M, NEW e, \A a \in M2 : e[a] = d[a]
    PROVE  Top(S, M2, e)
BY DEF Top

\* A session that has pruned joins.
LEMMA JoinFits ==
    ASSUME NEW S, NEW M \in SUBSET Actors, NEW d, Fits(S, M, d), NEW a \in Actors,
           NEW e, \A c \in M : e[c] = d[c], Cardinality(S \ e[a]) <= Keep
    PROVE  Fits(S, M \cup {a}, e)
<1>1. IsFiniteSet(S) /\ Cardinality(S) <= Most
  BY DEF Fits
<1>2. ASSUME NEW G \in SUBSET (M \cup {a}), G # {}
      PROVE  \E c \in G : Cardinality(S \ e[c]) + Cardinality(G) <= Most
  <2>1. CASE a \in G
    <3>0. G \in SUBSET Actors
      OBVIOUS
    <3>1. Cardinality(G) \in Nat /\ Cardinality(G) <= Cardinality(Actors)
      BY <3>0, BackupAssumption, FS_Subset, FS_CardinalityType
    <3>2. Cardinality(S \ e[a]) \in Nat
      BY <1>1, FS_Difference, FS_CardinalityType
    <3>3. Cardinality(S \ e[a]) + Cardinality(G) <= Most
      BY <3>1, <3>2, MostIs DEF Most
    <3> QED BY <2>1, <3>3
  <2>2. CASE a \notin G
    <3>1. PICK c \in G : Cardinality(S \ d[c]) + Cardinality(G) <= Most
      BY <1>2, <2>2 DEF Fits
    <3> QED BY <2>2, <3>1
  <2> QED BY <2>1, <2>2
<1> QED BY <1>1, <1>2 DEF Fits

\* It drops all but the newest, as many as are to be kept.
LEMMA JoinTop ==
    ASSUME NEW S, S \subseteq Nat, IsFiniteSet(S), NEW M, NEW d, Top(S, M, d), NEW a,
           NEW e, \A c \in M : e[c] = d[c], e[a] \subseteq S, e[a] # {} => Cardinality(S \ e[a]) = Keep,
           \A b \in e[a], n \in S \ e[a] : b < n
    PROVE  Top(S, M \cup {a}, e)
<1>1. CASE e[a] = {} /\ \A c \in M : d[c] = {}
  BY <1>1 DEF Top
<1>2. CASE e[a] = {} /\ \E c \in M : d[c] # {}
  <2>1. PICK kept \in SUBSET S : /\ Cardinality(kept) = Keep
                                 /\ \A c \in M : d[c] \cap kept = {}
                                 /\ \A b \in S \ kept, n \in kept : b < n
    BY <1>2 DEF Top
  <2> QED BY <1>2, <2>1 DEF Top
<1>3. CASE e[a] # {} /\ \A c \in M : d[c] = {}
  <2>1. S \ e[a] \in SUBSET S /\ S \ (S \ e[a]) = e[a]
    OBVIOUS
  <2>2. \A c \in M \cup {a} : e[c] \cap (S \ e[a]) = {}
    BY <1>3
  <2> QED BY <1>3, <2>1, <2>2 DEF Top
<1>4. CASE e[a] # {} /\ \E c \in M : d[c] # {}
  <2>1. PICK kept \in SUBSET S : /\ Cardinality(kept) = Keep
                                 /\ \A c \in M : d[c] \cap kept = {}
                                 /\ \A b \in S \ kept, n \in kept : b < n
    BY <1>4 DEF Top
  <2>2. kept = S \ e[a]
    <3>1. kept \subseteq S \ e[a] \/ S \ e[a] \subseteq kept
      <4>1. ASSUME NEW x \in kept, x \notin S \ e[a], NEW y \in S \ e[a], y \notin kept PROVE FALSE
        <5>1. x < y /\ y < x /\ x \in Nat /\ y \in Nat
          BY <4>1, <2>1
        <5> QED BY <5>1
      <4> QED BY <4>1
    <3>2. IsFiniteSet(kept) /\ IsFiniteSet(S \ e[a])
      BY FS_Subset, FS_Difference
    <3>3. Cardinality(kept) = Cardinality(S \ e[a])
      BY <1>4, <2>1
    <3> QED BY <3>1, <3>2, <3>3, FS_Subset
  <2>3. \A c \in M \cup {a} : e[c] \cap kept = {}
    BY <2>1, <2>2
  <2> QED BY <2>1, <2>3 DEF Top
<1> QED BY <1>1, <1>2, <1>3, <1>4

LEMMA AddOne ==
    ASSUME NEW T, IsFiniteSet(T), NEW b
    PROVE  /\ IsFiniteSet(T \cup {b}) /\ Cardinality(T \cup {b}) \in Nat
           /\ Cardinality(T \cup {b}) <= Cardinality(T) + 1
<1>1. Cardinality(T) \in Nat
  BY FS_CardinalityType
<1>2. IsFiniteSet(T \cup {b})
  BY FS_AddElement
<1>3. Cardinality(T \cup {b}) = IF b \in T THEN Cardinality(T) ELSE Cardinality(T) + 1
  BY FS_AddElement
<1> QED BY <1>1, <1>2, <1>3, FS_CardinalityType

\* A session that has dropped d[a] and made b leaves.
LEMMA LeaveFits ==
    ASSUME NEW S, NEW M \in SUBSET Actors, NEW d, Fits(S, M, d), NEW a \in M, NEW b,
           NEW S2, S2 = (S \ d[a]) \cup {b}, NEW e, \A c \in M \ {a} : e[c] = d[c]
    PROVE  Fits(S2, M \ {a}, e)
<1>1. ASSUME NEW T
      PROVE  /\ IsFiniteSet(S \ T) /\ Cardinality(S \ T) \in Nat
             /\ IsFiniteSet((S \ T) \cup {b}) /\ Cardinality((S \ T) \cup {b}) \in Nat
             /\ Cardinality((S \ T) \cup {b}) <= Cardinality(S \ T) + 1
  BY AddOne, FS_Difference, FS_CardinalityType DEF Fits
<1>2. \A T : IsFiniteSet(S2 \ T) /\ Cardinality(S2 \ T) \in Nat
  BY <1>1, FS_Difference, FS_CardinalityType
\* The one that has counted well is another one, or the one that leaves.
<1>3. ASSUME NEW G \in SUBSET (M \ {a})
      PROVE  \/ Cardinality(S2) + Cardinality(G) <= Most
             \/ \E c \in G : Cardinality(S2 \ e[c]) + Cardinality(G) <= Most
  <2>1. G \cup {a} \in SUBSET M /\ G \cup {a} # {} /\ a \notin G /\ G \in SUBSET M
    OBVIOUS
  <2>2. IsFiniteSet(G) /\ Cardinality(G) \in Nat
    BY <2>1, GroupIs
  <2>3. Cardinality(G \cup {a}) = Cardinality(G) + 1
    BY <2>1, <2>2, FS_AddElement
  <2>4. PICK c \in G \cup {a} : Cardinality(S \ d[c]) + Cardinality(G \cup {a}) <= Most
    BY <2>1 DEF Fits
  <2>5. CASE c = a
    <3>1. Cardinality(S \ d[a]) + Cardinality(G \cup {a}) <= Most
      BY <2>4, <2>5
    <3>2. Cardinality(S2) <= Cardinality(S \ d[a]) + 1
      BY <1>1
    <3>3. Cardinality(S2) \in Nat /\ Cardinality(S \ d[a]) \in Nat
      BY <1>1
    <3> QED BY <2>2, <2>3, <3>1, <3>2, <3>3, MostIs
  <2>6. CASE c \in G
    <3>1. S2 \ e[c] \in SUBSET ((S \ d[c]) \cup {b})
      BY <2>6
    <3>2. Cardinality(S2 \ e[c]) <= Cardinality((S \ d[c]) \cup {b})
      BY <3>1, <1>1, FS_Subset
    <3>3. Cardinality(S2 \ e[c]) \in Nat /\ Cardinality((S \ d[c]) \cup {b}) \in Nat
      BY <1>1, <1>2
    <3>4. Cardinality((S \ d[c]) \cup {b}) <= Cardinality(S \ d[c]) + 1 /\ Cardinality(S \ d[c]) \in Nat
      BY <1>1
    <3>5. Cardinality(S2 \ e[c]) + Cardinality(G) <= Most
      BY <2>2, <2>3, <2>4, <3>2, <3>3, <3>4, MostIs
    <3> QED BY <2>6, <3>5
  <2> QED BY <2>4, <2>5, <2>6
<1>4. IsFiniteSet(S2) /\ Cardinality(S2) \in Nat
  BY <1>1
<1>5. Cardinality(S2) <= Most
  <2>1. {} \in SUBSET (M \ {a})
    OBVIOUS
  <2>2. Cardinality({}) = 0
    BY FS_EmptySet
  <2>3. Cardinality(S2) + Cardinality({}) <= Most
    BY <2>1, <1>3
  <2> QED BY <2>2, <2>3, <1>4, MostIs
<1>6. ASSUME NEW G \in SUBSET (M \ {a}), G # {}
      PROVE  \E c \in G : Cardinality(S2 \ e[c]) + Cardinality(G) <= Most
  <2>1. CASE Cardinality(S2) + Cardinality(G) <= Most
    <3>1. PICK c \in G : TRUE
      BY <1>6
    <3>2. Cardinality(S2 \ e[c]) <= Cardinality(S2)
      <4>1. S2 \ e[c] \in SUBSET S2
        OBVIOUS
      <4> QED BY <4>1, <1>4, FS_Subset
    <3>3. G \in SUBSET M
      OBVIOUS
    <3>4. Cardinality(G) \in Nat
      BY <3>3, GroupIs
    <3>5. Cardinality(S2 \ e[c]) + Cardinality(G) <= Most
      <4>1. Cardinality(S2 \ e[c]) \in Nat
        BY <1>2
      <4> QED BY <2>1, <3>2, <3>4, <4>1, <1>4, MostIs
    <3> QED BY <3>5
  <2> QED BY <2>1, <1>3
<1> QED BY <1>4, <1>5, <1>6 DEF Fits

LEMMA LeaveLone ==
    ASSUME NEW S, IsFiniteSet(S), NEW M, NEW d, Lone(S, M, d), NEW a \in M, NEW b,
           NEW S2, S2 = (S \ d[a]) \cup {b}, NEW e
    PROVE  Lone(S2, M \ {a}, e)
<1>1. M = {a} /\ Cardinality(S \ d[a]) <= Keep
  BY DEF Lone
<1>2. IsFiniteSet(S \ d[a]) /\ Cardinality(S \ d[a]) \in Nat
  BY FS_Difference, FS_CardinalityType
<1>3. Cardinality(S2) \in Nat /\ Cardinality(S2) <= Cardinality(S \ d[a]) + 1
  BY <1>2, AddOne
<1> QED BY <1>1, <1>2, <1>3, MostIs DEF Lone

\* If what it made is not the newest of all, it takes the place of the oldest that is kept.
LEMMA LeaveTop ==
    ASSUME NEW S, S \subseteq Nat, IsFiniteSet(S), NEW M, NEW d, Top(S, M, d), NEW a \in M,
           NEW b \in Nat, b \notin S, \A c \in M : b \notin d[c],
           NEW S2, S2 = (S \ d[a]) \cup {b}, NEW e, \A c \in M \ {a} : e[c] = d[c]
    PROVE  Top(S2, M \ {a}, e)
<1>1. CASE \A c \in M : d[c] = {}
  BY <1>1 DEF Top
<1>2. CASE \E c \in M : d[c] # {}
  <2>1. PICK kept \in SUBSET S : /\ Cardinality(kept) = Keep
                                 /\ \A c \in M : d[c] \cap kept = {}
                                 /\ \A x \in S \ kept, n \in kept : x < n
    BY <1>2 DEF Top
  <2>2. kept \in SUBSET S2 /\ kept \subseteq Nat /\ b \notin kept
    BY <2>1
  <2>3. IsFiniteSet(kept) /\ kept # {}
    BY <2>1, FS_Subset, FS_EmptySet, MostIs
  <2>4. PICK m \in kept : \A n \in kept : m <= n
    BY <2>2, <2>3, LeastOf
  <2>5. CASE b < m
    <3>1. \A x \in S2 \ kept, n \in kept : x < n
      <4>1. \A n \in kept : b < n
        BY <2>2, <2>4, <2>5
      <4> QED BY <2>1, <4>1
    <3> QED BY <2>1, <2>2, <3>1 DEF Top
  <2>6. CASE m < b
    <3>1. PICK newer : newer = (kept \ {m}) \cup {b}
      OBVIOUS
    <3>2. newer \in SUBSET S2
      BY <2>2, <3>1
    <3>3. Cardinality(newer) = Keep
      <4>1. IsFiniteSet(kept \ {m}) /\ Cardinality(kept \ {m}) = Keep - 1
        BY <2>1, <2>3, FS_RemoveElement
      <4>2. Cardinality(newer) = Cardinality(kept \ {m}) + 1
        BY <2>2, <3>1, <4>1, FS_AddElement
      <4> QED BY <4>1, <4>2, MostIs
    <3>4. \A c \in M \ {a} : e[c] \cap newer = {}
      BY <2>1, <3>1
    <3>5. ASSUME NEW x \in S2 \ newer, NEW n \in newer PROVE x < n
      <4>1. x = m \/ x \in S \ kept
        BY <3>1
      <4>2. x <= m /\ x \in Nat
        BY <2>1, <2>2, <4>1
      <4>3. n = b \/ (n \in kept /\ n # m)
        BY <3>1
      <4>4. n \in Nat /\ m < n
        <5>1. CASE n = b
          BY <2>2, <2>6, <5>1
        <5>2. CASE n \in kept /\ n # m
          <6>1. n \in Nat /\ m \in Nat /\ m <= n
            BY <2>2, <2>4, <5>2
          <6> QED BY <6>1, <5>2
        <5> QED BY <4>3, <5>1, <5>2
      <4> QED BY <2>2, <4>2, <4>4
    <3> QED BY <3>2, <3>3, <3>4, <3>5 DEF Top
  <2>7. b \in Nat /\ m \in Nat /\ b # m
    BY <2>2
  <2> QED BY <2>5, <2>6, <2>7
<1> QED BY <1>1, <1>2

Makers == {a \in Busy : At(a, "made")}
Drops == [a \in Makers |-> act[a].drop]

Kept ==
    /\ Fits(Succeeded, Makers, Drops)
    /\ "prunes" \in crossed \/ Lone(Succeeded, Makers, Drops)
    /\ "deletes" \in crossed \/ Top(Succeeded, Makers, Drops)

LEMMA KeptIs ==
    ASSUME NEW S, NEW M, NEW d, S = Succeeded', M = Makers', d = Drops',
           Fits(S, M, d), "prunes" \in crossed' \/ Lone(S, M, d),
           "deletes" \in crossed' \/ Top(S, M, d)
    PROVE  Kept'
BY DEF Kept

LEMMA DropsIs ==
    /\ Makers \in SUBSET Actors /\ Succeeded \subseteq Nat
    /\ \A a \in Makers : Drops[a] = act[a].drop
    /\ \A a \in Makers' : Drops'[a] = act'[a].drop
BY BackupAssumption DEF Makers, Drops, Busy, Succeeded

LEMMA InitKept == Init => Kept
<1> SUFFICES ASSUME Init PROVE Kept
  OBVIOUS
<1>1. Makers = {} /\ Succeeded = {}
  BY DEF Init, Makers, Busy, Idle, Succeeded, NoRow
<1>2. IsFiniteSet(Succeeded) /\ Cardinality(Succeeded) = 0
  BY <1>1, FS_EmptySet
<1>3. Fits(Succeeded, Makers, Drops)
  BY <1>1, <1>2, MostIs DEF Fits
<1>4. Lone(Succeeded, Makers, Drops)
  BY <1>1, <1>2, MostIs DEF Lone
<1>5. Top(Succeeded, Makers, Drops)
  BY <1>1 DEF Top
<1> QED BY <1>3, <1>4, <1>5 DEF Kept

\* Sessions end without a commit, and backups are deleted.
LEMMA KeptFewer ==
    ASSUME Kept, Makers' \subseteq Makers, \A a \in Makers' : act'[a] = act[a],
           Succeeded' \subseteq Succeeded, crossed \subseteq crossed',
           Succeeded' = Succeeded \/ Makers' = {} \/ "deletes" \in crossed'
    PROVE  Kept'
<1>1. PICK S, M, d, T, N, e : /\ S = Succeeded /\ M = Makers /\ d = Drops
                              /\ T = Succeeded' /\ N = Makers' /\ e = Drops'
  OBVIOUS
<1>2. /\ M \in SUBSET Actors /\ N \in SUBSET M /\ T \in SUBSET S
      /\ \A a \in N : e[a] = d[a]
  BY <1>1, DropsIs
<1>3. Fits(S, M, d) /\ IsFiniteSet(S)
  BY <1>1 DEF Kept, Fits
<1>4. Fits(T, N, e)
  BY <1>2, <1>3, FewerFit
<1>5. "prunes" \in crossed' \/ Lone(T, N, e)
  BY <1>1, <1>2, <1>3, FewerLone DEF Kept
<1>6. "deletes" \in crossed' \/ Top(T, N, e)
  <2>1. CASE N = {}
    BY <2>1 DEF Top
  <2>2. CASE T = S
    BY <1>1, <1>2, <2>2, FewerTop DEF Kept
  <2> QED BY <1>1, <2>1, <2>2
<1> QED BY <1>1, <1>4, <1>5, <1>6, KeptIs

LEMMA PrunableIs ==
    ASSUME NEW old \in SUBSET Succeeded, IsFiniteSet(Succeeded), Prunable(old)
    PROVE  /\ Cardinality(Succeeded \ old) <= Keep
           /\ old # {} => Cardinality(Succeeded \ old) = Keep
           /\ \A b \in old, n \in Succeeded \ old : b < n
<1>1. PICK S : S = Succeeded
  OBVIOUS
<1>2. /\ Cardinality(S \ old) = IF Cardinality(S) < Keep THEN Cardinality(S) ELSE Keep
      /\ \A b \in old, n \in S \ old : b < n
  BY <1>1 DEF Prunable, Beyond
<1>3. IsFiniteSet(S) /\ Cardinality(S) \in Nat /\ S \ old \in SUBSET S
  BY <1>1, FS_CardinalityType
<1>4. Cardinality(S) = Cardinality(S \ old) => old = {}
  BY <1>1, <1>3, FS_Subset
<1> QED BY <1>1, <1>2, <1>3, <1>4, MostIs

\* A backup has been made, and others pruned.
LEMMA KeptJoin ==
    ASSUME Kept, NEW a \in Actors, Starts(a), act'[a].at = "made", rows' = rows,
           act'[a].drop \in SUBSET Succeeded, Prunable(act'[a].drop),
           crossed \subseteq crossed', Makers # {} => "prunes" \in crossed'
    PROVE  Kept'
<1>1. PICK S, M, d, N, e : /\ S = Succeeded /\ M = Makers /\ d = Drops
                           /\ N = Makers' /\ e = Drops'
  OBVIOUS
<1>2. Succeeded' = S
  BY <1>1 DEF Succeeded
<1>3. N = M \cup {a}
  BY <1>1 DEF Makers, Starts, At
<1>4. /\ M \in SUBSET Actors /\ S \subseteq Nat
      /\ \A c \in M : e[c] = d[c]
      /\ e[a] = act'[a].drop
  BY <1>1, <1>3, DropsIs DEF Starts, Makers
<1>5. Fits(S, M, d) /\ IsFiniteSet(S)
  BY <1>1 DEF Kept, Fits
<1>6. /\ e[a] \subseteq S /\ Cardinality(S \ e[a]) <= Keep
      /\ e[a] # {} => Cardinality(S \ e[a]) = Keep
      /\ \A b \in e[a], n \in S \ e[a] : b < n
  BY <1>1, <1>4, <1>5, PrunableIs
<1>7. Fits(S, N, e)
  BY <1>3, <1>4, <1>5, <1>6, JoinFits
<1>8. "prunes" \in crossed' \/ Lone(S, N, e)
  <2>1. CASE M = {} /\ Lone(S, M, d)
    BY <2>1, <1>3, <1>6 DEF Lone
  <2> QED BY <2>1, <1>1 DEF Kept
<1>9. "deletes" \in crossed' \/ Top(S, N, e)
  BY <1>1, <1>3, <1>4, <1>5, <1>6, JoinTop DEF Kept
<1> QED BY <1>1, <1>2, <1>7, <1>8, <1>9, KeptIs

\* It is committed.
LEMMA KeptLeave ==
    ASSUME Kept, NEW a \in Makers, Makers' = Makers \ {a},
           \A c \in Makers \ {a} : act'[c] = act[c],
           NEW b \in Backups, b \notin Succeeded, \A c \in Makers : b \notin act[c].drop,
           Succeeded' = (Succeeded \ act[a].drop) \cup {b}, crossed \subseteq crossed'
    PROVE  Kept'
<1>1. PICK S, M, d, T, N, e : /\ S = Succeeded /\ M = Makers /\ d = Drops
                              /\ T = Succeeded' /\ N = Makers' /\ e = Drops'
  OBVIOUS
<1>2. /\ M \in SUBSET Actors /\ S \subseteq Nat /\ N = M \ {a} /\ a \in M
      /\ \A c \in N : e[c] = d[c]
      /\ \A c \in M : d[c] = act[c].drop
  BY <1>1, DropsIs
<1>3. T = (S \ d[a]) \cup {b} /\ b \in Nat /\ b \notin S /\ \A c \in M : b \notin d[c]
  BY <1>1, <1>2, BackupAssumption
<1>4. Fits(S, M, d) /\ IsFiniteSet(S)
  BY <1>1 DEF Kept, Fits
<1>5. Fits(T, M \ {a}, e)
  BY ONLY <1>2, <1>3, <1>4, LeaveFits
<1>6. "prunes" \in crossed' \/ Lone(T, M \ {a}, e)
  <2>1. ASSUME Lone(S, M, d) PROVE Lone(T, M \ {a}, e)
    BY ONLY <2>1, <1>2, <1>3, <1>4, LeaveLone
  <2> QED BY <1>1, <2>1 DEF Kept
<1>7. "deletes" \in crossed' \/ Top(T, M \ {a}, e)
  <2>1. ASSUME Top(S, M, d) PROVE Top(T, M \ {a}, e)
    BY ONLY <2>1, <1>2, <1>3, <1>4, LeaveTop
  <2> QED BY <1>1, <2>1 DEF Kept
<1> QED BY <1>1, <1>2, <1>5, <1>6, <1>7, KeptIs
-------------------------------------------------------------------------------
(***************************************************************************)
(* The inductive invariant, action by action.                              *)
(***************************************************************************)
Inv == TypeOK /\ Tidy /\ Restorable /\ Daily

LEMMA TicksOverlap ==
    \A how, made : how = "daily" /\ (\E c \in Busy : act[c].how = "daily") =>
        "ticks" \in Overlapping(how, made)
BY DEF Overlapping

LEMMA SameStores == ASSUME UNCHANGED stores PROVE \A b \in Backups : Stays(b)
BY DEF stores, Stays, ArchiveOf

LEMMA StoresStay ==
    ASSUME UNCHANGED stores
    PROVE  \A c \in Busy, b \in Backups : At(c, "made") /\ act[c].of = b => Stays(b)
BY SameStores

\* Rows inserted without an archive: queue_backup, and a daily backup refused.
LEMMA InsertInv ==
    ASSUME Inv, NEW a \in Actors, NEW b \in Backups, NEW how \in {"request", "daily"},
           NEW status \in {"queued", "failed"}, MayInsert(a, b, how),
           Does(a, Inserted(b, how, status)), rows' = rows,
           queue' = queue \/ (status = "queued"
                              /\ queue' = queue \cup {[kind |-> "backup", of |-> b, attempt |-> 1]}),
           crossed' = crossed \cup Overlapping(how, FALSE), UNCHANGED <<stores, spoiled>>
    PROVE  Tidy' /\ Restorable' /\ Daily'
<1>1. Tidy' /\ Starts(a) /\ act'[a] = Inserted(b, how, status)
  BY InsertStep DEF Inv
<1>2. /\ act'[a].at = "inserted" /\ act'[a].how = how
      /\ act'[a].row.born = day
  BY <1>1, InsertedIs, NewRowIs DEF Inv, Status
<1>3. Restorable'
  <2>1. \A c \in Succeeded : Stays(c)
    BY SameStores DEF Succeeded
  <2> QED BY <1>1, <1>2, <2>1, StoresStay, RestorableStart DEF Inv
<1>4. Daily'
  BY <1>1, <1>2, TicksOverlap, DailyStart DEF Inv, Tidy, MayInsert
<1> QED BY <1>1, <1>3, <1>4

LEMMA QueueBackupInv ==
    ASSUME Inv, NEW a \in Actors, NEW b \in Backups, NEW how \in {"request", "daily"},
           QueueBackup(a, b, how)
    PROVE  Tidy' /\ Restorable' /\ Daily'
<1>1. Does(a, Inserted(b, how, "queued"))
  BY DEF QueueBackup, Inserted
<1> QED BY <1>1, InsertInv DEF QueueBackup

LEMMA DailyRefusedInv ==
    ASSUME Inv, NEW a \in Actors, NEW b \in Backups, DailyRefused(a, b)
    PROVE  Tidy' /\ Restorable' /\ Daily'
<1>1. Does(a, Inserted(b, "daily", "failed"))
  BY DEF DailyRefused, Inserted
<1> QED BY <1>1, InsertInv DEF DailyRefused

LEMMA BackupInlineInv ==
    ASSUME Inv, NEW a \in Actors, NEW b \in Backups, NEW how \in {"request", "daily"},
           BackupInline(a, b, how)
    PROVE  Tidy' /\ Restorable' /\ Daily'
<1>1. PICK row \in Row : row = NewRow(how, "running")
  BY NewRowIs DEF Inv, Status
<1>2. row.born = day /\ row.daily = (how = "daily")
  BY <1>1, NewRowIs DEF Inv, Status
<1>3. how \in How /\ 0 \in 0 .. 2 /\ how # "task"
  BY DEF How
<1>4. RunBackup(a, b, row, how, 0)
  BY <1>1 DEF BackupInline
<1>5. PICK upload \in Uploads, copied \in {"whole", "torn"}, old \in SUBSET Succeeded, made \in Row :
        Makes(a, b, row, how, 0, upload, copied, old, made)
  BY <1>4, RunBackupIs DEF Inv
<1>6. PICK s : s = [at |-> "made", of |-> b, how |-> how, attempt |-> 0, drop |-> old, row |-> made]
  OBVIOUS
<1>7. s \in Session /\ s.at = "made" /\ s.of = b /\ s.how = how /\ s.drop = old /\ s.row = made
  BY <1>3, <1>6, MadeIs DEF Succeeded
<1>8. act'[a] = s /\ made.born = day
  BY <1>2, <1>5, <1>6, <1>7, DoesIs DEF Makes, Inv
<1>9. /\ At(a, "idle") /\ b \notin used /\ used' = used \cup {b} /\ (how = "daily" => AutoBackupDue)
      /\ rows' = rows /\ queue' = queue /\ crossed' = crossed \cup Overlapping(how, TRUE)
  BY NewNumber DEF BackupInline, MayInsert
<1>10. /\ rows[b] = NoRow /\ ~Waits(b)
       /\ \A c \in Busy : act[c].of # b /\ b \notin act[c].drop
  BY <1>9, FreshIs DEF Inv
<1>11. QueueOK' /\ NoneNew
  BY <1>9, QueueKept DEF Inv, Tidy
<1>12. ~Waits(b)'
  BY <1>9, <1>10 DEF Waits
<1>13. Tidy' /\ Starts(a)
  BY <1>2, <1>3, <1>5, <1>9, <1>10, <1>11, <1>12, MakeStep DEF Inv
<1>14. b \notin Succeeded
  BY <1>10, NoRowIsRow DEF Succeeded
<1>15. Restorable'
  BY <1>5, <1>7, <1>8, <1>9, <1>10, <1>13, <1>14, RestorableMake DEF Inv, Tidy
<1>16. Daily'
  BY <1>7, <1>8, <1>9, <1>13, TicksOverlap, DailyStart DEF Inv, Tidy
<1> QED BY <1>13, <1>15, <1>16

LEMMA BackupEnvironmentInv ==
    ASSUME Inv, NEW w \in Actors, NEW t \in queue, BackupEnvironment(w, t)
    PROVE  Tidy' /\ Restorable' /\ Daily'
<1>1. PICK b \in Backups : b = t.of
  BY TaskFields DEF Inv, TypeOK
<1>2. t.kind = "backup" /\ t.attempt \in 0 .. 2 /\ "task" \in How
  BY TaskFields DEF Inv, TypeOK, BackupEnvironment, How
<1>3. Waits(b)
  BY <1>1, <1>2 DEF Waits
<1>4. PICK row \in Row : row = rows[b]
  BY DEF Inv, TypeOK
<1>5. rows[b].status = "queued" /\ b \in used
  BY <1>1, <1>2 DEF BackupEnvironment, Inv, Tidy, QueueOK, RowsOK
<1>6. RunBackup(w, b, row, "task", t.attempt)
  BY <1>1, <1>4 DEF BackupEnvironment
<1>7. PICK upload \in Uploads, copied \in {"whole", "torn"}, old \in SUBSET Succeeded, made \in Row :
        Makes(w, b, row, "task", t.attempt, upload, copied, old, made)
  BY <1>6, RunBackupIs DEF Inv
<1>8. PICK s : s = [at |-> "made", of |-> b, how |-> "task", attempt |-> t.attempt, drop |-> old, row |-> made]
  OBVIOUS
<1>9. s \in Session /\ s.at = "made" /\ s.of = b /\ s.how = "task" /\ s.drop = old
  BY <1>2, <1>8, MadeIs DEF Succeeded
<1>10. act'[w] = s
  BY <1>7, <1>8, <1>9, DoesIs DEF Makes, Inv
<1>11. /\ At(w, "idle") /\ used' = used /\ rows' = rows /\ queue' = queue \ {t}
       /\ crossed \subseteq crossed'
  BY DEF BackupEnvironment
<1>12. QueueOK' /\ NoneNew
  BY <1>11, QueueKept DEF Inv, Tidy
<1>13. ~Waits(b)'
  BY <1>1, <1>2, <1>11 DEF Waits, Inv, Tidy, QueueOK
<1>14. \A c \in Busy : b \notin act[c].drop /\ (act[c].of = b => At(c, "deleting"))
  <2>1. \A c \in Busy : SessionOK(c) /\ act[c].at \in {"inserted", "made", "deleting"}
    BY BusyWorks DEF Inv, Tidy, Sessions
  <2>2. \A c \in Busy : b \notin act[c].drop
    BY <2>1, <1>3 DEF SessionOK
  <2>3. ASSUME NEW c \in Busy, act[c].of = b, ~At(c, "deleting") PROVE FALSE
    BY <2>1, <2>3, <1>3, <1>5, NoRowIsRow DEF SessionOK, At
  <2> QED BY <2>2, <2>3
<1>15. Tidy' /\ Starts(w)
  BY <1>2, <1>4, <1>5, <1>7, <1>11, <1>12, <1>13, <1>14, MakeStep DEF Inv
<1>16. b \notin Succeeded /\ \A c \in Busy : At(c, "made") => act[c].of # b
  BY <1>5, <1>14 DEF Succeeded, At
<1>17. Restorable'
  BY <1>7, <1>9, <1>10, <1>11, <1>15, <1>16, RestorableMake DEF Inv, Tidy
<1>18. Daily'
  BY <1>9, <1>10, <1>11, <1>15, DailyStart DEF Inv, Tidy
<1> QED BY <1>15, <1>17, <1>18

LEMMA DeleteBackupInv ==
    ASSUME Inv, NEW a \in Actors, NEW b \in Backups, DeleteBackup(a, b)
    PROVE  Tidy' /\ Restorable' /\ Daily'
<1>1. PICK drop \in SUBSET Backups : drop = {b} \cap Succeeded
  OBVIOUS
<1>2. PICK s : s = Deleting(b, drop)
  OBVIOUS
<1>3. /\ s \in Session /\ s.at = "deleting" /\ s.of = b /\ s.how = "request"
      /\ s.drop = drop /\ s.row = NoRow
  BY <1>2, DeletingIs
<1>4. At(a, "idle") /\ Does(a, s) /\ rows[b] # NoRow
  BY <1>1, <1>2 DEF DeleteBackup, Deleting
<1>5. Starts(a) /\ act'[a] = s
  BY <1>3, <1>4, StartsIs DEF Inv
<1>6. rows' = rows /\ queue' = queue /\ UNCHANGED history /\ used' = used
  BY DEF DeleteBackup, history
<1>7. QueueOK' /\ NoneNew
  BY <1>6, QueueKept DEF Inv, Tidy
<1>8. b \in used
  BY <1>4 DEF Inv, Tidy, RowsOK
<1>9. \A c \in drop : c = b /\ rows[c].status = "success" /\ ~Waits(c)'
  BY <1>1, <1>6 DEF Succeeded, Inv, Tidy, QueueOK, Waits
<1>10. SessionOK(a)'
  BY <1>3, <1>5, <1>6, <1>8, <1>9, NoRowIsRow DEF SessionOK, At
<1>11. ASSUME NEW c \in Busy, ~At(c, "deleting")
       PROVE  act[c].of \notin drop /\ (act[c].of = b => act[c].how = "task")
  <2>1. act[c].of \notin Succeeded
    BY <1>11, NotMadeYet DEF Inv, Tidy
  <2>2. act[c].how # "task" => rows[act[c].of] = NoRow
    BY <1>11 DEF Inv, Tidy, Sessions, SessionOK
  <2> QED BY <2>1, <2>2, <1>1, <1>4
<1>12. \A c \in Busy : Apart(a, c)' /\ Apart(c, a)'
  BY <1>3, <1>5, <1>11 DEF Apart, At, Starts
<1>13. Tidy'
  BY <1>5, <1>6, <1>7, <1>10, <1>12, NoneNewIs, StartStep DEF Inv
<1>14. \A c \in Backups : c \notin drop => Stays(c)
  <2>1. \A c \in Backups : c \notin drop => local'[c] = local[c] /\ remote'[c] = remote[c]
    BY <1>1 DEF DeleteBackup, DeleteStorage
  <2> QED BY <2>1 DEF Stays, ArchiveOf
<1>15. Restorable'
  <2>1. \A c \in Busy, d \in Backups : At(c, "made") /\ act[c].of = d => Stays(d)
    BY <1>11, <1>14 DEF At
  <2>2. \A c \in Succeeded : Stays(c) \/ c \in act'[a].drop
    BY <1>3, <1>5, <1>14 DEF Succeeded
  <2> QED BY <2>1, <2>2, <1>3, <1>5, <1>6, RestorableStart DEF Inv, history
<1>16. Daily'
  BY <1>3, <1>5, <1>6, DailyStart DEF Inv, Tidy, history
<1> QED BY <1>13, <1>15, <1>16

\* Steps of nobody: rows and transactions stay, archives at most move.
LEMMA NobodyInv ==
    ASSUME Inv, NobodyMoves, rows' = rows, UNCHANGED history, QueueOK', NoneNew,
           \A b \in Backups : Stays(b)
    PROVE  Tidy' /\ Restorable' /\ Daily'
<1>1. Tidy'
  BY NobodyStep DEF Inv, history
<1>2. Restorable'
  BY RestorableNobody DEF Inv, history
<1>3. Daily'
  BY DailyNobody DEF Inv, history
<1> QED BY <1>1, <1>2, <1>3

LEMMA QueueRestoreInv ==
    ASSUME Inv, NEW a \in Actors, NEW b \in Backups, QueueRestore(a, b)
    PROVE  Tidy' /\ Restorable' /\ Daily'
<1>1. \A c \in Backups : Stays(c)
  BY EnsureIs DEF QueueRestore, Inv, Stays
<1>2. NobodyMoves
  BY NobodyActs DEF QueueRestore
<1>3. QueueOK' /\ NoneNew
  <2>1. \A t \in queue' : t.kind = "backup" => t \in queue
    BY DEF QueueRestore
  <2> QED BY <2>1, QueueKept DEF QueueRestore, Inv, Tidy, history
<1> QED BY <1>1, <1>2, <1>3, NobodyInv DEF QueueRestore

LEMMA TaskFailsInv ==
    ASSUME Inv, NEW w \in Actors, NEW t \in queue, TaskFails(w, t)
    PROVE  Tidy' /\ Restorable' /\ Daily'
<1>1. \A c \in Backups : Stays(c)
  BY SameStores DEF TaskFails
<1>2. NobodyMoves
  BY NobodyActs DEF TaskFails
<1>3. QueueOK' /\ NoneNew
  BY QueueRetried DEF TaskFails, Inv, Tidy, history, TypeOK
<1> QED BY <1>1, <1>2, <1>3, NobodyInv DEF TaskFails

LEMMA RunRestoreInv ==
    ASSUME Inv, NEW w \in Actors, NEW t \in queue, RunRestore(w, t)
    PROVE  Tidy' /\ Restorable' /\ Daily'
<1>1. /\ w \notin Busy /\ \A c \in Backups : Stays(c)
      /\ \E s \in Session : s.at = "emptied" /\ Does(w, s)
  BY RunRestoreIs DEF Inv, Stays
<1>2. NobodyMoves
  BY <1>1, RestoreIs DEF Inv
<1>3. QueueOK' /\ NoneNew
  BY QueueKept DEF RunRestore, Inv, Tidy, history
<1> QED BY <1>1, <1>2, <1>3, NobodyInv DEF RunRestore

\* The end of a restore, a termination, the next day: nothing of all this changes.
LEMMA SameInv ==
    ASSUME Inv, NobodyMoves, UNCHANGED <<rows, stores, queue, history>>
    PROVE  Tidy' /\ Restorable' /\ Daily'
<1>1. \A c \in Backups : Stays(c)
  BY SameStores
<1>2. QueueOK' /\ NoneNew
  BY QueueKept DEF Inv, Tidy, history
<1> QED BY <1>1, <1>2, NobodyInv

LEMMA FilledInv ==
    ASSUME Inv, NEW w \in Actors, Fill(w) \/ FillFails(w)
    PROVE  Tidy' /\ Restorable' /\ Daily'
<1>1. At(w, "emptied") /\ Does(w, Idle) /\ UNCHANGED <<rows, stores, queue, history>>
  BY DEF Fill, FillFails
<1>2. w \notin Busy
  BY <1>1 DEF Busy, At
<1>3. NobodyMoves
  BY <1>1, <1>2, IdleIs, RestoreIs DEF Inv
<1> QED BY <1>1, <1>3, SameInv

LEMMA OutsideInv ==
    ASSUME Inv, Terminate \/ NextDay \/ UNCHANGED vars
    PROVE  Tidy' /\ Restorable' /\ Daily'
<1>1. UNCHANGED act /\ UNCHANGED <<rows, stores, queue, history>>
  BY DEF Terminate, NextDay, vars, stores, history
<1> QED BY <1>1, NobodyActs, SameInv

LEMMA DieInv ==
    ASSUME Inv, NEW w \in Actors, Die(w)
    PROVE  Tidy' /\ Restorable' /\ Daily'
<1>1. Stops(w)
  BY StopsIs DEF Die, Inv
<1>2. QueueOK' /\ NoneNew
  BY QueueKept DEF Die, Inv, Tidy
<1>3. Tidy'
  BY <1>1, <1>2, NoneNewIs, StopStep DEF Die, Inv
<1>4. Restorable'
  BY <1>1, RestorableStop DEF Die, Inv
<1>5. Daily'
  BY <1>1, DailyStop DEF Die, Inv
<1> QED BY <1>3, <1>4, <1>5

LEMMA FailInv ==
    ASSUME Inv, NEW a \in Actors, Fail(a)
    PROVE  Tidy' /\ Restorable' /\ Daily'
<1>1. Stops(a)
  BY StopsIs DEF Fail, Inv
<1>2. rows' = rows /\ used' = used /\ a \in Busy
  BY DEF Fail
<1>3. QueueOK' /\ \A c \in Busy \ {a} : Undisturbed(c)
  <2>1. CASE act[a].how # "task"
    <3>1. queue' = queue
      BY <2>1 DEF Fail
    <3> QED BY <1>2, <3>1, QueueKept, NoneNewIs DEF Inv, Tidy
  <2>2. CASE act[a].how = "task"
    <3>1. PICK b \in Backups, n \in 0 .. 2 : b = act[a].of /\ n = act[a].attempt
      BY <1>2, BusyWorks DEF Inv
    <3>2. Retried([kind |-> "backup", of |-> b, attempt |-> n])
      BY <2>2, <3>1 DEF Fail
    <3>3. SessionOK(a) /\ act[a].at \in {"inserted", "made", "deleting"}
      BY <1>2, BusyWorks DEF Inv, Tidy, Sessions
    <3>4. At(a, "made") /\ rows[b].status = "queued" /\ ~Waits(b) /\ b \in used
      BY <2>2, <3>1, <3>3 DEF SessionOK, At
    <3>5. \A c \in Busy \ {a} : b \notin act[c].drop /\ (b = act[c].of => At(c, "deleting"))
      BY <1>2, <3>1, <3>4 DEF Inv, Tidy, Sessions, Apart, At
    <3>6. PICK t : t = [kind |-> "backup", of |-> b, attempt |-> n + 1]
      OBVIOUS
    <3>7. t.kind = "backup" /\ t.of = b /\ queue' \subseteq queue \cup {t}
      BY <3>2, <3>6, FailedTask
    <3>8. QueueOK' /\ OnlyNew(b)
      BY <1>2, <3>4, <3>7, QueueGrows DEF Inv, Tidy
    <3> QED BY <3>5, <3>8 DEF OnlyNew, Undisturbed
  <2> QED BY <2>1, <2>2
<1>4. Tidy'
  BY <1>1, <1>2, <1>3, StopStep DEF Inv
<1>5. Restorable'
  BY <1>1, RestorableStop DEF Fail, Inv
<1>6. Daily'
  BY <1>1, DailyStop DEF Fail, Inv
<1> QED BY <1>4, <1>5, <1>6

(***************************************************************************)
(* Commit: what the session has made replaces its row, what it dropped     *)
(* goes.                                                                   *)
(***************************************************************************)
LEMMA CommitIs ==
    ASSUME Inv, NEW a \in Actors, Commit(a)
    PROVE  /\ a \in Busy /\ Stops(a) /\ SessionOK(a)
           /\ act[a].of \in Backups /\ act[a].at \in {"inserted", "made", "deleting"}
           /\ rows'[act[a].of] = act[a].row
           /\ \A b \in Backups : b # act[a].of => rows'[b] = IF b \in act[a].drop THEN NoRow ELSE rows[b]
           /\ UNCHANGED <<stores, queue, used, spoiled>>
           /\ crossed \subseteq crossed' /\ ("ticks" \in crossed' => "ticks" \in crossed)
<1>1. a \in Busy
  BY DEF Commit
<1>2. Stops(a)
  BY <1>1, StopsIs DEF Commit, Inv
<1>3. SessionOK(a)
  BY <1>1 DEF Inv, Tidy, Sessions
<1>4. act[a].of \in Backups /\ act[a].at \in {"inserted", "made", "deleting"}
  BY <1>1, BusyWorks DEF Inv
<1>5. rows'[act[a].of] = act[a].row
  BY <1>4 DEF Commit, Saved
<1>6. \A b \in Backups : b # act[a].of => rows'[b] = IF b \in act[a].drop THEN NoRow ELSE rows[b]
  BY DEF Commit, Saved
<1> QED BY <1>1, <1>2, <1>3, <1>4, <1>5, <1>6 DEF Commit, stores

\* Others' rows are not touched, except that what they drop may be gone already.
LEMMA CommitLeaves ==
    ASSUME Inv, NEW a \in Actors, Commit(a), NEW c \in Busy \ {a}
    PROVE  /\ ~At(c, "deleting") => rows'[act[c].of] = rows[act[c].of]
           /\ \A b \in act[c].drop : rows'[b].status \in {"none", "success"}
<1>1. Apart(a, c) /\ Apart(c, a) /\ SessionOK(c)
  BY CommitIs DEF Inv, Tidy, Sessions
<1>2. act[c].of \in Backups /\ act[c].drop \in SUBSET Backups
  BY BusyWorks DEF Inv
<1>3. ASSUME ~At(c, "deleting") PROVE act[c].of # act[a].of /\ act[c].of \notin act[a].drop
  <2>1. ASSUME act[c].of = act[a].of PROVE FALSE
    <3>1. act[c].how = "task"
      BY <1>1, <1>3, <2>1 DEF Apart
    <3>2. c \in Locked(act[a].of)
      BY <2>1, <3>1 DEF Locked
    <3>3. Locked(act[a].of) \subseteq {a}
      BY DEF Commit
    <3> QED BY <3>2, <3>3
  <2> QED BY <1>1, <1>3, <2>1 DEF Apart
<1>4. ASSUME NEW b \in act[c].drop PROVE rows'[b].status \in {"none", "success"}
  <2>1. CASE b = act[a].of
    <3>1. At(a, "deleting")
      BY <1>1, <2>1 DEF Apart
    <3>2. rows'[b] = NoRow
      BY <2>1, <3>1, CommitIs DEF SessionOK
    <3> QED BY <3>2, NoRowIsRow
  <2>2. CASE b # act[a].of
    BY <1>1, <1>2, <2>2, CommitIs, NoRowIsRow DEF SessionOK
  <2> QED BY <2>1, <2>2
<1> QED BY <1>2, <1>3, <1>4, CommitIs

LEMMA CommitTidy ==
    ASSUME Inv, NEW a \in Actors, Commit(a)
    PROVE  Tidy'
<1>1. PICK of \in Backups, row \in Row : of = act[a].of /\ row = act[a].row
  BY CommitIs, BusyWorks DEF Inv
<1>2. /\ rows'[of] = row /\ of \in used
      /\ row.status = "none" => row = NoRow
      /\ Waits(of) => row.status \in {"none", "queued"}
  BY <1>1, CommitIs, NoRowIsRow DEF SessionOK, At
<1>3. \A b \in Backups : b # of => rows'[b] = rows[b] \/ rows'[b] = NoRow
  BY <1>1, CommitIs
<1>4. used' = used /\ queue' = queue
  BY CommitIs
<1>5. RowsOK'
  BY <1>2, <1>3, <1>4 DEF Inv, Tidy, RowsOK
<1>6. QueueOK'
  <2>1. \A t \in queue : t.of \in Backups
    BY TaskFields DEF Inv, TypeOK
  <2>2. \A t \in queue : t.kind = "backup" => rows'[t.of].status \in {"none", "queued"}
    BY <1>2, <1>3, <2>1, NoRowIsRow DEF Waits, Inv, Tidy, QueueOK
  <2> QED BY <1>4, <2>2 DEF Inv, Tidy, QueueOK
<1>7. \A b : Waits(b)' <=> Waits(b)
  BY <1>4 DEF Waits
<1>8. ASSUME NEW c \in Busy \ {a} PROVE SessionOK(c)'
  <2>1. SessionOK(c) /\ act'[c] = act[c]
    BY CommitIs DEF Inv, Tidy, Sessions, Stops
  <2>2. Waits(act[c].of)' <=> Waits(act[c].of)
    BY <1>4, <2>1 DEF Waits
  <2>3. \A b \in act[c].drop : ~Waits(b)'
    BY <1>7, <2>1 DEF SessionOK
  <2> QED BY <1>4, <2>1, <2>2, <2>3, CommitLeaves, SessionStays DEF Inv
<1>9. \A c, d \in Busy \ {a} : c # d => Apart(c, d)'
  BY CommitIs, ApartStays DEF Inv, Tidy, Sessions, Stops
<1>10. Sessions'
  BY <1>8, <1>9, CommitIs DEF Sessions, Stops
<1> QED BY <1>5, <1>6, <1>10 DEF Tidy

LEMMA CommitRestorable ==
    ASSUME Inv, NEW a \in Actors, Commit(a)
    PROVE  Restorable'
<1>1. Stops(a)
  BY CommitIs
<1>2. \A b \in Backups : Stays(b)
  BY CommitIs, SameStores
<1>3. \A b \in Backups : Whole(b) => Whole(b)'
  BY <1>2, WholeStays, CommitIs
<1>4. ASSUME NEW b \in Succeeded' PROVE b \in Dropping' \/ Whole(b)'
  <2>1. b \in Backups /\ rows'[b].status = "success"
    BY DEF Succeeded
  <2>2. CASE b = act[a].of
    <3>1. At(a, "made")
      BY <2>1, <2>2, CommitIs, NoRowIsRow DEF SessionOK, At
    <3> QED BY <1>3, <2>1, <2>2, <3>1, CommitIs DEF Inv, Restorable
  <2>3. CASE b # act[a].of
    <3>1. b \notin act[a].drop /\ rows'[b] = rows[b]
      BY <2>1, <2>3, CommitIs, NoRowIsRow
    <3>2. b \in Succeeded
      BY <2>1, <3>1 DEF Succeeded
    <3>3. b \in Dropping => b \in Dropping'
      BY <1>1, <3>1, DroppingIs, DroppingIsNext DEF Stops
    <3> QED BY <1>3, <2>1, <3>2, <3>3 DEF Inv, Restorable
  <2> QED BY <2>2, <2>3
<1>5. \A c \in Busy', b \in Backups : At(c, "made")' /\ act'[c].of = b => Whole(b)'
  BY <1>1, <1>3 DEF Inv, Restorable, Stops, At
<1> QED BY <1>4, <1>5 DEF Restorable

LEMMA CommitDaily ==
    ASSUME Inv, NEW a \in Actors, Commit(a)
    PROVE  Daily'
<1>1. CASE "ticks" \in crossed
  BY <1>1, CommitIs DEF Daily
<1>2. CASE "ticks" \notin crossed
  <2>1. PICK of \in Backups, row \in Row : of = act[a].of /\ row = act[a].row
    BY CommitIs, BusyWorks DEF Inv
  <2>2. act[a].how \in How
    BY CommitIs, BusyWorks DEF Inv
  <2>3. \A b \in Backups : b # of /\ Counts(b)' => Counts(b) /\ rows'[b] = rows[b]
    BY <2>1, CommitIs, NoRowIsRow DEF Counts
  \* What is committed was there, or comes of the only daily tick.
  <2>4. Counts(of)' => \/ Counts(of) /\ rows[of].born = row.born /\ act[a].how = "task"
                       \/ act[a].how = "daily" /\ row.status # "failed"
    <3>1. rows'[of] = row
      BY <2>1, CommitIs
    <3>2. row.daily => act[a].how # "request" /\ ~At(a, "deleting")
      BY <2>1, CommitIs, NoRowIsRow DEF SessionOK, At
    <3>3. act[a].how = "task" /\ row.daily => Counts(of) /\ rows[of].born = row.born
      BY <2>1, <3>2, CommitIs DEF SessionOK, At, Counts
    <3> QED BY <2>2, <3>1, <3>2, <3>3 DEF Counts, How
  <2>5. \A b \in Backups : b # of /\ Counts(b)' /\ Counts(of)' => rows'[b].born # row.born
    BY <1>2, <2>1, <2>3, <2>4, CommitIs DEF Inv, Daily
  <2>6. \A b, c \in Backups : Counts(b)' /\ Counts(c)' /\ rows'[b].born = rows'[c].born => b = c
    <3>1. rows'[of] = row
      BY <2>1, CommitIs
    <3> QED BY <1>2, <2>3, <2>5, <3>1 DEF Inv, Daily
  <2>7. \A c, d \in Busy' : act'[c].how = "daily" /\ act'[d].how = "daily" => c = d
    BY <1>2, CommitIs DEF Inv, Daily, Stops
  <2>8. ASSUME NEW c \in Busy', NEW b \in Backups,
               act'[c].how = "daily", act'[c].row.status # "failed", Counts(b)'
        PROVE  rows'[b].born # act'[c].row.born
    <3>1. c \in Busy \ {a} /\ act'[c] = act[c]
      BY CommitIs DEF Stops
    <3>2. act[a].how # "daily"
      BY <1>2, <2>8, <3>1, CommitIs DEF Inv, Daily
    <3>3. CASE b = of
      <4>1. rows'[of] = row /\ Counts(of) /\ rows[of].born = row.born
        BY <2>1, <2>4, <2>8, <3>2, <3>3, CommitIs
      <4> QED BY <1>2, <2>8, <3>1, <3>3, <4>1 DEF Inv, Daily
    <3>4. CASE b # of
      BY <1>2, <2>3, <2>8, <3>1, <3>4 DEF Inv, Daily
    <3> QED BY <3>3, <3>4
  <2> QED BY <2>6, <2>7, <2>8 DEF Daily
<1> QED BY <1>1, <1>2

(***************************************************************************)
(* How many there are, action by action.                                   *)
(***************************************************************************)
LEMMA KeptNobody ==
    ASSUME Kept, NobodyMoves, rows' = rows, crossed \subseteq crossed'
    PROVE  Kept'
<1>1. Makers' = Makers /\ \A a \in Makers' : act'[a] = act[a]
  BY DEF Makers, NobodyMoves, At
<1>2. Succeeded' = Succeeded
  BY DEF Succeeded
<1> QED BY <1>1, <1>2, KeptFewer

\* A session that starts without making a backup.
LEMMA KeptStart ==
    ASSUME TypeOK, Kept, NEW a \in Actors, At(a, "idle"), NEW s \in Session,
           s.at \in {"inserted", "deleting"}, Does(a, s), rows' = rows, crossed \subseteq crossed'
    PROVE  Kept'
<1>1. Starts(a) /\ act'[a].at # "made"
  BY StartsIs
<1>2. Makers' = Makers /\ \A c \in Makers' : act'[c] = act[c]
  BY <1>1 DEF Makers, Starts, At
<1>3. Succeeded' = Succeeded
  BY DEF Succeeded
<1> QED BY <1>2, <1>3, KeptFewer

LEMMA KeptStop ==
    ASSUME Kept, NEW a, Stops(a), rows' = rows, crossed' = crossed
    PROVE  Kept'
<1>1. Makers' \subseteq Makers /\ \A c \in Makers' : act'[c] = act[c]
  BY DEF Makers, Stops, At
<1>2. Succeeded' = Succeeded
  BY DEF Succeeded
<1> QED BY <1>1, <1>2, KeptFewer

LEMMA RunBackupKept ==
    ASSUME TypeOK, Kept, NEW a \in Actors, At(a, "idle"), NEW b \in Backups, NEW row \in Row,
           NEW how \in How, NEW attempt \in 0 .. 2, RunBackup(a, b, row, how, attempt),
           rows' = rows, crossed' = crossed \cup Overlapping(how, TRUE)
    PROVE  Kept'
<1>1. PICK upload \in Uploads, copied \in {"whole", "torn"}, old \in SUBSET Succeeded, made \in Row :
        Makes(a, b, row, how, attempt, upload, copied, old, made)
  BY RunBackupIs
<1>2. PICK s : s = [at |-> "made", of |-> b, how |-> how, attempt |-> attempt, drop |-> old, row |-> made]
  OBVIOUS
<1>3. s \in Session /\ s.at = "made" /\ s.drop = old
  BY <1>2, MadeIs DEF Succeeded
<1>4. Starts(a) /\ act'[a] = s /\ Prunable(old)
  BY <1>1, <1>2, <1>3, StartsIs DEF Makes
<1>5. Makers # {} => "prunes" \in crossed'
  BY DEF Makers, Overlapping
<1> QED BY <1>3, <1>4, <1>5, KeptJoin

\* A session in which a backup was made adds it and takes away what it dropped; others add none.
LEMMA CommitKept ==
    ASSUME Inv, Kept, NEW a \in Actors, Commit(a)
    PROVE  Kept'
<1>1. /\ a \in Busy /\ Stops(a) /\ SessionOK(a)
      /\ act[a].of \in Backups /\ act[a].at \in {"inserted", "made", "deleting"}
      /\ rows'[act[a].of] = act[a].row /\ crossed \subseteq crossed'
      /\ \A b \in Backups : b # act[a].of => rows'[b] = IF b \in act[a].drop THEN NoRow ELSE rows[b]
  BY CommitIs
<1>2. PICK of, drop : of \in Backups /\ of = act[a].of /\ drop = act[a].drop
  BY <1>1
<1>3. \A b \in Backups : b # of => (b \in Succeeded' <=> b \in Succeeded \ drop)
  BY <1>1, <1>2, NoRowIsRow DEF Succeeded
<1>4. /\ Makers' = Makers \ {a} /\ \A c \in Makers \ {a} : act'[c] = act[c]
      /\ Succeeded \subseteq Backups /\ Succeeded' \subseteq Backups
  BY <1>1 DEF Makers, Stops, At, Succeeded
<1>5. CASE At(a, "made")
  <2>1. of \in Succeeded' /\ of \notin Succeeded
    <3>1. act[a].of \notin Succeeded
      BY <1>1, <1>5, NotMadeYet DEF Inv, Tidy, At
    <3>2. rows'[of].status = "success"
      BY <1>1, <1>2, <1>5 DEF SessionOK
    <3> QED BY <1>2, <3>1, <3>2 DEF Succeeded
  <2>2. a \in Makers
    BY <1>1, <1>5 DEF Makers
  <2>3. \A c \in Makers : of \notin act[c].drop
    <3>1. of \notin drop
      BY <1>1, <1>2, <1>5 DEF SessionOK
    <3>2. ASSUME NEW c \in Makers \ {a} PROVE of \notin act[c].drop
      BY <1>1, <1>2, <1>5 DEF Makers, Inv, Tidy, Sessions, Apart, At
    <3> QED BY <1>2, <3>1, <3>2
  <2>4. Succeeded' = (Succeeded \ drop) \cup {of}
    BY <1>3, <1>4, <2>1
  <2> QED BY <1>1, <1>2, <1>4, <2>1, <2>2, <2>3, <2>4, KeptLeave
<1>6. CASE At(a, "inserted")
  <2>1. of \notin Succeeded' /\ of \notin Succeeded /\ drop = {}
    BY <1>1, <1>2, <1>6, NotMadeYet DEF Inv, Tidy, SessionOK, At, Succeeded
  <2>2. Succeeded' = Succeeded
    BY <1>3, <1>4, <2>1
  <2> QED BY <1>1, <1>4, <2>2, KeptFewer
<1>7. CASE At(a, "deleting")
  <2>1. of \notin Succeeded'
    BY <1>1, <1>2, <1>7, NoRowIsRow DEF SessionOK, Succeeded
  <2>2. Succeeded' \subseteq Succeeded
    BY <1>3, <1>4, <2>1
  <2>3. Makers' = {} \/ "deletes" \in crossed'
    <3>1. crossed' = IF At(a, "deleting") /\ \E d \in Busy : At(d, "made")
                     THEN crossed \cup {"deletes"} ELSE crossed
      BY DEF Commit
    <3> QED BY <3>1, <1>4, <1>7 DEF Makers
  <2> QED BY <1>1, <1>4, <2>2, <2>3, KeptFewer
<1> QED BY <1>1, <1>5, <1>6, <1>7 DEF At

LEMMA NextKept == Inv /\ Kept /\ [Next]_vars => Kept'
<1> SUFFICES ASSUME Inv, Kept, [Next]_vars PROVE Kept'
  OBVIOUS
<1>1. ASSUME NEW a \in Actors, NEW b \in Backups, NEW how \in {"request", "daily"}, QueueBackup(a, b, how)
      PROVE  Kept'
  <2>1. PICK s \in Session : s = Inserted(b, how, "queued") /\ s.at = "inserted"
    BY InsertedIs DEF Inv
  <2>2. Does(a, s) /\ rows' = rows /\ crossed \subseteq crossed' /\ At(a, "idle")
    BY <1>1, <2>1 DEF QueueBackup, MayInsert, Inserted
  <2> QED BY <2>1, <2>2, KeptStart DEF Inv
<1>2. ASSUME NEW a \in Actors, NEW b \in Backups, NEW how \in {"request", "daily"}, BackupInline(a, b, how)
      PROVE  Kept'
  <2>1. PICK row \in Row : row = NewRow(how, "running")
    BY NewRowIs DEF Inv, Status
  <2>2. /\ how \in How /\ 0 \in 0 .. 2 /\ RunBackup(a, b, row, how, 0) /\ At(a, "idle")
        /\ rows' = rows /\ crossed' = crossed \cup Overlapping(how, TRUE)
    BY <1>2, <2>1 DEF BackupInline, MayInsert, How
  <2> QED BY <2>2, RunBackupKept DEF Inv
<1>3. ASSUME NEW a \in Actors, NEW b \in Backups, DailyRefused(a, b)
      PROVE  Kept'
  <2>1. PICK s \in Session : s = Inserted(b, "daily", "failed") /\ s.at = "inserted"
    BY InsertedIs DEF Inv
  <2>2. Does(a, s) /\ rows' = rows /\ crossed \subseteq crossed' /\ At(a, "idle")
    BY <1>3, <2>1 DEF DailyRefused, MayInsert, Inserted
  <2> QED BY <2>1, <2>2, KeptStart DEF Inv
<1>4. ASSUME NEW a \in Actors, NEW b \in Backups, DeleteBackup(a, b)
      PROVE  Kept'
  <2>1. PICK s \in Session : s = Deleting(b, {b} \cap Succeeded) /\ s.at = "deleting"
    BY DeletingIs
  <2>2. Does(a, s) /\ rows' = rows /\ crossed \subseteq crossed' /\ At(a, "idle")
    BY <1>4, <2>1 DEF DeleteBackup, Deleting, history
  <2> QED BY <2>1, <2>2, KeptStart DEF Inv
<1>5. ASSUME NEW w \in Actors, NEW t \in queue, BackupEnvironment(w, t)
      PROVE  Kept'
  <2>1. t.kind = "backup" /\ t.attempt \in 0 .. 2 /\ "task" \in How /\ t.of \in Backups
    BY <1>5, TaskFields DEF Inv, TypeOK, BackupEnvironment, How
  <2>2. PICK b \in Backups, row \in Row, n \in 0 .. 2 : b = t.of /\ row = rows[t.of] /\ n = t.attempt
    BY <2>1 DEF Inv, TypeOK
  <2>3. /\ RunBackup(w, b, row, "task", n) /\ At(w, "idle")
        /\ rows' = rows /\ crossed' = crossed \cup Overlapping("task", TRUE)
    BY <1>5, <2>2 DEF BackupEnvironment
  <2> QED BY <2>1, <2>3, RunBackupKept DEF Inv
<1>6. ASSUME NEW a \in Actors, NEW b \in Backups, QueueRestore(a, b)
      PROVE  Kept'
  BY <1>6, NobodyActs, KeptNobody DEF QueueRestore, history
<1>7. ASSUME NEW w \in Actors, NEW t \in queue, TaskFails(w, t)
      PROVE  Kept'
  BY <1>7, NobodyActs, KeptNobody DEF TaskFails, history
<1>8. ASSUME NEW w \in Actors, NEW t \in queue, RunRestore(w, t)
      PROVE  Kept'
  <2>1. w \notin Busy /\ \E s \in Session : s.at = "emptied" /\ Does(w, s)
    BY <1>8, RunRestoreIs DEF Inv
  <2>2. NobodyMoves
    BY <2>1, RestoreIs DEF Inv
  <2> QED BY <1>8, <2>2, KeptNobody DEF RunRestore, history
<1>9. ASSUME NEW a \in Actors, Fail(a) \/ Die(a)
      PROVE  Kept'
  BY <1>9, StopsIs, KeptStop DEF Fail, Die, Inv
<1>10. ASSUME NEW w \in Actors, Fill(w) \/ FillFails(w)
       PROVE  Kept'
  <2>1. At(w, "emptied") /\ Does(w, Idle) /\ rows' = rows /\ crossed' = crossed
    BY <1>10 DEF Fill, FillFails, history
  <2>2. w \notin Busy
    BY <2>1 DEF Busy, At
  <2>3. NobodyMoves
    BY <2>1, <2>2, IdleIs, RestoreIs DEF Inv
  <2> QED BY <2>1, <2>3, KeptNobody
<1>11. CASE Terminate \/ NextDay \/ UNCHANGED vars
  <2>1. UNCHANGED act /\ rows' = rows /\ crossed' = crossed
    BY <1>11 DEF Terminate, NextDay, vars, history
  <2> QED BY <2>1, NobodyActs, KeptNobody
<1>12. ASSUME NEW a \in Actors, Commit(a)
       PROVE  Kept'
  BY <1>12, CommitKept
<1> QED BY <1>1, <1>2, <1>3, <1>4, <1>5, <1>6, <1>7, <1>8, <1>9, <1>10, <1>11, <1>12 DEF Next

-------------------------------------------------------------------------------
(***************************************************************************)
(* The theorems.                                                           *)
(***************************************************************************)
LEMMA NextInv == Inv /\ [Next]_vars => Tidy' /\ Restorable' /\ Daily'
<1> SUFFICES ASSUME Inv, [Next]_vars PROVE Tidy' /\ Restorable' /\ Daily'
  OBVIOUS
<1>1. ASSUME NEW a \in Actors, NEW b \in Backups, NEW how \in {"request", "daily"},
             QueueBackup(a, b, how) \/ BackupInline(a, b, how)
      PROVE  Tidy' /\ Restorable' /\ Daily'
  BY <1>1, QueueBackupInv, BackupInlineInv
<1>2. ASSUME NEW a \in Actors, NEW b \in Backups,
             DailyRefused(a, b) \/ DeleteBackup(a, b) \/ QueueRestore(a, b)
      PROVE  Tidy' /\ Restorable' /\ Daily'
  BY <1>2, DailyRefusedInv, DeleteBackupInv, QueueRestoreInv
<1>3. ASSUME NEW a \in Actors, NEW t \in queue,
             BackupEnvironment(a, t) \/ TaskFails(a, t) \/ RunRestore(a, t)
      PROVE  Tidy' /\ Restorable' /\ Daily'
  BY <1>3, BackupEnvironmentInv, TaskFailsInv, RunRestoreInv
<1>4. ASSUME NEW a \in Actors, Commit(a)
      PROVE  Tidy' /\ Restorable' /\ Daily'
  BY <1>4, CommitTidy, CommitRestorable, CommitDaily
<1>5. ASSUME NEW a \in Actors, Fail(a) \/ Die(a)
      PROVE  Tidy' /\ Restorable' /\ Daily'
  BY <1>5, FailInv, DieInv
<1>6. ASSUME NEW a \in Actors, Fill(a) \/ FillFails(a)
      PROVE  Tidy' /\ Restorable' /\ Daily'
  BY <1>6, FilledInv
<1>7. CASE Terminate \/ NextDay \/ UNCHANGED vars
  BY <1>7, OutsideInv
<1> QED BY <1>1, <1>2, <1>3, <1>4, <1>5, <1>6, <1>7 DEF Next

LEMMA InitInv == Init => Inv
BY InitType, InitTidy, InitRestorable, InitDaily DEF Inv

LEMMA InvStep == Inv /\ Filled /\ [Next]_vars => Inv' /\ Filled'
BY NextType, NextInv DEF Inv

LEMMA Invariance == Spec => []Inv
BY InitInv, InitType, InvStep, PTL DEF Spec

LEMMA InvRestorable == Inv => SuccessIsRestorable
BY DEF Inv, Restorable, Whole, SuccessIsRestorable

(***************************************************************************)
(* Whatever tasks, requests and daily ticks make, prune, delete and retry, *)
(* crossing each other and failing: a backup that is shown as successful   *)
(* has an archive a restore accepts, with the whole site in it, except for *)
(* the ways that "spoiled" names.                                          *)
(***************************************************************************)
THEOREM BackupsAreRestorable == Spec => []SuccessIsRestorable
BY Invariance, InvRestorable, PTL

LEMMA InvDaily == Inv => DailyOnce
BY DEF Inv, Daily, Counts, DailyOnce

(***************************************************************************)
(* Unless two ticks overlap, the daily tick makes one backup a day, though *)
(* it looks at what is committed only, and its tasks are retried.          *)
(***************************************************************************)
THEOREM BackupsAreDaily == Spec => []DailyOnce
BY Invariance, InvDaily, PTL


LEMMA KeptInvariance == Spec => [](Inv /\ Kept)
<1>1. Init => Inv /\ Kept /\ Filled
  BY InitInv, InitKept, InitType
<1>2. Inv /\ Kept /\ Filled /\ [Next]_vars => (Inv /\ Kept /\ Filled)'
  BY InvStep, NextKept
<1> QED BY <1>1, <1>2, PTL DEF Spec

LEMMA KeptRetained == Kept => Retained
<1> SUFFICES ASSUME Kept PROVE Retained
  OBVIOUS
<1>1. PICK S, M, d : S = Succeeded /\ M = Makers /\ d = Drops
  OBVIOUS
<1>2. IsFiniteSet(S) /\ Cardinality(S) \in Nat /\ Cardinality(S) <= Keep + Cardinality(Actors)
  BY <1>1, FS_CardinalityType DEF Kept, Fits, Most
<1>3. "prunes" \in crossed \/ Cardinality(S) <= Keep + 1
  BY <1>1 DEF Kept, Lone
<1>4. ASSUME "deletes" \notin crossed, NEW a \in Makers, act[a].drop # {}
      PROVE  Cardinality(S \ act[a].drop) >= Keep
  <2>1. a \in M /\ d[a] = act[a].drop
    BY <1>1, DropsIs
  <2>2. Top(S, M, d)
    BY <1>1, <1>4 DEF Kept
  <2>3. PICK kept \in SUBSET S : Cardinality(kept) = Keep /\ d[a] \cap kept = {}
    BY <1>4, <2>1, <2>2 DEF Top
  <2>4. IsFiniteSet(S \ d[a]) /\ Cardinality(S \ d[a]) \in Nat
    BY <1>2, FS_Difference, FS_CardinalityType
  <2>5. Cardinality(kept) <= Cardinality(S \ d[a])
    <3>1. kept \in SUBSET (S \ d[a])
      BY <2>3
    <3> QED BY <2>4, <3>1, FS_Subset
  <2> QED BY <2>1, <2>3, <2>4, <2>5, MostIs
<1>5. Cardinality(Succeeded) <= Keep + (IF "prunes" \in crossed THEN Cardinality(Actors) ELSE 1)
  BY <1>1, <1>2, <1>3
<1> QED BY <1>1, <1>4, <1>5 DEF Retained, Makers

(***************************************************************************)
(* Pruning keeps what it should and no more, though prunes that cross each *)
(* other count neither other's backup: there are never more than the limit *)
(* and one for each that can be at work, one of one that is alone; and no  *)
(* prune takes what another one counted on.                                *)
(***************************************************************************)
THEOREM BackupsAreRetained == Spec => []Retained
BY KeptInvariance, KeptRetained, PTL

===============================================================================
