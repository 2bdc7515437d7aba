------------------------------ MODULE Recovery ------------------------------
(***************************************************************************)
(* What survives: the start of the database (database.py), the import of   *)
(* a TinyDB file of versions before 0.38 (tinydb_migration.py), the        *)
(* snapshot of the database that rides along in every backup and its       *)
(* restore on a fresh machine (db_snapshot.py), the default identity       *)
(* (identity.py) and the backups themselves (backup.py), with crashes and  *)
(* the loss of the machine at any point.                                   *)
(*                                                                         *)
(* A table is abstracted to what tells its states apart: the ids of the    *)
(* identities and which is the default (0 for none), the backup passphrase *)
(* of kv_store (0 for none), the ids of the backup reports, how often the  *)
(* usage tracks of a TinyDB file were imported, and a counter of the       *)
(* changes of installed_apps and of terminals.                             *)
(***************************************************************************)
EXTENDS Naturals, Sequences, FiniteSets, FiniteSetsExt

CONSTANTS
    Jobs,         \* slots for backup jobs (the cron task, requests)
    Nobody,       \* no holder of BACKUP_IN_PROGESS_LOCK
    Missing,      \* no such file
    MaxChanges,   \* bound: what the owner and the other parts of the core change
    MaxReports,   \* bound: ids of backup reports
    MaxCrashes    \* bound: how often the process or the machine dies

ASSUME JobsAssumption == Nobody \notin Jobs

ASSUME LimitsAssumption == {MaxChanges, MaxReports, MaxCrashes} \subseteq Nat

VARIABLES
    phase,       \* how far the lifespan's start has come
    db,          \* the committed contents of the tables
    seq,         \* the sequence that backups.id draws from
    snapshot,    \* core/db_snapshot.json
    tinydb,      \* core/shard_core_db.json exists
    remote,      \* core/ in the backup container
    busy,        \* holder of BACKUP_IN_PROGESS_LOCK
    job,         \* the backup jobs
    minted,      \* keys and passphrases made so far are 1..minted
    crashes,     \* how often the process or the machine died
    changes,     \* how many transactions of others there were
    committed,   \* history: states the tables had on this machine or an earlier one
    chosen       \* history: the identities made the default on this machine

historyVars == <<committed, chosen>>

vars == <<phase, db, seq, snapshot, tinydb, remote, busy, job, minted, crashes, changes,
          historyVars>>

diskVars == <<snapshot, tinydb, remote>>

-----------------------------------------------------------------------------
(* In the order in which _list_data_tables returns them.                   *)
Tables == <<"app_usage_tracks", "backups", "identities", "installed_apps", "kv_store",
            "terminals">>

Image ==
    [app_usage_tracks : Nat, backups : SUBSET Nat,
     identities : [ids : SUBSET Nat, default : Nat],
     installed_apps : Nat, kv_store : Nat, terminals : Nat]

(* A missing file is no image.                                             *)
ASSUME MissingAssumption == Missing \notin Image

NoIdentity == [ids |-> {}, default |-> 0]

OneIdentity(i) == [ids |-> {i}, default |-> i]

EmptyDb == [app_usage_tracks |-> 0, backups |-> {}, identities |-> NoIdentity,
            installed_apps |-> 0, kv_store |-> 0, terminals |-> 0]

LegacyIdentity == 1

LegacyPassphrase == 2

Core == [snapshot |-> snapshot, tinydb |-> tinydb]

(* view is what the job's REPEATABLE READ transaction sees, image what it  *)
(* has read, n how many tables or directories are done.                    *)
NoJob == [pc |-> "idle", n |-> 0, view |-> EmptyDb, image |-> EmptyDb]

At(b, pc) == job[b].pc = pc

Goto(b, pc) == job' = [job EXCEPT ![b].pc = pc]

(* While no backup runs, only the states that have a snapshot are of use.  *)
Remember(new) ==
    committed' = {new} \cup IF busy = Nobody THEN committed \cap {snapshot, remote.snapshot}
                            ELSE committed

Commit(new) == db' = new /\ Remember(new) /\ UNCHANGED chosen

(* A new shard, or one that has just been updated from a version with      *)
(* TinyDB, whose backup container may hold the TinyDB file too.            *)
Init ==
    /\ phase = "down"
    /\ db = EmptyDb
    /\ seq = 0
    /\ snapshot = Missing
    /\ tinydb \in BOOLEAN
    /\ remote \in {[snapshot |-> Missing, tinydb |-> FALSE], Core}
    /\ busy = Nobody
    /\ job = [b \in Jobs |-> NoJob]
    /\ minted = 2
    /\ crashes = 0 /\ changes = 0
    /\ committed = {EmptyDb} /\ chosen = {}

-----------------------------------------------------------------------------
(* init_database and the steps of the lifespan that follow it.             *)

Boot ==
    /\ phase = "down"
    /\ phase' = "tinydb"
    /\ UNCHANGED <<db, seq, diskVars, busy, job, minted, crashes, changes, historyVars>>

(* The statements of migrate_tinydb_data: INSERT ... ON CONFLICT DO        *)
(* NOTHING for tables with a natural key, plain INSERT for backups and     *)
(* app_usage_tracks.                                                       *)
KeepOr(old, new) == IF old = 0 THEN new ELSE old

Migrated ==
    [app_usage_tracks |-> db.app_usage_tracks + 1,
     backups |-> db.backups \cup {seq + 1},
     identities |-> [ids |-> db.identities.ids \cup {LegacyIdentity},
                     default |-> KeepOr(db.identities.default, LegacyIdentity)],
     installed_apps |-> KeepOr(db.installed_apps, 1),
     kv_store |-> KeepOr(db.kv_store, LegacyPassphrase),
     terminals |-> KeepOr(db.terminals, 1)]

(* One transaction, committed before the file is renamed.                  *)
MigrateTinydb ==
    /\ phase = "tinydb"
    /\ \/ tinydb /\ phase' = "rename" /\ Commit(Migrated) /\ seq' = seq + 1
       \/ ~tinydb /\ phase' = "restore" /\ UNCHANGED <<db, seq, historyVars>>
    /\ UNCHANGED <<diskVars, busy, job, minted, crashes, changes>>

RenameTinydb ==
    /\ phase = "rename"
    /\ phase' = "restore"
    /\ tinydb' = FALSE
    /\ UNCHANGED <<db, seq, snapshot, remote, busy, job, minted, crashes, changes, historyVars>>

Populated == db.identities.ids # {}

(* Fault: the sequences stay where a fresh database has them.              *)
KeepSequence(rows) == seq

(* _reset_sequences, for a table with rows.                                *)
ResetSequence(rows) == IF rows = {} THEN seq ELSE Max(rows)

(* One transaction into a database without an identity, which is empty.    *)
RestoreSnapshot ==
    /\ phase = "restore"
    /\ phase' = "identity"
    /\ \/ /\ snapshot # Missing /\ ~Populated
          /\ Commit(snapshot)
          /\ seq' = ResetSequence(snapshot.backups)
       \/ (snapshot = Missing \/ Populated) /\ UNCHANGED <<db, seq, historyVars>>
    /\ UNCHANGED <<diskVars, busy, job, minted, crashes, changes>>

(* init_default_identity *)
InitIdentity ==
    /\ phase = "identity"
    /\ phase' = "passphrase"
    /\ \/ /\ ~Populated
          /\ minted' = minted + 1
          /\ Commit([db EXCEPT !.identities = OneIdentity(minted + 1)])
       \/ Populated /\ UNCHANGED <<db, minted, historyVars>>
    /\ UNCHANGED <<seq, diskVars, busy, job, crashes, changes>>

(* Fault: a new passphrase on every start.                                 *)
RenewPassphrase ==
    /\ phase = "passphrase"
    /\ phase' = "up"
    /\ minted' = minted + 1
    /\ Commit([db EXCEPT !.kv_store = minted + 1])
    /\ UNCHANGED <<seq, diskVars, busy, job, crashes, changes>>

(* ensure_backup_passphrase *)
EnsurePassphrase ==
    /\ phase = "passphrase"
    /\ phase' = "up"
    /\ \/ /\ db.kv_store = 0
          /\ minted' = minted + 1
          /\ Commit([db EXCEPT !.kv_store = minted + 1])
       \/ db.kv_store # 0 /\ UNCHANGED <<db, minted, historyVars>>
    /\ UNCHANGED <<seq, diskVars, busy, job, crashes, changes>>

StartupStep ==
    \/ Boot \/ MigrateTinydb \/ RenameTinydb \/ RestoreSnapshot \/ InitIdentity
    \/ EnsurePassphrase

Transaction ==
    /\ phase = "up"
    /\ changes < MaxChanges /\ changes' = changes + 1
    /\ UNCHANGED <<phase, seq, diskVars, busy, job, crashes>>

(* put_identity without an id: the new identity is not the default.        *)
AddIdentity ==
    /\ Transaction
    /\ minted' = minted + 1
    /\ Commit([db EXCEPT !.identities.ids = @ \cup {minted + 1}])

(* make_default, as a whole: Identities has its statements.  No request    *)
(* deletes an identity.                                                    *)
MakeDefault(i) ==
    /\ Transaction
    /\ i # db.identities.default
    /\ db' = [db EXCEPT !.identities.default = i]
    /\ Remember(db')
    /\ chosen' = chosen \cup {i}
    /\ UNCHANGED minted

(* Any other transaction of the shard core at work: it changes a table     *)
(* that has nothing to do with the identity or the passphrase.             *)
Change(t) ==
    /\ Transaction
    /\ Commit([db EXCEPT ![t] = @ + 1])
    /\ UNCHANGED minted

OwnerStep ==
    \/ AddIdentity
    \/ \E i \in db.identities.ids : MakeDefault(i)
    \/ \E t \in {"installed_apps", "terminals"} : Change(t)

-----------------------------------------------------------------------------
(* start_backup, by the cron task or a request; it raises while another    *)
(* backup runs.                                                            *)
StartBackup(b) ==
    /\ phase = "up"
    /\ At(b, "idle")
    /\ (busy = Nobody /\ Goto(b, "sas")) \/ (busy # Nobody /\ UNCHANGED job)
    /\ UNCHANGED <<phase, db, seq, diskVars, busy, minted, crashes, changes, historyVars>>

(* A URL for the container, or an HTTPError.                               *)
GetSasUrl(b) ==
    /\ At(b, "sas")
    /\ (Goto(b, "begin") /\ seq < MaxReports) \/ Goto(b, "idle")
    /\ UNCHANGED <<phase, db, seq, diskVars, busy, minted, crashes, changes, historyVars>>

(* backup_directories: nothing is awaited between the look at the lock and *)
(* its acquisition.                                                        *)
Begin(b) ==
    /\ At(b, "begin")
    /\ \/ busy = Nobody /\ busy' = b /\ Goto(b, "open")
       \/ busy # Nobody /\ Goto(b, "idle") /\ UNCHANGED busy
    /\ UNCHANGED <<phase, db, seq, diskVars, minted, crashes, changes, historyVars>>

(* Fault: a failing job keeps the lock.                                    *)
AbandonLocked(b) ==
    job' = [job EXCEPT ![b] = NoJob] /\ UNCHANGED busy

(* The end of "async with BACKUP_IN_PROGESS_LOCK", by return or exception. *)
Abandon(b) ==
    job' = [job EXCEPT ![b] = NoJob] /\ busy' = Nobody

(* write_db_snapshot: the first query of the transaction fixes its view.   *)
(* Postgres may refuse it, as it may every later statement.                *)
OpenSnapshot(b) ==
    /\ At(b, "open")
    /\ \/ /\ job' = [job EXCEPT ![b] = [pc |-> "read", n |-> 0, view |-> db, image |-> EmptyDb]]
          /\ UNCHANGED busy
       \/ Abandon(b)
    /\ UNCHANGED <<phase, db, seq, diskVars, minted, crashes, changes, historyVars>>

(* Fault: the default isolation level, READ COMMITTED.                     *)
ReadCommitted(b) == db

Visible(b) == job[b].view

ReadTable(b) ==
    LET n == job[b].n + 1
        t == Tables[n]
    IN  /\ At(b, "read")
        /\ \/ /\ job' = [job EXCEPT ![b].n = n,
                                    ![b].image[t] = Visible(b)[t],
                                    ![b].pc = IF n = Len(Tables) THEN "write" ELSE "read"]
              /\ UNCHANGED busy
           \/ Abandon(b)
        /\ UNCHANGED <<phase, db, seq, diskVars, minted, crashes, changes, historyVars>>

(* The temporary file, which nothing reads, is being written; the disk may *)
(* be full.                                                                *)
WriteTmp(b) ==
    /\ At(b, "write")
    /\ (Goto(b, "replace") /\ UNCHANGED busy) \/ Abandon(b)
    /\ UNCHANGED <<phase, db, seq, diskVars, minted, crashes, changes, historyVars>>

ReplaceSnapshot(b) ==
    /\ At(b, "replace")
    /\ \/ snapshot' = job[b].image /\ Goto(b, "sync") /\ UNCHANGED busy
       \/ Abandon(b) /\ UNCHANGED snapshot
    /\ UNCHANGED <<phase, db, seq, tinydb, remote, minted, crashes, changes, historyVars>>

(* rclone sync of core/, after _get_obscured_passphrase: files are copied  *)
(* to the container one by one, and those that are gone here are deleted   *)
(* last. rclone may fail at each of them.                                  *)
SyncCore(b) ==
    /\ At(b, "sync")
    /\ \/ /\ remote' = [snapshot |-> snapshot, tinydb |-> remote.tinydb \/ tinydb]
          /\ Goto(b, "syncDelete") /\ UNCHANGED busy
       \/ Abandon(b) /\ UNCHANGED remote
    /\ UNCHANGED <<phase, db, seq, snapshot, tinydb, minted, crashes, changes, historyVars>>

(* Fault: rclone copy, which deletes nothing.                              *)
CopyOnly(b) ==
    /\ At(b, "syncDelete")
    /\ (Goto(b, "syncUserData") /\ UNCHANGED busy) \/ Abandon(b)
    /\ UNCHANGED <<phase, db, seq, diskVars, minted, crashes, changes, historyVars>>

SyncDelete(b) ==
    /\ At(b, "syncDelete")
    /\ \/ remote' = Core /\ Goto(b, "syncUserData") /\ UNCHANGED busy
       \/ Abandon(b) /\ UNCHANGED remote
    /\ UNCHANGED <<phase, db, seq, snapshot, tinydb, minted, crashes, changes, historyVars>>

SyncUserData(b) ==
    /\ At(b, "syncUserData")
    /\ \/ Goto(b, "report") /\ UNCHANGED busy
       \/ Abandon(b)
    /\ UNCHANGED <<phase, db, seq, diskVars, minted, crashes, changes, historyVars>>

(* db_backups.insert; the marker blob that follows never fails the job.    *)
(* An INSERT that fails may have drawn its id, which is not given back.    *)
InsertReport(b) ==
    /\ At(b, "report")
    /\ Abandon(b)
    /\ \/ seq' = seq + 1 /\ Commit([db EXCEPT !.backups = @ \cup {seq + 1}])
       \/ seq' \in {seq, seq + 1} /\ UNCHANGED <<db, historyVars>>
    /\ UNCHANGED <<phase, diskVars, minted, crashes, changes>>

BackupStep(b) ==
    \/ GetSasUrl(b) \/ Begin(b) \/ OpenSnapshot(b) \/ ReadTable(b) \/ WriteTmp(b)
    \/ ReplaceSnapshot(b) \/ SyncCore(b) \/ SyncDelete(b) \/ SyncUserData(b)
    \/ InsertReport(b)

-----------------------------------------------------------------------------
(* The process dies: what is committed or on disk stays.                   *)
Crash ==
    /\ phase # "down"
    /\ crashes < MaxCrashes
    /\ crashes' = crashes + 1
    /\ phase' = "down"
    /\ busy' = Nobody
    /\ job' = [b \in Jobs |-> NoJob]
    /\ UNCHANGED <<db, seq, diskVars, minted, changes, historyVars>>

(* The machine is lost: a fresh one starts from the backup container.      *)
Disaster ==
    /\ crashes < MaxCrashes
    /\ crashes' = crashes + 1
    /\ phase' = "down"
    /\ db' = EmptyDb
    /\ seq' = 0
    /\ snapshot' = remote.snapshot
    /\ tinydb' = remote.tinydb
    /\ busy' = Nobody
    /\ job' = [b \in Jobs |-> NoJob]
    /\ committed' = {EmptyDb} \cup (committed \cap {remote.snapshot})
    /\ chosen' = {}
    /\ UNCHANGED <<remote, minted, changes>>

Next ==
    \/ StartupStep
    \/ OwnerStep
    \/ \E b \in Jobs : StartBackup(b) \/ BackupStep(b)
    \/ Crash
    \/ Disaster

Spec == Init /\ [][Next]_vars

(* The event loop, Postgres and rclone make progress, and docker restarts  *)
(* a process that died.                                                    *)
FairSpec ==
    Spec /\ WF_vars(StartupStep) /\ \A b \in Jobs : WF_vars(BackupStep(b))

-----------------------------------------------------------------------------
Job ==
    [pc : {"idle", "sas", "begin", "open", "read", "write", "replace", "sync",
           "syncDelete", "syncUserData", "report"},
     n : 0..Len(Tables), view : Image, image : Image]

(* Types of the variables.                                                 *)
TypeOK ==
    /\ phase \in {"down", "tinydb", "rename", "restore", "identity", "passphrase", "up"}
    /\ db \in Image
    /\ seq \in Nat
    /\ snapshot \in Image \cup {Missing}
    /\ tinydb \in BOOLEAN
    /\ remote \in [snapshot : Image \cup {Missing}, tinydb : BOOLEAN]
    /\ busy \in Jobs \cup {Nobody}
    /\ job \in [Jobs -> Job]
    /\ minted \in Nat
    /\ crashes \in 0..MaxCrashes /\ changes \in 0..MaxChanges
    /\ committed \subseteq Image
    /\ chosen \subseteq Nat

(* A snapshot, on disk or in the container, is a state that the database   *)
(* really had, never a mixture of two and never half a file, although the  *)
(* shard goes on working while the tables are read and may die at any time *)
(* (write_db_snapshot: "a consistent point-in-time image").                *)
SnapshotIsCommitted ==
    {snapshot, remote.snapshot} \subseteq committed \cup {Missing}

(* What a shard with a TinyDB file brings along.                           *)
Legacy == [identities |-> OneIdentity(LegacyIdentity), kv_store |-> LegacyPassphrase]

HasBackup == remote.tinydb \/ remote.snapshot # Missing

(* What a restore of the backup container starts from: a TinyDB file is    *)
(* imported before the snapshot is looked at.                              *)
BackedUp == IF remote.tinydb THEN Legacy ELSE remote.snapshot

(* The database still has the identities and the passphrase of image, and  *)
(* its default identity, unless another one was made the default since.    *)
Keeps(image) ==
    /\ image.identities.ids \subseteq db.identities.ids
    /\ db.identities.default \in {image.identities.default} \cup chosen
    /\ db.kv_store = image.kv_store

(* Once a backup exists, a shard that is up has the backup's identities    *)
(* and its passphrase, after any number of crashes during start and backup *)
(* and of restores on new machines: init_default_identity and ensure_      *)
(* backup_passphrase never overtake the import.  The default identity is   *)
(* the backup's until make_default chooses another one.                    *)
IdentitySurvives == phase = "up" /\ HasBackup => Keeps(BackedUp)

(* When a backup job gets to its report, the container holds the snapshot  *)
(* this job took, not that of a job that ran at the same time              *)
(* (BACKUP_IN_PROGESS_LOCK), and no TinyDB file that a restore would       *)
(* prefer to it.                                                           *)
ReportsOwnSnapshot ==
    \A b \in Jobs :
        At(b, "report") => remote = [snapshot |-> job[b].image, tinydb |-> FALSE]

(* No report of a running shard meets an id that is already taken, also    *)
(* after a restore, which inserts ids explicitly (_reset_sequences: "so    *)
(* new inserts don't collide").                                            *)
ReportIdFree == phase = "up" => \A i \in db.backups : i <= seq

(* A backup job does not keep the lock for ever, whatever fails.           *)
BackupEnds == \A b \in Jobs : busy = b ~> busy # b

(* tinydb_migration.py calls itself a "one-time migration": its rows are   *)
(* in the database at most once.                                           *)
MigratedOnce == db.app_usage_tracks <= 1
=============================================================================
