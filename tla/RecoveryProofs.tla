--------------------------- MODULE RecoveryProofs ---------------------------
(***************************************************************************)
(* Safety of Recovery for every value of its constants. The inductive      *)
(* invariant says of each backup job which of the lock, the view, the      *)
(* image, the file and the container agree with it, of the data that every *)
(* image anywhere is a committed one, and of the backup that this machine  *)
(* has kept its identities and passphrase or is about to import them.  The *)
(* last part is about FirstStart, for any store and any initial apps.      *)
(***************************************************************************)
EXTENDS Recovery, FirstStart, FiniteSetTheorems, TLAPS

-----------------------------------------------------------------------------
(* Finite sets of ids, as far as the proof needs it: none, or a largest.   *)
HasTop(rows) == rows = {} \/ \E m \in rows : \A i \in rows : i <= m

(* A table of identities has a default one, or it is empty.                *)
HasDefault(table) ==
    /\ 0 \notin table.ids
    /\ table.default \in table.ids \/ table = NoIdentity

Sound(image) == image \in Image /\ HasTop(image.backups) /\ HasDefault(image.identities)

LockedPC == {"open", "read", "write", "replace", "sync", "syncDelete", "syncUserData",
             "report"}

ViewPC == LockedPC \ {"open"}

CopiedPC == ViewPC \ {"read"}

WrittenPC == {"sync", "syncDelete", "syncUserData", "report"}

UploadedPC == {"syncDelete", "syncUserData", "report"}

(* What is known of a backup job at each place.                            *)
JobInv(b) ==
    /\ job[b].pc # "idle" => phase = "up"
    /\ job[b].pc \in LockedPC => busy = b
    /\ job[b].pc \in ViewPC =>
          /\ job[b].view \in committed
          /\ job[b].view.identities.ids # {}
          /\ Keeps(job[b].view)
    /\ job[b].pc = "read" =>
          /\ job[b].n < Len(Tables)
          /\ \A i \in 1..job[b].n : job[b].image[Tables[i]] = job[b].view[Tables[i]]
    /\ job[b].pc \in CopiedPC => job[b].image = job[b].view
    /\ job[b].pc \in WrittenPC => snapshot = job[b].image
    /\ job[b].pc \in UploadedPC => remote.snapshot = job[b].image
    /\ job[b].pc \in {"syncUserData", "report"} => ~remote.tinydb

(* Every image anywhere is a committed one, and ids are below the sequence. *)
DataInv ==
    /\ \A image \in committed : Sound(image)
    /\ db \in committed
    /\ SnapshotIsCommitted
    /\ \A i \in db.backups : i <= seq

(* The files tell how far the start has come.                              *)
StartInv ==
    /\ tinydb => phase \in {"down", "tinydb", "rename"}
    /\ phase \in {"rename", "passphrase", "up"} => Populated
    /\ phase = "up" => db.kv_store # 0

(* This machine has neither identity nor passphrase yet, but it is about   *)
(* to import those of the backup.                                          *)
AboutToImport ==
    /\ db.identities = NoIdentity /\ db.kv_store = 0
    /\ phase \in {"down", "tinydb", "restore"}
    /\ tinydb => BackedUp = Legacy
    /\ ~tinydb => snapshot # Missing /\ snapshot = BackedUp

(* Once there is a backup, this machine has kept what is in it or is about *)
(* to import it.                                                           *)
BackupInv ==
    /\ remote.snapshot # Missing =>
          remote.snapshot.identities.ids # {} /\ remote.snapshot.kv_store # 0
    /\ HasBackup => Keeps(BackedUp) \/ AboutToImport

IInv ==
    /\ TypeOK
    /\ DataInv
    /\ \A b \in Jobs : JobInv(b)
    /\ StartInv
    /\ BackupInv

-----------------------------------------------------------------------------
(* The sequence of tables has six entries.                                 *)
LEMMA SixTables == Len(Tables) = 6
  BY DEF Tables

(* An empty database is an image.                                          *)
LEMMA EmptySound == Sound(EmptyDb)
  BY DEF Sound, HasTop, HasDefault, EmptyDb, Image, NoIdentity

(* A slot without a job is a job.                                          *)
LEMMA NoJobType == NoJob \in Job
  BY EmptySound, SixTables DEF NoJob, Job, Sound

(* A job that goes on to another await changes only its place.             *)
LEMMA GotoType ==
    ASSUME job \in [Jobs -> Job], NEW c \in Jobs,
           NEW pc \in {"idle", "sas", "begin", "open", "replace", "sync", "syncDelete",
                       "syncUserData", "report"},
           Goto(c, pc)
    PROVE  /\ job' \in [Jobs -> Job]
           /\ job'[c].pc = pc /\ job'[c].n = job[c].n
           /\ job'[c].view = job[c].view /\ job'[c].image = job[c].image
           /\ \A b \in Jobs \ {c} : job'[b] = job[b]
  BY DEF Goto, Job

(* A job that ends gives its slot and the lock back.                       *)
LEMMA AbandonType ==
    ASSUME job \in [Jobs -> Job], NEW c \in Jobs, Abandon(c)
    PROVE  /\ job' \in [Jobs -> Job]
           /\ job'[c].pc = "idle"
           /\ \A b \in Jobs \ {c} : job'[b] = job[b]
  BY NoJobType DEF Abandon, NoJob

(* A transaction that writes a sound image keeps the history sound and     *)
(* forgets nothing that a running job or a snapshot needs.                 *)
LEMMA RememberSound ==
    ASSUME NEW new, Sound(new), Remember(new), \A image \in committed : Sound(image),
           SnapshotIsCommitted
    PROVE  /\ new \in committed'
           /\ busy # Nobody => committed \subseteq committed'
           /\ {snapshot, remote.snapshot} \subseteq committed' \cup {Missing}
           /\ committed' \subseteq Image
           /\ \A image \in committed' : Sound(image)
  BY DEF Remember, Sound, SnapshotIsCommitted

(* Writing a counter or the passphrase leaves the rest alone.              *)
LEMMA ColumnSound ==
    ASSUME NEW image, Sound(image), NEW v \in Nat,
           NEW t \in {"kv_store", "installed_apps", "terminals"}
    PROVE  /\ Sound([image EXCEPT ![t] = v])
           /\ [image EXCEPT ![t] = v][t] = v
           /\ [image EXCEPT ![t] = v].backups = image.backups
           /\ [image EXCEPT ![t] = v].identities = image.identities
           /\ t # "kv_store" => [image EXCEPT ![t] = v].kv_store = image.kv_store
  BY DEF Sound, Image, HasTop, HasDefault

(* Writing the identities leaves the rest alone.                           *)
LEMMA IdentitiesSound ==
    ASSUME NEW image, Sound(image), NEW table \in [ids : SUBSET Nat, default : Nat],
           HasDefault(table)
    PROVE  /\ Sound([image EXCEPT !.identities = table])
           /\ [image EXCEPT !.identities = table].identities = table
           /\ [image EXCEPT !.identities = table].backups = image.backups
           /\ [image EXCEPT !.identities = table].kv_store = image.kv_store
  BY DEF Sound, Image, HasTop

(* The next id of the sequence becomes the largest one.                    *)
LEMMA ReportSound ==
    ASSUME NEW image, Sound(image), NEW s \in Nat, \A i \in image.backups : i <= s
    PROVE  /\ Sound([image EXCEPT !.backups = @ \cup {s + 1}])
           /\ \A i \in [image EXCEPT !.backups = @ \cup {s + 1}].backups : i <= s + 1
<1> DEFINE new == [image EXCEPT !.backups = @ \cup {s + 1}]
<1>1. new \in Image /\ new.backups = image.backups \cup {s + 1} /\ new.identities = image.identities
  BY DEF Sound, Image
<1>2. \A i \in image.backups : i \in Nat
  BY DEF Sound, Image
<1>3. \A i \in new.backups : i <= s + 1
  BY <1>1, <1>2
<1>4. QED BY <1>1, <1>3 DEF Sound, HasTop

(* The sequence after a restore is at the largest restored id.             *)
LEMMA SequenceSound ==
    ASSUME NEW image, Sound(image), seq \in Nat
    PROVE  /\ ResetSequence(image.backups) \in Nat
           /\ \A i \in image.backups : i <= ResetSequence(image.backups)
<1> DEFINE rows == image.backups
<1>0. rows \subseteq Nat
  BY DEF Sound, Image
<1>1. CASE rows = {}
  BY <1>1 DEF ResetSequence
<1>2. CASE rows # {}
  <2>1. PICK m \in rows : \A i \in rows : i <= m
    BY <1>2 DEF Sound, HasTop
  <2>2. \A i \in rows : m >= i
    BY <2>1, <1>0
  <2>3. Max(rows) \in rows /\ \A i \in rows : Max(rows) >= i
    BY <2>2 DEF Max
  <2>4. QED BY <1>0, <1>2, <2>3 DEF ResetSequence
<1>3. QED BY <1>1, <1>2

-----------------------------------------------------------------------------
(* What the TinyDB import makes of the database.                           *)
LEMMA MigratedSound ==
    ASSUME Sound(db), seq \in Nat, \A i \in db.backups : i <= seq
    PROVE  /\ Sound(Migrated)
           /\ \A i \in Migrated.backups : i <= seq + 1
           /\ Migrated.identities.ids = db.identities.ids \cup {LegacyIdentity}
           /\ db.identities = NoIdentity => Migrated.identities = OneIdentity(LegacyIdentity)
           /\ db.identities # NoIdentity => Migrated.identities.default = db.identities.default
           /\ Migrated.kv_store = KeepOr(db.kv_store, LegacyPassphrase)
<1> DEFINE table == [ids |-> db.identities.ids \cup {LegacyIdentity},
                     default |-> KeepOr(db.identities.default, LegacyIdentity)]
<1>0. /\ db \in Image
      /\ KeepOr(db.installed_apps, 1) \in Nat
      /\ KeepOr(db.kv_store, LegacyPassphrase) \in Nat
      /\ KeepOr(db.terminals, 1) \in Nat
  BY DEF Sound, Image, KeepOr, LegacyPassphrase
<1>d. table \in [ids : SUBSET Nat, default : Nat] /\ HasDefault(table)
  BY DEF Sound, Image, HasDefault, KeepOr, LegacyIdentity, NoIdentity
<1>1. /\ Migrated \in Image
      /\ Migrated.backups = db.backups \cup {seq + 1}
      /\ Migrated.identities = table
      /\ Migrated.kv_store = KeepOr(db.kv_store, LegacyPassphrase)
  BY <1>0, <1>d DEF Image, Migrated
<1>2. \A i \in db.backups : i \in Nat
  BY DEF Sound, Image
<1>3. \A i \in Migrated.backups : i <= seq + 1
  BY <1>1, <1>2
<1>4. Sound(Migrated)
  BY <1>d, <1>1, <1>3 DEF Sound, HasTop
<1>5. db.identities = NoIdentity => table = OneIdentity(LegacyIdentity)
  BY DEF NoIdentity, OneIdentity, KeepOr, LegacyIdentity
<1>6. db.identities # NoIdentity => table.default = db.identities.default
  BY DEF Sound, HasDefault, KeepOr
<1>7. QED BY <1>1, <1>3, <1>4, <1>5, <1>6

(* Before the shard is up there are no backup jobs.                        *)
LEMMA NoJobsYet ==
    ASSUME IInv, phase # "up", job' = job
    PROVE  \A b \in Jobs : JobInv(b)'
  BY DEF IInv, JobInv, LockedPC, ViewPC, CopiedPC, WrittenPC, UploadedPC

(* A backup that exists has an identity and a passphrase.                  *)
LEMMA BackedUpNonempty ==
    ASSUME BackupInv, HasBackup
    PROVE  BackedUp.identities.ids # {} /\ BackedUp.kv_store # 0
  BY DEF BackupInv, HasBackup, BackedUp, Legacy, OneIdentity, LegacyIdentity, LegacyPassphrase

(* The start of the process preserves IInv.                                *)
LEMMA BootStep ==
    ASSUME IInv, Boot
    PROVE  IInv'
<1>1. TypeOK'
  BY DEF IInv, TypeOK, Boot, diskVars, historyVars
<1>2. DataInv'
  BY DEF IInv, DataInv, SnapshotIsCommitted, Boot, diskVars, historyVars
<1>3. \A b \in Jobs : JobInv(b)'
  BY NoJobsYet DEF Boot
<1>4. StartInv'
  BY DEF IInv, StartInv, Populated, Boot, diskVars
<1>5. BackupInv'
  BY DEF IInv, BackupInv, HasBackup, BackedUp, Keeps, AboutToImport, Boot, diskVars, historyVars
<1>6. QED BY <1>1, <1>2, <1>3, <1>4, <1>5 DEF IInv

(* The TinyDB import (migrate_tinydb_data) preserves IInv.                 *)
LEMMA MigrateTinydbStep ==
    ASSUME IInv, MigrateTinydb
    PROVE  IInv'
<1>0. Sound(db) /\ seq \in Nat /\ \A i \in db.backups : i <= seq
  BY DEF IInv, DataInv, TypeOK
<1>1. \A b \in Jobs : JobInv(b)'
  BY NoJobsYet DEF MigrateTinydb
<1>2. CASE tinydb
  <2>1. /\ db' = Migrated /\ Remember(Migrated) /\ chosen' = chosen /\ seq' = seq + 1
        /\ phase = "tinydb" /\ phase' = "rename"
    BY <1>2 DEF MigrateTinydb, Commit
  <2>2. /\ db' \in committed' /\ {snapshot, remote.snapshot} \subseteq committed' \cup {Missing}
        /\ committed' \subseteq Image
        /\ \A image \in committed' : Sound(image)
    BY <1>0, <2>1, MigratedSound, RememberSound DEF IInv, DataInv
  <2>3. TypeOK'
    BY <2>1, <2>2 DEF IInv, TypeOK, MigrateTinydb, diskVars
  <2>4. DataInv'
    BY <1>0, <2>1, <2>2, MigratedSound
    DEF IInv, DataInv, SnapshotIsCommitted, MigrateTinydb, diskVars
  <2>5. StartInv'
    BY <1>0, <2>1, MigratedSound DEF StartInv, Populated
  <2>6. BackedUp' = BackedUp /\ HasBackup' = HasBackup
    BY DEF BackedUp, HasBackup, MigrateTinydb, diskVars
  <2>7. HasBackup => Keeps(BackedUp)'
    <3>1. SUFFICES ASSUME HasBackup
                   PROVE  /\ BackedUp.identities.ids \subseteq Migrated.identities.ids
                          /\ Migrated.identities.default \in {BackedUp.identities.default} \cup chosen
                          /\ Migrated.kv_store = BackedUp.kv_store
      BY <2>1, <2>6 DEF Keeps
    <3>2. CASE Keeps(BackedUp)
      <4>1. db.identities.ids # {} /\ db.kv_store # 0
        BY <3>1, <3>2, BackedUpNonempty DEF IInv, Keeps
      <4>2. db.identities # NoIdentity
        BY <4>1 DEF NoIdentity
      <4>3. QED BY <1>0, <3>2, <4>1, <4>2, MigratedSound DEF Keeps, KeepOr
    <3>3. CASE AboutToImport
      BY <1>0, <1>2, <3>3, MigratedSound DEF AboutToImport, Legacy, OneIdentity, KeepOr
    <3>4. QED BY <3>1, <3>2, <3>3 DEF IInv, BackupInv
  <2>8. BackupInv'
    BY <2>6, <2>7 DEF IInv, BackupInv, MigrateTinydb, diskVars
  <2>9. QED BY <1>1, <2>3, <2>4, <2>5, <2>8 DEF IInv
<1>3. CASE ~tinydb
  <2>1. TypeOK'
    BY <1>3 DEF IInv, TypeOK, MigrateTinydb, diskVars, historyVars
  <2>2. DataInv'
    BY <1>3 DEF IInv, DataInv, SnapshotIsCommitted, MigrateTinydb, diskVars, historyVars
  <2>3. StartInv'
    BY <1>3 DEF IInv, StartInv, Populated, MigrateTinydb, diskVars
  <2>4. BackupInv'
    BY <1>3
    DEF IInv, BackupInv, HasBackup, BackedUp, Keeps, AboutToImport, MigrateTinydb, diskVars, historyVars
  <2>5. QED BY <1>1, <2>1, <2>2, <2>3, <2>4 DEF IInv
<1>4. QED BY <1>2, <1>3

(* The rename of the TinyDB file preserves IInv.                           *)
LEMMA RenameTinydbStep ==
    ASSUME IInv, RenameTinydb
    PROVE  IInv'
<1>1. TypeOK'
  BY DEF IInv, TypeOK, RenameTinydb, historyVars
<1>2. DataInv'
  BY DEF IInv, DataInv, SnapshotIsCommitted, RenameTinydb, historyVars
<1>3. \A b \in Jobs : JobInv(b)'
  BY NoJobsYet DEF RenameTinydb
<1>4. StartInv'
  BY DEF IInv, StartInv, Populated, RenameTinydb
<1>5. BackupInv'
  BY DEF IInv, BackupInv, HasBackup, BackedUp, Keeps, AboutToImport, RenameTinydb, historyVars
<1>6. QED BY <1>1, <1>2, <1>3, <1>4, <1>5 DEF IInv

(* restore_db_snapshot preserves IInv.                                     *)
LEMMA RestoreSnapshotStep ==
    ASSUME IInv, RestoreSnapshot
    PROVE  IInv'
<1>1. \A b \in Jobs : JobInv(b)'
  BY NoJobsYet DEF RestoreSnapshot
<1>t. BackedUp' = BackedUp /\ HasBackup' = HasBackup
  BY DEF BackedUp, HasBackup, RestoreSnapshot, diskVars
<1>k. HasBackup /\ ~Keeps(BackedUp) =>
        AboutToImport /\ ~Populated /\ ~tinydb /\ snapshot # Missing /\ snapshot = BackedUp
  BY DEF IInv, BackupInv, AboutToImport, StartInv, Populated, NoIdentity, RestoreSnapshot
<1>2. CASE snapshot # Missing /\ ~Populated
  <2>1. /\ db' = snapshot /\ Remember(snapshot) /\ chosen' = chosen
        /\ seq' = ResetSequence(snapshot.backups)
        /\ phase = "restore" /\ phase' = "identity"
    BY <1>2 DEF RestoreSnapshot, Commit
  <2>2. Sound(snapshot)
    BY <1>2 DEF IInv, DataInv, SnapshotIsCommitted
  <2>3. /\ db' \in committed' /\ {snapshot, remote.snapshot} \subseteq committed' \cup {Missing}
        /\ committed' \subseteq Image
        /\ \A image \in committed' : Sound(image)
    BY <2>1, <2>2, RememberSound DEF IInv, DataInv
  <2>4. seq' \in Nat /\ \A i \in db'.backups : i <= seq'
    BY <2>1, <2>2, SequenceSound DEF IInv, TypeOK
  <2>5. TypeOK'
    BY <2>1, <2>3, <2>4 DEF IInv, TypeOK, RestoreSnapshot, diskVars
  <2>6. DataInv'
    BY <2>3, <2>4 DEF IInv, DataInv, SnapshotIsCommitted, RestoreSnapshot, diskVars
  <2>7. StartInv'
    BY <2>1 DEF IInv, StartInv, RestoreSnapshot, diskVars
  <2>8. HasBackup => Keeps(BackedUp)'
    <3>1. SUFFICES ASSUME HasBackup PROVE Keeps(BackedUp)'
      OBVIOUS
    <3>2. ~Keeps(BackedUp)
      BY <1>2, <3>1, BackedUpNonempty DEF IInv, Populated, Keeps
    <3>3. snapshot = BackedUp
      BY <1>k, <3>1, <3>2
    <3>4. QED BY <1>t, <2>1, <3>3 DEF Keeps
  <2>9. BackupInv'
    BY <1>t, <2>8 DEF IInv, BackupInv, RestoreSnapshot, diskVars
  <2>10. QED BY <1>1, <2>5, <2>6, <2>7, <2>9 DEF IInv
<1>3. CASE ~(snapshot # Missing /\ ~Populated)
  <2>1. TypeOK'
    BY <1>3 DEF IInv, TypeOK, RestoreSnapshot, diskVars, historyVars
  <2>2. DataInv'
    BY <1>3 DEF IInv, DataInv, SnapshotIsCommitted, RestoreSnapshot, diskVars, historyVars
  <2>3. StartInv'
    BY <1>3 DEF IInv, StartInv, RestoreSnapshot, diskVars
  <2>4. HasBackup => Keeps(BackedUp)
    BY <1>3, <1>k
  <2>5. BackupInv'
    BY <1>3, <1>t, <2>4 DEF IInv, BackupInv, Keeps, RestoreSnapshot, diskVars, historyVars
  <2>6. QED BY <1>1, <2>1, <2>2, <2>3, <2>5 DEF IInv
<1>4. QED BY <1>2, <1>3

(* init_default_identity makes an identity only where no backup exists.    *)
LEMMA InitIdentityStep ==
    ASSUME IInv, InitIdentity
    PROVE  IInv'
<1>1. \A b \in Jobs : JobInv(b)'
  BY NoJobsYet DEF InitIdentity
<1>2. CASE ~Populated
  <2> DEFINE table == OneIdentity(minted + 1)
  <2> DEFINE new == [db EXCEPT !.identities = table]
  <2>1. /\ db' = new /\ Remember(new) /\ chosen' = chosen
        /\ minted' = minted + 1 /\ phase = "identity" /\ phase' = "passphrase"
    BY <1>2 DEF InitIdentity, Commit
  <2>2. Sound(db) /\ minted + 1 \in Nat /\ minted + 1 # 0
    BY DEF IInv, DataInv, TypeOK
  <2>3. table \in [ids : SUBSET Nat, default : Nat] /\ HasDefault(table) /\ table.ids # {}
    BY <2>2 DEF OneIdentity, HasDefault
  <2> HIDE DEF table
  <2>4. Sound(new) /\ new.identities = table /\ new.backups = db.backups
    BY <2>2, <2>3, IdentitiesSound
  <2> HIDE DEF new
  <2>5. /\ db' \in committed' /\ {snapshot, remote.snapshot} \subseteq committed' \cup {Missing}
        /\ committed' \subseteq Image
        /\ \A image \in committed' : Sound(image)
    BY <2>1, <2>4, RememberSound DEF IInv, DataInv
  <2>6. TypeOK'
    BY <2>1, <2>2, <2>5 DEF IInv, TypeOK, InitIdentity, diskVars
  <2>7. DataInv'
    BY <2>1, <2>4, <2>5 DEF IInv, DataInv, SnapshotIsCommitted, InitIdentity, diskVars
  <2>8. StartInv'
    BY <2>1, <2>3, <2>4 DEF IInv, StartInv, Populated, InitIdentity, diskVars
  <2>9. ~HasBackup
    BY <1>2, <2>1, BackedUpNonempty DEF IInv, BackupInv, Populated, Keeps, AboutToImport
  <2>10. BackupInv'
    BY <2>9 DEF IInv, BackupInv, HasBackup, InitIdentity, diskVars
  <2>11. QED BY <1>1, <2>6, <2>7, <2>8, <2>10 DEF IInv
<1>3. CASE Populated
  <2>1. TypeOK'
    BY <1>3 DEF IInv, TypeOK, InitIdentity, diskVars, historyVars
  <2>2. DataInv'
    BY <1>3 DEF IInv, DataInv, SnapshotIsCommitted, InitIdentity, diskVars, historyVars
  <2>3. StartInv'
    BY <1>3 DEF IInv, StartInv, Populated, InitIdentity, diskVars
  <2>4. BackupInv'
    BY <1>3
    DEF IInv, BackupInv, HasBackup, BackedUp, Keeps, AboutToImport, InitIdentity, diskVars, historyVars
  <2>5. QED BY <1>1, <2>1, <2>2, <2>3, <2>4 DEF IInv
<1>4. QED BY <1>2, <1>3

(* ensure_backup_passphrase makes one only where no backup exists.         *)
LEMMA EnsurePassphraseStep ==
    ASSUME IInv, EnsurePassphrase
    PROVE  IInv'
<1>1. \A b \in Jobs : JobInv(b)'
  BY NoJobsYet DEF EnsurePassphrase
<1>2. CASE db.kv_store = 0
  <2> DEFINE new == [db EXCEPT !.kv_store = minted + 1]
  <2>1. /\ db' = new /\ Remember(new) /\ chosen' = chosen
        /\ minted' = minted + 1 /\ phase = "passphrase" /\ phase' = "up"
    BY <1>2 DEF EnsurePassphrase, Commit
  <2>2. Sound(db) /\ minted + 1 \in Nat /\ minted + 1 # 0
    BY DEF IInv, DataInv, TypeOK
  <2>3. /\ Sound(new) /\ new.kv_store = minted + 1 /\ new.backups = db.backups
        /\ new.identities = db.identities
    BY <2>2, ColumnSound
  <2> HIDE DEF new
  <2>5. /\ db' \in committed' /\ {snapshot, remote.snapshot} \subseteq committed' \cup {Missing}
        /\ committed' \subseteq Image
        /\ \A image \in committed' : Sound(image)
    BY <2>1, <2>3, RememberSound DEF IInv, DataInv
  <2>6. TypeOK'
    BY <2>1, <2>2, <2>5 DEF IInv, TypeOK, EnsurePassphrase, diskVars
  <2>7. DataInv'
    BY <2>1, <2>3, <2>5 DEF IInv, DataInv, SnapshotIsCommitted, EnsurePassphrase, diskVars
  <2>8. StartInv'
    BY <2>1, <2>2, <2>3 DEF IInv, StartInv, Populated, EnsurePassphrase, diskVars
  <2>9. ~HasBackup
    BY <1>2, <2>1, BackedUpNonempty DEF IInv, BackupInv, Keeps, AboutToImport
  <2>10. BackupInv'
    BY <2>9 DEF IInv, BackupInv, HasBackup, EnsurePassphrase, diskVars
  <2>11. QED BY <1>1, <2>6, <2>7, <2>8, <2>10 DEF IInv
<1>3. CASE db.kv_store # 0
  <2>1. TypeOK'
    BY <1>3 DEF IInv, TypeOK, EnsurePassphrase, diskVars, historyVars
  <2>2. DataInv'
    BY <1>3 DEF IInv, DataInv, SnapshotIsCommitted, EnsurePassphrase, diskVars, historyVars
  <2>3. StartInv'
    BY <1>3 DEF IInv, StartInv, Populated, EnsurePassphrase, diskVars
  <2>4. BackupInv'
    BY <1>3
    DEF IInv, BackupInv, HasBackup, BackedUp, Keeps, AboutToImport, EnsurePassphrase, diskVars, historyVars
  <2>5. QED BY <1>1, <2>1, <2>2, <2>3, <2>4 DEF IInv
<1>4. QED BY <1>2, <1>3

(* A transaction that adds identities or makes another one the default     *)
(* keeps what the views of jobs and the backup have.                       *)
LEMMA TransactionStep ==
    ASSUME IInv, Transaction, NEW new, Sound(new), db' = new, Remember(new),
           new.backups = db.backups, new.kv_store = db.kv_store,
           db.identities.ids \subseteq new.identities.ids,
           new.identities.default \in {db.identities.default} \cup chosen',
           chosen \subseteq chosen', chosen' \subseteq Nat, minted' \in Nat
    PROVE  IInv'
<1>1. /\ db' \in committed' /\ {snapshot, remote.snapshot} \subseteq committed' \cup {Missing}
      /\ busy # Nobody => committed \subseteq committed'
      /\ committed' \subseteq Image
      /\ \A image \in committed' : Sound(image)
  BY RememberSound DEF IInv, DataInv
<1>2. ASSUME NEW image, Keeps(image)
      PROVE  /\ image.identities.ids \subseteq db'.identities.ids
             /\ db'.identities.default \in {image.identities.default} \cup chosen'
             /\ db'.kv_store = image.kv_store
  BY <1>2 DEF Keeps
<1>3. TypeOK'
  <2>1. changes' \in 0..MaxChanges
    BY LimitsAssumption DEF IInv, TypeOK, Transaction
  <2>2. db' \in Image
    BY DEF Sound
  <2>3. QED BY <1>1, <2>1, <2>2 DEF IInv, TypeOK, Transaction, diskVars
<1>4. DataInv'
  BY <1>1 DEF IInv, DataInv, SnapshotIsCommitted, Transaction, diskVars
<1>5. ASSUME NEW b \in Jobs PROVE JobInv(b)'
  <2>1. UNCHANGED <<phase, busy, job, snapshot, remote>>
    BY DEF Transaction, diskVars
  <2>2. job[b].pc \in ViewPC => job[b].view \in committed' /\ Keeps(job[b].view)'
    <3>1. SUFFICES ASSUME job[b].pc \in ViewPC
                   PROVE  job[b].view \in committed' /\ Keeps(job[b].view)'
      OBVIOUS
    <3>2. busy = b /\ job[b].view \in committed /\ Keeps(job[b].view)
      BY <3>1 DEF IInv, JobInv, ViewPC
    <3>3. job[b].view \in committed'
      BY <1>1, <3>2, JobsAssumption
    <3>4. Keeps(job[b].view)'
      BY <1>2, <2>1, <3>2 DEF Keeps
    <3>5. QED BY <3>3, <3>4
  <2>3. QED BY <2>1, <2>2 DEF IInv, JobInv
<1>6. Populated => Populated'
  BY DEF Populated
<1>7. StartInv'
  BY <1>6 DEF IInv, StartInv, Transaction, diskVars
<1>8. BackedUp' = BackedUp /\ HasBackup' = HasBackup
  BY DEF BackedUp, HasBackup, Transaction, diskVars
<1>9. HasBackup => Keeps(BackedUp)
  BY DEF IInv, BackupInv, AboutToImport, Transaction
<1>10. BackupInv'
  BY <1>2, <1>8, <1>9 DEF IInv, BackupInv, Keeps, Transaction, diskVars
<1>11. QED BY <1>3, <1>4, <1>5, <1>7, <1>10 DEF IInv

(* put_identity, make_default and the other transactions preserve IInv.    *)
LEMMA OwnerSteps ==
    ASSUME IInv, OwnerStep
    PROVE  IInv'
<1>0. /\ Sound(db) /\ minted \in Nat /\ chosen \subseteq Nat
      /\ db.identities \in [ids : SUBSET Nat, default : Nat] /\ HasDefault(db.identities)
  BY DEF IInv, DataInv, TypeOK, Sound, Image
<1>1. CASE AddIdentity
  <2> DEFINE table == [ids |-> db.identities.ids \cup {minted + 1}, default |-> db.identities.default]
  <2> DEFINE new == [db EXCEPT !.identities = table]
  <2>1. db.identities.ids # {}
    BY <1>1 DEF IInv, StartInv, Populated, AddIdentity, Transaction
  <2>2. table \in [ids : SUBSET Nat, default : Nat] /\ HasDefault(table)
    BY <1>0, <2>1 DEF HasDefault, NoIdentity
  <2>3. [db.identities EXCEPT !.ids = db.identities.ids \cup {minted + 1}] = table
    <3> DEFINE ids == db.identities.ids \cup {minted + 1}
    <3>1. table = [ids |-> ids, default |-> db.identities.default]
      OBVIOUS
    <3> HIDE DEF ids, table
    <3>2. [db.identities EXCEPT !.ids = ids] = table
      BY <1>0, <3>1
    <3>3. QED BY <3>2 DEF ids
  <2>4. [db EXCEPT !.identities.ids = @ \cup {minted + 1}] = new
    <3>1. [db EXCEPT !.identities.ids = @ \cup {minted + 1}] =
             [db EXCEPT !.identities =
                [db.identities EXCEPT !.ids = db.identities.ids \cup {minted + 1}]]
      OBVIOUS
    <3>2. QED BY <2>3, <3>1
  <2>5. /\ db' = new /\ Remember(new) /\ chosen' = chosen /\ minted' = minted + 1
    BY <1>1, <2>4 DEF AddIdentity, Commit
  <2>6. table.ids = db.identities.ids \cup {minted + 1} /\ table.default = db.identities.default
    OBVIOUS
  <2> HIDE DEF table
  <2>7. /\ Sound(new) /\ new.identities = table /\ new.backups = db.backups
        /\ new.kv_store = db.kv_store
    BY <1>0, <2>2, IdentitiesSound
  <2> HIDE DEF new
  <2>8. QED BY <1>0, <1>1, <2>5, <2>6, <2>7, TransactionStep DEF AddIdentity
<1>2. ASSUME NEW i \in db.identities.ids, MakeDefault(i) PROVE IInv'
  <2> DEFINE table == [ids |-> db.identities.ids, default |-> i]
  <2> DEFINE new == [db EXCEPT !.identities = table]
  <2>1. table \in [ids : SUBSET Nat, default : Nat] /\ HasDefault(table)
    BY <1>0 DEF HasDefault
  <2>2. [db.identities EXCEPT !.default = i] = table
    BY <1>0
  <2>3. [db EXCEPT !.identities.default = i] = new
    <3>1. [db EXCEPT !.identities.default = i] =
             [db EXCEPT !.identities = [@ EXCEPT !.default = i]]
      OBVIOUS
    <3>2. QED BY <2>2, <3>1
  <2>4. /\ db' = new /\ Remember(new) /\ chosen' = chosen \cup {i} /\ minted' = minted
    BY <1>2, <2>3 DEF MakeDefault
  <2>5. table.ids = db.identities.ids /\ table.default = i /\ i \in Nat
    BY <1>0
  <2> HIDE DEF table
  <2>6. /\ Sound(new) /\ new.identities = table /\ new.backups = db.backups
        /\ new.kv_store = db.kv_store
    BY <1>0, <2>1, IdentitiesSound
  <2> HIDE DEF new
  <2>7. QED BY <1>0, <1>2, <2>4, <2>5, <2>6, TransactionStep DEF MakeDefault
<1>3. ASSUME NEW t \in {"installed_apps", "terminals"}, Change(t) PROVE IInv'
  <2> DEFINE new == [db EXCEPT ![t] = db[t] + 1]
  <2>1. db' = new /\ Remember(new) /\ chosen' = chosen /\ minted' = minted
    BY <1>3 DEF Change, Commit
  <2>2. db[t] + 1 \in Nat
    BY <1>0 DEF Sound, Image
  <2>3. /\ Sound(new) /\ new.backups = db.backups
        /\ new.identities = db.identities /\ new.kv_store = db.kv_store
    <3> DEFINE v == db[t] + 1
    <3>1. v \in Nat /\ new = [db EXCEPT ![t] = v]
      BY <2>2
    <3> HIDE DEF v, new
    <3>2. t \in {"kv_store", "installed_apps", "terminals"} /\ t # "kv_store"
      OBVIOUS
    <3>3. /\ Sound([db EXCEPT ![t] = v])
          /\ [db EXCEPT ![t] = v].backups = db.backups
          /\ [db EXCEPT ![t] = v].identities = db.identities
          /\ [db EXCEPT ![t] = v].kv_store = db.kv_store
      BY <1>0, <3>1, <3>2 DEF Sound, Image, HasTop, HasDefault
    <3>4. QED BY <3>1, <3>3
  <2> HIDE DEF new
  <2>4. QED BY <1>0, <1>3, <2>1, <2>3, TransactionStep DEF Change
<1>4. QED BY <1>1, <1>2, <1>3 DEF OwnerStep

(* A step of a job that leaves database, files and phase alone need only   *)
(* answer for its own job.                                                 *)
LEMMA QuietStep ==
    ASSUME IInv, NEW c \in Jobs, JobInv(c)',
           job' \in [Jobs -> Job], busy' \in Jobs \cup {Nobody},
           \A b \in Jobs \ {c} : job'[b] = job[b] /\ (busy = b => busy' = b),
           UNCHANGED <<phase, db, seq, diskVars, minted, crashes, changes, historyVars>>
    PROVE  IInv'
<1>1. TypeOK'
  BY DEF IInv, TypeOK, diskVars, historyVars
<1>2. DataInv'
  BY DEF IInv, DataInv, SnapshotIsCommitted, diskVars, historyVars
<1>3. ASSUME NEW b \in Jobs PROVE JobInv(b)'
  <2>1. CASE b = c
    BY <2>1
  <2>2. CASE b # c
    BY <2>2 DEF IInv, JobInv, Keeps, diskVars, historyVars
  <2>3. QED BY <2>1, <2>2
<1>4. StartInv'
  BY DEF IInv, StartInv, Populated, diskVars
<1>5. BackupInv'
  BY DEF IInv, BackupInv, HasBackup, BackedUp, Keeps, AboutToImport, diskVars, historyVars
<1>6. QED BY <1>1, <1>2, <1>3, <1>4, <1>5 DEF IInv

(* start_backup preserves IInv.                                            *)
LEMMA StartBackupStep ==
    ASSUME IInv, NEW c \in Jobs, StartBackup(c)
    PROVE  IInv'
<1>0. job \in [Jobs -> Job] /\ busy \in Jobs \cup {Nobody}
  BY DEF IInv, TypeOK
<1>1. CASE Goto(c, "sas")
  <2>1. /\ job' \in [Jobs -> Job] /\ job'[c].pc = "sas"
        /\ \A b \in Jobs \ {c} : job'[b] = job[b]
    BY <1>0, <1>1, GotoType
  <2>2. JobInv(c)'
    BY <2>1 DEF JobInv, StartBackup, LockedPC, ViewPC, CopiedPC, WrittenPC, UploadedPC
  <2>3. QED BY <1>0, <2>1, <2>2, QuietStep DEF StartBackup
<1>2. CASE UNCHANGED job
  <2>1. JobInv(c)'
    BY <1>2 DEF IInv, JobInv, Keeps, StartBackup, diskVars, historyVars
  <2>2. QED BY <1>0, <1>2, <2>1, QuietStep DEF StartBackup
<1>3. QED BY <1>1, <1>2 DEF StartBackup

(* The answer of the portal preserves IInv.                                *)
LEMMA GetSasUrlStep ==
    ASSUME IInv, NEW c \in Jobs, GetSasUrl(c)
    PROVE  IInv'
<1>0. job \in [Jobs -> Job] /\ busy \in Jobs \cup {Nobody} /\ phase = "up"
  BY DEF IInv, TypeOK, JobInv, GetSasUrl, At
<1>1. /\ job' \in [Jobs -> Job] /\ job'[c].pc \in {"begin", "idle"}
      /\ \A b \in Jobs \ {c} : job'[b] = job[b]
  BY <1>0, GotoType DEF GetSasUrl
<1>2. JobInv(c)'
  BY <1>0, <1>1 DEF JobInv, GetSasUrl, LockedPC, ViewPC, CopiedPC, WrittenPC, UploadedPC
<1>3. QED BY <1>0, <1>1, <1>2, QuietStep DEF GetSasUrl

(* Taking BACKUP_IN_PROGESS_LOCK preserves IInv.                           *)
LEMMA BeginStep ==
    ASSUME IInv, NEW c \in Jobs, Begin(c)
    PROVE  IInv'
<1>0. job \in [Jobs -> Job] /\ busy \in Jobs \cup {Nobody} /\ phase = "up"
  BY DEF IInv, TypeOK, JobInv, Begin, At
<1>1. CASE busy = Nobody
  <2>1. /\ job' \in [Jobs -> Job] /\ job'[c].pc = "open" /\ busy' = c
        /\ \A b \in Jobs \ {c} : job'[b] = job[b]
    BY <1>0, <1>1, GotoType DEF Begin
  <2>2. JobInv(c)'
    BY <1>0, <2>1 DEF JobInv, Begin, LockedPC, ViewPC, CopiedPC, WrittenPC, UploadedPC
  <2>3. QED BY <1>0, <1>1, <2>1, <2>2, QuietStep, JobsAssumption DEF Begin
<1>2. CASE busy # Nobody
  <2>1. /\ job' \in [Jobs -> Job] /\ job'[c].pc = "idle" /\ busy' = busy
        /\ \A b \in Jobs \ {c} : job'[b] = job[b]
    BY <1>0, <1>2, GotoType DEF Begin
  <2>2. JobInv(c)'
    BY <2>1 DEF JobInv, LockedPC, ViewPC, CopiedPC, WrittenPC, UploadedPC
  <2>3. QED BY <1>0, <2>1, <2>2, QuietStep DEF Begin
<1>3. QED BY <1>1, <1>2

(* A job that fails leaves everything but its slot and the lock alone.     *)
LEMMA AbandonStep ==
    ASSUME IInv, NEW c \in Jobs, busy = c, Abandon(c),
           UNCHANGED <<phase, db, seq, diskVars, minted, crashes, changes, historyVars>>
    PROVE  IInv'
<1>1. /\ job' \in [Jobs -> Job] /\ job'[c].pc = "idle" /\ busy' = Nobody
      /\ \A b \in Jobs \ {c} : job'[b] = job[b]
  BY AbandonType DEF IInv, TypeOK, Abandon
<1>2. JobInv(c)'
  BY <1>1 DEF JobInv, LockedPC, ViewPC, CopiedPC, WrittenPC, UploadedPC
<1>3. QED BY <1>1, <1>2, QuietStep

(* The first query of write_db_snapshot preserves IInv.                    *)
LEMMA OpenSnapshotStep ==
    ASSUME IInv, NEW c \in Jobs, OpenSnapshot(c)
    PROVE  IInv'
<1>0. /\ job \in [Jobs -> Job] /\ busy = c /\ phase = "up"
      /\ db \in Image /\ db \in committed /\ db.identities.ids # {}
  BY DEF IInv, TypeOK, DataInv, JobInv, StartInv, Populated, OpenSnapshot, At, LockedPC
<1> DEFINE new == [pc |-> "read", n |-> 0, view |-> db, image |-> EmptyDb]
<1>1. new \in Job /\ new.pc = "read" /\ new.n = 0 /\ new.view = db
  BY <1>0, EmptySound, SixTables DEF Job, Sound
<1>2. CASE job' = [job EXCEPT ![c] = new] /\ UNCHANGED busy
  <2> HIDE DEF new
  <2>1. /\ job' \in [Jobs -> Job] /\ job'[c] = new
        /\ \A b \in Jobs \ {c} : job'[b] = job[b]
    BY <1>0, <1>1, <1>2
  <2>2. 0 < Len(Tables) /\ 1..0 = {}
    BY SixTables
  <2>3. Keeps(db) /\ UNCHANGED <<db, phase, committed, chosen>>
    BY DEF Keeps, OpenSnapshot, historyVars
  <2>4. JobInv(c)'
    BY <1>0, <1>1, <1>2, <2>1, <2>2, <2>3
    DEF JobInv, Keeps, LockedPC, ViewPC, CopiedPC, WrittenPC, UploadedPC
  <2>5. QED BY <1>0, <1>2, <2>1, <2>4, QuietStep DEF OpenSnapshot
<1>3. CASE Abandon(c)
  BY <1>0, <1>3, AbandonStep DEF OpenSnapshot
<1>4. QED BY <1>2, <1>3 DEF OpenSnapshot

(* The tables that have a column in an image.                              *)
LEMMA TableNames ==
    /\ \A i \in 1..6 : Tables[i] \in {"app_usage_tracks", "backups", "identities",
                                      "installed_apps", "kv_store", "terminals"}
    /\ Tables[1] = "app_usage_tracks" /\ Tables[2] = "backups" /\ Tables[3] = "identities"
    /\ Tables[4] = "installed_apps" /\ Tables[5] = "kv_store" /\ Tables[6] = "terminals"
<1>1. /\ Tables[1] = "app_usage_tracks" /\ Tables[2] = "backups"
      /\ Tables[3] = "identities" /\ Tables[4] = "installed_apps"
      /\ Tables[5] = "kv_store" /\ Tables[6] = "terminals"
  BY DEF Tables
<1>2. \A i \in 1..6 : i = 1 \/ i = 2 \/ i = 3 \/ i = 4 \/ i = 5 \/ i = 6
  OBVIOUS
<1>3. QED BY <1>1, <1>2

(* Images that agree on all tables are equal.                              *)
LEMMA SameTables ==
    ASSUME NEW old \in Image, NEW view \in Image,
           \A i \in 1..6 : old[Tables[i]] = view[Tables[i]]
    PROVE  old = view
<1>1. /\ old[Tables[1]] = view[Tables[1]] /\ old[Tables[2]] = view[Tables[2]]
      /\ old[Tables[3]] = view[Tables[3]] /\ old[Tables[4]] = view[Tables[4]]
      /\ old[Tables[5]] = view[Tables[5]] /\ old[Tables[6]] = view[Tables[6]]
  OBVIOUS
<1>2. QED BY <1>1, TableNames DEF Image

(* Reading a table extends the part of the image that is the view's.       *)
LEMMA ReadTableStep ==
    ASSUME IInv, NEW c \in Jobs, ReadTable(c)
    PROVE  IInv'
<1> DEFINE n == job[c].n
<1> DEFINE t == Tables[n + 1]
<1> DEFINE view == job[c].view
<1> DEFINE image == [job[c].image EXCEPT ![t] = view[t]]
<1> DEFINE pc == IF n + 1 = Len(Tables) THEN "write" ELSE "read"
<1> DEFINE read == [job EXCEPT ![c].n = n + 1, ![c].image[t] = Visible(c)[t], ![c].pc = pc]
<1>a. CASE Abandon(c)
  <2>1. busy = c
    BY DEF IInv, JobInv, ReadTable, At, LockedPC
  <2>2. QED BY <1>a, <2>1, AbandonStep DEF ReadTable
<1>b. SUFFICES ASSUME job' = read, UNCHANGED busy
               PROVE  IInv'
  BY <1>a DEF ReadTable
<1>0. /\ job \in [Jobs -> Job] /\ busy = c /\ phase = "up" /\ At(c, "read")
      /\ view \in committed /\ view.identities.ids # {} /\ Keeps(view)
      /\ \A i \in 1..n : job[c].image[Tables[i]] = view[Tables[i]]
  BY DEF IInv, TypeOK, JobInv, ReadTable, At, LockedPC, ViewPC
<1>1. n \in 0..5 /\ n + 1 \in 1..6
  BY SixTables DEF IInv, TypeOK, Job, JobInv, ReadTable, At
<1>2. view \in Image /\ job[c].image \in Image
  BY <1>0 DEF Job
<1>3. /\ image \in Image /\ image[t] = view[t]
      /\ \A u \in DOMAIN job[c].image : u # t => image[u] = job[c].image[u]
  <2>1. t \in {"app_usage_tracks", "backups", "identities", "installed_apps", "kv_store",
               "terminals"}
    BY <1>1, TableNames
  <2> HIDE DEF n, t, view
  <2>2. QED BY <1>2, <2>1 DEF Image
<1>4. /\ job'[c].n = n + 1 /\ job'[c].view = view /\ job'[c].image = image
      /\ job'[c].pc = pc
      /\ \A b \in Jobs \ {c} : job'[b] = job[b]
  BY <1>0, <1>b DEF Visible, Job
<1>5. job' \in [Jobs -> Job]
  <2> HIDE DEF n, t, view, image, pc, read
  <2>1. job' = [job EXCEPT ![c] = job'[c]]
    BY <1>0, <1>b DEF read
  <2>2. job'[c] = [pc |-> pc, n |-> n + 1, view |-> view, image |-> image]
    BY <1>0, <1>4, <1>b DEF read, Job
  <2>3. pc \in {"write", "read"}
    BY DEF pc
  <2>4. [pc |-> pc, n |-> n + 1, view |-> view, image |-> image] \in Job
    BY <1>1, <1>2, <1>3, <2>3, SixTables DEF Job
  <2>5. QED BY <1>0, <2>1, <2>2, <2>4
<1>6. ASSUME NEW i \in 1..(n + 1) PROVE image[Tables[i]] = view[Tables[i]]
  <2>1. CASE Tables[i] = t
    BY <2>1, <1>3
  <2>2. CASE Tables[i] # t
    <3>1. i \in 1..n /\ i \in 1..6
      BY <1>1, <2>2
    <3>2. Tables[i] \in DOMAIN job[c].image
      BY <1>2, <3>1, TableNames DEF Image
    <3>3. QED BY <1>0, <1>3, <2>2, <3>1, <3>2
  <2>3. QED BY <2>1, <2>2
<1>7. n + 1 = 6 => image = view
  <2>1. SUFFICES ASSUME n + 1 = 6 PROVE image = view
    OBVIOUS
  <2>2. \A i \in 1..6 : image[Tables[i]] = view[Tables[i]]
    BY <1>6, <2>1
  <2>3. QED BY <1>2, <1>3, <2>2, SameTables
<1> HIDE DEF n, t, view, image, read
<1>8. JobInv(c)'
  <2>1. UNCHANGED <<phase, busy, db, committed, chosen>>
    BY <1>b DEF ReadTable, historyVars
  <2>2. CASE n + 1 = 6
    <3>1. job'[c].pc = "write"
      BY <1>4, <2>2, SixTables
    <3>2. QED
      BY <1>0, <1>4, <1>7, <2>1, <2>2, <3>1
      DEF JobInv, Keeps, LockedPC, ViewPC, CopiedPC, WrittenPC, UploadedPC
  <2>3. CASE n + 1 # 6
    <3>1. job'[c].pc = "read" /\ n + 1 < Len(Tables)
      BY <1>1, <1>4, <2>3, SixTables
    <3>2. QED
      BY <1>0, <1>4, <1>6, <2>1, <3>1
      DEF JobInv, Keeps, LockedPC, ViewPC, CopiedPC, WrittenPC, UploadedPC
  <2>4. QED BY <2>2, <2>3
<1>9. QED BY <1>0, <1>4, <1>5, <1>8, <1>b, QuietStep DEF ReadTable

(* Writing the temporary file preserves IInv.                              *)
LEMMA WriteTmpStep ==
    ASSUME IInv, NEW c \in Jobs, WriteTmp(c)
    PROVE  IInv'
<1>0. job \in [Jobs -> Job] /\ busy = c /\ At(c, "write")
  BY DEF IInv, TypeOK, JobInv, WriteTmp, At, LockedPC
<1>1. CASE Goto(c, "replace") /\ UNCHANGED busy
  <2>1. /\ job' \in [Jobs -> Job] /\ job'[c].pc = "replace"
        /\ job'[c].view = job[c].view /\ job'[c].image = job[c].image
        /\ \A b \in Jobs \ {c} : job'[b] = job[b]
    BY <1>0, <1>1, GotoType
  <2>2. JobInv(c)'
    BY <1>0, <1>1, <2>1
    DEF IInv, JobInv, Keeps, WriteTmp, historyVars, At, LockedPC, ViewPC, CopiedPC, WrittenPC,
        UploadedPC
  <2>3. QED BY <1>0, <1>1, <2>1, <2>2, QuietStep DEF WriteTmp
<1>2. CASE Abandon(c)
  BY <1>0, <1>2, AbandonStep DEF WriteTmp
<1>3. QED BY <1>1, <1>2 DEF WriteTmp

(* While one job holds the lock, the others are outside it.                *)
LEMMA OthersOutside ==
    ASSUME IInv, NEW c \in Jobs, busy = c, phase = "up", phase' = phase,
           \A b \in Jobs \ {c} : job'[b] = job[b]
    PROVE  \A b \in Jobs \ {c} : JobInv(b)'
  BY DEF IInv, JobInv, LockedPC, ViewPC, CopiedPC, WrittenPC, UploadedPC

(* The new snapshot file is the image of a committed state.                *)
LEMMA ReplaceSnapshotStep ==
    ASSUME IInv, NEW c \in Jobs, ReplaceSnapshot(c)
    PROVE  IInv'
<1>0. /\ job \in [Jobs -> Job] /\ busy = c /\ phase = "up" /\ At(c, "replace")
      /\ job[c].image = job[c].view /\ job[c].view \in committed
      /\ job[c].view.identities.ids # {} /\ Keeps(job[c].view)
  BY DEF IInv, TypeOK, JobInv, ReplaceSnapshot, At, LockedPC, ViewPC, CopiedPC
<1>1. CASE snapshot' = job[c].image /\ Goto(c, "sync") /\ UNCHANGED busy
  <2>1. /\ job' \in [Jobs -> Job] /\ job'[c].pc = "sync"
        /\ job'[c].view = job[c].view /\ job'[c].image = job[c].image
        /\ \A b \in Jobs \ {c} : job'[b] = job[b]
    BY <1>0, <1>1, GotoType
  <2>2. TypeOK'
    BY <1>0, <1>1, <2>1 DEF IInv, TypeOK, ReplaceSnapshot, Job, historyVars
  <2>3. DataInv'
    BY <1>0, <1>1 DEF IInv, DataInv, SnapshotIsCommitted, ReplaceSnapshot, historyVars
  <2>4. JobInv(c)'
    BY <1>0, <1>1, <2>1
    DEF JobInv, Keeps, ReplaceSnapshot, historyVars, LockedPC, ViewPC, CopiedPC, WrittenPC, UploadedPC
  <2>5. \A b \in Jobs : JobInv(b)'
    BY <1>0, <2>1, <2>4, OthersOutside DEF ReplaceSnapshot
  <2>6. StartInv'
    BY DEF IInv, StartInv, Populated, ReplaceSnapshot
  <2>7. ~AboutToImport /\ UNCHANGED <<phase, db, tinydb, remote, chosen>>
    BY <1>0 DEF AboutToImport, ReplaceSnapshot, historyVars
  <2>8. BackupInv'
    BY <2>7 DEF IInv, BackupInv, HasBackup, BackedUp, Keeps
  <2>9. QED BY <2>2, <2>3, <2>5, <2>6, <2>8 DEF IInv
<1>2. CASE Abandon(c) /\ UNCHANGED snapshot
  BY <1>0, <1>2, AbandonStep DEF ReplaceSnapshot, diskVars
<1>3. QED BY <1>1, <1>2 DEF ReplaceSnapshot

(* What rclone copies is kept by this database.                            *)
LEMMA SyncCoreStep ==
    ASSUME IInv, NEW c \in Jobs, SyncCore(c)
    PROVE  IInv'
<1>0. /\ job \in [Jobs -> Job] /\ busy = c /\ phase = "up" /\ At(c, "sync")
      /\ snapshot = job[c].image /\ job[c].image = job[c].view
      /\ job[c].view \in committed /\ job[c].view.identities.ids # {} /\ Keeps(job[c].view)
  BY DEF IInv, TypeOK, JobInv, SyncCore, At, LockedPC, ViewPC, CopiedPC, WrittenPC
<1>1. CASE Goto(c, "syncDelete") /\ UNCHANGED busy
           /\ remote' = [snapshot |-> snapshot, tinydb |-> remote.tinydb \/ tinydb]
  <2>1. /\ job' \in [Jobs -> Job] /\ job'[c].pc = "syncDelete"
        /\ job'[c].view = job[c].view /\ job'[c].image = job[c].image
        /\ \A b \in Jobs \ {c} : job'[b] = job[b]
    BY <1>0, <1>1, GotoType
  <2>2. /\ remote'.snapshot = snapshot /\ remote'.tinydb = remote.tinydb
        /\ snapshot \in Image /\ snapshot # Missing
    BY <1>0, <1>1, MissingAssumption DEF IInv, TypeOK, StartInv, Job
  <2>3. TypeOK'
    BY <1>1, <2>1 DEF IInv, TypeOK, SyncCore, historyVars
  <2>4. DataInv'
    BY <1>0, <2>2 DEF IInv, DataInv, SnapshotIsCommitted, SyncCore, historyVars
  <2>5. JobInv(c)'
    BY <1>0, <1>1, <2>1, <2>2
    DEF JobInv, Keeps, SyncCore, historyVars, LockedPC, ViewPC, CopiedPC, WrittenPC, UploadedPC
  <2>6. \A b \in Jobs : JobInv(b)'
    BY <1>0, <2>1, <2>5, OthersOutside DEF SyncCore
  <2>7. StartInv'
    BY DEF IInv, StartInv, Populated, SyncCore
  <2>8. snapshot.identities.ids # {} /\ snapshot.kv_store # 0
    BY <1>0 DEF IInv, StartInv, Keeps
  <2>9. remote.tinydb => Keeps(Legacy)
    BY <1>0 DEF IInv, BackupInv, HasBackup, BackedUp, AboutToImport
  <2>10. Keeps(BackedUp)'
    BY <1>0, <2>2, <2>9 DEF BackedUp, Keeps, SyncCore, historyVars
  <2>11. BackupInv'
    BY <2>2, <2>8, <2>10 DEF BackupInv
  <2>12. QED BY <2>3, <2>4, <2>6, <2>7, <2>11 DEF IInv
<1>2. CASE Abandon(c) /\ UNCHANGED remote
  BY <1>0, <1>2, AbandonStep DEF SyncCore, diskVars
<1>3. QED BY <1>1, <1>2 DEF SyncCore

(* After the deletions the container holds the job's snapshot only.        *)
LEMMA SyncDeleteStep ==
    ASSUME IInv, NEW c \in Jobs, SyncDelete(c)
    PROVE  IInv'
<1>0. /\ job \in [Jobs -> Job] /\ busy = c /\ phase = "up" /\ At(c, "syncDelete")
      /\ snapshot = job[c].image /\ job[c].image = job[c].view
      /\ job[c].view \in committed /\ job[c].view.identities.ids # {} /\ Keeps(job[c].view)
  BY DEF IInv, TypeOK, JobInv, SyncDelete, At, LockedPC, ViewPC, CopiedPC, WrittenPC
<1>1. CASE Goto(c, "syncUserData") /\ UNCHANGED busy /\ remote' = Core
  <2>1. /\ job' \in [Jobs -> Job] /\ job'[c].pc = "syncUserData"
        /\ job'[c].view = job[c].view /\ job'[c].image = job[c].image
        /\ \A b \in Jobs \ {c} : job'[b] = job[b]
    BY <1>0, <1>1, GotoType
  <2>2. /\ remote'.snapshot = snapshot /\ ~remote'.tinydb
        /\ snapshot \in Image /\ snapshot # Missing
    BY <1>0, <1>1, MissingAssumption DEF IInv, TypeOK, StartInv, Job, Core
  <2>3. TypeOK'
    BY <1>1, <2>1 DEF IInv, TypeOK, SyncDelete, historyVars, Core
  <2>4. DataInv'
    BY <1>0, <2>2 DEF IInv, DataInv, SnapshotIsCommitted, SyncDelete, historyVars
  <2>5. JobInv(c)'
    BY <1>0, <1>1, <2>1, <2>2
    DEF JobInv, Keeps, SyncDelete, historyVars, LockedPC, ViewPC, CopiedPC, WrittenPC, UploadedPC
  <2>6. \A b \in Jobs : JobInv(b)'
    BY <1>0, <2>1, <2>5, OthersOutside DEF SyncDelete
  <2>7. StartInv'
    BY DEF IInv, StartInv, Populated, SyncDelete
  <2>8. snapshot.identities.ids # {} /\ snapshot.kv_store # 0
    BY <1>0 DEF IInv, StartInv, Keeps
  <2>9. Keeps(BackedUp)'
    BY <1>0, <2>2 DEF BackedUp, Keeps, SyncDelete, historyVars
  <2>10. BackupInv'
    BY <2>2, <2>8, <2>9 DEF BackupInv
  <2>11. QED BY <2>3, <2>4, <2>6, <2>7, <2>10 DEF IInv
<1>2. CASE Abandon(c) /\ UNCHANGED remote
  BY <1>0, <1>2, AbandonStep DEF SyncDelete, diskVars
<1>3. QED BY <1>1, <1>2 DEF SyncDelete

(* The copy of user_data preserves IInv.                                   *)
LEMMA SyncUserDataStep ==
    ASSUME IInv, NEW c \in Jobs, SyncUserData(c)
    PROVE  IInv'
<1>0. job \in [Jobs -> Job] /\ busy = c /\ phase = "up" /\ At(c, "syncUserData")
  BY DEF IInv, TypeOK, JobInv, SyncUserData, At, LockedPC
<1>1. CASE Goto(c, "report") /\ UNCHANGED busy
  <2>1. /\ job' \in [Jobs -> Job] /\ job'[c].pc = "report"
        /\ job'[c].view = job[c].view /\ job'[c].image = job[c].image
        /\ \A b \in Jobs \ {c} : job'[b] = job[b]
    BY <1>0, <1>1, GotoType
  <2>2. JobInv(c)'
    BY <1>0, <1>1, <2>1
    DEF IInv, JobInv, Keeps, SyncUserData, diskVars, historyVars, At, LockedPC, ViewPC,
        CopiedPC, WrittenPC, UploadedPC
  <2>3. QED BY <1>0, <1>1, <2>1, <2>2, QuietStep DEF SyncUserData
<1>2. CASE Abandon(c)
  BY <1>0, <1>2, AbandonStep DEF SyncUserData
<1>3. QED BY <1>1, <1>2 DEF SyncUserData

(* The report takes the next id of the sequence, or an id is lost.         *)
LEMMA InsertReportStep ==
    ASSUME IInv, NEW c \in Jobs, InsertReport(c)
    PROVE  IInv'
<1> DEFINE new == [db EXCEPT !.backups = @ \cup {seq + 1}]
<1>0. job \in [Jobs -> Job] /\ busy = c /\ phase = "up" /\ At(c, "report")
  BY DEF IInv, TypeOK, JobInv, InsertReport, At, LockedPC
<1>1. Sound(db) /\ seq \in Nat /\ \A i \in db.backups : i <= seq
  BY DEF IInv, DataInv, TypeOK
<1>2. /\ Sound(new) /\ \A i \in new.backups : i <= seq + 1
      /\ new.kv_store = db.kv_store /\ new.identities = db.identities
  <2>1. Sound(new) /\ \A i \in new.backups : i <= seq + 1
    BY <1>1, ReportSound
  <2>2. QED BY <1>1, <2>1 DEF Sound, Image
<1> HIDE DEF new
<1>3. /\ job' \in [Jobs -> Job] /\ job'[c].pc = "idle" /\ busy' = Nobody
      /\ \A b \in Jobs \ {c} : job'[b] = job[b]
  BY <1>0, AbandonType DEF InsertReport, Abandon
<1>4. UNCHANGED <<phase, snapshot, tinydb, remote, minted, crashes, changes, chosen>>
  BY DEF InsertReport, diskVars, Commit, historyVars
<1>5. /\ db'.identities = db.identities /\ db'.kv_store = db.kv_store
      /\ seq' \in Nat /\ \A i \in db'.backups : i <= seq'
      /\ db' \in committed' /\ {snapshot, remote.snapshot} \subseteq committed' \cup {Missing}
      /\ committed' \subseteq Image
      /\ \A image \in committed' : Sound(image)
  <2>1. CASE seq' = seq + 1 /\ Commit(new)
    <3>1. db' = new /\ Remember(new) /\ SnapshotIsCommitted
      BY <2>1 DEF Commit, IInv, DataInv
    <3>2. QED BY <1>1, <1>2, <2>1, <3>1, RememberSound DEF IInv, DataInv
  <2>2. CASE seq' \in {seq, seq + 1} /\ UNCHANGED <<db, historyVars>>
    <3>1. seq' \in Nat /\ seq <= seq' /\ db' = db /\ committed' = committed
      BY <1>1, <2>2 DEF historyVars
    <3>2. db.backups \subseteq Nat
      BY <1>1 DEF Sound, Image
    <3>3. \A i \in db'.backups : i <= seq'
      BY <1>1, <3>1, <3>2
    <3>4. QED BY <3>1, <3>3 DEF IInv, TypeOK, DataInv, SnapshotIsCommitted
  <2>3. QED BY <2>1, <2>2 DEF InsertReport, new
<1>6. TypeOK'
  BY <1>3, <1>4, <1>5 DEF IInv, TypeOK, Sound
<1>7. DataInv'
  BY <1>4, <1>5 DEF DataInv, SnapshotIsCommitted
<1>8. JobInv(c)'
  BY <1>3 DEF JobInv, LockedPC, ViewPC, CopiedPC, WrittenPC, UploadedPC
<1>9. \A b \in Jobs : JobInv(b)'
  BY <1>0, <1>3, <1>4, <1>8, OthersOutside
<1>10. StartInv'
  BY <1>4, <1>5 DEF IInv, StartInv, Populated
<1>11. BackupInv'
  BY <1>4, <1>5 DEF IInv, BackupInv, HasBackup, BackedUp, Keeps, AboutToImport
<1>12. QED BY <1>6, <1>7, <1>9, <1>10, <1>11 DEF IInv

(* A crash preserves IInv.                                                 *)
LEMMA CrashStep ==
    ASSUME IInv, Crash
    PROVE  IInv'
<1>1. TypeOK'
  BY NoJobType, LimitsAssumption DEF IInv, TypeOK, Crash, diskVars, historyVars
<1>2. DataInv'
  BY DEF IInv, DataInv, SnapshotIsCommitted, Crash, diskVars, historyVars
<1>3. ASSUME NEW b \in Jobs PROVE JobInv(b)'
  BY DEF JobInv, Crash, NoJob, LockedPC, ViewPC, CopiedPC, WrittenPC, UploadedPC
<1>4. StartInv'
  BY DEF IInv, StartInv, Populated, Crash, diskVars
<1>5. BackupInv'
  BY DEF IInv, BackupInv, HasBackup, BackedUp, Keeps, AboutToImport, Crash, diskVars, historyVars
<1>6. QED BY <1>1, <1>2, <1>3, <1>4, <1>5 DEF IInv

(* The start on a new machine finds what the backup restores.              *)
LEMMA DisasterStep ==
    ASSUME IInv, Disaster
    PROVE  IInv'
<1>0. /\ Sound(EmptyDb) /\ EmptyDb \in Image /\ EmptyDb.backups = {}
      /\ EmptyDb.identities = NoIdentity /\ EmptyDb.kv_store = 0
  BY EmptySound DEF Sound, EmptyDb
<1>1. TypeOK'
  BY <1>0, NoJobType, LimitsAssumption DEF IInv, TypeOK, Disaster
<1>2. DataInv'
  BY <1>0 DEF IInv, DataInv, SnapshotIsCommitted, Disaster
<1>3. ASSUME NEW b \in Jobs PROVE JobInv(b)'
  BY DEF JobInv, Disaster, NoJob, LockedPC, ViewPC, CopiedPC, WrittenPC, UploadedPC
<1>4. StartInv'
  BY DEF StartInv, Disaster
<1>5. BackedUp' = BackedUp /\ HasBackup' = HasBackup
  BY DEF BackedUp, HasBackup, Disaster
<1>6. HasBackup => AboutToImport'
  BY <1>0, <1>5 DEF AboutToImport, HasBackup, BackedUp, Disaster
<1>7. BackupInv'
  BY <1>5, <1>6 DEF IInv, BackupInv, Disaster
<1>8. QED BY <1>1, <1>2, <1>3, <1>4, <1>7 DEF IInv

-----------------------------------------------------------------------------
(* IInv holds initially.                                                   *)
LEMMA InitIInv == Init => IInv
<1> SUFFICES ASSUME Init PROVE IInv
  OBVIOUS
<1>0. Sound(EmptyDb) /\ EmptyDb \in Image /\ EmptyDb.backups = {}
      /\ EmptyDb.identities = NoIdentity /\ EmptyDb.kv_store = 0
  BY EmptySound DEF Sound, EmptyDb
<1>1. remote \in [snapshot : {Missing}, tinydb : BOOLEAN] /\ (remote.tinydb => tinydb)
  <2>1. CASE remote = [snapshot |-> Missing, tinydb |-> FALSE]
    BY <2>1
  <2>2. CASE remote = [snapshot |-> Missing, tinydb |-> tinydb]
    BY <2>2 DEF Init
  <2>3. QED BY <2>1, <2>2 DEF Init, Core
<1>2. TypeOK
  BY <1>0, <1>1, NoJobType, LimitsAssumption DEF Init, TypeOK
<1>3. DataInv
  BY <1>0, <1>1 DEF Init, DataInv, SnapshotIsCommitted
<1>4. ASSUME NEW b \in Jobs PROVE JobInv(b)
  BY DEF Init, JobInv, NoJob, LockedPC, ViewPC, CopiedPC, WrittenPC, UploadedPC
<1>5. StartInv
  BY DEF Init, StartInv
<1>6. BackupInv
  BY <1>0, <1>1 DEF Init, BackupInv, HasBackup, BackedUp, AboutToImport
<1>7. QED BY <1>2, <1>3, <1>4, <1>5, <1>6 DEF IInv

(* Every step preserves IInv.                                              *)
LEMMA NextIInv == IInv /\ [Next]_vars => IInv'
<1> SUFFICES ASSUME IInv, [Next]_vars PROVE IInv'
  OBVIOUS
<1>1. CASE StartupStep
  BY <1>1, BootStep, MigrateTinydbStep, RenameTinydbStep, RestoreSnapshotStep,
     InitIdentityStep, EnsurePassphraseStep DEF StartupStep
<1>2. CASE OwnerStep
  BY <1>2, OwnerSteps
<1>3. ASSUME NEW b \in Jobs, StartBackup(b) \/ BackupStep(b) PROVE IInv'
  BY <1>3, StartBackupStep, GetSasUrlStep, BeginStep, OpenSnapshotStep, ReadTableStep,
     WriteTmpStep, ReplaceSnapshotStep, SyncCoreStep, SyncDeleteStep, SyncUserDataStep,
     InsertReportStep DEF BackupStep
<1>4. CASE Crash
  BY <1>4, CrashStep
<1>5. CASE Disaster
  BY <1>5, DisasterStep
<1>6. CASE UNCHANGED vars
  <2>1. TypeOK' /\ DataInv'
    BY <1>6 DEF IInv, TypeOK, DataInv, SnapshotIsCommitted, vars, historyVars
  <2>2. \A b \in Jobs : JobInv(b)'
    BY <1>6 DEF IInv, JobInv, Keeps, vars, historyVars
  <2>3. StartInv' /\ BackupInv'
    BY <1>6
    DEF IInv, StartInv, Populated, BackupInv, HasBackup, BackedUp, Keeps, AboutToImport, vars,
        historyVars
  <2>4. QED BY <2>1, <2>2, <2>3 DEF IInv
<1>7. QED BY <1>1, <1>2, <1>3, <1>4, <1>5, <1>6 DEF Next

(* The inductive invariant holds in every reachable state.                 *)
THEOREM RecoveryInvariant == Spec => []IInv
<1>1. QED BY InitIInv, NextIInv, PTL DEF Spec

(* The variables have their types, for any number of jobs and any bounds.  *)
THEOREM RecoveryTypeCorrect == Spec => []TypeOK
<1>1. IInv => TypeOK
  BY DEF IInv
<1>2. QED BY <1>1, RecoveryInvariant, PTL

(* write_db_snapshot and rclone never leave anything but an image of one   *)
(* committed state of the database.                                        *)
THEOREM SnapshotsConsistent == Spec => []SnapshotIsCommitted
<1>1. IInv => SnapshotIsCommitted
  BY DEF IInv, DataInv
<1>2. QED BY <1>1, RecoveryInvariant, PTL

(* A shard that is up has the identities and the passphrase of its backup, *)
(* and its default identity unless make_default chose another one.         *)
THEOREM IdentityKept == Spec => []IdentitySurvives
<1>1. IInv => IdentitySurvives
  BY DEF IInv, BackupInv, AboutToImport, IdentitySurvives
<1>2. QED BY <1>1, RecoveryInvariant, PTL

(* A backup that is reported is the one in the container.                  *)
THEOREM ReportsTrue == Spec => []ReportsOwnSnapshot
<1>1. ASSUME IInv, NEW b \in Jobs, At(b, "report")
      PROVE  remote = [snapshot |-> job[b].image, tinydb |-> FALSE]
  BY <1>1 DEF IInv, TypeOK, JobInv, At, UploadedPC
<1>2. IInv => ReportsOwnSnapshot
  BY <1>1 DEF ReportsOwnSnapshot
<1>3. QED BY <1>2, RecoveryInvariant, PTL

(* The sequence of backups.id is never behind the rows of the table.       *)
THEOREM ReportIdsFree == Spec => []ReportIdFree
<1>1. IInv => ReportIdFree
  BY DEF IInv, DataInv, ReportIdFree
<1>2. QED BY <1>1, RecoveryInvariant, PTL

-----------------------------------------------------------------------------
(* The first start *)

(* Steps after refresh_init_apps, which sets the flag.                     *)
LaterSteps ==
    {"ensure_backup_passphrase", "refresh_profile", "background_tasks", "print_welcome_log", "up"}

EarlierSteps ==
    {"init_database", "init_default_identity", "write_traefik_dyn_config",
     "render_all_docker_compose_templates", "login_docker_registries", "migrate",
     "reconcile_interrupted_uninstalls", "refresh_init_apps"}

Todo == [type : {"install", "uninstall"}, app : Catalogue]

InstallationKnown ==
    \A a \in Catalogue :
        status[a] = "INSTALLATION_QUEUED" => InstallPending(a) \/ a \in stranded

(* What is uninstalled was uninstalled with the flag set, and a queued     *)
(* installation has its task or was cut off, before the flag, too.         *)
FirstInv ==
    /\ step \in EarlierSteps \cup LaterSteps
    /\ status \in [Catalogue -> {"absent", "INSTALLATION_QUEUED", "UNINSTALLATION_QUEUED", "STOPPED", "ERROR"}]
    /\ todo \in Seq(Todo)
    /\ removed \subseteq Catalogue
    /\ step \in LaterSteps => flag
    /\ removed # {} => flag
    /\ InstallationKnown
    /\ flag => \A a \in InitialApps : status[a] = "absent" => a \in removed
    /\ UninstalledStaysOut

LEMMA StepAt ==
    /\ DOMAIN Steps = 1..13
    /\ Steps[1] = "init_database" /\ Steps[2] = "init_default_identity"
    /\ Steps[3] = "write_traefik_dyn_config" /\ Steps[4] = "render_all_docker_compose_templates"
    /\ Steps[5] = "login_docker_registries" /\ Steps[6] = "migrate"
    /\ Steps[7] = "reconcile_interrupted_uninstalls" /\ Steps[8] = "refresh_init_apps"
    /\ Steps[9] = "ensure_backup_passphrase" /\ Steps[10] = "refresh_profile"
    /\ Steps[11] = "background_tasks" /\ Steps[12] = "print_welcome_log" /\ Steps[13] = "up"
BY DEF Steps

LEMMA StepIndex ==
    ASSUME NEW n \in 1..12
    PROVE  After(Steps[n]) = Steps[n + 1]
<1>1. \A i \in DOMAIN Steps : Steps[i] = Steps[n] => i = n
  BY StepAt
<1>2. (CHOOSE i \in DOMAIN Steps : Steps[i] = Steps[n]) = n
  BY <1>1, StepAt
<1>3. QED BY <1>2 DEF After

(* The next step of an earlier one is an earlier one, up to                *)
(* refresh_init_apps, and that of a later one is a later one.              *)
LEMMA StepsInOrder ==
    /\ \A s \in EarlierSteps \ {"refresh_init_apps"} : After(s) \in EarlierSteps
    /\ After("refresh_init_apps") \in LaterSteps
    /\ \A s \in LaterSteps \ {"up"} : After(s) \in LaterSteps
<1>1. \A n \in 1..7 : After(Steps[n]) \in EarlierSteps
  BY StepAt, StepIndex DEF EarlierSteps
<1>2. \A n \in 8..12 : After(Steps[n]) \in LaterSteps
  BY StepAt, StepIndex DEF LaterSteps
<1>3. \A s \in EarlierSteps \ {"refresh_init_apps"} : \E n \in 1..7 : s = Steps[n]
  BY StepAt DEF EarlierSteps
<1>4. \A s \in (LaterSteps \ {"up"}) \cup {"refresh_init_apps"} : \E n \in 8..12 : s = Steps[n]
  BY StepAt DEF LaterSteps
<1>5. QED BY <1>1, <1>2, <1>3, <1>4

LEMMA FirstStarts == FirstInit => FirstInv
BY DEF FirstInit, FirstInv, EarlierSteps, LaterSteps, InstallationKnown, UninstalledStaysOut

(* Appending tasks leaves the pending ones pending.                        *)
LEMMA StillPending ==
    ASSUME todo \in Seq(Todo), NEW more \in Seq(Todo), todo' = todo \o more,
           NEW a, InstallPending(a)
    PROVE  InstallPending(a)'
<1>1. PICK i \in DOMAIN todo : todo[i] = Task("install", a)
  BY DEF InstallPending
<1>2. i \in DOMAIN (todo \o more) /\ (todo \o more)[i] = todo[i]
  OBVIOUS
<1>3. QED BY <1>1, <1>2 DEF InstallPending, Task

LEMMA FirstStep ==
    ASSUME FirstInv, [FirstNext]_startVars
    PROVE  FirstInv'
<1>0. /\ status \in [Catalogue -> {"absent", "INSTALLATION_QUEUED", "UNINSTALLATION_QUEUED", "STOPPED", "ERROR"}]
      /\ todo \in Seq(Todo) /\ removed \subseteq Catalogue /\ step \in EarlierSteps \cup LaterSteps
      /\ InitialApps \subseteq Catalogue /\ IsFiniteSet(Catalogue)
      /\ InstallationKnown /\ UninstalledStaysOut
  BY CatalogueAssumption DEF FirstInv
<1>t. \A type \in {"install", "uninstall"}, a \in Catalogue :
          Task(type, a) \in Todo /\ Task(type, a).type = type /\ Task(type, a).app = a
  BY DEF Task, Todo
<1>1. CASE UNCHANGED startVars
  BY <1>1 DEF startVars, FirstInv, InstallationKnown, InstallPending, UninstalledStaysOut
<1>2. ASSUME step' \in EarlierSteps \cup LaterSteps, step' \in LaterSteps => flag,
             todo' \in Seq(Todo), InstallationKnown', UNCHANGED <<status, flag, removed>>
      PROVE  FirstInv'
  BY <1>2 DEF FirstInv, UninstalledStaysOut
<1>k. ASSUME UNCHANGED <<status, stranded>>, NEW more \in Seq(Todo), todo' = todo \o more
      PROVE  InstallationKnown'
  BY <1>0, <1>k, StillPending DEF InstallationKnown
<1>u. ASSUME UNCHANGED <<status, stranded, todo>>
      PROVE  InstallationKnown'
  BY <1>0, <1>u DEF InstallationKnown, InstallPending
<1>3. CASE PlainStep
  <2>1. /\ step' = After(step) /\ step \notin {"refresh_init_apps", "up"}
        /\ UNCHANGED <<status, todo, flag, removed, stranded>>
    BY <1>3 DEF PlainStep
  <2>2. step' \in EarlierSteps \cup LaterSteps /\ (step' \in LaterSteps => flag)
    <3>1. CASE step \in EarlierSteps
      <4>1. step' \in EarlierSteps
        BY <2>1, <3>1, StepsInOrder
      <4>2. step' \notin LaterSteps
        BY <4>1 DEF EarlierSteps, LaterSteps
      <4>3. QED BY <4>1, <4>2
    <3>2. CASE step \in LaterSteps
      BY <2>1, <3>2, StepsInOrder DEF FirstInv
    <3>3. QED BY <1>0, <3>1, <3>2
  <2>3. QED BY <1>0, <1>2, <1>u, <2>1, <2>2
<1>4. CASE Reconcile
  <2> DEFINE S == {a \in Catalogue : status[a] = "UNINSTALLATION_QUEUED"}
  <2>1. PICK order \in SetToSeqs(S) :
           todo' = todo \o [i \in DOMAIN order |-> Task("uninstall", order[i])]
    BY <1>4 DEF Reconcile
  <2>2. IsFiniteSet(S) /\ Cardinality(S) \in Nat
    BY <1>0, FS_Subset, FS_CardinalityType
  <2>3. order \in [1..Cardinality(S) -> S]
    BY <2>1 DEF SetToSeqs
  <2> DEFINE more == [i \in DOMAIN order |-> Task("uninstall", order[i])]
  <2>4. more \in Seq(Todo)
    <3>1. \A i \in DOMAIN order : more[i] \in Todo
      BY <1>t, <2>3
    <3>2. DOMAIN order = 1..Cardinality(S)
      BY <2>3
    <3>3. more \in [1..Cardinality(S) -> Todo]
      BY <3>1, <3>2
    <3>4. \A n \in Nat : [1..n -> Todo] \subseteq Seq(Todo)
      OBVIOUS
    <3>5. QED BY <2>2, <3>3, <3>4
  <2>5. todo' \in Seq(Todo) /\ todo' = todo \o more
    <3> HIDE DEF more
    <3>1. todo' = todo \o more
      BY <2>1 DEF more
    <3>2. QED BY <1>0, <2>4, <3>1
  <2>6. step' \in EarlierSteps /\ step' \notin LaterSteps
    <3>1. step' \in EarlierSteps
      BY <1>0, <1>4, StepsInOrder DEF Reconcile, EarlierSteps, LaterSteps
    <3>2. QED BY <3>1 DEF EarlierSteps, LaterSteps
  <2>7. UNCHANGED <<status, flag, removed, stranded>>
    BY <1>4 DEF Reconcile
  <2>8. InstallationKnown'
    <3> HIDE DEF more
    <3>1. QED BY <1>k, <2>4, <2>5, <2>7
  <2>9. QED BY <1>2, <2>5, <2>6, <2>7, <2>8
<1>5. CASE RefreshInitApps
  <2>1. step' \in LaterSteps /\ flag' = TRUE /\ UNCHANGED <<status, todo, removed, stranded>>
    BY <1>5, StepsInOrder DEF RefreshInitApps
  <2>2. \A a \in InitialApps : status[a] = "absent" => a \in removed
    BY <1>5 DEF RefreshInitApps, ToInstall, FirstInv
  <2>3. InstallationKnown'
    BY <1>u, <2>1
  <2>4. QED BY <2>1, <2>2, <2>3 DEF FirstInv, UninstalledStaysOut
<1>6. CASE StartFails \/ Restart
  <2>1. /\ step' = "init_database" /\ todo' = <<>> /\ UNCHANGED <<status, flag, removed>>
        /\ stranded' = stranded \cup {a \in Catalogue : status[a] = "INSTALLATION_QUEUED"}
    BY <1>6 DEF StartFails, Restart, ProcessEnds
  <2>2. step' \in EarlierSteps /\ step' \notin LaterSteps /\ todo' \in Seq(Todo)
    BY <2>1 DEF EarlierSteps, LaterSteps
  <2>3. InstallationKnown'
    BY <2>1 DEF InstallationKnown
  <2>4. QED BY <1>2, <2>1, <2>2, <2>3
<1>7. CASE StoreChange
  BY <1>0, <1>2, <1>7, <1>u DEF StoreChange, FirstInv
<1>8. ASSUME NEW a \in Catalogue, NEW type \in {"install", "uninstall"},
             todo' = Append(todo, Task(type, a))
      PROVE  /\ todo' \in Seq(Todo) /\ todo' = todo \o <<Task(type, a)>>
             /\ <<Task(type, a)>> \in Seq(Todo)
             /\ type = "install" => InstallPending(a)'
  <2>1. Task(type, a) \in Todo
    BY <1>t
  <2>2. todo' \in Seq(Todo) /\ todo' = todo \o <<Task(type, a)>> /\ <<Task(type, a)>> \in Seq(Todo)
    BY <1>0, <1>8, <2>1
  <2>3. Len(todo) + 1 \in DOMAIN todo' /\ todo'[Len(todo) + 1] = Task(type, a)
    BY <1>0, <1>8, <2>1
  <2>4. QED BY <2>2, <2>3 DEF InstallPending, Task
<1>i. ASSUME NEW a \in Catalogue, UNCHANGED stranded,
             status' = [status EXCEPT ![a] = "INSTALLATION_QUEUED"],
             todo' = Append(todo, Task("install", a))
      PROVE  InstallationKnown' /\ todo' \in Seq(Todo)
  <2>1. /\ todo' \in Seq(Todo) /\ todo' = todo \o <<Task("install", a)>>
        /\ <<Task("install", a)>> \in Seq(Todo) /\ InstallPending(a)'
    BY <1>8, <1>i
  <2>2. \A c \in Catalogue : c # a => status'[c] = status[c]
    BY <1>0, <1>i
  <2>3. QED BY <1>0, <1>i, <2>1, <2>2, StillPending DEF InstallationKnown
<1>9. ASSUME NEW a \in InitialApps, InstallInitialApp(a) PROVE FirstInv'
  <2>1. /\ ~flag /\ UNCHANGED <<step, flag, removed, stranded>> /\ a \in Catalogue
        /\ status' = [status EXCEPT ![a] = "INSTALLATION_QUEUED"]
        /\ todo' = Append(todo, Task("install", a))
    BY <1>0, <1>9 DEF InstallInitialApp, Install
  <2>2. removed = {}
    BY <2>1 DEF FirstInv
  <2>3. InstallationKnown' /\ todo' \in Seq(Todo)
    BY <1>i, <2>1
  <2>4. UninstalledStaysOut'
    BY <2>1, <2>2 DEF UninstalledStaysOut
  <2>5. QED BY <1>0, <2>1, <2>3, <2>4 DEF FirstInv
<1>10. ASSUME NEW a \in Catalogue, AskInstall(a) PROVE FirstInv'
  <2>1. /\ UNCHANGED <<step, flag, stranded>> /\ removed' = removed \ {a}
        /\ status' = [status EXCEPT ![a] = "INSTALLATION_QUEUED"]
        /\ todo' = Append(todo, Task("install", a))
    BY <1>10 DEF AskInstall, Install
  <2>2. InstallationKnown' /\ todo' \in Seq(Todo)
    BY <1>i, <2>1
  <2>3. status'[a] = "INSTALLATION_QUEUED" /\ \A c \in Catalogue : c # a => status'[c] = status[c]
    BY <1>0, <2>1
  <2>4. UninstalledStaysOut'
    BY <1>0, <2>1, <2>3 DEF UninstalledStaysOut
  <2>5. (flag => \A c \in InitialApps : status[c] = "absent" => c \in removed)'
    BY <1>0, <2>1, <2>3 DEF FirstInv
  <2>6. QED BY <1>0, <2>1, <2>2, <2>4, <2>5 DEF FirstInv
<1>11. ASSUME NEW a \in Catalogue, AskUninstall(a) PROVE FirstInv'
  <2>1. /\ UNCHANGED <<step, flag, removed, stranded>> /\ status[a] # "absent"
        /\ status' = [status EXCEPT ![a] = "UNINSTALLATION_QUEUED"]
        /\ todo' = Append(todo, Task("uninstall", a))
    BY <1>11 DEF AskUninstall, Asked
  <2>2. /\ todo' \in Seq(Todo) /\ todo' = todo \o <<Task("uninstall", a)>>
        /\ <<Task("uninstall", a)>> \in Seq(Todo)
    BY <1>8, <2>1
  <2>3. status'[a] = "UNINSTALLATION_QUEUED" /\ \A c \in Catalogue : c # a => status'[c] = status[c]
    BY <1>0, <2>1
  <2>4. InstallationKnown'
    BY <1>0, <2>1, <2>2, <2>3, StillPending DEF InstallationKnown
  <2>5. UninstalledStaysOut'
    BY <1>0, <2>1, <2>3 DEF UninstalledStaysOut
  <2>6. (flag => \A c \in InitialApps : status[c] = "absent" => c \in removed)'
    BY <1>0, <2>1, <2>3 DEF FirstInv
  <2>7. QED BY <1>0, <2>1, <2>2, <2>4, <2>5, <2>6 DEF FirstInv
<1>12. ASSUME NEW outcome \in {"STOPPED", "ERROR"}, WorkerEnds(outcome) PROVE FirstInv'
  <2> DEFINE task == Head(todo)
  <2>1. task \in Todo /\ todo # <<>> /\ todo' = Tail(todo) /\ UNCHANGED <<step, flag>> /\ flag
    <3>1. step \in LaterSteps
      BY <1>12 DEF WorkerEnds, LaterSteps
    <3>2. todo # <<>>
      BY <1>12 DEF WorkerEnds
    <3>3. task \in Todo
      BY <1>0, <3>2
    <3>4. QED BY <1>12, <3>1, <3>2, <3>3 DEF WorkerEnds, FirstInv
  <2>2. todo' \in Seq(Todo)
    BY <1>0, <2>1
  <2>3. task.app \in Catalogue /\ task.type \in {"install", "uninstall"}
    BY <2>1 DEF Todo
  <2>p. ASSUME NEW c \in Catalogue, InstallPending(c), task # Task("install", c)
        PROVE  InstallPending(c)'
    <3>1. PICK i \in DOMAIN todo : todo[i] = Task("install", c)
      BY <2>p DEF InstallPending
    <3>2. i # 1
      BY <1>0, <2>1, <2>p, <3>1
    <3>3. i - 1 \in DOMAIN todo' /\ todo'[i - 1] = todo[i]
      <4> HIDE DEF task
      <4>1. QED BY <1>0, <2>1, <3>1, <3>2
    <3>4. QED BY <3>1, <3>3 DEF InstallPending, Task
  <2>4. CASE task.type = "uninstall"
    <3>1. /\ status' = [status EXCEPT ![task.app] = "absent"] /\ removed' = removed \cup {task.app}
          /\ stranded' = stranded \ {task.app}
      BY <1>12, <2>4 DEF WorkerEnds
    <3>p. \A c \in Catalogue : InstallPending(c) => InstallPending(c)'
      BY <1>t, <2>4, <2>p
    <3> HIDE DEF task
    <3>2. /\ status'[task.app] = "absent" /\ \A c \in Catalogue : c # task.app => status'[c] = status[c]
      BY <1>0, <2>3, <3>1
    <3>3. InstallationKnown'
      BY <1>0, <3>1, <3>2, <3>p DEF InstallationKnown
    <3>4. UninstalledStaysOut' /\ removed' \subseteq Catalogue
      BY <1>0, <2>3, <3>1, <3>2 DEF UninstalledStaysOut
    <3>5. (flag => \A c \in InitialApps : status[c] = "absent" => c \in removed)'
      BY <1>0, <2>1, <3>1, <3>2 DEF FirstInv
    <3>6. QED BY <1>0, <2>1, <2>2, <2>3, <3>1, <3>3, <3>4, <3>5 DEF FirstInv
  <2>5. CASE task.type = "install" /\ status[task.app] = "INSTALLATION_QUEUED"
    <3>1. status' = [status EXCEPT ![task.app] = outcome] /\ UNCHANGED <<removed, stranded>>
      BY <1>12, <2>5 DEF WorkerEnds
    <3>p. \A c \in Catalogue : c # task.app /\ InstallPending(c) => InstallPending(c)'
      BY <1>t, <2>p
    <3> HIDE DEF task
    <3>2. /\ status'[task.app] = outcome /\ \A c \in Catalogue : c # task.app => status'[c] = status[c]
      BY <1>0, <2>3, <3>1
    <3>3. InstallationKnown'
      BY <1>0, <3>1, <3>2, <3>p DEF InstallationKnown
    <3>4. UninstalledStaysOut'
      BY <1>0, <2>5, <3>1, <3>2 DEF UninstalledStaysOut
    <3>5. (flag => \A c \in InitialApps : status[c] = "absent" => c \in removed)'
      BY <1>0, <2>1, <3>1, <3>2 DEF FirstInv
    <3>6. QED BY <1>0, <2>1, <2>2, <2>3, <3>1, <3>3, <3>4, <3>5 DEF FirstInv
  <2>6. CASE task.type = "install" /\ status[task.app] # "INSTALLATION_QUEUED"
    <3>1. UNCHANGED <<status, removed, stranded>>
      BY <1>12, <2>6 DEF WorkerEnds
    <3>p. \A c \in Catalogue : c # task.app /\ InstallPending(c) => InstallPending(c)'
      BY <1>t, <2>p
    <3>2. InstallationKnown'
      BY <1>0, <2>6, <3>1, <3>p DEF InstallationKnown
    <3>3. QED BY <1>0, <2>1, <2>2, <3>1, <3>2 DEF FirstInv, UninstalledStaysOut
  <2>7. QED BY <2>3, <2>4, <2>5, <2>6
<1>13. QED
  BY <1>1, <1>3, <1>4, <1>5, <1>6, <1>7, <1>9, <1>10, <1>11, <1>12 DEF FirstNext, LifespanStep

(* With the flag set every initial app has been dealt with, has its task,  *)
(* lost it with a process or was removed by the owner, and one that was    *)
(* removed stays out, however often a start fails or is cut off            *)
(* (refresh_init_apps), for any catalogue and any apps of the store.       *)
THEOREM InitialAppsAlwaysKept == FirstSpec => []InitialAppsKept
<1>1. FirstInv => InitialAppsKept
  BY CatalogueAssumption DEF FirstInv, InstallationKnown, InitialAppsKept, NoneForgotten
<1>2. QED BY FirstStarts, FirstStep, <1>1, PTL DEF FirstSpec
=============================================================================
