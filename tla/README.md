# Freeshard shard core: a TLA+ verification project

The shard core (`src/shard_core`) is the control plane of a personal server: one
asyncio process behind traefik that installs apps as docker compose stacks, starts
them when somebody opens them, freezes or stops them when they idle, pairs terminals
(browsers, phones) with the shard, talks to other shards, and backs itself up. Its
state is in Postgres (`src/migrations/shard-core-0001-init.sql`), in directories under
`path_root`, in the docker daemon, in traefik's dynamic configuration, and in a few
module-level variables of the process.

The project models the code that changes that state, checks it with TLC on small
instances, and proves the most important facts for all instances with TLAPS.

## 1. Inventory

| part | code | state it keeps | operations |
|---|---|---|---|
| app operations | `service/app_tools.py` | per-app op locks; docker stacks; `installed_apps.status` | `start_app`, `docker_pause_app`, `docker_unpause_app`, `docker_stop_app`, `docker_shutdown_app` |
| app installation | `service/app_installation/` | queue of the worker; app directories; `installed_apps` rows; `traefik_dyn.yml` | requests `install_app_from_store`, `install_app_from_uploaded_zip`, `uninstall_app`, `reinstall_app`; worker `_run`; `reconcile_interrupted_uninstalls` |
| app lifecycle control | `service/app_lifecycle.py`, `memory_pressure.py`, `disk.py` | last access times, disk and pressure readings | `ensure_app_is_running` (on each request to an app), `control_apps` (every few seconds), `_demote_lru` |
| process | `app_factory.py`, `util/async_util.py` | background tasks | lifespan start and teardown, periodic and cron tasks |
| authentication | `web/internal/auth.py` | `_app_cache`, `_identity_cache` | `authenticate_and_authorize`, cache invalidation on signals |
| pairing and terminals | `service/pairing.py`, `web/public/pair.py`, `web/protected/terminals.py` | pairing code, JWT secret, `terminals` | make and redeem a code, verify a JWT, edit and delete a terminal |
| identities | `service/identity.py`, `database/identities.py` | `identities` with one default | `init_default_identity`, `make_default`, `update_identity` |
| peers | `service/peer.py` | `peers` | `update_peer_meta`, `verify_peer_auth` |
| backup and snapshot | `service/backup.py`, `database/db_snapshot.py` | in-progress lock, snapshot file, remote copy, `backups` | `start_backup`, `backup_directories`, `write_db_snapshot`, `restore_db_snapshot` |
| database start | `database/database.py`, `tinydb_migration.py` | old TinyDB file | `init_database`, `migrate_tinydb_data` |
| websocket push | `service/websocket.py` | sockets, outgoing queue | `broadcast_message`, `_send_messages`, heartbeats |
| telemetry, usage | `service/telemetry.py`, `pause_metrics.py`, `app_usage_reporting.py` | counters, tracks | record, send and reset; report with retries |
| routing configuration | `service/traefik_dynamic_config.py` | - | pure function from apps to routers |
| pure helpers | `app_zip.py`, `human_encoding.py`, `data_model/app_meta.py` | - | archive layout, encodings, metadata validation |

**How they interact.** Requests reach the process through traefik; the auth endpoint
sends `on_request_to_app`, which creates a task that runs `start_app`.  Install,
uninstall and reinstall requests write a `*_QUEUED` status and put a task in the
queue of the one installation worker.  The control tick reads a snapshot of
`installed_apps` and starts one coroutine per app.  Everybody writes the status
column of the same rows and runs compose commands on the same stacks.  Changes are
announced by signals that clear the caches of `/auth` and push websocket messages.
The controller (a service of the provider) is asked for the profile and the shared
secret of the management calls and is sent telemetry and usage reports; other shards
answer for themselves at their domains.

**What is hard.** The process is single threaded, but every `await` (a statement, a
docker command, a download, a lock) lets other coroutines in, so that each
read-decide-act-write of an app operation can be interleaved with all the others;
only `start_app` and the uninstall share a lock.  Any docker command may fail.  The
queue and the locks are lost when the process stops, at any point, while rows, files,
stacks and routes survive.  Transactions run at READ COMMITTED and most read in one
statement what they decide in Python and write in another.  Caches are filled after
an await.  Remote parties answer late, wrongly or not at all.  `PROJECT.json` lists these under "hazards", each at the
line where it bites.

## 2. Modules

```
AppState          shared state, statement and docker semantics
  AppTools        app_tools.py: the operations on one stack, as coroutines
    AppInstallation   requests, worker, teardown, routes
      AppLifecycle    wakes, control tick, process; Spec, fairness, properties
        MCAppLifecycle      symmetry for TLC
        AppLifecycleProofs  inductive invariant and theorems
AppOwnership      what rows and op locks promise; implemented by AppLifecycle

ControlApps       the control tick with the clock: idle, throttle, disk, pressure
  MCControlApps       lifecycle sections for TLC

Recovery          start of the database, snapshot, restore, backup
  MCRecovery          symmetry for TLC
FirstStart        the lifespan step by step and the initial apps
  RecoveryProofs      about Recovery and FirstStart
Telemetry         counters, report, reset
UsageReporting    two cron tasks, tracks and monthly reports
Push              websockets, outgoing queue, announcements of terminals
  JobsProofs          about Telemetry, UsageReporting and Push

Terminals         pairing codes, JWT secret, pairing, verification
  TerminalsProofs
Identities        make_default and other transactions, the cache of /auth
Avatars           uploads and deletions
  IdentitiesProofs    about Identities and Avatars

Peers             rows of other shards, refresh, signed requests
  PeersProofs
Management        the shared secret of the controller
  ManagementProofs
Authorization     GET /auth: app cache, rules, debounced last access
TraefikConfig     compile_config
  AuthorizationProofs about Authorization and TraefikConfig

MCAccounts   Terminals, Identities, Avatars
MCRequests   Peers, Management, Authorization, TraefikConfig
MCJobs       Recovery, Telemetry, UsageReporting, Push
MCLive       AppLifecycle, Push, FirstStart, Recovery with their fairness
```

A specification composes what interacts: `AppLifecycle` the operations, the worker,
the wakes, the tick and the process; `Recovery` start, backup and restore; `Push` the
sockets and the handlers that announce changes; `Identities` and `Authorization` each
the tables and the cache that follows them.  What is left between them is one-way: a
backup reads `installed_apps` as data, the start of the database ends before the first
app operation, and `Authorization` takes who the client is as a choice, of which
`Terminals` and `Peers` say when it is made.

The last four modules put specifications that share no state side by side so that one
run of TLC checks several: the variable `part` is chosen in the initial state, only
that part moves, and the others rest in one of their initial states.  Steps of
different parts are independent, so nothing is lost by not interleaving them.  They
extend their parts, so that TLC also evaluates the assumptions the proofs use on the
instances of the runs; in `MCLive`, `Push` and `Recovery` are instances, `P` and `R`,
with bounds of their own, and extended in `MCJobs`.

### Apps

**State.** `row` is the status column per app (`"absent"` for no row), `files` what
the app's directory holds (the zip, the extracted archive, the rendered compose
file), `box` the stack (`running`, `paused`, `exited`, `missing`), `routes` the apps
in `traefik_dyn.yml`, `queue` the worker's queue, `lock` the holder of each op lock,
`co` the coroutines, `phase` and `restarts` the process.

**Coroutines.** A record with the operation, the app and the place (`pc`); the place
also stands for what the coroutine remembers (`startProbeRunning`: the status read
under the lock was RUNNING).  `Tasks` are slots for request handlers, wake tasks and
the per-app calls of the tick; `Worker` is `InstallationWorker._run`; the shutdown
call of app `a` in `docker_shutdown_all_apps` is the actor `a` itself.  An action is
the code between two awaits that matter, named for what it does: `StartRead`,
`StartProbe`, `StartUp`, ... are the parts of `start_app`; `StopRead`, `StopUnpause`,
`StopCmd`, `StopWrite` those of `docker_stop_app`, and so on.  Every error path is a
disjunct: `Raise` is what an exception of stop or down does (caught by the worker,
fatal for a tick call), `Fails` what a failing docker command leaves behind.

**Choices.**
- The existence check of `uninstall_app` and `reinstall_app` and the UPDATE after it
  are one action: the UPDATE finds out by itself that the row has gone.
- A call the `throttle` of `start_app` drops is a `Wake` that does not happen.
- `Control` leaves open what idle times, disk space and memory pressure decide, and
  keeps the status conditions of `control_apps`, `_control_app_time` and
  `_demote_lru`.  Two calls may concern the same app, because a `gather` that raised
  (metadata of one app unreadable) leaves the other calls running into the next tick.
- `write_traefik_dyn_config` reads and writes in one action: only the worker and the
  startup call it, one at a time.
- Docker is external.  The comments of the code fix what matters: a command
  on a frozen stack may succeed or fail (the code unfreezes first where it can,
  because such a stack "can be neither stopped nor removed"); any command may fail; a failed `up` may leave
  anything but a frozen stack.  A stack may exit by itself.  Partly frozen or partly
  running stacks are reported by `get_app_container_state` as one of the four states.
- The start of the process is one action: no request is served before it ends, and
  each of its steps can be repeated.  `FirstStart` has it step by step, with the
  initial apps (`refresh_init_apps`), which are install requests here.
- A graceful stop cancels the tick, but not what an earlier, raised `gather` has left
  running: `Shutdown` lets any of the tick's calls outlive it (`ControlCalls`), besides
  the wakes.
- Failing file writes of the app directories (disk full) and raising signal handlers are
  left out.

**Bounds.** `MaxQueue`: no new request while that many tasks are queued (the code's
queue is unbounded); requests in flight may exceed it.  `MaxRestarts`: how often the
process goes down.

### Recovery

**State.** `db` abstracts each table to what tells its states apart (the ids of the
identities and which is the default, the ids of the backup reports, the passphrase,
counters of changes of `installed_apps` and `terminals`, the number of usage tracks);
`seq` is the SERIAL
sequence of `backups`; `snapshot` and `tinydb` are the files in `core/`, `remote` the
container's copy of them; `busy` is `BACKUP_IN_PROGESS_LOCK`, `job` the backup jobs;
`committed` is a history of the states the database had, `chosen` of the identities that
were made the default on this machine.

**Actions.** The lifespan step by step (`Boot`, `MigrateTinydb`, `RenameTinydb`,
`RestoreSnapshot`, `InitIdentity`, `EnsurePassphrase`); a backup job await by await
(`StartBackup`, `GetSasUrl`, `Begin`, `OpenSnapshot`, one `ReadTable` per table,
`WriteTmp`, `ReplaceSnapshot`, `SyncCore`, `SyncDelete`, `SyncUserData`,
`InsertReport`), each of which may fail instead, which gives the lock back (`Abandon`);
what the owner and the rest of the core change meanwhile (`AddIdentity`, `MakeDefault`,
and `Change` of a table without identity or passphrase); `Crash` and `Disaster` at any
point, the latter followed by a start on the decrypted backup as the repository's
README describes.

**Choices.** A transaction commits in one step (`Identities` has `make_default`
statement by statement; no request deletes an identity or changes the passphrase); the job's REPEATABLE READ transaction
sees the database as of its first query.  rclone copies all files before it deletes
those that are gone, and may fail at either.  Peers, tours and the other keys of
`kv_store` behave like the tables that are there.  The marker blob is left out: its
failure is swallowed and nothing in the shard core reads it.

**Bounds.** `MaxChanges`: how many transactions of the owner and the rest of the core
there are, `MaxReports`: the portal hands out no URL once
that many report ids are used, `MaxCrashes`: crashes and losses together.

### App lifecycle with the clock

`ControlApps` is what `AppLifecycle`'s `Control` leaves open.  Time passes in ticks;
`idle` and `since` count up to a bound where every comparison of the code has been
decided.  `ControlTick` takes the snapshot of the rows and the reading of the pressure,
`Decide(a)` is `_control_app_time` of one app, `GatherEnds` the end of `gather`, also
when an app's metadata could not be read, `Demote` is `_demote_lru`, `TickEnds` the
return to `PeriodicTask`.  A wake is `Access` (with the throttle), `WakeLock`, where
`start_app` returns from a status it may not revive (`Revivable`), and `WakeSucceeds` or
`WakeFails`; one that waits for the lock stands for later ones.

`frozen` are the apps whose containers are paused, since row and containers may
disagree.  A call of the tick reads the row (`OpReads`), then acts: a pause freezes the
containers (`Freezes`), reclaims their memory and writes the row (`OpSucceeds`); a stop
thaws first what the row calls PAUSED (`Thaws`).  `OpFails` at either place leaves the
containers as they are by then, so that a pause whose reclaim failed leaves frozen
containers under RUNNING, where every later pause fails; `OpAdvances` is what docker does
when it does not fail, and it has no step there.  `Init` has every status and every half-done
pause or stop an earlier run may have left.
`Valid` is the validator of the lifecycle section, `Lru` the choice of the app that was
used least recently.  Disk, pressure and profile change at any time.

`AppOwnership` is the abstract side of the op lock: apps with a row, an owner or
`None` for each, ownership that passes only through `None`, and a row that goes only
while the worker owns the app.  `AppLifecycle` implements it with `exists` the set of
apps with a row and `owner` the variable `lock`.

### Terminals, identities, avatars

`Terminals`: `stored` is the pairing code in `kv_store` with the number of its issue,
`secret` the JWT secret, `pair[t]` the place in `add_terminal` of the request that
pairs `t`, `check[k]` a request that carries a token.  Reading a code, removing it,
`INSERT` with `COUNT`, the commit, the look for the secret and its creation are steps
of their own; requests may end early at each of them, with what is committed staying.
Random codes may repeat.

`Identities`: `rows` is the committed table, `lock` the row locks of Postgres, `req` the
transactions statement by statement at READ COMMITTED (`ReadDefault`, `ReadTarget`,
`Clear`, `Set`, `CommitChange` or `Rollback`, then `Signal`), `fill` the `/auth`
requests that read the default and store it in `_identity_cache` later.

`Avatars`: the files of each identity by extension; a request gives a name, which the
glob may find several identities for.  Unlinking comes before the lookup of the
identity and the upload, as in the code.

### Requests from outside

`Peers`: ids are sequences, a key is named by its hash, rows keep what the user typed.
`PutPeer` and `RefreshPeer` start a refresh that finds nobody, an HTTP error, or any
identity with any key; `Verify` and `Lookup` are the two halves of `verify_peer_auth`.

`Management`: secrets are numbered by rotation; a call reads the copy, asks the
controller when it differs, saves and compares.

`Authorization`: `cache[a]` is the entry of `_app_cache`, an object made by some
request; `row` holds `last_access`, `meta` the rules on disk; changes are committed and
then announced (`pending`).  A handler's steps are its awaits: `FindApp`, `StoreApp`,
`GetAuthState`, `Authorize`, `Debounce`, `WriteLastAccess`, `NoteLastAccess`.
`MatchPath` is `_match_path`: the paths in an order of decreasing length (`LongestFirst`;
paths of one length may come in any, as no two of them match one request), and of these
the first the request begins with (`FirstMatch`).

`TraefikConfig`: `compile_config` as a machine: `AddHttpSection` and `AddTcpSection`
with what the core needs, then the two loops, over apps (`appAt`) and their entrypoints
(`epAt`), each step an `AddEntrypoint` or a `NextApp`, then `DropEmpty`.  Sections are
functions from keys; a key that is there already is overwritten, as in dicts.

### Background work

`FirstStart`: `Steps` is the order of the lifespan; each step may raise or be cut off.
`InstallInitialApp` queues the initial apps that have no row, one after the other, and
`RefreshInitApps` then sets the flag.  The queue dies with the process (`ProcessEnds`);
`stranded` remembers the apps whose installation was in it.

`Telemetry`: requests and samples are counted while `send_telemetry` builds a report,
posts it (`PostAccepted`, `PostRefused`, `PostFails`, `AnswerLost`) and resets.

`UsageReporting`: `due` is when each `CronTask` runs next; a track is written at two,
the report of the month before is made at three on the first and retried.

`Push`: `GetMessage` takes a message and starts the sends, `SendEnds` ends one,
`GatherEnds` is the end of `gather` at the last send or the first exception.  Requests
that change terminals read the list (`ReadTerminals`) and enqueue it
(`SendTerminalsUpdate`) in two steps; `edit_terminal` does so before its commit.
`WriterFails` ends a request before its list is read or, for an edit, before its commit;
`lost` is the latest change nobody announced for this reason.

Operators marked "Fault" are variants of the operator below them with a plausible
bug; no specification uses them, they serve to confirm that each property can fail.

## 3. What TLC checks

| run | instance | distinct states |
|---|---|---|
| `races` | 1 app, 2 symmetric tasks, worker, queue 1 | 1.68 million |
| `restarts` | 1 app, 1 task, queue 2, 2 restarts; with the refinement of `AppOwnership` | 428 thousand |
| `live` | apps: 1 app, 1 task, queue 2; push: 2 clients, 2 messages; start: 2 initial apps and another, 2 failures, 2 requests; backup: 2 jobs, 1 crash; all fair | 107 thousand |
| `recovery` | backup: 2 jobs, 2 changes of identities, apps or terminals, 2 reports, 2 crashes; telemetry: 3 requests, 2 reports, 2 samples; usage: 5 days in months of 2, 2 tries, 2 restarts; push: 2 clients, 2 writers, 2 messages | 2.93 million |
| `tick_clock` | an app with any of several lifecycle sections in any status, and one with unreadable metadata; with and without the pause tier; disk low or free; fair | 91 thousand |
| `tick_pressure` | 2 apps, RUNNING, PAUSED or DOWN, frozen or not, with or without `skip_pause`, one of them perhaps always on; pressure that comes and goes; fair | 104 thousand |
| `accounts` | terminals: 3 pairings, 1 check, 2 codes, 2 issues; identities: 3, 2 transactions, 1 fill; avatars: 2 identities, a shared prefix and an unknown id, 2 uploads | 1.53 million |
| `requests` | peers: 3 shards, two with one short id, whole and partial ids, 2 refreshes, 1 signed request; management: 2 calls, 2 rotations; rules and accesses: 1 app, 2 requests, 2 sets of rules, 2 changes, 2 times; routes: every list of up to 2 apps with up to 2 entrypoints | 1.87 million |
| `frozen_uninstall` | 1 app, 1 task; `ThawedBeforeStop` fails | |
| `start_reinstall` | 1 app, 2 tasks; `NeverStartedInTransition` fails | |
| `killed_uninstall` | 1 app, 1 task, 1 restart, fair; `InterruptedUninstallResumed` fails | |
| `migration_twice` | 1 job, 1 crash; `MigratedOnce` fails | |

Apps (`races`, `restarts`, `live`):

- `ReviveExcludesTeardown`: while `start_app` acts, no uninstall of the app is under
  way and its row exists (issue #185).
- `NoStrandedUninstall`, `NoStrandedInstall`: a row in a transitional status always
  has a task that will leave it.  For uninstalls this includes restarts; installs and
  reinstalls are not resumed at startup, so theirs is stated for a process that has
  not been restarted.
- `NothingLeftBehind` (`RemovedMeansGone` and `NoDanglingRoute`): the order rmtree,
  DELETE, rewrite of the routes leaves neither files without a row nor a route to no
  app, whatever fails and wherever the process dies.
- `RowsComeAndGo`: late status writes by pause, stop and shutdown calls never bring a
  removed row back, and only the worker removes one, under the lock.
- `WaitersServed`, `UninstallTakenUp`, `TeardownCompletes`: locks are given back on
  every path, no task of the queue blocks the next, and errors of docker do not keep
  a teardown from removing the row.
- `ImplementsOwnership`: on every path, and at every stop of the process, locks pass
  from holder to holder only by being released.

The control tick (`tick_clock`, `tick_pressure`):

- `AlwaysOnRevived`, `UnusedAppStops`, `UsedAppRuns`: an always-on app comes back from
  every status `start_app` revives, an unused app is paused and stopped in the end, a
  used one runs again and again, over throttled and failed starts, stale snapshots and a
  neighbour with broken metadata.
- `PressureRelieved`: lasting pressure takes every app that may be demoted out of RUNNING
  and PAUSED, whatever wakes and stale snapshots do in between.
- `UnusedAppStops` and `PressureRelieved` leave out an app that stays at odds with its row
  (`Odd`), which a half-done pause or stop brings about and only a start ends;
  `UsedAppRuns` does not.

Background work (`recovery`, `live`):

- `SnapshotIsCommitted`: what is on disk or in the container is one state the
  database really had, although it is read table by table while the shard works.
- `IdentitySurvives`: once a backup exists, a running shard has its identities and its
  passphrase, and its default identity unless another was chosen since, after any crash
  and any loss of the machine.
- `ReportsOwnSnapshot`: a job that reports has left its own snapshot in the container,
  and no TinyDB file that a restore would prefer.
- `ReportIdFree`: the sequence is never behind the ids in the table.
- `BackupEnds`: the in-progress lock is given back whatever fails: the portal, a
  statement, the snapshot file, either phase of rclone.
- `InitialAppsKept` (`NoneForgotten` and `UninstalledStaysOut`): however often the first
  start fails or is cut off, once the flag is set each initial app has been dealt with by
  the worker, or has its task, or was removed by the owner, or was queued when a process
  ended; and no start brings back what the owner removed.
- `ComesUp`: the shard comes up if the store comes to have the apps.
- `ReportedOnce` (`NotReportedTwice` and `IntervalsInOrder`): requests counted while a report is on its
  way, failed sends and restarts never make a request count twice, unless the answer
  to an accepted report was lost.  Requests are numbered, and a report that is stored
  says up to which it counts.
- `ReportsMonth`: a month is reported when it is over, with its own nights only, and
  with all of them if the job ran every night.
- `NoGaps`, `EveryClientServed`: a connected client gets every message, once and in
  order, whatever broken clients do to the worker.
- `LastUpdateCurrent`: the last list of terminals sent is the current one, but for the
  three cases listed below.

Accounts (`accounts`):

- `GrantedRightly` (`DeletedStaysOut` and `GrantedWasPaired`): a token opens nothing once its terminal was
  deleted, and nobody is let in who did not redeem a code and get a row.
- `CodeSpent`: after a request has removed the code it redeemed, that issue is not
  stored again, in whatever order codes are made, read and removed.
- `SettledTokensValid`: a token made while nobody else was creating a secret stays valid.
- `FirstNoticed`: of overlapping pairings with rollbacks, one that was committed saw
  itself as the first.
- `DefaultKept` (`DefaultExists` and `SingleUnlessClash`): there is always a default
  identity, and one only unless two `make_default` overlap.
- `CacheFollows` (here of the identity, in `requests` of the apps): a cache is wrong
  only while the announcement is under way, or after a fill that overlapped one.
- `LatestShown`: without overlapping uploads an identity's one file is the latest.

Requests from outside (`requests`):

- `AuthenticatedByKey` (`KeyMatchesId` and `SharesShortId`): whoever answers a refresh, a
  stored key belongs to the row's id, and a peer is let in only with a key whose id has
  its first characters.
- `NoLateReturn`: a refresh that comes back late does not bring a deleted peer back.
- `SecretDecides` (`CurrentAccepted` and `AcceptedWasCurrent`): the controller's current secret is never
  refused, and nothing the controller has not made is accepted.
- `GrantedByRules`: nobody passes except under rules that lay on disk meanwhile, by the
  longest matching prefix.
- `AccessNoted`: the debounce may skip writes but the row is never further behind a
  granted request than `max_update_frequency`, unless two handlers write at once.
- `ConfigSound` (`NamesResolve`, `NoEmptyObject` and `HostsLeadHome`): the compiled
  configuration against what it is for: no dangling name, no empty object, every host of an app leads to a
  container of that app and past `/auth`.

**Why the bounds are enough.** Two jobs and two changes suffice to interleave
a read with a write and a job with another one; two crashes allow one in the recovery
from another.  Apps share nothing but the worker, its queue and the
routes; the interesting races are between operations on one app, and two tasks plus
the worker give all pairs of them.  Larger instances were explored once (1 app, 2
tasks, 1 restart, more than 4 million states; 2 apps, 1 task, more than 7 million) without new
behaviour.  Three pairings are needed for a rollback between two commits; two peers
with one short id and one without for a mistaken identity; months of two days so that
the first night of the next month is one too many; idle and throttle counters stop at
the value after which no comparison of the code changes.  The theorems of section 4
hold for any number.

**Types.** `restarts` checks the type invariant of the apps; those of the other
specifications are part of the inductive invariants of section 4.  Only `TypeOK` of
`ControlApps` just documents the state; added to the cfg of its run it holds there too.

**Deadlock.** `CHECK_DEADLOCK FALSE` stands where a behaviour ends because a bounded
counter is used up (clock, changes, messages, rotations), because `compile_config` has
returned or because the process or the push worker was stopped.

**Fairness.** `WF` of the steps of a running coroutine: the event loop runs what can
run, and docker commands and statements return.  `SF` of lock acquisition:
`asyncio.Lock` serves waiters in order.  `WF` of the worker's dequeue, of the end of a
shutdown, and of the start of a stopped process, which docker restarts.  In
`Recovery`, `WF` of the steps of the start and of each backup job: Postgres and rclone
return, with a result or an error.  In `ControlApps`, `WF` of the clock and of the
steps of the tick, `WF` of the end of a call, and `SF` of the lock, the read and the
success of a call or a wake: a docker command that can succeed may fail again and again
but not for ever, and a call that other calls keep overtaking gets its turn.  Nothing is
promised for a pause of frozen containers or an unpause of running ones, which docker
refuses every time.  In `Push`, `WF` of the worker's steps and of the end of every send: a client
that takes nothing is found dead by the server's ping.  In `FirstStart`, `WF` of the
steps of the start and of the worker.  Users, crashes, stacks, the store and the
controller owe nothing.

**Disagreements between the code and its own comments and tests** (the four
violation runs):
1. *A frozen app is uninstalled frozen.*  `_uninstall_app` thaws the stack if the row
   says PAUSED, but `uninstall_app` has already written UNINSTALLATION_QUEUED.  Stop
   and down then run on a frozen stack; where docker refuses, the error is logged,
   files and row are removed and the frozen containers stay.
2. *A reinstall can be overtaken by a start.*  `_reinstall_app` does not take the op
   lock, so a `start_app` that has read a revivable status runs `up` in the middle.
3. *An interrupted uninstall may be forgotten.*  The teardown itself writes STOPPED
   and DOWN, as does the graceful shutdown of the process; a stop after that leaves a
   status the reconciliation does not look for.
4. *The one-time import may happen twice.*  The import commits before the TinyDB file
   is renamed; after a stop in between it runs again, and the tables without a natural
   key get their rows a second time.

**What the properties leave room for.**  The models have these behaviours of the code;
the properties say how far they reach.
- Two overlapping `make_default` leave two defaults (`SingleUnlessClash`).
- Two requests that read the same pairing code before either removes it are both
  accepted; a removal may hit a code made meanwhile (`CodeSpent`).
- Two first uses of the JWT secret make two, and tokens of the first are void
  (`SettledTokensValid`).
- A cache filled with what was read before an invalidation stays wrong until the next
  one (`CacheFollows`, twice).
- `edit_terminal` announces the list before its commit, the handlers of two changes
  may overtake each other, and a pairing that fails after its commit, where it asks for
  the default identity and the JWT secret, announces nothing (`LastUpdateCurrent`).
- After a pause whose reclaim failed, or a stop whose unpause worked and nothing more, the
  tick cannot pause or stop the app any more, and under pressure it chooses it again and
  again, until a request or, for an always-on app, a revive starts it (`Odd`).
- A backup into a container that still has a TinyDB file may be lost between rclone's
  copy and its delete: a machine restored from it then has the identity and the
  passphrase of the TinyDB file (`BackedUp`).
- An HTTP error counts as a successful send of telemetry and resets the counters; what
  is counted during a send is lost (`NotReportedTwice`).
- Overlapping uploads of an avatar leave two files, after which none is found; an upload
  for an unknown or partial id removes the avatar before it fails (`LatestShown`).
- A demotion may hit an app that was used after the choice, or stop one that a wake has
  made RUNNING meanwhile (`UsedAppRuns`).
- Of two peers with one short id the one that did not sign may be found
  (`SharesShortId`).
- A process that ends while an initial app is queued leaves its row in
  INSTALLATION_QUEUED; the next start takes it for installed (`NoneForgotten`).
- While an app's metadata is unreadable no pressure demotion happens
  (`PressureRelieved`).

Modelled without a property, since no document of the repository says what should
happen: a reinstall removes the files under running containers, as stop and down do
nothing in REINSTALLING; a second queued uninstall wipes an install accepted between the
two; two uploads of one app's zip overwrite each other; a wake may bring a stack up after
the shutdown took it down; heartbeats end after the first, since a plain function is
awaited; a client that sends no JSON leaves a dead socket behind; HTTP errors of peers
end the refresh of all; a usage report is not retried after a failed connection.

## 4. What is proved

`AppLifecycleProofs` proves, for all sets `Apps` (finite) and `Tasks` and all bounds:

- `TypeCorrect`: `Spec => []TypeOK`;
- `ReviveNeverMeetsTeardown`: `Spec => []ReviveExcludesTeardown`;
- `RowsSafe`: `Spec => RowsComeAndGo`;
- `OwnershipKept`: `Spec => ImplementsOwnership`, the refinement of `AppOwnership`;
- `NoUninstallStranded`: `Spec => []NoStrandedUninstall`, and `NoInstallStranded`:
  `Spec => []NoStrandedInstall`, both from `TasksKept`: `Spec => []KeptInv`;
- `NothingStays`: `Spec => []NothingLeftBehind`.

Assumptions: apps, tasks, the worker and `None` are distinct values
(`ActorsAssumption`), the bounds are naturals (`BoundsAssumption`), `Apps` is finite
(`FiniteAssumption`, for the reconciliation's list of rows).

*The argument.*  `ReviveExcludesTeardown` is not inductive: a step needs to know that
whoever is inside an `async with app_op_lock` is the recorded holder, and for that,
which coroutine can be at which place.  The inductive invariant `IInv` adds to
`TypeOK`: every coroutine is within the code of its operation (`InCode`); a coroutine
in a critical section holds its app's lock (`Critical`); an acting `start_app` has a
row (`Acting`); the restart counter has room while the process stops.  Each action is
shown to be a `Good` step of its coroutine, namely one that leaves the others alone,
takes only a free lock or gives back its own, writes well-typed values and removes a
row only under the worker's lock; `GoodKeepsIInv` then shows once that good steps
preserve `IInv`.  Shutdown, exit and startup are treated separately.  The refinement
uses the same `Good` steps: each is an `Insert`, a `Remove` under the worker's lock, an
`Acquire` of a free lock or a `Leave`; the stop of the process is a `Leave` of several.

`NoStranded*` only ask for a task that is pending, which is too weak to be inductive: a
worker about to return counts as pending too.  `KeptInv` says where the task must be: a
row in `*_QUEUED` has a task in the queue, a handler about to enqueue it, or a worker
that has not written its status yet; a row in INSTALLING or REINSTALLING a worker that
has; a row in an uninstalling status a worker that is neither giving up nor past the
DELETE.  Everybody else writes only statuses that no task has to leave (`Settles`), which
is one lemma for all the operations of wakes and ticks.  The start of a process
re-establishes the uninstalls, not the installs, hence the two parts.
`NothingLeftBehind` needs the order of the teardown (`RemovesLast`: at the DELETE the
directory holds at most a zip) and that a row cannot vanish under an install or
reinstall past its first status (`WorksOnRow`).

`RecoveryProofs` proves of `Recovery`, for any set `Jobs` and all bounds:

- `RecoveryTypeCorrect`: `Spec => []TypeOK`;
- `SnapshotsConsistent`: `Spec => []SnapshotIsCommitted`;
- `IdentityKept`: `Spec => []IdentitySurvives`;
- `ReportsTrue`: `Spec => []ReportsOwnSnapshot`;
- `ReportIdsFree`: `Spec => []ReportIdFree`.

Assumptions: `Nobody` is no job (`JobsAssumption`), the bounds are naturals
(`LimitsAssumption`), a missing file is no image (`MissingAssumption`).

*The argument.*  One inductive invariant `IInv` carries all five.  `JobInv` says what a
job at each place may rely on: it holds the lock, its view is a committed state with
the credentials of the database, the part of its image that it has read agrees with
the view, and then file and container agree with the image; jobs outside the lock know
nothing, so a step under the lock disturbs nobody.  `DataInv` says that every image is
a committed one, that each set of report ids is empty or has a largest element (which
makes `_reset_sequences` well defined), and that the sequence is not behind.
`StartInv` and `BackupInv` follow the credentials: as soon as the container holds a
backup, the machine either has its identities and passphrase (`Keeps`), or has an empty
database and the file that will restore them, and the start has not passed the restore
(`AboutToImport`).  `Keeps` itself survives `MakeDefault` because the
new default is among the chosen ones, and a new machine starts with none chosen.  TLC
checked `IInv` on the instance of `recovery` before the proof.

Of `FirstStart`, for any finite catalogue, any initial apps and any apps in the store
(`CatalogueAssumption`): `InitialAppsAlwaysKept` (`InitialAppsKept`).  `FirstInv` adds that the
steps after `refresh_init_apps` are reached only with the flag set, that a row in
INSTALLATION_QUEUED has its task or is stranded whether the flag is set or not, and that
an app is uninstalled only with it, since requests are served after the start; lemmas about the order
of the lifespan's steps carry it.

`TerminalsProofs` (any terminals, checks and codes; `NamesAssumption`,
`IssuedAssumption`): `OnlyPairedGranted` (`GrantedRightly`), `SettledStayValid`,
`FirstAlwaysNoticed`, `CodesAreSpent`.  The invariant says what each place of a pairing
implies about code, row and token (`Paired`), what a check may count on (`Checking`),
that a settled token means that the secret exists and nobody is creating one
(`Settled`), and that some first terminal is committed as soon as one is, or as soon as
a transaction under way did not see itself as first (`FirstKnown`: without the second
case a rollback would break it).  `CodesAreSpent` adds that issue numbers only grow
(`Numbered`).

`IdentitiesProofs` (any identities, transactions and fills; `InitialAssumption`):
`DefaultAlwaysKept` (`DefaultKept`), `IdentityCacheFollows`.  `DefaultExists` needs
that a `make_default` past its check writes an existing row (`Checked`),
`SingleUnlessClash` that without a clash the one under way has read the default
(`Alone`), `CacheFollows` that a fill holds the default or is known to be late
(`Fresh`).  Of `Avatars`, for any names, extensions and requests: `LatestAvatarShown`
(`LatestShown`), from `GlobAssumption`: an identity's own id finds the files of that
identity only (ids are hashes of one length); other names may find any.  `AvatarsInv`
says that an upload under way has removed what it found (`Holds`) and, unless uploads
crossed, is the only one (`OneUpload`).

`PeersProofs` (any set of ids, any length of short ids; `ShortAssumption`,
`ShardsAssumption`): `TypeCorrect`, `OnlyByKey` (`AuthenticatedByKey`),
`DeletedStaysDeleted` (`NoLateReturn`).  Besides the types the invariant says that an answer about to be
stored belongs to the id that was asked for, and that a verified signer shares the
keyid; lemmas about beginnings of sequences carry this to the looked-up row.

`ManagementProofs` (any number of calls and rotations; `BoundAssumption`,
`SecretsAssumption`): `SecretAlwaysDecides` (`SecretDecides`).  `Knows` says
that an answer about to be saved was the controller's, and is the current one if the
presented secret has been current all the time.

`AuthorizationProofs` proves of `Authorization`, for any apps, rules, clients and
requests: `AuthorizationTyped`, `RulesGrantAccess` (`GrantedByRules`),
`CacheFollowsTable` (`CacheFollows`), `AccessesNoted` (`AccessNoted`).  Assumptions:
`max_update_frequency` is not zero and the markers for no row, never and no entry are no
times and no requests (`TimesAssumption`, `CacheAssumption`), an app has finitely many
paths (`PathsAssumption`), clients are of the three kinds of the code
(`ClientsAssumption`).
- What `_match_path` finds needs a list of the paths in order of decreasing length to
  exist.  This is an induction over finite sets, done by a minimal counterexample: a
  smallest set of paths without such a list would, without its shortest path, have one
  (`SortedExists`, on `LeastNumber`); then the first match in such a list is the longest
  (`MatchIsLongest`).  `RulesInv` carries this through the awaits of a handler: the rule
  in its hands comes from a file that lay on disk since the request came.
- `CacheInv`: what a handler has read and not stored yet agrees with the table, or an
  announcement is under way, or the handler is known to overlap one.
- `AccessInv`: objects of the cache are shared between handlers, so the invariant is
  about who refers to which object.  An object belongs to one app (`OwnObjects`) and is
  never ahead of the row (`ObjectsBehind`); neither rows nor handlers are ahead of the
  clock (`NoFuture`); of two handlers that write one row the overlap is recorded
  (`OneWriter`); `Knows` says what a handler at each place may conclude about the row.

It proves of `TraefikConfig`, for any number of apps and entrypoints: `RoutesSound`
(`ConfigSound`), assuming that no app is called `traefik`, the host of traefik's own
router, which the code does not check (`RoutableAssumption`).  `TraefikInv` says of the
two loops that the routers and services so far are those of the core and of the
entrypoints behind the loops (`Passed`), each with the service of its own key.

`JobsProofs` proves, for all bounds:
- of `Telemetry`: `RequestsReportedOnce` (`ReportedOnce`; `TelemetryBounds`).  Reports
  whose answer is known end where the running interval and count begin
  (`AnsweredOver`), and what is being posted begins there (`SendCurrent`).
- of `UsageReporting`: `UsageReportedRight` (`ReportsMonth`; `DaysAssumption`,
  `NoneAssumption`: the marker for nothing is neither a number nor a set of apps).  The
  property compares a count of tracks with a count of days.  `UsageInv` says that a
  track is what was installed at two o'clock of its day (`TracksRight`), that there is
  none yet of a day whose track is due (`TrackDue`, so a day has one at most), and that
  reports are the counts of months that are over, to which no track is added any more.
  Then tracks map injectively into days, and onto them if every night was tracked; the
  rest is division of hours by days and months.
- of `Push`, for any number of clients and handlers (`PushBounds`): `ClientsMissNothing`
  (`NoGaps`), since the queue is the rest of the numbers and a client that is sent
  anything has the number last taken; `TerminalsUpdateCurrent` (`LastUpdateCurrent`),
  since a change not yet announced has a handler that will read it or has read it
  (`UpdatesComing`), unless that handler has failed.

TLC checked each of these invariants on an instance before it was proved.  With them
every invariant and action property that a run checks has a theorem.  Only
model-checked are the temporal properties: liveness under fairness (`WaitersServed`,
`UninstallTakenUp`, `TeardownCompletes`, `EveryClientServed`, `ComesUp`, `BackupEnds`,
and all of `ControlApps`) is out of the prover's reach.

## 5. Not modelled, and what is left

- **Data models** (`data_model/traefik_dyn_config.py`, `data_model/backend`): generated
  or plain records, 1400 lines without behaviour.
- **Handlers that only read or pass on** (`web/internal/call_*.py`, `app_error.py`,
  `web/protected/stats.py`, `help.py`), settings, logging, cryptographic primitives,
  image pruning, the wiring of routers and middlewares in `app_factory.py`.
- **Character-level conversions**: the human encoding, old versions of app metadata, the
  text of archives.  They are pure functions of strings that unit tests cover.
- **Schema migrations** (yoyo) and the connection pool of `database/connection.py`: its
  limit and timeouts appear as requests that end early.
- **Failing file writes** of the app directories and raising signal handlers.

Worth doing next: what of `ControlApps` is safety (that a demotion takes the app used
least recently among those the snapshot showed, that no app is called twice in one tick)
as invariants with theorems; an abstract specification of what `/auth` promises that
`Authorization` implements; and of the backup as one atomic copy that `Recovery`
implements.
