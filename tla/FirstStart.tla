----------------------------- MODULE FirstStart -----------------------------
(***************************************************************************)
(* The start of the process (app_factory.lifespan) and the apps a new      *)
(* shard comes with (refresh_init_apps): every step of the start may raise *)
(* or be cut off, which ends the process, and it is then started again.    *)
(* The queue of the installation worker dies with the process; rows and    *)
(* the flag initial_apps_installed survive in the database.                *)
(***************************************************************************)
EXTENDS Naturals, Sequences, FiniteSets, SequencesExt

CONSTANTS
    Catalogue,     \* apps there are
    InitialApps,   \* settings: apps.initial_apps
    Stores,        \* sets of apps the store may have
    MaxFailures,   \* bound of failed and cut off starts and of crashes
    MaxRequests    \* bound of what the owner asks for

ASSUME CatalogueAssumption ==
    /\ IsFiniteSet(Catalogue) /\ InitialApps \subseteq Catalogue
    /\ Stores \subseteq SUBSET Catalogue
    /\ {MaxFailures, MaxRequests} \subseteq Nat

VARIABLES
    step,      \* how far the lifespan has come
    status,    \* status of each app, "absent" without a row; INSTALLING and
               \*   UNINSTALLING are INSTALLATION_ and UNINSTALLATION_QUEUED
    todo,      \* apps the worker is to install or uninstall, in order
    flag,      \* initial_apps_installed in kv_store
    store,     \* apps the store has
    failures, requests,
    removed,   \* history: apps that were uninstalled and not asked for since
    stranded   \* history: apps whose queued installation died with a process

startVars == <<step, status, todo, flag, store, failures, requests, removed, stranded>>

-----------------------------------------------------------------------------
(* lifespan, in its order; "up" is the yield.                              *)
Steps ==
    <<"init_database", "init_default_identity", "write_traefik_dyn_config",
      "render_all_docker_compose_templates", "login_docker_registries", "migrate",
      "reconcile_interrupted_uninstalls", "refresh_init_apps", "ensure_backup_passphrase",
      "refresh_profile", "background_tasks", "print_welcome_log", "up">>

After(s) == Steps[(CHOOSE i \in DOMAIN Steps : Steps[i] = s) + 1]

FirstInit ==
    /\ step = "init_database"
    /\ status = [a \in Catalogue |-> "absent"]
    /\ todo = <<>>
    /\ flag = FALSE
    /\ store \in Stores
    /\ failures = 0 /\ requests = 0
    /\ removed = {} /\ stranded = {}

-----------------------------------------------------------------------------
(* The process ends, and with it the queue of the worker; the rows stay,   *)
(* and no later start looks for those that wait for an installation.       *)
ProcessEnds ==
    /\ step' = "init_database"
    /\ todo' = <<>>
    /\ stranded' = stranded \cup {a \in Catalogue : status[a] = "INSTALLATION_QUEUED"}

(* Fault: an error of refresh_profile is not caught, and the controller    *)
(* cannot be reached.                                                      *)
PlainStepRaises ==
    /\ step \notin {"reconcile_interrupted_uninstalls", "refresh_init_apps", "up"}
    /\ \/ step = "refresh_profile" /\ ProcessEnds
       \/ step # "refresh_profile" /\ step' = After(step) /\ UNCHANGED <<todo, stranded>>
    /\ UNCHANGED <<status, flag, store, failures, requests, removed>>

(* Steps that leave apps and flag alone; login_docker_registries and       *)
(* refresh_profile catch their errors.                                     *)
PlainStep ==
    /\ step \notin {"reconcile_interrupted_uninstalls", "refresh_init_apps", "up"}
    /\ step' = After(step)
    /\ UNCHANGED <<status, todo, flag, store, failures, requests, removed, stranded>>

Task(type, a) == [type |-> type, app |-> a]

(* Rows of uninstalls that the last process did not finish are queued      *)
(* again, in the order of the SELECT.                                      *)
Reconcile ==
    /\ step = "reconcile_interrupted_uninstalls"
    /\ \E order \in SetToSeqs({a \in Catalogue : status[a] = "UNINSTALLATION_QUEUED"}) :
          todo' = todo \o [i \in DOMAIN order |-> Task("uninstall", order[i])]
    /\ step' = After(step)
    /\ UNCHANGED <<status, flag, store, failures, requests, removed, stranded>>

ToInstall == {a \in InitialApps : status[a] = "absent"}

(* install_app_from_store: the row first, then the task.                   *)
Install(a) ==
    /\ status' = [status EXCEPT ![a] = "INSTALLATION_QUEUED"]
    /\ todo' = Append(todo, Task("install", a))

(* refresh_init_apps: one app after the other.  An app the store does not  *)
(* have raises AppDoesNotExist, see StartFails.                            *)
InstallInitialApp(a) ==
    /\ step = "refresh_init_apps" /\ ~flag
    /\ a \in ToInstall \cap store
    /\ Install(a)
    /\ UNCHANGED <<step, flag, store, failures, requests, removed, stranded>>

(* Fault: the flag is not looked at.                                       *)
FlagIgnored ==
    /\ step = "refresh_init_apps"
    /\ flag' = FALSE
    /\ ToInstall = {}
    /\ step' = After(step)
    /\ UNCHANGED <<status, todo, store, failures, requests, removed, stranded>>

(* ... and the flag when all have been queued; with the flag nothing.      *)
RefreshInitApps ==
    /\ step = "refresh_init_apps"
    /\ flag \/ ToInstall = {}
    /\ flag' = TRUE
    /\ step' = After(step)
    /\ UNCHANGED <<status, todo, store, failures, requests, removed, stranded>>

(* An exception in the start, a kill, or a crash later on: the container   *)
(* starts the process again.                                               *)
Restart ==
    /\ failures < MaxFailures
    /\ failures' = failures + 1
    /\ ProcessEnds
    /\ UNCHANGED <<status, flag, store, requests, removed>>

(* AppDoesNotExist ends every start until the store has the app.           *)
StartFails ==
    /\ step = "refresh_init_apps" /\ ~flag
    /\ ToInstall \ store # {}
    /\ ProcessEnds
    /\ UNCHANGED <<status, flag, store, failures, requests, removed>>

(* The worker, a background task: see AppInstallation for its steps.  It   *)
(* uninstalls whatever the row says.                                       *)
WorkerEnds(outcome) ==
    LET task == Head(todo) a == task.app IN
    /\ step \in {"print_welcome_log", "up"}
    /\ todo # <<>>
    /\ todo' = Tail(todo)
    /\ status' = CASE task.type = "uninstall" ->
                        [status EXCEPT ![a] = "absent"]
                   [] task.type = "install" /\ status[a] = "INSTALLATION_QUEUED" ->
                        [status EXCEPT ![a] = outcome]
                   [] OTHER -> status
    /\ IF task.type = "uninstall"
       THEN removed' = removed \cup {a} /\ stranded' = stranded \ {a}
       ELSE UNCHANGED <<removed, stranded>>
    /\ UNCHANGED <<step, flag, store, failures, requests>>

Asked == requests < MaxRequests /\ requests' = requests + 1 /\ step = "up"

AskUninstall(a) ==
    /\ Asked
    /\ status[a] # "absent"
    /\ status' = [status EXCEPT ![a] = "UNINSTALLATION_QUEUED"]
    /\ todo' = Append(todo, Task("uninstall", a))
    /\ UNCHANGED <<step, flag, store, failures, removed, stranded>>

AskInstall(a) ==
    /\ Asked
    /\ status[a] = "absent" /\ a \in store
    /\ Install(a)
    /\ removed' = removed \ {a}
    /\ UNCHANGED <<step, flag, store, failures, stranded>>

StoreChange ==
    /\ store' \in Stores \ {store}
    /\ UNCHANGED <<step, status, todo, flag, failures, requests, removed, stranded>>

-----------------------------------------------------------------------------
LifespanStep ==
    \/ PlainStep \/ Reconcile \/ RefreshInitApps \/ StartFails
    \/ \E a \in InitialApps : InstallInitialApp(a)

FirstNext ==
    \/ LifespanStep \/ Restart
    \/ \E outcome \in {"STOPPED", "ERROR"} : WorkerEnds(outcome)
    \/ \E a \in Catalogue : AskUninstall(a) \/ AskInstall(a)
    \/ StoreChange

FirstSpec == FirstInit /\ [][FirstNext]_startVars

(* The event loop goes on with the start and with the worker; the          *)
(* container runtime starts the process again.                             *)
FirstFairSpec ==
    /\ FirstSpec
    /\ WF_startVars(LifespanStep)
    /\ WF_startVars(\E outcome \in {"STOPPED", "ERROR"} : WorkerEnds(outcome))

-----------------------------------------------------------------------------
InstallPending(a) == \E i \in DOMAIN todo : todo[i] = Task("install", a)

(* With the flag set no initial app has been forgotten, although starts    *)
(* end between any two steps.  The worker has dealt with it or has yet to, *)
(* or the owner has removed it, or a process ended with its installation   *)
(* queued: then its row stays as it is, and no start installs it again.    *)
NoneForgotten ==
    flag => \A a \in InitialApps :
        /\ status[a] = "absent" => a \in removed
        /\ status[a] = "INSTALLATION_QUEUED" => InstallPending(a) \/ a \in stranded

(* An app the owner has uninstalled is not installed again by a start.     *)
UninstalledStaysOut == \A a \in removed : status[a] = "absent"

(* A start that fails, is cut off or comes later neither passes over an    *)
(* initial app nor brings back one the owner removed (refresh_init_apps).  *)
(* It does not promise an installation: one that was queued when a process *)
(* ended never comes.                                                      *)
InitialAppsKept == NoneForgotten /\ UninstalledStaysOut

(* The shard comes up, after failed and cut off starts and uninstalls in   *)
(* any order, if the store comes to have the initial apps.                 *)
ComesUp == <>[](InitialApps \subseteq store) => <>[](step = "up")
=============================================================================
