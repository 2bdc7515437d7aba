SPECIFICATION Spec
CONSTANTS
    Apps = {a}
    Tasks = {t1}
    Worker = worker
    None = none
    MaxQueue = 2
    MaxRestarts = 2
INVARIANTS TypeOK NoStrandedUninstall NothingLeftBehind
PROPERTIES RowsComeAndGo ImplementsOwnership
