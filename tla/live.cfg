SPECIFICATION LiveSpec
CONSTANTS
    Apps = {a}
    Tasks = {t1}
    Worker = worker
    None = none
    MaxQueue = 2
    MaxRestarts = 0
    Sockets = {s1, s2}
    i1 = i1
    i2 = i2
    other = other
    Catalogue = {i1, i2, other}
    InitialApps = {i1, i2}
    Stores <- TwoStores
    MaxFailures = 2
    MaxRequests = 2
    Jobs = {b1, b2}
    Nobody = nobody
    Missing = missing
INVARIANT InitialAppsKept
PROPERTIES WaitersServed UninstallTakenUp TeardownCompletes
PROPERTIES EveryClientServed ComesUp BackupEnds
CHECK_DEADLOCK FALSE
