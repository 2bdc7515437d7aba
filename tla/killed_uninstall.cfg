SPECIFICATION FairSpec
CONSTANTS
    Apps = {a}
    Tasks = {t1}
    Worker = worker
    None = none
    MaxQueue = 1
    MaxRestarts = 1
PROPERTY InterruptedUninstallResumed
