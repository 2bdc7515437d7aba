SPECIFICATION Spec
CONSTANTS
    Apps = {a}
    Tasks = {t1}
    Worker = worker
    None = none
    MaxQueue = 1
    MaxRestarts = 0
INVARIANT ThawedBeforeStop
