SPECIFICATION Spec
CONSTANTS
    Apps = {a}
    Tasks = {t1, t2}
    Worker = worker
    None = none
    MaxQueue = 1
    MaxRestarts = 0
SYMMETRY TaskSymmetry
INVARIANTS ReviveExcludesTeardown NoStrandedInstall
