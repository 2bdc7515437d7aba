SPECIFICATION Spec
CONSTANTS
    Jobs = {b1}
    Nobody = nobody
    Missing = missing
    MaxChanges = 0
    MaxReports = 1
    MaxCrashes = 1
INVARIANT MigratedOnce
