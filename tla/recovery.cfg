SPECIFICATION JobsSpec
CONSTANTS
    Jobs = {b1, b2}
    Nobody = nobody
    Missing = missing
    MaxChanges = 2
    MaxReports = 2
    MaxCrashes = 2
    MaxSnapshots = 2
    MaxRecorded = 3
    MaxTime = 2
    MaxStored = 2
    Apps = {app}
    DaysPerMonth = 2
    MaxDays = 5
    MaxTries = 2
    MaxRestarts = 2
    None = nobody
    MaxMessages = 2
    MaxTableChanges = 2
    Sockets = {b1, b2}
    Writers = {w1, w2}
SYMMETRY Symmetry
INVARIANTS SnapshotIsCommitted IdentitySurvives ReportsOwnSnapshot ReportIdFree
INVARIANTS ReportedOnce ReportsMonth NoGaps LastUpdateCurrent
CHECK_DEADLOCK FALSE
