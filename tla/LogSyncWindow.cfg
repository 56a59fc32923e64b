SPECIFICATION Spec

CONSTANTS
    Procs = {p1, p2}
    Files = {f1, f2}
    Windows <- OnlyToday
    Forces <- MayForce
    DayLen = 1
    SecondLen = 1
    Usage <- FirstMisread
    TailRecords = 2
    Faults = {"crash", "commit", "begin"}
    MaxTime = 2
    MaxRecords = 2
    MaxFaults = 1
    Free = Free
    NoFile = NoFile

INVARIANT SyncInv
INVARIANT SkippedFilesAreStored
INVARIANT SyncCoversWindow
INVARIANT TwinsAreTransient
INVARIANT ParsedLogsHaveWorkspaces
PROPERTY ImplementsLedger
SYMMETRY ProcSymmetry
