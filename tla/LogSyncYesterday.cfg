SPECIFICATION Spec

CONSTANTS
    Procs = {p1}
    Files = {f1}
    Windows <- OnlyYesterday
    Forces <- NoForce
    DayLen = 1
    SecondLen = 1
    Usage <- FirstMisread
    TailRecords = 9
    Faults = {}
    MaxTime = 3
    MaxRecords = 2
    MaxFaults = 0
    Free = Free
    NoFile = NoFile

INVARIANT SyncCoversWindow
