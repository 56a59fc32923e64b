SPECIFICATION FairSpec

CONSTANTS
    Procs = {p1, p2}
    Files = {f1}
    Windows <- OnlyAll
    Forces <- MayForce
    DayLen = 3
    SecondLen = 3
    Usage <- FirstMisread
    TailRecords = 1
    Faults = {"crash", "commit", "begin"}
    MaxTime = 2
    MaxRecords = 2
    MaxFaults = 1
    Free = Free
    NoFile = NoFile

INVARIANT ForcedSyncStoresEverything
PROPERTY EveryRecordIsEventuallyStored
PROPERTY TwinsHeal
PROPERTY MisreadsHeal
