SPECIFICATION Spec

CONSTANTS
    Procs = {p1, p2}
    Files = {f1}
    Windows <- OnlyToday
    Forces <- MayForce
    DayLen = 2
    SecondLen = 2
    Usage <- SecondMisread
    TailRecords = 1
    Faults = {"crash", "commit", "begin", "read", "busy", "sametick"}
    MaxTime = 1
    MaxRecords = 2
    MaxFaults = 2
    Free = Free
    NoFile = NoFile

PROPERTY CallsAreKept
SYMMETRY ProcSymmetry
