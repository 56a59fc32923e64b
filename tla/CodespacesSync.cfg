SPECIFICATION MCSpec

CONSTANTS
    Codespaces = {c1, c2}
    Logs = {l1}
    Options <- AllOptions
    Workers = 2
    MaxRetries = 2
    Faults = {"list", "ls", "mktemp", "ssh", "cp", "throttle", "stop", "ingest", "idle", "crash"}
    MaxUse = 2
    MaxFaults = 1
    Free = Free

INVARIANT UnchangedMeansStored
INVARIANT StartedHoldsSlot
INVARIANT TickDelivers
INVARIANT CodespacesInv
PROPERTY DatabaseCatchesUp
