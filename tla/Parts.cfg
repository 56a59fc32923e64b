SPECIFICATION PartsSpec
CONSTANTS
    ModelNames <- MCModelNames
    PricingPeriods <- MCPricing
    Rows <- MCRows
    Workspaces <- MCWorkspaces
    Offsets <- MCOffsets
    Times = {2880, 4320}
    Needles = {"", "app"}
    Today = 3
    MaxRows = 3
    MaxDays = 3
    None = None
    Formats = {"usage", "telemetry", "both"}
    LoggedModels <- MCModelNames
    UnknownModel <- MCUnknown
    Ranges <- MCRanges
    BlockEnd = 2
    ModelBlockEnd = 4
    TailLines = 5
    LastDay = 2
    MaxLines = 6
    MaxCalls = 2
    MaxSyncs = 2
    Machines = {"m1", "m2"}
    LogsOf <- MCLogsOf
    MaxCallsOfLog = 2
    NoServer = NoServer
    SidecarFaults = {"save", "spawn", "server", "app"}
    MaxChanges = 3
    MaxServers = 5
INVARIANT TotalsAgree
INVARIANT CostsAgree
INVARIANT WindowsAgree
INVARIANT WindowIsWhatItSays
INVARIANT CallsCountOnce
INVARIANT TurnsAreCharged
INVARIANT MarksVouchForCalls
INVARIANT DashboardIsServed
INVARIANT NoOrphans
CHECK_DEADLOCK FALSE
