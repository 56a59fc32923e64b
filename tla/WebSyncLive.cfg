SPECIFICATION FairSpec

CONSTANTS
    LocalTicks = {t1}
    CodespacesTicks = {c1}
    Posts = {}
    LocalStart = LocalStart
    CodespacesStart = CodespacesStart
    Stream = Stream
    AutoMode = TRUE
    Streaming = FALSE
    Faults = {"check", "sync", "nologs", "copy"}
    MaxVersion = 1
    MaxDay = 0
    MaxFaults = 1
    MaxLost = 1
    Nobody = Nobody

PROPERTY WritesAreShown
PROPERTY StartupEnds
PROPERTY InProgressPasses
