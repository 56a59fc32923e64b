SPECIFICATION FairSpec

CONSTANTS
    LocalTicks = {}
    CodespacesTicks = {}
    Posts = {p1}
    LocalStart = LocalStart
    CodespacesStart = CodespacesStart
    Stream = Stream
    AutoMode = FALSE
    Streaming = TRUE
    Faults = {}
    MaxVersion = 1
    MaxDay = 0
    MaxFaults = 0
    MaxLost = 1
    Nobody = Nobody

PROPERTY EveryLocalWriteIsShown
