SPECIFICATION Spec

CONSTANTS
    LocalTicks = {}
    CodespacesTicks = {c1}
    Posts = {post}
    LocalStart = LocalStart
    CodespacesStart = CodespacesStart
    Stream = Stream
    AutoMode = TRUE
    Streaming = TRUE
    Faults = {"scan", "check", "nologs", "sync", "copy"}
    MaxVersion = 1
    MaxDay = 1
    MaxFaults = 1
    MaxLost = 1
    Nobody = Nobody

INVARIANT TypeOK
INVARIANT SnapshotInv
INVARIANT SnapshotShowsDatabase
PROPERTY SnapshotNeverGoesBack
