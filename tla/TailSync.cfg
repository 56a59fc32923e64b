SPECIFICATION Spec

CONSTANTS
    Files = {f1, f2}
    Blocks = {a, b}
    Window = 1
    Changes = {"append", "replace", "remove"}
    Faults = {"stat", "copy", "recopy", "digest", "store"}
    MaxBlocks = 2
    MaxChanges = 2
    MaxFaults = 1
    NoFile = NoFile
    Gone = Gone

INVARIANT TypeOK
INVARIANT QuietLogsAreMirrored
INVARIANT CheckpointsDescribeMirrors
INVARIANT DroppedIsDisconnected
