CONSTANTS
    Callers = {1, 2, 3}
    Keys = {"pinned", "other"}
    PinnedKey = "pinned"
    MaxMoves = 1
    PrefixLen = 2
    MaxPacket = 3
    BufferSize = 2
    Streams <- MCStreams
    Chunk = 2
    MaxFileSize = 5
    MaxEntries = 3
    Contents <- MCContents
    Directories <- MCDirectories
SPECIFICATION AllSpec
INVARIANTS
    OneDeployment PasswordToPinnedHost DeploymentsAreTrue StreamIsTrue FilesAreTrue
PROPERTY NothingHangs
CHECK_DEADLOCK FALSE
