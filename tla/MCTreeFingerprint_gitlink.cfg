CONSTANTS
    Paths <- MCPaths
    ByteVals <- MCByteVals
    Kinds <- MCGitlinks
    MaxSize = 3
    CHUNK = 2
    CanCrash = FALSE
    Pending = Pending
    Failed = Failed

SPECIFICATION Spec


PROPERTY ImplementsFingerprintSpec
