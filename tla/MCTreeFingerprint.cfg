CONSTANTS
    Paths <- MCPaths
    ByteVals <- MCByteVals
    Kinds <- MCBlobOnly
    MaxSize = 3
    CHUNK = 2
    CanCrash = TRUE
    Pending = Pending
    Failed = Failed

SPECIFICATION Spec

INVARIANT TypeOK

PROPERTY ImplementsFingerprintSpec
