CONSTANTS
    Users <- MCUsers
    Lines <- MCLines
    HeadAbbrev = "abcdef"
    MaxLines = 2
    MaxRecords = 3
    NoAcks = NoAcks

SPECIFICATION Spec

INVARIANT TypeOK
INVARIANT AcksAreLastWrite
