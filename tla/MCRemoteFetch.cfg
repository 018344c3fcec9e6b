CONSTANTS
    Logins <- MCLogins
    Texts <- MCTexts
    Bodies <- MCTexts
    Null = Null
    Pending = Pending
    PerPage = 2
    MaxLen = 5
    MaxEdits = 2
    CanDelete = TRUE

SPECIFICATION Spec

INVARIANT NoPageFetchedTwice

INVARIANT FailsOnlyOnError

INVARIANT SnapshotUnlessDeleted
