CONSTANTS
    Logins <- MCLogins
    Texts <- MCTexts
    Bodies <- MCBodiesWithNull
    Null = Null
    Pending = Pending
    PerPage = 1
    MaxLen = 3
    MaxEdits = 1
    CanDelete = FALSE

SPECIFICATION Spec

INVARIANT FailsOnlyOnError
