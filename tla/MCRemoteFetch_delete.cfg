CONSTANTS
    Logins <- MCLogins
    Texts <- MCTexts
    Bodies <- MCTexts
    Null = Null
    Pending = Pending
    PerPage = 1
    MaxLen = 3
    MaxEdits = 1
    CanDelete = TRUE

SPECIFICATION Spec

INVARIANT ResultIsASnapshot
