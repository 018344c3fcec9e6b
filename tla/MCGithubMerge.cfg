CONSTANTS
    None = None
    Traceback = Traceback
    Killed = Killed
    CanCrash = TRUE
    Remotes <- MCRemotes
    MaxRuns = 4
    ShellEffects <- MCSafeEffects
SPECIFICATION Spec
INVARIANT TypeOK
INVARIANT TrailerAttestsTree
INVARIANT MirrorsNeverAhead
INVARIANT NoSymlinkPublished
PROPERTY OnlySignedPublished
PROPERTY SymlinkRejectionExact
