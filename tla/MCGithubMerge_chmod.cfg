CONSTANTS
    None = None
    Traceback = Traceback
    Killed = Killed
    CanCrash = FALSE
    Remotes <- MCRemotes
    MaxRuns = 1
    ShellEffects <- MCModeEffects
SPECIFICATION Spec
PROPERTY OnlySignedPublished
