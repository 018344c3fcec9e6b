CONSTANTS
    None = None
    Traceback = Traceback
    Killed = Killed
    CanCrash = FALSE
    Remotes <- MCRemotes
    MaxRuns = 1
    ShellEffects <- MCSwitchEffects
SPECIFICATION Spec
PROPERTY OnlySignedPublished
