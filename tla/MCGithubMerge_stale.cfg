CONSTANTS
    None = None
    Traceback = Traceback
    Killed = Killed
    CanCrash = TRUE
    Remotes <- MCRemotes
    MaxRuns = 2
    ShellEffects <- MCSafeEffects
SPECIFICATION Spec
PROPERTY GitHubMergeConfirmed
