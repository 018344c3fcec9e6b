CONSTANTS
    None = None
    Traceback = Traceback
    Killed = Killed
    CanCrash = FALSE
    Remotes <- MCRemotes
    MaxRuns = 2
    ShellEffects <- MCSafeEffects
SPECIFICATION Spec
INVARIANT EveryExitCleansUp
