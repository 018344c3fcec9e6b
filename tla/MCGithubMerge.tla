--------------------------- MODULE MCGithubMerge ---------------------------
(* Model-checking instance of GithubMerge: one primary remote and two     *)
(* push mirrors.                                                           *)
EXTENDS GithubMerge

MCRemotes == <<"origin", "mirror", "mirror2">>

\* A test command or shell that leaves git alone, edits the worktree, or
\* commits an edit: the well-behaved and the detected cases.
MCSafeEffects == {"none", "edit", "commit"}

\* Also staging an edit without committing it.
MCStageEffects == {"none", "stage"}

\* Also committing a change of file mode only.
MCModeEffects == {"none", "chmod"}

\* Also creating and switching to another branch.
MCSwitchEffects == {"none", "switch"}
=============================================================================
