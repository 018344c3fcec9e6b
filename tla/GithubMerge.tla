---------------------------- MODULE GithubMerge ----------------------------
(***************************************************************************)
(* The merge session of src/src/chiabls/devtools/github-merge.py, main():  *)
(* one run of the script constructs a merge of pull request PULL onto the  *)
(* target branch, fingerprints it, hands it to a test command or an        *)
(* interactive shell, amends the message with ACKs and the Tree-SHA512     *)
(* trailer, has it signed, installs it on the branch, deletes the four     *)
(* temporary pull/PULL/* branches and pushes to the remotes.               *)
(*                                                                         *)
(* The repository (branches, HEAD, index, worktree) and the remotes        *)
(* persist between runs, so the model runs the script up to MaxRuns times  *)
(* over the same repository: what one run leaves behind is what the next   *)
(* run starts from.  GitHub's own merge of the pull request (the ref       *)
(* refs/pull/PULL/merge on the server) is state too: GitHub recomputes it  *)
(* between runs, and drops it while the pull request does not merge.       *)
(* A run may be killed at any point (SIGHUP when the terminal closes, kill *)
(* -9, power loss): Python then runs no finally, and whatever the run had  *)
(* done to the repository stays for the next one.                          *)
(*                                                                         *)
(* Data is abstracted to what the properties tell apart: a tree is a       *)
(* token with a listing of [path, mode] entries (contents left out), its   *)
(* fingerprint is the token up to file modes (spec 4.3; TreeFingerprint    *)
(* shows the engine tells (path, content) sets apart), a commit is a       *)
(* record of the run that made it, its kind, tree, signature and trailer.  *)
(***************************************************************************)
EXTENDS Naturals, Sequences, FiniteSets

CONSTANTS
    Remotes,       \* <<host_repo>> \o push_mirrors, in push order (470-472)
    MaxRuns,       \* how many times the script is run on the repository
    ShellEffects,  \* what the test command / interactive shell may do to git
    None,          \* a missing branch, or no exit code yet
    Traceback,     \* the run ended by an uncaught exception (exit status 1)
    Killed,        \* the run was killed by a signal
    CanCrash       \* whether a run may be killed

ASSUME Remotes \in Seq(STRING) /\ Len(Remotes) >= 1
ASSUME MaxRuns \in Nat \ {0}
ASSUME CanCrash \in BOOLEAN
ASSUME ShellEffects \subseteq {"none", "edit", "stage", "commit", "chmod", "switch"}

VARIABLES
    pc,         \* the statement of main() the current run is at
    run,        \* number of the current (or last) run
    exitCode,   \* pending sys.exit code of the run, None while it goes on
    tried,      \* the run entered the try: of line 356
    testcmd,    \* githubmerge.testcmd is set in this run
    refs,       \* local branches: name -> commit or None
    headRef,    \* the branch HEAD points at
    index,      \* the tree staged in the index
    dirty,      \* the worktree has unstaged changes to tracked files
    firstSha,   \* first_sha512 of this run ("none" before line 387)
    remote,     \* remote name -> commit its target branch points at
    ghMerge     \* GitHub's refs/pull/PULL/merge, or None while it has none

vars == <<pc, run, exitCode, tried, testcmd, refs, headRef, index, dirty,
          firstSha, remote, ghMerge>>

(***************************************************************************)
(* Branches, trees and commits                                             *)
(***************************************************************************)
\* branch, and the temporary branches of lines 323-326; "other" is a branch
\* the operator may create from the shell.
RefNames  == {"branch", "base", "head", "merge", "local_merge", "other"}
Ephemeral == {"base", "head", "merge", "local_merge"}

\* t_link, t_sub: a merge result containing a symlink, a submodule; t_alt:
\* GitHub's merge when it differs from ours; t_edit: a tree changed during
\* verification; t_mode: t_merge with a file made executable.
Trees == {"t_base", "t_head", "t_merge", "t_link", "t_sub", "t_alt", "t_edit",
          "t_mode"}

\* The modes `git ls-tree -r` prints, as octal digits.
REG == <<1, 0, 0, 6, 4, 4>>
EXE == <<1, 0, 0, 7, 5, 5>>
LNK == <<1, 2, 0, 0, 0, 0>>
GITLINK == <<1, 6, 0, 0, 0, 0>>

\* The listing of a tree: paths (ranks in byte order) and modes.
TreeEntries(t) ==
    CASE t = "t_link" -> {[path |-> 1, mode |-> REG], [path |-> 2, mode |-> LNK]}
      [] t = "t_sub"  -> {[path |-> 1, mode |-> REG], [path |-> 2, mode |-> GITLINK]}
      [] t = "t_mode" -> {[path |-> 1, mode |-> EXE]}
      [] OTHER        -> {[path |-> 1, mode |-> REG]}

\* tree_sha512sum() digests paths and contents, not modes (spec 4.3).
Fingerprint(t) == IF t = "t_mode" THEN "t_merge" ELSE t
Kinds == {"root", "head", "ghmerge", "merge", "edit"}

Commit == [run: 0..MaxRuns, kind: Kinds, tree: Trees, signed: BOOLEAN,
           trailer: Trees \cup {"none"}]

NewCommit(r, k, t) ==
    [run |-> r, kind |-> k, tree |-> t, signed |-> FALSE, trailer |-> "none"]

RootCommit    == NewCommit(0, "root", "t_base")
PullHead      == NewCommit(0, "head", "t_head")
GitHubMerges  == {NewCommit(0, "ghmerge", t) : t \in {"t_merge", "t_alt"}}

RemoteNames == {Remotes[i] : i \in 1..Len(Remotes)}
ExitCodes   == {None, 0, 1, 3, 4, 5, 6, 8, Traceback, Killed}
Pcs == {"done", "checkout", "fetch", "findHead", "findMerge", "localBranch",
        "merge", "symlinks", "hash1", "verify", "ignorePrompt", "hash2",
        "comments", "amend", "sign", "install", "cleanup", "push"}

(***************************************************************************)
(* git primitives                                                          *)
(***************************************************************************)
HeadTree == refs[headRef].tree

\* git refuses to switch branches over local changes that conflict with the
\* target; with none at all a switch always succeeds.
Clean == index = HeadTree /\ ~dirty

\* The index after switching to a commit with tree t: staged changes are
\* carried over, otherwise the index is the new tree.
Carried(t) == IF index = HeadTree THEN t ELSE index

\* A successful `git checkout r`.
Checkout(r) ==
    /\ refs[r] # None
    /\ headRef' = r
    /\ index' = IF headRef = r THEN index ELSE Carried(refs[r].tree)

\* A `git checkout r` that fails because of local changes.
CheckoutConflict(r) == headRef # r /\ ~Clean

SS == INSTANCE SymlinkScan

\* len(get_symlink_files()) of lines 379-383, for HEAD's tree t.
SymlinkCount(t) == Len(SS!SymlinkFiles(TreeEntries(t)))

\* Line 160: tree_sha512sum() asserts every listed entry is a blob.
HasGitlink(t) == \E e \in TreeEntries(t) : e.mode = GITLINK

\* The base already contains the pull request: it is a commit made by an
\* earlier run (a merge of this pull) that reached the remote.
AlreadyMerged == refs["base"].kind # "root"

\* A sys.exit() or an uncaught exception inside the try: runs the finally.
ExitViaFinally(code) == exitCode' = code /\ pc' = "cleanup"

\* A sys.exit() or an uncaught exception before the try: ends the run.
ExitNow(code) == exitCode' = code /\ pc' = "done"

(***************************************************************************)
(* Init                                                                    *)
(***************************************************************************)
Init ==
    /\ pc = "done"
    /\ run = 0
    /\ exitCode = None
    /\ tried = FALSE
    /\ testcmd = FALSE
    /\ refs = [r \in RefNames |-> IF r = "branch" THEN RootCommit ELSE None]
    /\ headRef = "branch"
    /\ index = "t_base"
    /\ dirty = FALSE
    /\ firstSha = "none"
    /\ remote = [x \in RemoteNames |-> RootCommit]
    /\ ghMerge \in GitHubMerges \cup {None}


(***************************************************************************)
(* Actions: one per step of main(), named after what the code does         *)
(***************************************************************************)

\* Lines 270-320: read the git config and the command line, fetch the pull
\* request's record.  A missing repository or signing key, an unreadable
\* pull request or --repo-from off master exits 1 before touching git.
StartRun ==
    /\ pc = "done"
    /\ run < MaxRuns
    /\ run' = run + 1
    /\ tried' = FALSE
    /\ firstSha' = "none"
    /\ \E tc \in BOOLEAN : testcmd' = tc
    /\ \/ exitCode' = None /\ pc' = "checkout"
       \/ ExitNow(1)
    /\ UNCHANGED <<refs, headRef, index, dirty, remote, ghMerge>>

\* Lines 329-333: git checkout branch, exit 3 if that fails.
CheckoutBranch ==
    /\ pc = "checkout"
    /\ \/ Checkout("branch") /\ pc' = "fetch" /\ UNCHANGED exitCode
       \/ CheckoutConflict("branch") /\ ExitNow(3) /\ UNCHANGED <<headRef, index>>
    /\ UNCHANGED <<run, tried, testcmd, refs, dirty, firstSha, remote, ghMerge>>

\* Lines 334-339: one forced fetch of refs/pull/PULL/* into pull/PULL/* and
\* of the remote's branch into pull/PULL/base.  The glob only updates the
\* pull refs the server has: GitHub has no refs/pull/PULL/merge for a pull
\* request that does not merge cleanly, and none at all for a bad number.
Fetch ==
    /\ pc = "fetch"
    /\ \/ ExitNow(3) /\ UNCHANGED refs
       \/ \E pullExists \in BOOLEAN :
            /\ pullExists \/ ghMerge = None
            /\ refs' = [refs EXCEPT
                          !["base"]  = remote[Remotes[1]],
                          !["head"]  = IF pullExists THEN PullHead ELSE @,
                          !["merge"] = IF ghMerge # None THEN ghMerge ELSE @]
            /\ pc' = "findHead"
            /\ UNCHANGED exitCode
    /\ UNCHANGED <<run, tried, testcmd, headRef, index, dirty, firstSha,
                   remote, ghMerge>>

\* Lines 340-346: the head branch must exist, else exit 3.
FindHead ==
    /\ pc = "findHead"
    /\ IF refs["head"] = None
       THEN ExitNow(3)
       ELSE pc' = "findMerge" /\ UNCHANGED exitCode
    /\ UNCHANGED <<run, tried, testcmd, refs, headRef, index, dirty, firstSha,
                   remote, ghMerge>>

\* Lines 347-351: the merge branch must exist.  The error message at line
\* 350 applies % to a string with no conversion specifier, which raises
\* TypeError: the run ends with a traceback instead of exit 3.
FindMerge ==
    /\ pc = "findMerge"
    /\ IF refs["merge"] = None
       THEN ExitNow(Traceback)
       ELSE pc' = "localBranch" /\ UNCHANGED exitCode
    /\ UNCHANGED <<run, tried, testcmd, refs, headRef, index, dirty, firstSha,
                   remote, ghMerge>>

\* Lines 352-354: git checkout base; git branch -D local_merge (errors
\* ignored); git checkout -b local_merge.  A failing check_call here is
\* outside the try: the run ends with a traceback and no cleanup.
MakeLocalBranch ==
    /\ pc = "localBranch"
    /\ \/ /\ index' = Carried(refs["base"].tree)
          /\ refs' = [refs EXCEPT !["local_merge"] = refs["base"]]
          /\ headRef' = "local_merge"
          /\ tried' = TRUE
          /\ pc' = "merge"
          /\ UNCHANGED exitCode
       \/ /\ CheckoutConflict("base")
          /\ ExitNow(Traceback)
          /\ UNCHANGED <<refs, headRef, index, tried>>
    /\ UNCHANGED <<run, testcmd, dirty, firstSha, remote, ghMerge>>

\* Lines 360-377: compose the message and `git merge --no-ff` the head
\* branch.  A conflict (or local changes in the way) runs `merge --abort`
\* and exits 4; a merge that makes no commit because the base already
\* contains the pull fails the subject-line check and exits 4.  A clean
\* merge's tree may contain a symlink (t_link).
Merge ==
    /\ pc = "merge"
    /\ \/ /\ ~AlreadyMerged
          /\ index = HeadTree
          /\ \E t \in {"t_merge", "t_link", "t_sub"} :
                /\ refs' = [refs EXCEPT ![headRef] = NewCommit(run, "merge", t)]
                /\ index' = t
          /\ pc' = "symlinks"
          /\ UNCHANGED exitCode
       \/ ExitViaFinally(4) /\ UNCHANGED <<refs, index>>
    /\ UNCHANGED <<run, tried, testcmd, headRef, dirty, firstSha, remote,
                   ghMerge>>

\* Mutant: the symlink test off by one (len(symlink_files) > 1).
CheckSymlinksOffByOne ==
    /\ pc = "symlinks"
    /\ \/ IF SymlinkCount(HeadTree) > 1
          THEN ExitViaFinally(4)
          ELSE pc' = "hash1" /\ UNCHANGED exitCode
       \/ ExitViaFinally(Traceback)
    /\ UNCHANGED <<run, tried, testcmd, refs, headRef, index, dirty, firstSha,
                   remote, ghMerge>>

\* Lines 379-383: exit 4 if HEAD's tree has any symlink; `git ls-tree` failing
\* in get_symlink_files (check_output, line 146) raises.
CheckSymlinks ==
    /\ pc = "symlinks"
    /\ \/ IF SymlinkCount(HeadTree) > 0
          THEN ExitViaFinally(4)
          ELSE pc' = "hash1" /\ UNCHANGED exitCode
       \/ ExitViaFinally(Traceback)
    /\ UNCHANGED <<run, tried, testcmd, refs, headRef, index, dirty, firstSha,
                   remote, ghMerge>>

\* Lines 385-390: first_sha512 = tree_sha512sum() of HEAD.  A failing
\* `git ls-tree` exits 4; a short read of `git cat-file`, or a submodule
\* (the assert of line 160), raises an exception nothing catches.
FirstHash ==
    /\ pc = "hash1"
    /\ \/ /\ ~HasGitlink(HeadTree)
          /\ firstSha' = Fingerprint(HeadTree)
          /\ pc' = "verify"
          /\ UNCHANGED exitCode
       \/ ExitViaFinally(4) /\ UNCHANGED firstSha
       \/ ExitViaFinally(Traceback) /\ UNCHANGED firstSha
    /\ UNCHANGED <<run, tried, testcmd, refs, headRef, index, dirty, remote,
                   ghMerge>>

\* What the test command or the interactive shell (lines 397, 418), both
\* arbitrary programs on the checked-out tree, may do to the repository:
\* nothing, edit tracked files, stage an edit, commit an edit on HEAD,
\* commit a mode change (chmod +x; `git commit -a`) on HEAD, or
\* `git checkout -b other` (same commit, another branch).
ShellEffect(e) ==
    CASE e = "none"   -> UNCHANGED <<refs, headRef, index, dirty>>
      [] e = "edit"   -> dirty' = TRUE /\ UNCHANGED <<refs, headRef, index>>
      [] e = "stage"  -> index' = "t_edit" /\ UNCHANGED <<refs, headRef, dirty>>
      [] e = "commit" -> /\ refs' = [refs EXCEPT ![headRef] =
                                       NewCommit(run, "edit", "t_edit")]
                         /\ index' = "t_edit"
                         /\ UNCHANGED <<headRef, dirty>>
      [] e = "chmod"  -> /\ HeadTree = "t_merge"
                         /\ refs' = [refs EXCEPT ![headRef] =
                                       NewCommit(run, "edit", "t_mode")]
                         /\ index' = "t_mode"
                         /\ UNCHANGED <<headRef, dirty>>
      [] e = "switch" -> /\ refs' = [refs EXCEPT !["other"] = refs[headRef]]
                         /\ headRef' = "other"
                         /\ UNCHANGED <<index, dirty>>

\* Lines 395-418: with a test command, run it (exit 5 if it fails) and, if
\* `git diff merge..local_merge` is not empty, ask to type 'ignore'; without
\* one, drop the operator on a shell.
Verify ==
    /\ pc = "verify"
    /\ \E e \in ShellEffects :
          /\ ShellEffect(e)
          /\ IF testcmd
             THEN \/ ExitViaFinally(5)
                  \/ /\ UNCHANGED exitCode
                     \* the diff reads the two branches after the command ran
                     /\ pc' = IF refs'["merge"].tree # refs'["local_merge"].tree
                              THEN "ignorePrompt" ELSE "hash2"
             ELSE pc' = "hash2" /\ UNCHANGED exitCode
    /\ UNCHANGED <<run, tried, testcmd, firstSha, remote, ghMerge>>

\* Lines 404-410: 'ignore' continues, any other reply exits 6.
IgnorePrompt ==
    /\ pc = "ignorePrompt"
    /\ \/ pc' = "hash2" /\ UNCHANGED exitCode
       \/ ExitViaFinally(6)
    /\ UNCHANGED <<run, tried, testcmd, refs, headRef, index, dirty, firstSha,
                   remote, ghMerge>>

\* Mutant: the second fingerprint is computed but never compared.
SecondHashUnchecked ==
    /\ pc = "hash2"
    /\ \/ pc' = "comments" /\ UNCHANGED exitCode
       \/ ExitViaFinally(Traceback)
    /\ UNCHANGED <<run, tried, testcmd, refs, headRef, index, dirty, firstSha,
                   remote, ghMerge>>

\* Lines 420-423: second_sha512 = tree_sha512sum() of HEAD, exit 8 if it
\* differs from first_sha512 (or a traceback if cat-file is cut short).
SecondHash ==
    /\ pc = "hash2"
    /\ \/ /\ Fingerprint(HeadTree) = firstSha
          /\ pc' = "comments"
          /\ UNCHANGED exitCode
       \/ Fingerprint(HeadTree) # firstSha /\ ExitViaFinally(8)
       \/ ExitViaFinally(Traceback)
    /\ UNCHANGED <<run, tried, testcmd, refs, headRef, index, dirty, firstSha,
                   remote, ghMerge>>

\* Lines 427-430: comments + reviews.  Both fetches run; retrieve_json
\* returns None on any error, and None + list raises TypeError before the
\* None test of line 428 is reached.
FetchComments ==
    /\ pc = "comments"
    /\ \E commentsOk, reviewsOk \in BOOLEAN :
          IF commentsOk /\ reviewsOk
            THEN pc' = "amend" /\ UNCHANGED exitCode
            ELSE ExitViaFinally(Traceback)
    /\ UNCHANGED <<run, tried, testcmd, refs, headRef, index, dirty, firstSha,
                   remote, ghMerge>>

\* Lines 431-442: `git commit --amend -m message` with the ACKs and the
\* Tree-SHA512 trailer of first_sha512; it commits the index.  Exit 4 if it
\* fails.  Then print_merge_details runs `git log` with check_call (line
\* 225), which raises if git fails.
Amend ==
    /\ pc = "amend"
    /\ \/ /\ refs' = [refs EXCEPT ![headRef] =
                         [@ EXCEPT !.tree = index, !.trailer = firstSha]]
          /\ \/ pc' = "sign" /\ UNCHANGED exitCode
             \/ ExitViaFinally(Traceback)
       \/ ExitViaFinally(4) /\ UNCHANGED refs
    /\ UNCHANGED <<run, tried, testcmd, headRef, index, dirty, firstSha,
                   remote, ghMerge>>

\* Mutant: 'x' leaves the loop with break, like 's', instead of sys.exit(1).
SignRejectFallsThrough ==
    /\ pc = "sign"
    /\ \/ /\ refs' = [refs EXCEPT ![headRef] =
                         [@ EXCEPT !.tree = index, !.signed = TRUE]]
          /\ pc' = "install"
       \/ UNCHANGED <<pc, refs>>
       \/ pc' = "install" /\ UNCHANGED refs
    /\ UNCHANGED <<run, exitCode, tried, testcmd, headRef, index, dirty,
                   firstSha, remote, ghMerge>>

\* Lines 443-453: 's' runs `git commit --gpg-sign --amend --no-edit` (it too
\* commits the index) and leaves the loop, or asks again if signing fails;
\* 'x' exits 1.
Sign ==
    /\ pc = "sign"
    /\ \/ /\ refs' = [refs EXCEPT ![headRef] =
                         [@ EXCEPT !.tree = index, !.signed = TRUE]]
          /\ pc' = "install"
          /\ UNCHANGED exitCode
       \/ UNCHANGED <<pc, exitCode, refs>>
       \/ ExitViaFinally(1) /\ UNCHANGED refs
    /\ UNCHANGED <<run, tried, testcmd, headRef, index, dirty, firstSha,
                   remote, ghMerge>>

\* Lines 455-457: git checkout branch; git reset --hard local_merge.
Install ==
    /\ pc = "install"
    /\ \/ /\ headRef' = "branch"
          /\ refs' = [refs EXCEPT !["branch"] = refs["local_merge"]]
          /\ index' = refs["local_merge"].tree
          /\ dirty' = FALSE
          /\ pc' = "cleanup"
          /\ UNCHANGED exitCode
       \/ /\ CheckoutConflict("branch")
          /\ ExitViaFinally(Traceback)
          /\ UNCHANGED <<refs, headRef, index, dirty>>
    /\ UNCHANGED <<run, tried, testcmd, firstSha, remote, ghMerge>>

\* Lines 458-464, the finally: git checkout branch (errors ignored), then
\* `git branch -D` of the four temporary branches (errors ignored: git
\* refuses to delete the branch HEAD is on).  Without a pending exit the
\* run goes on to the push prompt.
Cleanup ==
    /\ pc = "cleanup"
    /\ \/ Checkout("branch")
       \/ CheckoutConflict("branch") /\ UNCHANGED <<headRef, index>>
    /\ refs' = [r \in RefNames |->
                  IF r \in Ephemeral /\ r # headRef' THEN None ELSE refs[r]]
    /\ pc' = IF exitCode = None THEN "push" ELSE "done"
    /\ UNCHANGED <<run, exitCode, tried, testcmd, dirty, firstSha, remote,
                   ghMerge>>

\* Mutant: the pushes use subprocess.call, so a failed push does not stop
\* the later ones.
PushIgnoringFailures ==
    /\ pc = "push"
    /\ \/ \E ok \in SUBSET RemoteNames :
            /\ remote' = [x \in RemoteNames |->
                            IF x \in ok THEN refs["branch"] ELSE remote[x]]
            /\ ExitNow(0)
       \/ ExitNow(1) /\ UNCHANGED remote
    /\ UNCHANGED <<run, tried, testcmd, refs, headRef, index, dirty,
                   firstSha, ghMerge>>

\* Mutant: pushes the temporary local_merge branch, which the finally has
\* already deleted, instead of branch.
PushLocalMerge ==
    /\ pc = "push"
    /\ \/ \E k \in 0..Len(Remotes) :
            /\ remote' = [x \in RemoteNames |->
                            IF \E i \in 1..k : Remotes[i] = x
                            THEN refs["local_merge"] ELSE remote[x]]
            /\ ExitNow(IF k = Len(Remotes) THEN 0 ELSE Traceback)
       \/ ExitNow(1) /\ UNCHANGED remote
    /\ UNCHANGED <<run, tried, testcmd, refs, headRef, index, dirty,
                   firstSha, ghMerge>>

\* Lines 466-475: 'push' pushes the branch to host_repo, then to each
\* mirror in order; each push is a check_call, so the first one that fails
\* ends the run with a traceback and the later ones never happen.  'x'
\* exits 1.  k is the number of pushes that succeed.
Push ==
    /\ pc = "push"
    /\ \/ \E k \in 0..Len(Remotes) :
            /\ remote' = [x \in RemoteNames |->
                            IF \E i \in 1..k : Remotes[i] = x
                            THEN refs["branch"] ELSE remote[x]]
            /\ ExitNow(IF k = Len(Remotes) THEN 0 ELSE Traceback)
       \/ ExitNow(1) /\ UNCHANGED remote
    /\ UNCHANGED <<run, tried, testcmd, refs, headRef, index, dirty,
                   firstSha, ghMerge>>

\* The run is killed: no finally, no further step.  Only the pending exit
\* code changes; branches, HEAD, index and worktree stay as they are.
Kill ==
    /\ CanCrash
    /\ pc # "done"
    /\ ExitNow(Killed)
    /\ UNCHANGED <<run, tried, testcmd, refs, headRef, index, dirty, firstSha,
                   remote, ghMerge>>

\* Between two runs GitHub recomputes its merge of the pull request (the
\* base or the head moved), or drops it because the two no longer merge.
GitHubRecomputes ==
    /\ pc = "done"
    /\ run < MaxRuns
    /\ ghMerge' \in (GitHubMerges \cup {None}) \ {ghMerge}
    /\ UNCHANGED <<pc, run, exitCode, tried, testcmd, refs, headRef, index,
                   dirty, firstSha, remote>>

\* The last run has ended: nothing more happens.
Finished ==
    /\ pc = "done"
    /\ run = MaxRuns
    /\ UNCHANGED vars

Next ==
    \/ StartRun
    \/ CheckoutBranch
    \/ Fetch
    \/ FindHead
    \/ FindMerge
    \/ MakeLocalBranch
    \/ Merge
    \/ CheckSymlinks
    \/ FirstHash
    \/ Verify
    \/ IgnorePrompt
    \/ SecondHash
    \/ FetchComments
    \/ Amend
    \/ Sign
    \/ Install
    \/ Cleanup
    \/ Push
    \/ Kill
    \/ GitHubRecomputes
    \/ Finished

\* The script is sequential and every prompt waits on the operator, who owes
\* it nothing: no fairness.
Spec == Init /\ [][Next]_vars

(***************************************************************************)
(* Properties                                                              *)
(***************************************************************************)

TypeOK ==
    /\ pc \in Pcs
    /\ run \in 0..MaxRuns
    /\ exitCode \in ExitCodes
    /\ tried \in BOOLEAN
    /\ testcmd \in BOOLEAN
    /\ refs \in [RefNames -> Commit \cup {None}]
    /\ refs["branch"] \in Commit
    /\ headRef \in RefNames
    /\ refs[headRef] \in Commit
    /\ index \in Trees
    /\ dirty \in BOOLEAN
    /\ firstSha \in Trees \cup {"none"}
    /\ remote \in [RemoteNames -> Commit]
    /\ ghMerge \in GitHubMerges \cup {None}

\* The commits the repository and the remotes hold.
Held == {refs[r] : r \in {x \in RefNames : refs[x] # None}} \cup
        {remote[x] : x \in RemoteNames}

\* Published: what the target branch or a remote points at.
Published == {refs["branch"]} \cup {remote[x] : x \in RemoteNames}

\* The Tree-SHA512 trailer that the amend at line 436 writes attests the tree
\* of the commit that carries it: the fingerprints at lines 387 and 420 are
\* meant to guarantee that the tree that is signed is the one hashed.
TrailerAttestsTree ==
    \A c \in Held : c.trailer # "none" => c.trailer = Fingerprint(c.tree)

\* Spec 4.4 (MessageFinalized, Signed): the message is amended and the
\* signature made on the merge commit built at line 369.  The target branch
\* (reset at line 457) and the remotes (pushed at lines 470-472) only ever
\* move to such a merge commit, signed off at line 447, whose trailer
\* attests its tree.
OnlySignedPublished ==
    [][/\ refs'["branch"] # refs["branch"] =>
            /\ refs'["branch"].signed
            /\ refs'["branch"].kind = "merge"
            /\ refs'["branch"].trailer = Fingerprint(refs'["branch"].tree)
       /\ \A x \in RemoteNames :
            remote'[x] # remote[x] =>
                remote'[x].signed /\ remote'[x].kind = "merge"]_<<refs, remote>>

\* The pushes at lines 470-472 go to host_repo first and stop at the first
\* failure, so a mirror never holds a later run's merge than a remote before
\* it in the push order.
MirrorsNeverAhead ==
    \A i, j \in 1..Len(Remotes) :
        i < j => remote[Remotes[j]].run <= remote[Remotes[i]].run

\* The symlink check of lines 379-383 keeps every symlink out of what is
\* published, whatever happens in later steps and runs.
NoSymlinkPublished ==
    \A c \in Published : SymlinkCount(c.tree) = 0

\* Spec 4.4 (symlink rejection): the check of lines 379-383 rejects a merge
\* exactly when its tree has an entry git stores as a symbolic link (mode
\* 120000); a submodule (160000), whose type bits share the link bit, is
\* not mistaken for one.
SymlinkRejectionExact ==
    [][pc = "symlinks" /\ exitCode' \in {None, 4} =>
         (exitCode' = 4 <=> \E e \in TreeEntries(HeadTree) : e.mode = <<1, 2, 0, 0, 0, 0>>)]_vars

\* Spec section 7: every exit after the temporary branches are created
\* leaves none of them and HEAD on the target branch.
EveryExitCleansUp ==
    pc = "done" => (headRef = "branch" /\ \A r \in Ephemeral : refs[r] = None)

\* Spec 4.4 (BranchesFetched, Verified): the run needs GitHub's merge of the
\* pull request (line 347) and diffs the local merge against it (line 402).
\* A run that finds no difference, and so skips the 'ignore' prompt, has
\* built the merge GitHub currently has.
GitHubMergeConfirmed ==
    [][pc = "verify" /\ testcmd /\ pc' = "hash2" =>
         ghMerge # None /\ ghMerge.tree = refs'["local_merge"].tree]_vars

=============================================================================
