# TLA+ models of `github-merge.py`

The repository's only component with real control flow and failure handling is
`src/src/chiabls/devtools/github-merge.py`. It is a maintainer's tool: it builds a
merge commit for a GitHub pull request, checks that the merge is not tampered with
while a human tests it, adds the reviewers' ACKs, signs the commit and pushes it.
Everything else under `src/test/functional/` is an RPC test script that drives an
external daemon. The spec puts those scripts out of scope, and they are not modelled.

## Inventory

| Component | Code | State it keeps | Operations |
|---|---|---|---|
| Merge orchestrator | `main()` 270-478 | the repository: branch `BRANCH`, the temporary `pull/N/{base,head,merge,local-merge}`, HEAD, index, worktree; `first_sha512`; the message; the remotes' branch | config/args, checkout, fetch, ref checks, merge, symlink check, fingerprint, test command or shell, diff prompt, fingerprint again, fetch comments, amend, sign loop, install (checkout + reset --hard), `finally` cleanup, push loop |
| Tree fingerprint | `tree_sha512sum` 153-199 | a `git cat-file --batch` pipe, per-file and overall SHA-512 | list, sort, request/response per blob, 64 KiB chunk loop |
| Symlink scan | `get_symlink_files` 145-151 | none | mode test `mode & 0o170000 == 0o120000` |
| Remote fetcher | `retrieve_json`, `retrieve_pr_*` 91-136 | accumulated pages, page number | paginated GET, driven by the `Link: rel="next"` header; `None` on any error |
| Sanitizer | `sanitize`, `sanitize_ghdata` 49-89 | none | strip category-C characters (newline kept on request), validate login |
| ACK extractor | `get_acks_from_comments`, `make_acks_message` 201-221 | `acks` dict | last-write-wins per author, first matching line per comment |
| Output / config | `print_merge_details`, `ask_prompt`, `git_config_get`, `parse_arguments` | none | I/O and formatting only |

How the parts interact: `main` calls git as subprocesses (shared state: the
repository on disk, which persists across runs of the script) and calls the
fetcher, which calls the sanitizer. It then calls the ACK extractor and calls the
fingerprint twice, around an arbitrary program (the test command or an
interactive shell). That program can do anything to the same repository. The
operator answers the prompts. Nothing runs concurrently inside the script. The
hard behaviours are these:
- the uncontrolled program between the two fingerprints;
- the exits and exceptions that happen before the `try` of line 356, or inside it;
- partial pushes to several remotes;
- state left on disk by a crashed run, which the next run starts from;
- the unbounded pagination loop;
- the framing of the batch pipe.

What makes each part correct:
- **Orchestrator.** Only a signed commit whose `Tree-SHA512` trailer names its own
  tree reaches the branch or a remote. Nothing with a symlink is published. Every
  exit removes the temporary branches and leaves HEAD on the branch. A mirror
  never gets ahead of the primary remote.
- **Fingerprint.** Equal for equal (path, content) sets and different otherwise.
  It does not depend on listing order. It reads exactly `size` bytes per blob.
- **Fetcher.** Returns all pages or nothing, and stops.
- **Sanitizer.** Idempotent, never longer than its input, and its output has no
  control characters.
- **ACKs.** For each author, the first qualifying line of that author's last
  qualifying record.

## Modules

| Module | Models | Kind |
|---|---|---|
| `GithubMerge` | `main()` | state machine over runs of the script |
| `TreeFingerprint` | `tree_sha512sum` and `git cat-file --batch` | two processes over two pipes |
| `FingerprintSpec` | what the fingerprint promises (spec 4.3) | abstract specification |
| `RemoteFetch` | `retrieve_json`, `retrieve_pr_*`, `sanitize`, `sanitize_ghdata` | client loop against a changing server |
| `AckExtractor` | `get_acks_from_comments`, `make_acks_message` | loop over records |
| `SymlinkScan` | `get_symlink_files` | operators over ls-tree lines, instantiated by `GithubMerge` |

Each has an `MC*.tla` module that supplies the constants and an `MC*.cfg` for each run.

### `GithubMerge.tla`: the orchestrator
Each run of `main()` is a sequence of actions selected by `pc`, one action per step:

| Action | Lines |
|---|---|
| `StartRun` | 270-320 |
| `CheckoutBranch` | 329-333 |
| `Fetch` | 334-339 |
| `FindHead` | 340-346 |
| `FindMerge` | 347-351 |
| `MakeLocalBranch` | 352-354 |
| `Merge` | 356-377 |
| `CheckSymlinks` | 379-383 |
| `FirstHash` | 385-393 |
| `Verify` | 395-418 |
| `IgnorePrompt` | 404-410 |
| `SecondHash` | 420-423 |
| `FetchComments` | 425-430 |
| `Amend` | 431-442 (and the `git log` of `print_merge_details`, line 225) |
| `Sign` | 441-453 |
| `Install` | 455-457 |
| `Cleanup` (the `finally`) | 458-464 |
| `Push` | 466-475 |
| `Kill` | a SIGHUP, `kill -9` or Ctrl-C outside the `try`: the run ends with no `finally` |
| `GitHubRecomputes` | GitHub's `refs/pull/N/merge` changes or vanishes between runs |

State:
- `refs` (branch → commit): the branches;
- `headRef`, `index` and `dirty`: HEAD, the index and the worktree;
- `firstSha`: `first_sha512`;
- `remote`: each remote's branch;
- `exitCode`: a pending `sys.exit`, or `Traceback` for an uncaught exception;
- `tried`: the run is inside the `try`;
- `ghMerge`: GitHub's `refs/pull/N/merge`, or `None` while GitHub has none.
  `Fetch` (line 335) copies it into `pull/N/merge` when it exists and otherwise
  leaves the ref a previous run left behind.

Modelling choices:
- **Repository and runs.** The repository persists, and up to `MaxRuns` runs
  follow each other. A run that crashes therefore hands its leftovers to the next
  run.
- **Exits.** An exit inside the `try` goes to `Cleanup` (`ExitViaFinally`). An
  exit before it ends the run at once (`ExitNow`).
- **Abstracted data.**
  - A tree is a token, and `TreeEntries(t)` is its `ls-tree -r` listing as a
    set of `[path, mode]` entries: regular files, executables, a symlink
    (`t_link`) and a submodule (`t_sub`). `CheckSymlinks` counts the symlinks
    with `SymlinkScan`'s `SymlinkFiles`, instantiated as `SS`.
  - `Fingerprint(t)` is `tree_sha512sum` of the tree. It hashes paths and
    contents, not modes (spec 4.3), so `t_mode` (the merge with one file made
    executable) has the fingerprint of `t_merge`. A tree with a submodule makes
    the fingerprint raise (line 160). `TreeFingerprint` justifies taking the
    digest as a function of the (path, content) set alone.
  - A commit is a record: run, kind, tree, signed, trailer.
  - Messages, titles and ACK text are left out. `FetchComments` chooses
    whether each of the two fetches succeeds, as `RemoteFetch` shows either
    can. A failed one returns `None`, and
    `None + list` raises `TypeError` before the test of line 428, so any
    failure ends the run with a traceback through the `finally`.
- **The test command and the shell.** Both are arbitrary programs. Their effect
  is a choice from `ShellEffects`:
  - `none`;
  - `edit` (unstaged change);
  - `stage` (staged change);
  - `commit` (commit on HEAD);
  - `switch` (`git checkout -b other`);
  - `chmod` (commit a change of file mode only).
- **git.** `git checkout` over local changes may fail or carry the changes over.
  `git branch -D` refuses the checked-out branch. A merge onto a base that already
  contains the pull makes no commit ("already merged?", exit 4).
- **Configuration.** It is one step with two outcomes: exit 1 before touching git,
  or go on. Whether `githubmerge.testcmd` is set is chosen per run. `--repo-from`
  is taken equal to the repository, so the base is fetched from the primary
  remote that the pushes update.
- **Kills.** With `CanCrash`, any step of a run may be its last (`Kill`, exit
  code `Killed`). Nothing in the script catches a signal, so the temporary
  branches, HEAD and the index stay as they were, and the next run starts there.

### `TreeFingerprint.tla` and `FingerprintSpec.tla`: the fingerprint engine
There are two actors.
- **The script** runs lines 153-200, one action per step:

  | Action | Lines | What it does |
  |---|---|---|
  | `ListTree` | 155-168 | listing, the blob assertion, `files.sort()` |
  | `Request` | 170-174 | write and flush; `BrokenPipeError` if git is dead |
  | `ReadHeader` | 175-181 | `readline`; `IndexError` at EOF, assertion on a wrong header |
  | `ReadChunk` | 182-189 | `read(bs)`; `IOError` on a short read |
  | `ReadLF` | 190-196 | the LF assertion, the line fed to `overall` |
  | `CloseStdin` | 197 | close the process's stdin |
  | `Wait` | 198-200 | `p.wait()`; a non-zero status raises |

- **`git cat-file --batch`** is not code of this repository. It is modelled from
  the protocol of spec section 6:
  - `Respond` answers the oldest request with header, content and LF.
  - `GitExit` exits 0 at EOF.
  - `CatFileDies` is a kill at any point. Any prefix of the current reply may
    already be written.

The pipes are sequences. The LF after a blob is the same byte value a content
may hold, so a framing error cannot hide behind a distinct marker. SHA-512 is
taken to be injective:
- `intern` is the sequence of bytes fed to the per-file hash;
- `overall` is the sequence of `<<digest, path>>` lines fed to the outer hash.

`FingerprintSpec` is the promise of spec 4.3. A call returns `Fingerprint(tree)`,
which is the lines of the blob entries in path order (`RECURSIVE Lines`), or it
fails, and it may fail only after the store died. It always returns
(`WF(Return \/ Abort)`). `TreeFingerprint` instantiates it with this refinement
mapping:
- `tree <- Range(listing)`;
- `storeFailed <- git = "killed"`;
- `result <-` `overall` once done, `Failed` once raised, `Pending` before.

The refinement `ImplementsFingerprintSpec` is checked as a `PROPERTY`.

Fairness is weak fairness on the script's steps, on `Respond` and on `GitExit`.
The OS keeps both processes running, and nothing waits on the operator. The
kill has no fairness.

### `RemoteFetch.tla`: fetcher and sanitizer
Actions:
- `GetRecord` (lines 97-100) is a non-paginated GET, for `retrieve_pr_info`.
- `GetPage` (lines 102-116) is one iteration of the pagination loop. It extends
  `obj`, takes the page of the first `rel="next"` entry, or sanitizes everything
  and returns.
- `GetFails` (lines 117-125) is any exception, which returns `None`.

`sanitize`, the login regex and `sanitize_ghdata` are operators:
- A text is a sequence of character classes: printable, `\n`, and `\r` (another
  category-C character).
- JSON `null` is the model value `Null`.

The parse of lines 108-114 is translated, not assumed:
- a Link header entry is text, a sequence of tokens `<`, the URL, `?`,
  `page=`, the digits, `>`, `;`, `rel="…"`;
- `NextLinks` keeps the entries that contain `rel="next"`;
- `PageNumber` is `int(l[l.find("page=")+5 : l.find(">")])`, with `Find` as
  `str.find` (`-1` when absent) and `PySlice` as Python's slice, negative
  bounds included. `int()` of anything but digits raises, and the call then
  returns `None`.

The server is GitHub, modelled from its API:
- pages are slices of `PerPage` records;
- the Link header has prev, next, last and first entries, each naming its page
  in its URL;
- other users `Post` and `Delete` comments between GETs.

`snaps` records every list the server held during the call. `raced` is a
history variable: a comment was deleted while the call was running.

### `AckExtractor.tla`
`Visit` is one iteration of lines 207-210 over comments followed by reviews (line
427). `acks` is a sequence of `[user, line]` pairs in insertion order, and `Put`
behaves like a Python dict assignment. A line is abstracted to three things:
- whether it contains `ACK`;
- which commit abbreviation it contains;
- a token for the rest of its text.

### `SymlinkScan.tla`
The function reads the tree and changes nothing, so the module has operators
only. `SymlinkFiles(T)` is lines 146-151: the entries sorted as `sorted()`
sorts the lines (`LineBefore`), filtered by `IsLink`, mapped to their paths.
- `int(mode, 8)` is the `RECURSIVE` operator `Octal` over the printed digits.
- The mask is Bitwise's `&`.
`GithubMerge` instantiates it for every tree its runs produce, so it is checked
through the orchestrator's `SymlinkRejectionExact`.

## Runs

| Run | Module / cfg | Expect | What it shows |
|---|---|---|---|
| `merge_session` | `MCGithubMerge` / `MCGithubMerge.cfg` | pass | With `MaxRuns = 4`, three remotes, kills anywhere, GitHub's merge ref changing between runs, and a verification step that does nothing, edits the worktree or commits an edit, these properties hold: `TrailerAttestsTree`, `OnlySignedPublished` (action property: every commit that reaches the branch or a remote is a signed merge, and the branch's carries its own fingerprint), `MirrorsNeverAhead`, `NoSymlinkPublished` and `SymlinkRejectionExact` (the check of line 382 exits 4 exactly for the trees with a symlink, and lets a submodule through). |
| `staged_edit` | `MCGithubMerge_stage.cfg` | violation | An edit staged in the shell passes both fingerprints, because they hash the HEAD commit. `commit --amend` (line 436) then commits it under a trailer that names the old tree. |
| `switched_branch` | `MCGithubMerge_switch.cfg` | violation | After `git checkout -b other` in the shell, the amend and the signature go to `other`. Line 457 then installs the unsigned `local_merge` on the branch. |
| `early_exits` | `MCGithubMerge_exits.cfg` | violation | The exits at lines 346-354 come before the `try`, so the temporary branches stay behind. Spec section 7 says every exit cleans up. |
| `stale_merge_ref` | `MCGithubMerge_stale.cfg` | violation | `GitHubMergeConfirmed`: a run killed after its fetch leaves `pull/N/merge` behind. If GitHub then drops its merge ref (a conflict), line 335 fetches nothing into it, and the next run verifies its merge against the stale ref and passes. |
| `mode_only_commit` | `MCGithubMerge_chmod.cfg` | violation | `OnlySignedPublished`: a commit in the shell that only makes a file executable keeps the fingerprint (modes are not hashed), so the amend of line 436 takes the unsigned, non-merge commit, and it is signed and published in place of the merge. |
| `fingerprint_stream` | `MCTreeFingerprint` / `MCTreeFingerprint.cfg` | pass | `TypeOK` and `ImplementsFingerprintSpec` hold for every tree of up to two blobs of 0-3 bytes (chunk size 2), in every listing order, with git killed anywhere. The result is the digest of the set, or a failure caused by git's death, and the call always returns. |
| `fingerprint_gitlink` | `MCTreeFingerprint_gitlink.cfg` | violation | A submodule entry fails the assertion of line 160 while git is healthy. Spec 4.3 says non-blob entries are excluded. |
| `fetch_deletes` | `MCRemoteFetch` / `MCRemoteFetch.cfg` | pass | With two records per page and up to five comments, while other users post and delete (two edits), `NoPageFetchedTwice` holds, so the loop ends. `FailsOnlyOnError` holds: `None` comes only from a failed GET or a malformed author, so the slicing parse of GitHub's Link header never fails. `SnapshotUnlessDeleted` holds: unless a deletion raced the call, the result is a list the server held at one moment, sanitized and in order. |
| `fetch_concurrent_delete` | `MCRemoteFetch_delete.cfg` | violation | A comment deleted between two GETs shifts the next comment onto a page already read, and that comment is lost from the result. |
| `fetch_null_body` | `MCRemoteFetch_null.cfg` | violation | A pull request without a description has `"body": null`. `sanitize(None)` raises, so `retrieve_pr_info` returns `None` and `main` exits 1. |
| `ack_extraction` | `MCAckExtractor` / `MCAckExtractor.cfg` | pass | `TypeOK` and `AcksAreLastWrite` hold: one entry per acking author, in order of first ACK, with the first qualifying line of the author's last acking record. |

Bounds and why they are enough:
- **GithubMerge.**
  - Four runs let a killed run leave state behind, GitHub change its merge
    ref, and a later run merge, sign and push on top of it.
  - Three remotes give a primary and two mirrors, so a push can fail after
    one mirror has been updated and before the other.
  - The tree tokens cover every distinction the code makes: with and without
    a symlink or a submodule, and a mode-only change.
- **TreeFingerprint.**
  - With `CHUNK = 2` and contents of 0-3 bytes, the cases are an empty blob, a
    blob shorter than a chunk, one exactly a chunk, and one longer than a chunk.
    These are the loop's edge cases, at a scale where 65536 would be unreachable.
  - Contents ending in `\n` test the LF framing.
  - Two paths give both listing orders.
- **RemoteFetch.**
  - In `fetch_deletes`, `PerPage = 2` and up to five comments: the fetch spans
    one to three pages, the middle page has prev and next links, the last page
    is full or not, and two edits (a post and a deletion, or two of either)
    fall between the GETs. This is 6.7 million states in about 80 seconds.
  - The two violation runs use `PerPage = 1` and up to three comments, the
    smallest instance that shows each of them.
  - One valid login with a hyphen and one invalid login cover the regex.
- **AckExtractor.** Three records by two authors give an author ACKing twice,
  ACKing another commit, and a record with two qualifying lines.
- **SymlinkScan.** Through `GithubMerge`: regular (100644), executable (100755),
  symlink (120000) and submodule (160000) entries.

Fairness: none in `GithubMerge`. The script is sequential, and every step that
can wait forever waits on the operator, who owes it nothing. The kill and
GitHub's recomputation are the environment's, and nothing forces them either. `TreeFingerprint`
assumes weak fairness, as described above. `RemoteFetch` states no liveness,
because `urlopen` has no timeout and the network owes no progress. Termination
of the loop follows from `NoPageFetchedTwice` over a finite set of pages.

Each property of a passing run has a mutant, a plausible bug that TLC catches:

| Mutant | Bug | Property that catches it |
|---|---|---|
| `SecondHashUnchecked` | the fingerprint is never compared | `TrailerAttestsTree` |
| `SignRejectFallsThrough` | `x` breaks out of the loop like `s` | `OnlySignedPublished` |
| `PushIgnoringFailures` | `subprocess.call` used for the pushes | `MirrorsNeverAhead` |
| `CheckSymlinksOffByOne` | `> 1` in the symlink test | `NoSymlinkPublished` |
| `PushLocalMerge` | the deleted temporary branch is pushed | `TypeOK` (GithubMerge) |
| `ListTreeUnsorted` | `files.sort()` left out | `ImplementsFingerprintSpec` |
| `ReadChunkNoMin` | `bs = 65536`, without `min(…, size - ptr)` | `TypeOK` (TreeFingerprint) |
| `GetPageFirstLink` | the first Link entry followed, whatever its `rel` | `NoPageFetchedTwice` |
| `ValidLoginNoHyphen` | `-` left out of the login regex | `FailsOnlyOnError` |
| `GetPageOnlyFirst` | the loop breaks after page 1 | `SnapshotUnlessDeleted` |
| `VisitFirstWins` | only the first ACK of an author kept | `AcksAreLastWrite` |
| `PutAppend` | ACKs kept as a list of pairs | `TypeOK` (AckExtractor) |
| `IsLinkMaskedBySelf` | mask `0o120000` instead of `0o170000`, so a submodule counts as a symlink | `SymlinkRejectionExact` |

## Not modelled
- **Steps between consecutive git calls.** `MakeLocalBranch` (lines 352-354:
  checkout base, `branch -D`, `checkout -b`) and `Install` (lines 456-457:
  checkout, `reset --hard`) are each one step, so a kill between their git
  calls is not modelled. Such a kill leaves HEAD on `pull/N/base` or on the
  un-reset branch. The next run starts with `git checkout branch` and
  recreates every temporary branch, so neither state reaches anything the
  properties look at.
- **A change to a symlink by mode only.** `ShellEffects` changes a mode only
  to make a file executable (`chmod`, the `mode_only_commit` run). Turning a
  file into a symlink while keeping its bytes takes the same path: the
  fingerprint ignores modes, so that commit would be amended, signed and
  published.
- **Non-termination at line 444 and line 69.** `ask_prompt` returns `''` at
  the end of stdin, so with stdin closed the sign and push loops re-ask
  forever. `urlopen` has no timeout, so a stalled connection blocks forever.
  Both are liveness failures. Checking them needs a fairness assumption the
  code does not give: the operator owes no answer, and the network owes no
  response. `GithubMerge` therefore states no fairness. The empty reply is
  one of the replies that re-ask: the retry disjunct of `Sign`, and at the
  push prompt a step that changes nothing. A GET may fail at any point. Each of these hazards is
  listed in `PROJECT.json` with a note.
- **The functional test scripts.** They are external-daemon assertions and out of
  scope.
- **I/O-only code.** This covers printing, colours, the wording of prompts,
  `git_config_get` and `parse_arguments`. Their outcomes are the nondeterministic
  choices of `GithubMerge`.
- **`--repo-from` with a repository other than the primary.**
- **The `@` and `<!-` warnings of `print_merge_details`.** They are advisory
  output only.
- **Python's `-O`,** which would strip the assertions of `tree_sha512sum`. The
  script is run through its `python3` shebang, without `-O`.
