-------------------------- MODULE FingerprintSpec --------------------------
(***************************************************************************)
(* What tree_sha512sum() of src/src/chiabls/devtools/github-merge.py       *)
(* promises (spec section 4.3): one call returns the fingerprint of the    *)
(* set of (path, content) pairs of the tree's blobs, or fails, and it      *)
(* fails only when the content store (git cat-file) has failed.  It        *)
(* always returns.                                                         *)
(*                                                                         *)
(* SHA-512 is taken to be injective, so the fingerprint is the sequence of *)
(* the lines "<digest of content>  <path>" it hashes, in byte order of     *)
(* path, and the digest of a content is the content.                      *)
(***************************************************************************)
EXTENDS Naturals, Sequences

CONSTANTS Pending, Failed

VARIABLES
    tree,         \* the tree, any set of entries [path, kind, blob]
    storeFailed,  \* the content store has died
    result        \* Pending, Failed or the fingerprint returned

absVars == <<tree, storeFailed, result>>

\* The reference fingerprint: one line per blob entry, the entry with the
\* smallest path first.  Entries that are not blobs (gitlinks) are excluded.
RECURSIVE Lines(_)
Lines(E) ==
    IF E = {} THEN <<>>
    ELSE LET e == CHOOSE e \in E : \A f \in E : e.path <= f.path
         IN  <<<<e.blob, e.path>>>> \o Lines(E \ {e})

Fingerprint(T) == Lines({e \in T : e.kind = "blob"})

AbsInit ==
    /\ result = Pending
    /\ storeFailed = FALSE

\* The store may die at any time.
StoreDies ==
    /\ ~storeFailed
    /\ storeFailed' = TRUE
    /\ UNCHANGED <<tree, result>>

Return ==
    /\ result = Pending
    /\ result' = Fingerprint(tree)
    /\ UNCHANGED <<tree, storeFailed>>

Abort ==
    /\ result = Pending
    /\ storeFailed
    /\ result' = Failed
    /\ UNCHANGED <<tree, storeFailed>>

AbsNext == StoreDies \/ Return \/ Abort

\* The call returns: Return stays enabled while the result is pending.
AbsSpec == AbsInit /\ [][AbsNext]_absVars /\ WF_absVars(Return \/ Abort)
=============================================================================
