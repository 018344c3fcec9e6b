-------------------------- MODULE TreeFingerprint --------------------------
(***************************************************************************)
(* tree_sha512sum() of src/src/chiabls/devtools/github-merge.py (lines     *)
(* 153-200) together with the `git cat-file --batch` process it talks to   *)
(* over two pipes.  The script lists the tree, sorts the paths, and for    *)
(* each path writes the blob id to the process, reads the header line,     *)
(* reads the content in chunks of at most CHUNK bytes and reads the LF     *)
(* that follows it.  The process answers requests in order and may be      *)
(* killed at any point, having written any prefix of its current reply.   *)
(*                                                                         *)
(* A pipe is a sequence.  A byte and a header line are both records of     *)
(* one shape (TLC compares them); the LF after a blob is the byte "\n",    *)
(* the same byte a content may hold.  SHA-512 is taken to be injective:    *)
(* intern is the sequence of bytes fed to the per-file hash and overall    *)
(* the sequence of <<per-file digest, path>> lines fed to the outer one.   *)
(* Paths are their ranks in byte order.                                    *)
(***************************************************************************)
EXTENDS Naturals, Sequences, FiniteSets, SequencesExt

CONSTANTS
    Paths,       \* the possible paths, as ranks in byte order
    ByteVals,    \* the byte values a content is made of; "\n" among them
    MaxSize,     \* the longest content
    CHUNK,       \* the chunk size of the read loop (65536 in the code)
    Kinds,       \* the ls-tree object types: "blob", and "commit" (gitlinks)
    CanCrash,    \* whether git cat-file may be killed
    Pending, Failed

ASSUME "\n" \in ByteVals /\ CHUNK \in Nat \ {0} /\ MaxSize \in Nat
ASSUME Kinds \subseteq {"blob", "commit"} /\ CanCrash \in BOOLEAN

VARIABLES
    listing,     \* the lines of `git ls-tree -r`, in the order git gives them
    files,       \* files after files.sort()
    blobByName,  \* blob_by_name
    pc,          \* the statement of tree_sha512sum the script is at
    i,           \* index in files of the current f
    stdin,       \* requests written to git cat-file, not yet read by it
    stdout,      \* bytes written by git cat-file, not yet read by the script
    closed,      \* p.stdin.close() has been called
    git,         \* the process: "running", "exited" (status 0) or "killed"
    size, ptr,   \* size and ptr of the chunk loop
    intern,      \* the bytes fed to the per-file hash
    overall      \* the lines fed to the overall hash

vars == <<listing, files, blobByName, pc, i, stdin, stdout, closed, git,
          size, ptr, intern, overall>>

Byte(v)  == [hdr |-> FALSE, blob |-> <<>>, byte |-> v]
Hdr(b)   == [hdr |-> TRUE, blob |-> b, byte |-> "none"]
LF       == Byte("\n")
Contents == UNION {[1..n -> {Byte(v) : v \in ByteVals}] : n \in 0..MaxSize}

\* A tree: entries with distinct paths; git lists it in any order.
Trees == UNION {{{[path |-> p, kind |-> o[p][1], blob |-> o[p][2]] : p \in P} :
                   o \in [P -> Kinds \X Contents]} : P \in SUBSET Paths}

\* The reply of git cat-file --batch to a blob id (the id is the content).
Reply(b) == <<Hdr(b)>> \o b \o <<LF>>

Min2(a, b) == IF a < b THEN a ELSE b

\* An exception ends the call; the caller sees it as a failure.
Raise == pc' = "failed"

Init ==
    /\ \E T \in Trees : listing \in SetToSeqs(T)
    /\ files = <<>>
    /\ blobByName = [p \in {} |-> <<>>]
    /\ pc = "list"
    /\ i = 1
    /\ stdin = <<>>
    /\ stdout = <<>>
    /\ closed = FALSE
    /\ git = "running"
    /\ size = 0 /\ ptr = 0
    /\ intern = <<>>
    /\ overall = <<>>

(***************************************************************************)
(* The script                                                              *)
(***************************************************************************)

\* Mutant: files.sort() left out; the files are hashed in listing order.
ListTreeUnsorted ==
    /\ pc = "list"
    /\ IF \A k \in DOMAIN listing : listing[k].kind = "blob"
         THEN /\ files' = [k \in DOMAIN listing |-> listing[k].path]
              /\ blobByName' = [p \in Range(files') |->
                                 (CHOOSE e \in Range(listing) : e.path = p).blob]
              /\ pc' = "request"
         ELSE Raise /\ UNCHANGED <<files, blobByName>>
    /\ UNCHANGED <<listing, i, stdin, stdout, closed, git, size, ptr, intern, overall>>

\* Lines 155-168: read the listing, assert every entry is a blob, sort.
ListTree ==
    /\ pc = "list"
    /\ IF \A k \in DOMAIN listing : listing[k].kind = "blob"
         THEN /\ files' = SortSeq([k \in DOMAIN listing |-> listing[k].path], <)
              /\ blobByName' = [p \in Range(files') |->
                                 (CHOOSE e \in Range(listing) : e.path = p).blob]
              /\ pc' = "request"
         ELSE Raise /\ UNCHANGED <<files, blobByName>>
    /\ UNCHANGED <<listing, i, stdin, stdout, closed, git, size, ptr, intern, overall>>

\* Lines 170-174: write the blob id of the next file and flush; writing to
\* a killed process raises BrokenPipeError.
Request ==
    /\ pc = "request"
    /\ i <= Len(files)
    /\ IF git = "killed"
         THEN Raise /\ UNCHANGED stdin
         ELSE stdin' = Append(stdin, blobByName[files[i]]) /\ pc' = "header"
    /\ UNCHANGED <<listing, files, blobByName, i, stdout, closed, git, size,
                   ptr, intern, overall>>

\* Lines 176-181: readline() blocks until a line or EOF; at EOF reply is
\* empty and reply[0] raises; a header for another blob fails the assert.
ReadHeader ==
    /\ pc = "header"
    /\ stdout # <<>> \/ git # "running"
    /\ IF stdout # <<>> /\ Head(stdout) = Hdr(blobByName[files[i]])
         THEN /\ size' = Len(Head(stdout).blob)
              /\ ptr' = 0
              /\ intern' = <<>>
              /\ stdout' = Tail(stdout)
              /\ pc' = "chunk"
         ELSE Raise /\ UNCHANGED <<size, ptr, intern, stdout>>
    /\ UNCHANGED <<listing, files, blobByName, i, stdin, closed, git, overall>>

\* Mutant: bs = 65536, the min() with the bytes left dropped.
ReadChunkNoMin ==
    /\ pc = "chunk"
    /\ ptr < size
    /\ LET bs == CHUNK
       IN  /\ Len(stdout) >= bs \/ git # "running"
           /\ IF Len(stdout) >= bs
                THEN /\ intern' = intern \o SubSeq(stdout, 1, bs)
                     /\ stdout' = SubSeq(stdout, bs + 1, Len(stdout))
                     /\ ptr' = ptr + bs
                     /\ UNCHANGED pc
                ELSE Raise /\ UNCHANGED <<intern, stdout, ptr>>
    /\ UNCHANGED <<listing, files, blobByName, i, stdin, closed, git, size, overall>>

\* Lines 182-189: read(bs) blocks until bs bytes or EOF; fewer than bs
\* bytes means EOF and raises IOError.
ReadChunk ==
    /\ pc = "chunk"
    /\ ptr < size
    /\ LET bs == Min2(CHUNK, size - ptr)
       IN  /\ Len(stdout) >= bs \/ git # "running"
           /\ IF Len(stdout) >= bs
                THEN /\ intern' = intern \o SubSeq(stdout, 1, bs)
                     /\ stdout' = SubSeq(stdout, bs + 1, Len(stdout))
                     /\ ptr' = ptr + bs
                     /\ UNCHANGED pc
                ELSE Raise /\ UNCHANGED <<intern, stdout, ptr>>
    /\ UNCHANGED <<listing, files, blobByName, i, stdin, closed, git, size, overall>>

\* Lines 190-196: the loop is done; assert the next byte is LF and feed
\* "<digest>  <path>\n" to the overall hash.
ReadLF ==
    /\ pc = "chunk"
    /\ ptr >= size
    /\ stdout # <<>> \/ git # "running"
    /\ IF stdout # <<>> /\ Head(stdout) = LF
         THEN /\ stdout' = Tail(stdout)
              /\ overall' = Append(overall, <<intern, files[i]>>)
              /\ i' = i + 1
              /\ pc' = "request"
         ELSE Raise /\ UNCHANGED <<stdout, overall, i>>
    /\ UNCHANGED <<listing, files, blobByName, stdin, closed, git, size, ptr, intern>>

\* Line 197: all files done, close the process's stdin.
CloseStdin ==
    /\ pc = "request"
    /\ i > Len(files)
    /\ closed' = TRUE
    /\ pc' = "wait"
    /\ UNCHANGED <<listing, files, blobByName, i, stdin, stdout, git, size,
                   ptr, intern, overall>>

\* Lines 198-200: p.wait(); a killed process has a non-zero status.
Wait ==
    /\ pc = "wait"
    /\ git # "running"
    /\ IF git = "killed" THEN Raise ELSE pc' = "done"
    /\ UNCHANGED <<listing, files, blobByName, i, stdin, stdout, closed, git,
                   size, ptr, intern, overall>>

(***************************************************************************)
(* git cat-file --batch (spec section 6: the batch object-read protocol)   *)
(***************************************************************************)

\* Answer the oldest request with the whole reply.
Respond ==
    /\ git = "running"
    /\ stdin # <<>>
    /\ stdout' = stdout \o Reply(Head(stdin))
    /\ stdin' = Tail(stdin)
    /\ UNCHANGED <<listing, files, blobByName, pc, i, closed, git, size, ptr,
                   intern, overall>>

\* EOF on stdin: exit with status 0.
GitExit ==
    /\ git = "running"
    /\ closed /\ stdin = <<>>
    /\ git' = "exited"
    /\ UNCHANGED <<listing, files, blobByName, pc, i, stdin, stdout, closed,
                   size, ptr, intern, overall>>

\* The process is killed, having written part of its current reply.
CatFileDies ==
    /\ CanCrash
    /\ git = "running"
    /\ pc # "list"
    /\ \E k \in 0..(IF stdin = <<>> THEN 0 ELSE Len(Reply(Head(stdin)))) :
          stdout' = stdout \o (IF stdin = <<>> THEN <<>>
                               ELSE SubSeq(Reply(Head(stdin)), 1, k))
    /\ stdin' = <<>>
    /\ git' = "killed"
    /\ UNCHANGED <<listing, files, blobByName, pc, i, closed, size, ptr,
                   intern, overall>>

\* The call has returned or raised; nothing more happens.
Returned ==
    /\ pc \in {"done", "failed"}
    /\ UNCHANGED vars

Script == ListTree \/ Request \/ ReadHeader \/ ReadChunk \/ ReadLF
          \/ CloseStdin \/ Wait
Git    == Respond \/ GitExit \/ CatFileDies

Next == Script \/ Git \/ Returned

\* The script and the process are programs the OS keeps running; only the
\* kill has no fairness.
Fairness ==
    /\ WF_vars(Script)
    /\ WF_vars(Respond)
    /\ WF_vars(GitExit)

Spec == Init /\ [][Next]_vars /\ Fairness

(***************************************************************************)
(* Properties                                                              *)
(***************************************************************************)

\* Type invariant; ptr never passes size: the loop of lines 182-189 reads
\* exactly size bytes of each blob, and no byte of the LF or the next reply.
TypeOK ==
    /\ pc \in {"list", "request", "header", "chunk", "wait", "done", "failed"}
    /\ git \in {"running", "exited", "killed"}
    /\ i \in 1..(Cardinality(Paths) + 1)
    /\ size \in 0..MaxSize /\ ptr \in 0..size
    /\ closed \in BOOLEAN

\* Refinement: tree_sha512sum implements FingerprintSpec.  Whatever order
\* ls-tree lists the tree in, and wherever git cat-file is killed, the call
\* either returns the fingerprint of the tree's (path, content) set -- every
\* content read exactly, no reply consumed out of turn -- or raises, and it
\* raises only if git cat-file was killed; and it always returns or raises.
Abs == INSTANCE FingerprintSpec WITH
         tree <- Range(listing),
         storeFailed <- git = "killed",
         result <- CASE pc = "done"   -> overall
                     [] pc = "failed" -> Failed
                     [] OTHER         -> Pending

ImplementsFingerprintSpec == Abs!AbsSpec
=============================================================================
