---------------------------- MODULE SymlinkScan ----------------------------
(***************************************************************************)
(* get_symlink_files() of src/src/chiabls/devtools/github-merge.py (lines  *)
(* 145-151): list HEAD's tree with `git ls-tree -r`, sort the lines, and   *)
(* collect the path of every line whose octal mode, masked with the file   *)
(* type bits 0o170000, is 0o120000.  The function reads the tree and       *)
(* changes nothing, so it is an operator; GithubMerge instantiates it for  *)
(* the check of lines 379-383.                                             *)
(*                                                                         *)
(* A tree is a set of entries [path, mode]; a mode is its octal digits as  *)
(* git prints them; a path is its rank in byte order.  Lines with equal    *)
(* modes are ordered by path (the blob ids between them are left out).     *)
(***************************************************************************)
EXTENDS Naturals, Sequences, SequencesExt, Bitwise

\* int(s, 8)
RECURSIVE Octal(_)
Octal(s) == IF s = <<>> THEN 0 ELSE 8 * Octal(Front(s)) + Last(s)

S_IFMT  == Octal(<<1, 7, 0, 0, 0, 0>>)
S_IFLNK == Octal(<<1, 2, 0, 0, 0, 0>>)

\* sorted() over the lines: by mode (fixed width), then by path.
LineBefore(a, b) ==
    \/ Octal(a.mode) < Octal(b.mode)
    \/ Octal(a.mode) = Octal(b.mode) /\ a.path < b.path

\* Mutant: the line's mode masked with the symlink type itself.
IsLinkMaskedBySelf(m) == (Octal(m) & S_IFLNK) = S_IFLNK

\* Line 149: (int(mode, 8) & 0o170000) == 0o120000
IsLink(m) == (Octal(m) & S_IFMT) = S_IFLNK

\* Lines 146-151: the paths of the sorted lines that are symlinks, in order.
SymlinkFiles(T) ==
    LET links == SelectSeq(SetToSortSeq(T, LineBefore), LAMBDA e : IsLink(e.mode))
    IN  [j \in DOMAIN links |-> links[j].path]
=============================================================================
