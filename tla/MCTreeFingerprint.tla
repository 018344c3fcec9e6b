------------------------- MODULE MCTreeFingerprint -------------------------
(***************************************************************************)
(* Instance of TreeFingerprint for TLC: two paths, contents of 0 to 3      *)
(* bytes over an ordinary byte and LF, and a chunk of 2 bytes, so that     *)
(* empty contents, contents shorter than, equal to and longer than a       *)
(* chunk, and contents ending in LF all occur, in both listing orders.     *)
(***************************************************************************)
EXTENDS TreeFingerprint

MCPaths    == {1, 2}
MCByteVals == {"a", "\n"}
MCBlobOnly == {"blob"}
MCGitlinks == {"blob", "commit"}
=============================================================================
