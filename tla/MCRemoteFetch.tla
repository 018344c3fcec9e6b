--------------------------- MODULE MCRemoteFetch ---------------------------
(***************************************************************************)
(* Instance of RemoteFetch for TLC.  MCRemoteFetch.cfg: two records per   *)
(* page and up to five comments, so a list spans up to three pages, the    *)
(* last one full or not; the other cfgs: one record per page, up to three. *)
(* One login with a hyphen (valid) and one with a space (invalid); texts   *)
(* with a newline and with a carriage return, so both branches of          *)
(* sanitize() are taken.                                                   *)
(***************************************************************************)
EXTENDS RemoteFetch

MCLogins == {<<"a", "-">>, <<" ">>}
MCTexts  == {<<"a", "\n">>, <<"\r">>}
MCBodiesWithNull == MCTexts \cup {Null}
=============================================================================
