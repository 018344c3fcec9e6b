-------------------------- MODULE MCAckExtractor --------------------------
(***************************************************************************)
(* Instance of AckExtractor for TLC: two authors, the head's abbreviation  *)
(* and one other commit's, bodies of up to two lines and up to three       *)
(* records, so an author can ACK in a comment and again in a review, ACK   *)
(* another commit, or write two qualifying lines in one record.           *)
(***************************************************************************)
EXTENDS AckExtractor

MCUsers   == {"alice", "bob"}
\* Two different ACKs of the head, an ACK of another commit, and a line that
\* names the head without "ACK".
MCLines == {[ack |-> TRUE,  abbrev |-> "abcdef", text |-> "lgtm"],
            [ack |-> TRUE,  abbrev |-> "abcdef", text |-> "tested"],
            [ack |-> TRUE,  abbrev |-> "012345", text |-> "lgtm"],
            [ack |-> FALSE, abbrev |-> "abcdef", text |-> "lgtm"]}
=============================================================================
