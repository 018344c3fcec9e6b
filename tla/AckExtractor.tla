---------------------------- MODULE AckExtractor ----------------------------
(***************************************************************************)
(* get_acks_from_comments() and make_acks_message() of                     *)
(* src/src/chiabls/devtools/github-merge.py (lines 202-221), fed as main() *)
(* feeds them at line 427: the pull request's comments followed by its     *)
(* reviews.  The loop visits the records in order and keeps, per author,   *)
(* the first qualifying line of the author's record seen last.  acks is a *)
(* Python dict: assigning to a key already present keeps its position.     *)
(*                                                                         *)
(* A line is abstracted to the two facts the test of line 208 reads,       *)
(* whether it contains "ACK" and which commit abbreviation it contains,    *)
(* and a token for the rest of its text.                                   *)
(* A record's body is its sequence of lines (splitlines()).                *)
(***************************************************************************)
EXTENDS Naturals, Sequences, FiniteSets, SequencesExt

CONSTANTS
    Users,       \* author logins
    Lines,       \* the lines a body may hold, as records [ack, abbrev, text]
    HeadAbbrev,  \* head_commit[0:6]
    MaxLines,    \* the most lines of a body
    MaxRecords,  \* the most comments and reviews together
    NoAcks       \* the "Top commit has no ACKs." notice

ASSUME \A l \in Lines : l.ack \in BOOLEAN

VARIABLES
    records,     \* comments + reviews, as main passes them
    k,           \* index of the record the loop is at
    acks         \* the dict: a sequence of [user, line], in insertion order

vars == <<records, k, acks>>

Bodies  == UNION {[1..n -> Lines] : n \in 0..MaxLines}
Record  == [user: Users, body: Bodies]

\* Line 208: 'ACK' in l and head_abbrev in l.
Qualifies(l) == l.ack /\ l.abbrev = HeadAbbrev

\* Mutant: acks kept as a list of pairs, every ACK appended.
PutAppend(d, u, l) == Append(d, [user |-> u, line |-> l])

\* acks[user] = line, as a Python dict does it.
Put(d, u, l) ==
    IF \E j \in DOMAIN d : d[j].user = u
      THEN [j \in DOMAIN d |-> IF d[j].user = u THEN [user |-> u, line |-> l] ELSE d[j]]
      ELSE Append(d, [user |-> u, line |-> l])

\* Lines 213-221: the ACK block: the entries in dict order, or the notice.
MakeAcksMessage(d) == IF d = <<>> THEN NoAcks ELSE d

Init ==
    /\ records \in UNION {[1..n -> Record] : n \in 0..MaxRecords}
    /\ k = 1
    /\ acks = <<>>

\* Mutant: only an author's first qualifying record counts.
VisitFirstWins ==
    /\ k <= Len(records)
    /\ LET c == records[k]
           review == SelectSeq(c.body, Qualifies)
       IN  acks' = IF review # <<>> /\ \A j \in DOMAIN acks : acks[j].user # c.user
                     THEN Put(acks, c.user, review[1]) ELSE acks
    /\ k' = k + 1
    /\ UNCHANGED records

\* Lines 207-210: one iteration of the loop.
Visit ==
    /\ k <= Len(records)
    /\ LET c == records[k]
           review == SelectSeq(c.body, Qualifies)
       IN  acks' = IF review # <<>> THEN Put(acks, c.user, review[1]) ELSE acks
    /\ k' = k + 1
    /\ UNCHANGED records

\* Line 211: the loop is over and the dict is returned.
Returned ==
    /\ k > Len(records)
    /\ UNCHANGED vars

Next == Visit \/ Returned

Spec == Init /\ [][Next]_vars

(***************************************************************************)
(* Properties                                                              *)
(***************************************************************************)

\* Type invariant: acks is a dict, one entry per author at most.
TypeOK ==
    /\ k \in 1..(MaxRecords + 1)
    /\ acks \in Seq([user: Users, line: Lines])
    /\ Len(acks) <= Cardinality(Users)

\* The records of u that carry a qualifying line.
Acked(u) == {j \in DOMAIN records : records[j].user = u /\
                                    \E i \in DOMAIN records[j].body : Qualifies(records[j].body[i])}

\* Spec 4.5 and the message: once the loop is over, the ACK block names each
\* author with a qualifying line exactly once, in the order of the author's
\* first such record, with the first qualifying line of the author's last
\* such record -- a later review overrides an earlier comment.
AcksAreLastWrite ==
    k > Len(records) =>
        LET authors == {u \in Users : Acked(u) # {}}
            first(u) == CHOOSE j \in Acked(u) : \A i \in Acked(u) : j <= i
            last(u)  == CHOOSE j \in Acked(u) : \A i \in Acked(u) : j >= i
            line(u)  == LET b == records[last(u)].body
                        IN  b[CHOOSE i \in DOMAIN b : Qualifies(b[i]) /\
                                 \A h \in 1..(i - 1) : ~Qualifies(b[h])]
        IN  /\ MakeAcksMessage(acks) = NoAcks <=> authors = {}
            /\ Len(acks) = Cardinality(authors)
            /\ \A j \in DOMAIN acks :
                  /\ acks[j].user \in authors
                  /\ acks[j].line = line(acks[j].user)
                  /\ \A i \in DOMAIN acks :
                        i < j => first(acks[i].user) < first(acks[j].user)
=============================================================================
