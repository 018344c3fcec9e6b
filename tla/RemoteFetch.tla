---------------------------- MODULE RemoteFetch ----------------------------
(***************************************************************************)
(* retrieve_json() of src/src/chiabls/devtools/github-merge.py (lines      *)
(* 92-125) with sanitize_ghdata() and sanitize() (lines 49-89), against    *)
(* the GitHub REST API.  Without pagination (retrieve_pr_info) it GETs one *)
(* record; with pagination (retrieve_pr_comments / _reviews) it GETs       *)
(* ?page=1, 2, ... following the rel="next" entry of the Link header,      *)
(* concatenates the pages and sanitizes every record at the end.  Any      *)
(* exception makes it return None.                                         *)
(*                                                                         *)
(* The server's list of comments is shared with the other users of the     *)
(* pull request, who may post or delete comments between two GETs.  Pages  *)
(* are slices of PerPage records and the Link header is GitHub's: prev,    *)
(* next, last, first, each parsed to the page number its URL carries.      *)
(* A text is a sequence of characters of a few classes: "a" a printable    *)
(* one, "\n" and "\r" two of Unicode category C.                           *)
(***************************************************************************)
EXTENDS Integers, Sequences, SequencesExt

CONSTANTS
    Logins,      \* author logins, as sequences of characters
    Texts,       \* titles, as sequences of characters
    Bodies,      \* bodies: texts, and Null where the server may send it
    Null,        \* JSON null
    PerPage,     \* records per page (30 on GitHub)
    MaxLen,      \* the most comments the server holds
    MaxEdits,    \* how many posts and deletions other users make
    CanDelete,   \* whether other users delete comments
    Pending

ASSUME PerPage \in Nat \ {0} /\ MaxLen \in Nat /\ MaxEdits \in Nat

VARIABLES
    mode,        \* "single" (retrieve_pr_info) or "paged"
    pr,          \* the pull request record the server has
    comments,    \* the comment list the server has
    edits,       \* posts and deletions so far
    pc,          \* "get" while retrieve_json loops, "done" once it returned
    pageNum,     \* page_num
    obj,         \* obj: the records of the pages read so far
    requested,   \* the page numbers requested so far, in order
    snaps,       \* every list the server held since the call began
    fetchErr,    \* a GET raised (HTTPError, URLError, a JSON error)
    result,      \* Pending, None (Null) or the returned value
    raced        \* history: a comment was deleted while the call ran

vars == <<mode, pr, comments, edits, pc, pageNum, obj, requested, snaps,
          fetchErr, result, raced>>

Records   == [user: Logins, body: Bodies]
PRRecords == [user: Logins, title: Texts, body: Bodies]

(***************************************************************************)
(* sanitize and sanitize_ghdata                                            *)
(***************************************************************************)
\* unicodedata.category(ch)[0] == "C"
Control == {"\n", "\r"}
LoginChars == {"a", "-"}

\* Lines 49-55: drop every character of category C, but keep newlines if
\* asked to.  sanitize(None) raises TypeError (iterating over None).
Sanitize(s, newlines) ==
    SelectSeq(s, LAMBDA ch : ch \notin Control \/ (ch = "\n" /\ newlines))

\* Mutant: the hyphen left out of the character class.
ValidLoginNoHyphen(l) == Len(l) > 0 /\ \A k \in DOMAIN l : l[k] \in LoginChars \ {"-"}

\* Line 88: re.match('[a-zA-Z0-9-]+\Z', login, re.DOTALL)
ValidLogin(l) == Len(l) > 0 /\ \A k \in DOMAIN l : l[k] \in LoginChars

\* Lines 72-90: whether sanitize_ghdata(rec) returns rather than raises.
Sanitizable(rec) == rec.body # Null /\ ValidLogin(rec.user)

\* Lines 82-84: the record it returns.
SanitizeGhdata(rec) ==
    IF "title" \in DOMAIN rec
      THEN [rec EXCEPT !.title = Sanitize(@, FALSE), !.body = Sanitize(@, TRUE)]
      ELSE [rec EXCEPT !.body = Sanitize(@, TRUE)]

(***************************************************************************)
(* The GitHub API (spec section 6)                                         *)
(***************************************************************************)
Min2(a, b) == IF a < b THEN a ELSE b
Max2(a, b) == IF a > b THEN a ELSE b
NumPages(s) == IF s = <<>> THEN 1 ELSE (Len(s) + PerPage - 1) \div PerPage
Page(s, p)  == SubSeq(s, (p - 1) * PerPage + 1, Min2(p * PerPage, Len(s)))

\* The text of a Link header entry, as tokens: `<URL?page=N>; rel="REL"`.
\* The URL up to its query is one token (GitHub's API URLs hold neither
\* "page=" nor ">" nor ","), so does "page=", and a page number is its
\* decimal digits.
Digits == <<"1", "2", "3", "4", "5", "6", "7", "8", "9">>
Link(rel, p) == <<"<", "url", "?", "page=", Digits[p], ">", ";", "rel=" \o rel>>

ASSUME MaxLen <= Len(Digits) * PerPage

\* The Link header of page p, split at its commas, or Null when everything
\* fits on one page.
LinkHeader(s, p) ==
    IF NumPages(s) = 1 /\ p = 1 THEN Null
    ELSE (IF p > 1 THEN <<Link("prev", p - 1)>> ELSE <<>>)
         \o (IF p < NumPages(s) THEN <<Link("next", p + 1)>> ELSE <<>>)
         \o <<Link("last", NumPages(s)), Link("first", 1)>>

\* str.find: the 0-based index of the first occurrence, or -1.
Find(l, t) == SelectInSeq(l, LAMBDA x : x = t) - 1

\* l[i:j], Python's slice: a negative bound counts from the end.
PySlice(l, i, j) ==
    LET at(k) == IF k < 0 THEN Max2(k + Len(l), 0) ELSE Min2(k, Len(l))
    IN  SubSeq(l, at(i) + 1, at(j))

\* Line 113: int(l[l.find("page=")+5 : l.find(">")]); "page=" is five
\* characters and one token.  int() of anything but digits raises
\* ValueError: Null.
PageNumber(l) ==
    LET num == PySlice(l, Find(l, "page=") + 1, Find(l, ">"))
    IN  IF Len(num) = 1 /\ num[1] \in Range(Digits)
          THEN CHOOSE n \in DOMAIN Digits : Digits[n] = num[1]
          ELSE Null

\* Line 111: the entries that contain 'rel="next"'.
NextLinks(link) ==
    IF link = Null THEN <<>> ELSE SelectSeq(link, LAMBDA l : Contains(l, "rel=next"))

\* Line 116 (with line 125 when a record raises): the returned value.
SanitizedOrNone(o) ==
    IF \A k \in DOMAIN o : Sanitizable(o[k])
      THEN [k \in DOMAIN o |-> SanitizeGhdata(o[k])]
      ELSE Null

Init ==
    /\ mode \in {"single", "paged"}
    /\ pr \in PRRecords
    /\ comments \in UNION {[1..n -> Records] : n \in 0..MaxLen}
    /\ edits = 0
    /\ pc = "get"
    /\ pageNum = 1
    /\ obj = <<>>
    /\ requested = <<>>
    /\ snaps = {comments}
    /\ fetchErr = FALSE
    /\ result = Pending
    /\ raced = FALSE

(***************************************************************************)
(* retrieve_json                                                           *)
(***************************************************************************)

\* Lines 117-125: any GET may raise; every exception returns None.
GetFails ==
    /\ pc = "get"
    /\ fetchErr' = TRUE
    /\ result' = Null
    /\ pc' = "done"
    /\ UNCHANGED <<mode, pr, comments, edits, pageNum, obj, requested, snaps,
                   raced>>

\* Lines 99-100: one GET, sanitized.
GetRecord ==
    /\ pc = "get"
    /\ mode = "single"
    /\ result' = IF Sanitizable(pr) THEN SanitizeGhdata(pr) ELSE Null
    /\ pc' = "done"
    /\ UNCHANGED <<mode, pr, comments, edits, pageNum, obj, requested, snaps,
                   fetchErr, raced>>

\* Mutant: the loop breaks after the first page.
GetPageOnlyFirst ==
    /\ pc = "get"
    /\ mode = "paged"
    /\ requested' = Append(requested, pageNum)
    /\ obj' = obj \o Page(comments, pageNum)
    /\ result' = SanitizedOrNone(obj')
    /\ pc' = "done"
    /\ UNCHANGED <<mode, pr, comments, edits, pageNum, snaps, fetchErr, raced>>

\* Mutant: page_num taken from the first entry of the Link header.
GetPageFirstLink ==
    /\ pc = "get"
    /\ mode = "paged"
    /\ requested' = Append(requested, pageNum)
    /\ obj' = obj \o Page(comments, pageNum)
    /\ LET link == LinkHeader(comments, pageNum)
       IN  IF link # Null
             THEN pageNum' = PageNumber(link[1]) /\ UNCHANGED <<pc, result>>
             ELSE result' = SanitizedOrNone(obj') /\ pc' = "done" /\ UNCHANGED pageNum
    /\ UNCHANGED <<mode, pr, comments, edits, snaps, fetchErr, raced>>

\* Lines 102-116: GET page_num, extend obj, and continue with the page that
\* the first rel="next" entry of the Link header names (lines 109-114); an
\* entry int() cannot parse raises, and the call returns None.  Without a
\* next entry, sanitize every record (line 116).
GetPage ==
    /\ pc = "get"
    /\ mode = "paged"
    /\ requested' = Append(requested, pageNum)
    /\ obj' = obj \o Page(comments, pageNum)
    /\ LET next == NextLinks(LinkHeader(comments, pageNum))
       IN  CASE next = <<>> ->
                  result' = SanitizedOrNone(obj') /\ pc' = "done" /\ UNCHANGED pageNum
             [] PageNumber(next[1]) = Null ->
                  result' = Null /\ pc' = "done" /\ UNCHANGED pageNum
             [] OTHER ->
                  pageNum' = PageNumber(next[1]) /\ UNCHANGED <<pc, result>>
    /\ UNCHANGED <<mode, pr, comments, edits, snaps, fetchErr, raced>>

(***************************************************************************)
(* Other users of the pull request                                         *)
(***************************************************************************)
Post ==
    /\ mode = "paged"
    /\ edits < MaxEdits
    /\ Len(comments) < MaxLen
    /\ \E r \in Records : comments' = Append(comments, r)
    /\ edits' = edits + 1
    /\ snaps' = IF pc = "get" THEN snaps \cup {comments'} ELSE snaps
    /\ UNCHANGED <<mode, pr, pc, pageNum, obj, requested, fetchErr, result,
                   raced>>

Delete ==
    /\ CanDelete
    /\ mode = "paged"
    /\ edits < MaxEdits
    /\ \E k \in DOMAIN comments : comments' = RemoveAt(comments, k)
    /\ edits' = edits + 1
    /\ snaps' = IF pc = "get" THEN snaps \cup {comments'} ELSE snaps
    /\ raced' = (raced \/ pc = "get")
    /\ UNCHANGED <<mode, pr, pc, pageNum, obj, requested, fetchErr, result>>

\* retrieve_json has returned.
Returned ==
    /\ pc = "done"
    /\ UNCHANGED vars

Next == GetFails \/ GetRecord \/ GetPage \/ Post \/ Delete \/ Returned

Spec == Init /\ [][Next]_vars

(***************************************************************************)
(* Properties                                                              *)
(***************************************************************************)

\* Every GET of a paginated fetch asks for a page it has not asked for yet:
\* following the Link header's rel="next" entry never leads back (the
\* loop of lines 104-115 has no other bound).
NoPageFetchedTwice == IsInjective(requested)

\* All or nothing, and in order (spec 4.2): a paginated fetch that returns
\* a list returns every record the server held at one moment during the
\* call, each sanitized, in the server's order; a single fetch returns the
\* sanitized record.
ResultIsASnapshot ==
    result \notin {Pending, Null} =>
        IF mode = "single" THEN result = SanitizeGhdata(pr)
        ELSE \E s \in snaps :
                /\ \A k \in DOMAIN s : Sanitizable(s[k])
                /\ result = [k \in DOMAIN s |-> SanitizeGhdata(s[k])]

\* The guarantee the loop does give: while other users only post (GitHub
\* appends a new comment at the end, so the pages already read keep their
\* records), a paginated fetch returns a list the server held at one moment.
SnapshotUnlessDeleted == ~raced => ResultIsASnapshot

\* Spec 4.1: a handle matches [A-Za-z0-9-]+ ("a" stands for the letters
\* and digits).
GitHubHandle(l) == l # <<>> /\ Range(l) \subseteq {"a", "-"}

\* The call returns None only when a GET raised or a record names an
\* author GitHub cannot have (spec 4.1: a malformed author fails the
\* record; nothing else does).
FailsOnlyOnError ==
    result = Null =>
        \/ fetchErr
        \/ mode = "single" /\ ~GitHubHandle(pr.user)
        \/ mode = "paged" /\ \E k \in DOMAIN obj : ~GitHubHandle(obj[k].user)
=============================================================================
