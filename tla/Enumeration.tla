------------------------------ MODULE Enumeration ------------------------------
(***************************************************************************)
(* Index.search and its continuation cursor: four lists paged together     *)
(* under one reply budget, over an index that changes between the calls.   *)
(*                                                                         *)
(* A list is a sequence of rows, a row its rendered cost; what the rows    *)
(* say does not matter here.  A cursor carries the index revision and one  *)
(* offset per list.                                                        *)
(***************************************************************************)
EXTENDS Naturals, Sequences

CONSTANTS
  Content,     \* the possible contents of an index: costs of the rows of each list
  Published,   \* those a refresh may publish
  Budget,      \* reply_token_budget
  Header,      \* cost of the fields every reply has
  CursorCost,  \* cost of a continuation
  HitCap,      \* QUERY_HIT_CAP, BROWSE_HIT_CAP
  ListCap,     \* LIST_PAGE_CAP
  MaxRevision, \* bound on the index revisions
  Null

\* In the order of the dict the trimming loop looks at.
List == 1..4
Hits == 4

ASSUME EnumerationAssumption ==
  /\ Content \subseteq [List -> Seq(Nat)] /\ Published \subseteq Content
  /\ {Budget, Header, CursorCost, HitCap, ListCap, MaxRevision} \subseteq Nat
  /\ Header + CursorCost <= Budget /\ HitCap > 0 /\ ListCap > 0

VARIABLES
  content, revision,  \* the index
  cursor,             \* the client's continuation, or Null
  offset, page,       \* of the reply being built: its offsets, rows per list
  got,                \* the rows the client has collected, with their revision
  status              \* "new", "building", "open", "done", "refused" or "failed"

vars == <<content, revision, cursor, offset, page, got, status>>

Start == [l \in List |-> 0]

Init ==
  /\ content \in Content /\ revision = 0
  /\ cursor = Null /\ offset = Start /\ page = Start
  /\ got = [l \in List |-> <<>>] /\ status = "new"
-----------------------------------------------------------------------------
(***************************************************************************)
(* One reply: cut every list at its cap, then pop rows off whichever page  *)
(* is longest until the rendered reply fits.                               *)
(***************************************************************************)
Smaller(m, n) == IF m < n THEN m ELSE n

\* The length of a slice: an offset behind the end leaves nothing.
Left(l, off) == IF off[l] < Len(content[l]) THEN Len(content[l]) - off[l] ELSE 0

Capped(off) ==
  [l \in List |-> Smaller(Left(l, off), IF l = Hits THEN HitCap ELSE ListCap)]

\* next_offsets.
After(size) == [l \in List |-> offset[l] + size[l]]

\* Mutation: only the hits are looked at.
MoreHits(off) == off[Hits] < Len(content[Hits])

More(off) == \E l \in List : off[l] < Len(content[l])

\* What the first n rows after an offset cost together.
RowsCost(rows, from, n) ==
  LET cost[i \in 0..n] == IF i = 0 THEN 0 ELSE cost[i - 1] + rows[from + i]
  IN cost[n]

Cost(size) ==
  LET rows(l) == RowsCost(content[l], offset[l], size[l])
  IN Header + rows(1) + rows(2) + rows(3) + rows(4)
       + (IF More(After(size)) THEN CursorCost ELSE 0)

Fits(size) == Cost(size) <= Budget

Longest(size) ==
  CHOOSE l \in List : /\ \A m \in List : size[m] <= size[l]
                      /\ \A m \in 1..l-1 : size[m] < size[l]

\* Mutation: the longest page is given up whole.
PopWhole(size) == [size EXCEPT ![Longest(size)] = 0]

Pop(size) == [size EXCEPT ![Longest(size)] = @ - 1]
-----------------------------------------------------------------------------
\* A fresh search; after an invalidated cursor, of the original scope.
Search ==
  /\ status \in {"new", "refused"}
  /\ offset' = Start
  /\ page' = Capped(Start)
  /\ status' = "building"
  /\ UNCHANGED <<content, revision, cursor, got>>

\* Mutation: the cursor's revision is not compared.
ResumeAnyway ==
  /\ status = "open"
  /\ offset' = cursor.off
  /\ page' = Capped(cursor.off)
  /\ status' = "building"
  /\ UNCHANGED <<content, revision, cursor, got>>

\* The cursor alone.
Resume ==
  /\ status = "open"
  /\ cursor.rev = revision
  /\ offset' = cursor.off
  /\ page' = Capped(cursor.off)
  /\ status' = "building"
  /\ UNCHANGED <<content, revision, cursor, got>>

\* A CursorError: the client drops what it has.
Refuse ==
  /\ status = "open"
  /\ cursor.rev # revision
  /\ cursor' = Null /\ got' = [l \in List |-> <<>>]
  /\ status' = "refused"
  /\ UNCHANGED <<content, revision, offset, page>>

Shorten ==
  /\ status = "building"
  /\ ~Fits(page) /\ page # Start
  /\ page' = Pop(page)
  /\ UNCHANGED <<content, revision, cursor, offset, got, status>>

\* Mutation: a reply that does not advance is sent nonetheless.
SendAnyway ==
  /\ status = "building"
  /\ Fits(page) \/ page = Start
  /\ got' = [l \in List |->
       got[l] \o [i \in 1..page[l] |-> <<revision, offset[l] + i>>]]
  /\ IF More(After(page))
     THEN cursor' = [rev |-> revision, off |-> After(page)] /\ status' = "open"
     ELSE cursor' = Null /\ status' = "done"
  /\ UNCHANGED <<content, revision, offset, page>>

Send ==
  /\ status = "building"
  /\ Fits(page) \/ page = Start
  /\ ~(page = Start /\ More(offset))
  /\ got' = [l \in List |->
       got[l] \o [i \in 1..page[l] |-> <<revision, offset[l] + i>>]]
  /\ IF More(After(page))
     THEN cursor' = [rev |-> revision, off |-> After(page)] /\ status' = "open"
     ELSE cursor' = Null /\ status' = "done"
  /\ UNCHANGED <<content, revision, offset, page>>

\* "Search scope or metadata cannot fit the reply budget."
GiveUp ==
  /\ status = "building"
  /\ page = Start /\ More(offset)
  /\ status' = "failed"
  /\ UNCHANGED <<content, revision, cursor, offset, page, got>>

\* A refresh publishes other records; no call runs meanwhile.
Publish ==
  /\ revision < MaxRevision /\ status \in {"new", "open", "refused"}
  /\ revision' = revision + 1
  /\ content' \in Published
  /\ UNCHANGED <<cursor, offset, page, got, status>>

Call == Search \/ Resume \/ Refuse \/ Shorten \/ Send \/ GiveUp

Next == Call \/ Publish

Spec == Init /\ [][Next]_vars

\* The client follows its cursor to the end.
FairSpec == Spec /\ WF_vars(Call)
-----------------------------------------------------------------------------
(***************************************************************************)
(* Properties.                                                             *)
(***************************************************************************)
\* search: what a client has collected is the head of each list, every row
\* once and in order, all of one revision: the one its cursor names.
RowsOnceInOrder ==
  status \in {"open", "done"} =>
    \E r \in 0..revision :
      /\ cursor # Null => cursor.rev = r
      /\ \A l \in List :
           /\ got[l] = [i \in 1..Len(got[l]) |-> <<r, i>>]
           /\ cursor # Null => Len(got[l]) = cursor.off[l]

\* search: a reply without a continuation leaves no row of any list behind,
\* however its pages were shortened.
EndMeansAll ==
  [][status' = "done" /\ status # "done" =>
       \A l \in List : Len(got'[l]) = Len(content[l])]_vars

\* The trimming loop and the final check: the server gives up only over a
\* row that no reply could carry.
FailsOnlyOverOneRow ==
  status = "failed" =>
    \E l \in List : \E i \in DOMAIN content[l] :
      i > offset[l] /\ Header + content[l][i] + CursorCost > Budget

\* The same: following the cursor ends, whatever is published meanwhile.
EnumerationEnds == <>(status \in {"done", "failed"})
=============================================================================
