------------------------------- MODULE ChunkPlan -------------------------------
(***************************************************************************)
(* The reader assignments of strata/index.py: which evidence records a     *)
(* plan assigns, in which order, and how they are cut into assignments of  *)
(* at most limit tokens.                                                   *)
(*                                                                         *)
(* rows maps a ref, a number standing for its place in the order of refs,  *)
(* to its record: unknown, iso (a day as a number, 0 when unknown), exact, *)
(* source, tokens.                                                         *)
(***************************************************************************)
EXTENDS Naturals, FiniteSets, Sequences, SequencesExt

PlanKey(rows, ref) == <<IF rows[ref].unknown THEN 1 ELSE 0, rows[ref].iso, ref>>

\* Comparison of lists of equal length, as Python and SQLite make it.
KeyBefore(k, l) ==
  \E i \in DOMAIN k : k[i] < l[i] /\ \A j \in 1..i-1 : k[j] = l[j]

KeyUpTo(k, l) == k = l \/ KeyBefore(k, l)

\* Only a source known to the day is ever proven inside a digest's window.
IsCovered(row, windows) ==
  /\ row.source /\ row.exact
  /\ \E w \in windows : w.from <= row.iso /\ row.iso <= w.to

\* The refs of a set, in plan order.
InOrder(rows, refs) ==
  CHOOSE list \in [1..Cardinality(refs) -> refs] :
    \A i, j \in DOMAIN list :
      i < j => KeyBefore(PlanKey(rows, list[i]), PlanKey(rows, list[j]))

Uncovered(rows, windows) == {r \in DOMAIN rows : ~IsCovered(rows[r], windows)}

Candidates(rows, windows) == InOrder(rows, Uncovered(rows, windows))
-----------------------------------------------------------------------------
\* The calendar-day buckets, neighbours of one day together.
SameDay(rows, r, s) ==
  rows[r].unknown = rows[s].unknown /\ rows[r].iso = rows[s].iso

PutInBucket(rows, buckets, r) ==
  IF buckets # <<>> /\ SameDay(rows, Last(buckets)[1], r)
  THEN Append(Front(buckets), Append(Last(buckets), r))
  ELSE Append(buckets, <<r>>)

Buckets(rows, refs) ==
  LET filled[k \in 0..Len(refs)] ==
        IF k = 0 THEN <<>> ELSE PutInBucket(rows, filled[k - 1], refs[k])
  IN filled[Len(refs)]

Tokens(rows, refs) ==
  LET sum[k \in 0..Len(refs)] ==
        IF k = 0 THEN 0 ELSE sum[k - 1] + rows[refs[k]].tokens
  IN sum[Len(refs)]

\* segment is <<k, n>> for the k-th of n parts of one record, else <<>>.
Assignment(refs, tokens, segment) ==
  [refs |-> refs, tokens |-> tokens, segment |-> segment]

\* _scoped_assignment: what the k-th segment of a record leaves to read.
ScopedAssignment(rows, refs, segment, limit) ==
  LET whole == Tokens(rows, refs)
      before == (segment[1] - 1) * limit
      left == IF whole > before THEN whole - before ELSE 0
  IN Assignment(refs,
       IF segment = <<>> THEN whole ELSE IF left > limit THEN limit ELSE left,
       segment)

\* The running state of _chunk_plan's loops.
Flush(s) ==
  [plan |-> IF s.refs = <<>> THEN s.plan
            ELSE Append(s.plan, Assignment(s.refs, s.tokens, <<>>)),
   refs |-> <<>>, tokens |-> 0]

MakeRoom(s, more, limit) ==
  IF s.refs # <<>> /\ s.tokens + more > limit THEN Flush(s) ELSE s

Extend(s, refs, more) ==
  [plan |-> s.plan, refs |-> s.refs \o refs, tokens |-> s.tokens + more]

Segments(rows, r, limit) ==
  LET n == (rows[r].tokens + limit - 1) \div limit
  IN [k \in 1..n |-> ScopedAssignment(rows, <<r>>, <<k, n>>, limit)]

AddRecord(rows, s, r, limit) ==
  IF rows[r].tokens > limit
  THEN [Flush(s) EXCEPT !.plan = @ \o Segments(rows, r, limit)]
  ELSE Extend(MakeRoom(s, rows[r].tokens, limit), <<r>>, rows[r].tokens)

AddRecords(rows, s, refs, limit) ==
  LET added[k \in 0..Len(refs)] ==
        IF k = 0 THEN s ELSE AddRecord(rows, added[k - 1], refs[k], limit)
  IN added[Len(refs)]

\* Mutation: a day is split whenever it does not fit what is left.
AddBucketRecordwise(rows, s, bucket, limit) == AddRecords(rows, s, bucket, limit)

AddBucket(rows, s, bucket, limit) ==
  LET more == Tokens(rows, bucket)
      room == MakeRoom(s, more, limit)
  IN IF more <= limit THEN Extend(room, bucket, more)
     ELSE AddRecords(rows, room, bucket, limit)

Plan(rows, windows, limit) ==
  LET buckets == Buckets(rows, Candidates(rows, windows))
      added[k \in 0..Len(buckets)] ==
        IF k = 0 THEN [plan |-> <<>>, refs |-> <<>>, tokens |-> 0]
        ELSE AddBucket(rows, added[k - 1], buckets[k], limit)
  IN Flush(added[Len(buckets)]).plan
-----------------------------------------------------------------------------
\* What an assignment's cursor carries, and the records it stands for.
Scope(rows, assignment) ==
  <<PlanKey(rows, assignment.refs[1]), PlanKey(rows, Last(assignment.refs))>>

\* Mutation: the scope is compared by day only.
SliceOfDays(rows, windows, scope) ==
  InOrder(rows, {r \in Uncovered(rows, windows) :
    /\ KeyUpTo(SubSeq(scope[1], 1, 2), SubSeq(PlanKey(rows, r), 1, 2))
    /\ KeyUpTo(SubSeq(PlanKey(rows, r), 1, 2), SubSeq(scope[2], 1, 2))})

Slice(rows, windows, scope) ==
  InOrder(rows, {r \in Uncovered(rows, windows) :
    KeyUpTo(scope[1], PlanKey(rows, r)) /\ KeyUpTo(PlanKey(rows, r), scope[2])})
=============================================================================
