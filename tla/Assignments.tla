------------------------------ MODULE Assignments ------------------------------
(***************************************************************************)
(* A client fanning a search out to readers: it pages through the chunk    *)
(* rows of one scope at one index revision, then each reader executes one  *)
(* assignment's cursor.  Every call plans anew, with the chunk_tokens that *)
(* config.yaml holds at that moment.                                       *)
(***************************************************************************)
EXTENDS ChunkPlan, FiniteSets

CONSTANTS
  AllRows,      \* the evidence sets considered, each a function from refs
  AllWindows,   \* the sets of covered windows considered
  Limits,       \* values of chunk_tokens
  MaxEdits      \* bound on the edits of chunk_tokens

Record == [unknown : BOOLEAN, iso : Nat, exact : BOOLEAN, source : BOOLEAN, tokens : Nat]

ASSUME AssignmentsAssumption ==
  /\ \A index \in AllRows :
       /\ DOMAIN index \subseteq Nat /\ IsFiniteSet(DOMAIN index)
       /\ \A r \in DOMAIN index : index[r] \in Record
  /\ Limits \subseteq Nat \ {0}

VARIABLES
  rows, windows,  \* the index and its coverage at this revision
  limit,          \* chunk_tokens in config.yaml
  edits,          \* how often it was edited
  listed,         \* the assignments listed so far
  budgets,        \* history: the values of chunk_tokens they were planned with
  whole,          \* whether the list of assignments is exhausted
  executed        \* for each assignment executed, the reply's plan row

assignmentsVars == <<rows, windows, limit, edits, listed, budgets, whole, executed>>

AssignmentsInit ==
  /\ rows \in AllRows /\ windows \in AllWindows /\ limit \in Limits
  /\ edits = 0
  /\ listed = <<>> /\ budgets = {} /\ whole = FALSE
  /\ executed = <<>>

\* A reply of search: as many of the next rows as it has room for.
Page ==
  LET plan == Plan(rows, windows, limit)
      offset == Len(listed)
  IN /\ ~whole
     /\ \/ /\ offset >= Len(plan)
           /\ whole' = TRUE
           /\ UNCHANGED listed
        \/ \E upTo \in offset + 1..Len(plan) :
             /\ listed' = listed \o SubSeq(plan, offset + 1, upTo)
             /\ whole' = (upTo = Len(plan))
     /\ budgets' = budgets \cup {limit}
     /\ UNCHANGED <<rows, windows, limit, edits, executed>>

\* The next assignment's cursor, executed alone.
Execute ==
  /\ whole
  /\ Len(executed) < Len(listed)
  /\ LET assignment == listed[Len(executed) + 1]
         refs == Slice(rows, windows, Scope(rows, assignment))
     IN executed' = Append(executed,
          ScopedAssignment(rows, refs, assignment.segment, limit))
  /\ UNCHANGED <<rows, windows, limit, edits, listed, budgets, whole>>

\* A hand edit of config.yaml, which changes no revision.
EditChunkTokens ==
  /\ edits < MaxEdits
  /\ edits' = edits + 1
  /\ limit' \in Limits \ {limit}
  /\ UNCHANGED <<rows, windows, listed, budgets, whole, executed>>

AssignmentsNext == Page \/ Execute \/ EditChunkTokens

AssignmentsSpec == AssignmentsInit /\ [][AssignmentsNext]_assignmentsVars
-----------------------------------------------------------------------------
(***************************************************************************)
(* Properties.                                                             *)
(***************************************************************************)
\* The first and the last assignment of a record cut in segments; any other.
Opens(a) == a.segment = <<>> \/ a.segment[1] = 1
Closes(a) == a.segment = <<>> \/ a.segment[1] = a.segment[2]

\* Row i of a plan is a stretch of the records to assign that goes on behind
\* the row before, or the next segment of its record.
Follows(plan, i, all) ==
  \E from \in DOMAIN all : \E upTo \in from..Len(all) :
    /\ plan[i].refs = SubSeq(all, from, upTo)
    /\ IF Opens(plan[i])
       THEN IF i = 1 THEN from = 1
            ELSE /\ from > 1 /\ Last(plan[i - 1].refs) = all[from - 1]
                 /\ Closes(plan[i - 1])
       ELSE /\ i > 1 /\ from = upTo /\ plan[i - 1].refs = plan[i].refs
            /\ plan[i - 1].segment = <<plan[i].segment[1] - 1, plan[i].segment[2]>>

\* Each assignment follows the one before, and no record is left.
Partitions(plan, all) ==
  /\ plan = <<>> <=> all = <<>>
  /\ plan # <<>> => Closes(Last(plan)) /\ Last(Last(plan).refs) = Last(all)
  /\ \A i \in DOMAIN plan : Follows(plan, i, all)

\* A calendar day that fits in one assignment is never split.
DaysTogether(plan, all, most) ==
  \A k \in DOMAIN Buckets(rows, all) :
    LET day == Buckets(rows, all)[k]
    IN Tokens(rows, day) <= most =>
         \E i \in DOMAIN plan : ToSet(day) \subseteq ToSet(plan[i].refs)

Partition == Partitions(listed, Candidates(rows, windows))

DaysKeptTogether ==
  \A b \in budgets : DaysTogether(listed, Candidates(rows, windows), b)

\* _chunk_plan: however many pages it takes to list them, the assignments a
\* client has listed to the end partition the evidence and split no day
\* without need, if chunk_tokens was not edited between two of those pages.
PlanPartitions ==
  whole /\ Cardinality(budgets) = 1 => Partition /\ DaysKeptTogether

\* "Following continuations visits the entire evidence set once at a stable
\* revision." (docs/design.md:253), whatever else changes.
RevisionPartitions == whole => Partition

\* _chunk_row and search: executing an assignment's cursor returns the very
\* records and segment that were listed, also when chunk_tokens was edited
\* after or while they were; and the same cost when it was not.
ExecutedAsListed ==
  \A i \in DOMAIN executed :
    /\ executed[i].refs = listed[i].refs /\ executed[i].segment = listed[i].segment
    /\ edits = 0 => executed[i].tokens = listed[i].tokens
=============================================================================
