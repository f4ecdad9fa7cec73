---------------------------- MODULE LedgerTables ----------------------------
(***************************************************************************)
(* The rows of .strata/ledger.db and the operations of class Ledger        *)
(* (src/strata/ledger.py) on them, as operators from the old rows to the   *)
(* new ones.  Ledger.tla makes a state machine of them; Refresh.tla uses   *)
(* them inside a whole refresh.                                            *)
(*                                                                         *)
(* One path's rows of the tables units, versions, anchors, active_text and *)
(* retired_text form one record, a Unit.  An anchor's autoincrement key is *)
(* left out: UNIQUE (unit_id, p) makes p do its work.  exact_text_hash is  *)
(* written and never read, and is left out.                                *)
(***************************************************************************)
EXTENDS Integers, Sequences, FiniteSets, Alignment

CONSTANTS
  Path,        \* source keys; numbers stand for their sorted order
  Text,        \* exact paragraph texts
  Sha,         \* hashes of raw bytes
  Converter,   \* name@version of a converter
  Paragraphs,  \* what a converter makes of the bytes behind a hash
  Null         \* SQL NULL

ASSUME PathAssumption == Path \subseteq Nat /\ IsFiniteSet(Path)
ASSUME ParagraphsAssumption == Paragraphs \in [Sha \X Converter -> Seq(Text)]
ASSUME NullAssumption == Null \notin Sha \cup Converter

(***************************************************************************)
(* Rows.                                                                   *)
(***************************************************************************)
ConverterColumn == Converter \cup {Null}

\* A file's paragraphs under one converter, fresh or cached; none when refused.
Converted(sha, converter) == Paragraphs[sha, converter]

Version == [converter : ConverterColumn, order : Seq(Nat)]

AnchorRow == [added : Nat, retired : Nat]        \* retired = 0 is NULL

\* f is a table keyed by p, with rows in S.
IsTable(f, S) ==
  /\ f \in [DOMAIN f -> S]
  /\ \A p \in DOMAIN f : p \in Nat /\ p > 0

\* id = 0: the path has no row in units, and nothing refers to it.
NewUnit(id) ==
  [id |-> id, sha |-> Null, deleted |-> FALSE, versions |-> <<>>,
   anchors |-> <<>>, active |-> <<>>, retired |-> <<>>]

EmptyLedger ==
  [units |-> [q \in Path |-> NewUnit(0)], token |-> 0, dating |-> Null]

(***************************************************************************)
(* Reads.                                                                  *)
(***************************************************************************)
\* COALESCE(MAX(column), 0)
SqlMax(S) == IF S = {} THEN 0 ELSE CHOOSE m \in S : \A x \in S : x <= m

LastVersion(u) == Len(u.versions)

\* Ledger.live_anchors: the paragraph order of the latest version.
LiveAnchors(u) ==
  IF LastVersion(u) = 0 THEN <<>> ELSE u.versions[LastVersion(u)].order

LiveTexts(u) == [i \in 1..Len(LiveAnchors(u)) |-> u.active[LiveAnchors(u)[i]]]

LastConverter(u) ==
  IF LastVersion(u) = 0 THEN Null ELSE u.versions[LastVersion(u)].converter

\* The exact text a number was given for, live or retired (Ledger.text).
Quote(u, p) == IF u.anchors[p].retired = 0 THEN u.active[p] ELSE u.retired[p]

\* Ledger._locate: a position in document order, or why there is none.
Locate(u, p) ==
  LET order == LiveAnchors(u)
      at == {i \in 1..Len(order) : order[i] = p}
  IN CASE at # {} -> [kind |-> "at", pos |-> CHOOSE i \in at : \A j \in at : i <= j]
       [] at = {} /\ p \in DOMAIN u.anchors -> [kind |-> "retired", pos |-> 0]
       [] OTHER -> [kind |-> "missing", pos |-> 0]

\* Ledger.range of p..q, or of the tail p.. when q = 0: the live numbers with
\* their texts, a diagnostic, or the error raised for a reversed span.
RangeOf(u, p, q) ==
  LET order == LiveAnchors(u)
      start == Locate(u, p)
      end == IF q = 0 THEN [kind |-> "at", pos |-> Len(order)] ELSE Locate(u, q)
  IN CASE start.kind # "at" -> [kind |-> start.kind, at |-> p, rows |-> <<>>]
       [] start.kind = "at" /\ end.kind # "at" ->
            [kind |-> end.kind, at |-> q, rows |-> <<>>]
       [] start.kind = "at" /\ end.kind = "at" /\ start.pos > end.pos ->
            [kind |-> "reversed", at |-> p, rows |-> <<>>]
       [] OTHER ->
            [kind |-> "rows", at |-> p,
             rows |-> [i \in 1..(end.pos - start.pos + 1) |->
                         LET r == order[start.pos + i - 1]
                         IN <<r, u.active[r]>>]]

(***************************************************************************)
(* Citations in notes: [form, p, q] with form "one" (p17), "span" (p17-22) *)
(* or "tail" (p17-).  Citing a retired number is legal.                    *)
(***************************************************************************)
\* Index._read_source of a citation with an anchor: a range, the live
\* paragraph, or the retired text under its marker.
ReadCitation(u, c) ==
  LET found == Locate(u, c.p)
  IN IF c.form # "one" THEN RangeOf(u, c.p, IF c.form = "span" THEN c.q ELSE 0)
     ELSE [kind |-> IF found.kind = "at" THEN "rows" ELSE found.kind, at |-> c.p,
           rows |-> IF found.kind = "missing" THEN <<>> ELSE <<<<c.p, Quote(u, c.p)>>>>]

\* Mutation: a range is checked at its start.
CitedOnlyStart(c) == {c.p}

Cited(c) == IF c.form = "span" THEN {c.p, c.q} ELSE {c.p}

\* Index._citation_warnings of one citation with an anchor.
CitationWarnings(u, c) ==
  IF u.id = 0 THEN {"missing"}
  ELSE IF /\ \A n \in Cited(c) : Locate(u, n).kind = "at"
          /\ c.form = "span" /\ Locate(u, c.p).pos > Locate(u, c.q).pos
       THEN {"reversed"}
  ELSE {Locate(u, n).kind : n \in Cited(c)} \ {"at"}

(***************************************************************************)
(* Numbering a new version: a matched paragraph keeps its number, any      *)
(* other takes the next one above every number the unit ever gave out.     *)
(***************************************************************************)
\* MAX(p) over every anchor the unit ever had, retired ones included.
MaxAnchor(u) == SqlMax(DOMAIN u.anchors)

\* The paragraph order of the version that `new` becomes.
NewOrder(u, new) ==
  LET keep == Match(LiveTexts(u), new)
  IN [i \in 1..Len(new) |->
        IF keep[i] # 0 THEN LiveAnchors(u)[keep[i]]
                       ELSE MaxAnchor(u) + FreshRank(keep, i)]

OrderSet(order) == {order[i] : i \in 1..Len(order)}

(***************************************************************************)
(* Writes of version LastVersion(u) + 1 with a given paragraph order.      *)
(***************************************************************************)
\* Numbers of the order that no row of anchors has yet.
Fresh(u, order) == OrderSet(order) \ DOMAIN u.anchors

\* Live numbers that the order no longer lists.
Retiring(u, order) == DOMAIN u.active \ OrderSet(order)

\* Mutation: retired_v is the last version that listed the number.
NextAnchorsRetiredEarly(u, order) ==
  LET n == LastVersion(u) + 1
  IN [p \in DOMAIN u.anchors \cup Fresh(u, order) |->
        IF p \in Fresh(u, order) THEN [added |-> n, retired |-> 0]
        ELSE IF p \in Retiring(u, order)
             THEN [added |-> u.anchors[p].added, retired |-> n - 1]
        ELSE u.anchors[p]]

\* _add_anchors inserts rows; _retire_anchors sets retired_v.
NextAnchors(u, order) ==
  LET n == LastVersion(u) + 1
  IN [p \in DOMAIN u.anchors \cup Fresh(u, order) |->
        IF p \in Fresh(u, order) THEN [added |-> n, retired |-> 0]
        ELSE IF p \in Retiring(u, order)
             THEN [added |-> u.anchors[p].added, retired |-> n]
        ELSE u.anchors[p]]

\* Mutation: a retired number's text is copied and not deleted.
NextActiveKeepsRetired(u, order, new) ==
  [p \in DOMAIN u.active \cup Fresh(u, order) |->
     IF p \in Fresh(u, order)
     THEN new[CHOOSE i \in 1..Len(order) : order[i] = p]
     ELSE u.active[p]]

\* A fresh number's text is the paragraph at its place in the order.
NextActive(u, order, new) ==
  [p \in (DOMAIN u.active \ Retiring(u, order)) \cup Fresh(u, order) |->
     IF p \in Fresh(u, order)
     THEN new[CHOOSE i \in 1..Len(order) : order[i] = p]
     ELSE u.active[p]]

\* _write_retired_text: the exact text moves from active_text.
NextRetired(u, order) ==
  [p \in DOMAIN u.retired \cup Retiring(u, order) |->
     IF p \in Retiring(u, order) THEN u.active[p] ELSE u.retired[p]]

WriteVersion(u, sha, deleted, converter, order, new) ==
  [id |-> u.id, sha |-> sha, deleted |-> deleted,
   versions |-> Append(u.versions, [converter |-> converter, order |-> order]),
   anchors |-> NextAnchors(u, order),
   active |-> NextActive(u, order, new),
   retired |-> NextRetired(u, order)]

\* The no-op test of Ledger.align.
Unchanged(u, sha, converter, dated) ==
  /\ LastVersion(u) > 0
  /\ ~u.deleted
  /\ u.sha = sha
  /\ LastConverter(u) = converter
  /\ ~dated

\* Ledger._do_align.
DoAlign(u, sha, converter) ==
  LET new == Converted(sha, converter)
  IN WriteVersion(u, sha, FALSE, converter, NewOrder(u, new), new)

\* Mutation: no _bump_revision.
AlignSilently(db, q, sha, converter, dated) ==
  IF Unchanged(db.units[q], sha, converter, dated)
  THEN db
  ELSE [db EXCEPT !.units[q] = DoAlign(@, sha, converter)]

\* Ledger.align of a registered path.
Align(db, q, sha, converter, dated) ==
  IF Unchanged(db.units[q], sha, converter, dated)
  THEN db
  ELSE [db EXCEPT !.units[q] = DoAlign(@, sha, converter), !.token = @ + 1]

\* An empty version: every live number retires, the hash is kept.
DoRetire(u) == WriteVersion(u, u.sha, TRUE, Null, <<>>, <<>>)

\* Mutation: no _bump_revision.
RetireUnitSilently(db, q) ==
  IF db.units[q].deleted THEN db ELSE [db EXCEPT !.units[q] = DoRetire(@)]

\* Ledger.retire_unit of a registered path.
RetireUnit(db, q) ==
  IF db.units[q].deleted
  THEN db
  ELSE [db EXCEPT !.units[q] = DoRetire(@), !.token = @ + 1]

Registered(db) == {q \in Path : db.units[q].id # 0}

\* Mutation: a deleted path that returns is registered anew.
RegisterAgain(db, S) ==
  LET new == {q \in S : q \notin Registered(db) \/ db.units[q].deleted}
      last == SqlMax({db.units[q].id : q \in Registered(db)})
      rank(q) == Cardinality({r \in new : r <= q})
  IN [db EXCEPT !.units = [q \in Path |->
        IF q \in new THEN NewUnit(last + rank(q)) ELSE db.units[q]]]

\* Ledger.register: paths never seen take the next numbers in sorted order.
Register(db, S) ==
  LET new == S \ Registered(db)
      last == SqlMax({db.units[q].id : q \in Registered(db)})
      rank(q) == Cardinality({r \in new : r <= q})
  IN [db EXCEPT !.units = [q \in Path |->
        IF q \in new THEN NewUnit(last + rank(q)) ELSE db.units[q]]]

SetDatingVersion(db, version) == [db EXCEPT !.dating = version]

\* What a corpus revision stands for: each aligned unit's content.
CorpusState(db) ==
  [q \in Path |->
     LET u == db.units[q]
     IN [sha |-> u.sha, converter |-> LastConverter(u), deleted |-> u.deleted,
         order |-> LiveAnchors(u)]]
-----------------------------------------------------------------------------
(***************************************************************************)
(* Types of rows.                                                          *)
(***************************************************************************)
IsUnit(u) ==
  /\ u = [id |-> u.id, sha |-> u.sha, deleted |-> u.deleted,
          versions |-> u.versions, anchors |-> u.anchors,
          active |-> u.active, retired |-> u.retired]
  /\ u.id \in Nat
  /\ u.sha \in Sha \cup {Null}
  /\ u.deleted \in BOOLEAN
  /\ u.versions \in Seq(Version)
  /\ IsTable(u.anchors, AnchorRow)
  /\ IsTable(u.active, Text)
  /\ IsTable(u.retired, Text)

AreRows(d) ==
  /\ d = [units |-> d.units, token |-> d.token, dating |-> d.dating]
  /\ d.units \in [Path -> {d.units[q] : q \in Path}]
  /\ \A q \in Path : IsUnit(d.units[q])
  /\ d.token \in Nat
-----------------------------------------------------------------------------
(***************************************************************************)
(* What one unit's rows have to agree on.                                  *)
(***************************************************************************)
IsLive(u, p) == p \in DOMAIN u.anchors /\ u.anchors[p].retired = 0

\* Each number has its text in exactly one table, the one its state says.
TextSplit(u) ==
  /\ DOMAIN u.active = {p \in DOMAIN u.anchors : u.anchors[p].retired = 0}
  /\ DOMAIN u.retired = {p \in DOMAIN u.anchors : u.anchors[p].retired # 0}

\* The latest order lists exactly the live numbers, each once.
OrderIsLive(u) ==
  /\ OrderSet(LiveAnchors(u)) = DOMAIN u.active
  /\ \A i, j \in 1..Len(LiveAnchors(u)) :
       LiveAnchors(u)[i] = LiveAnchors(u)[j] => i = j

\* A number stands in the orders of the versions it was live in, no others.
Lifetimes(u) ==
  /\ \A n \in 1..LastVersion(u) :
       OrderSet(u.versions[n].order) \subseteq DOMAIN u.anchors
  /\ \A p \in DOMAIN u.anchors :
       /\ u.anchors[p].added \in 1..LastVersion(u)
       /\ u.anchors[p].retired <= LastVersion(u)
       /\ \A n \in 1..LastVersion(u) :
            (p \in OrderSet(u.versions[n].order)) <=>
              (/\ u.anchors[p].added <= n
               /\ u.anchors[p].retired = 0 \/ n < u.anchors[p].retired)

\* The live paragraphs are, in order, what was last aligned.
ContentMatches(u) ==
  IF u.deleted \/ LastVersion(u) = 0
  THEN LiveAnchors(u) = <<>>
  ELSE LiveTexts(u) = Converted(u.sha, LastConverter(u))
-----------------------------------------------------------------------------
(***************************************************************************)
(* The citations that the rows stand for.                                  *)
(***************************************************************************)
QuoteOf(d) ==
  [q \in Path |-> [p \in DOMAIN d.units[q].anchors |-> Quote(d.units[q], p)]]

LiveOf(d) == [q \in Path |-> DOMAIN d.units[q].active]
=============================================================================
