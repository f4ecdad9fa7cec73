-------------------------------- MODULE Coverage --------------------------------
(***************************************************************************)
(* Dates, date filters and digest coverage: the helpers at the head of     *)
(* strata/index.py, Index._covered, and the frontmatter checks of          *)
(* strata/corpus/notes.py they rest on.                                    *)
(*                                                                         *)
(* A day is <<year, month, day>>.  A range given by a caller names a year, *)
(* a month or a day and is the corresponding prefix, as its text is.       *)
(***************************************************************************)
EXTENDS ChunkPlan, Calendar

CONSTANTS
  Dates,         \* [iso, confidence, granularity] of the records considered
  Specs,         \* what a caller may give as from or to; Absent for nothing
  Fronts,        \* the frontmatter of notes considered: [type, window, complete]
  MaxToken,   \* bound on the corpus revisions
  Absent,          \* an absent field
  Bad            \* a field of the wrong shape

\* What a caller names: a year, a month or a day of the calendar; of December
\* 9999 datetime knows no day after.
Named(spec) ==
  /\ Len(spec) \in {1, 2, 3}
  /\ RealDay(spec[1], IF Len(spec) = 1 THEN 1 ELSE spec[2], IF Len(spec) = 3 THEN spec[3] ELSE 1)
  /\ spec # <<9999, 12>>

Day(day) == Len(day) = 3 /\ Named(day)

\* record.Date and _valid_window let real days pass only.
ASSUME CoverageAssumption ==
  /\ Specs \ {Absent} \subseteq Seq(Nat)
  /\ \A spec \in Specs \ {Absent} : Named(spec)
  /\ \A d \in Dates :
       d.confidence # "unknown" =>
         /\ d.iso \in Seq(Nat) /\ Day(d.iso)
         /\ d.granularity = "month" => Named(SubSeq(d.iso, 1, 2))
  /\ \A front \in Fronts :
       front.window \notin {Absent, Bad} =>
         /\ {front.window.from, front.window.to} \subseteq Seq(Nat)
         /\ Day(front.window.from) /\ Day(front.window.to)
  /\ MaxToken \in Nat /\ {Absent, Bad} \cap 0..MaxToken = {}

VARIABLES
  token,   \* the ledger's corpus revision
  date,    \* of a source record
  note,    \* a note as its file has it, saved by a reader; Absent before
  fresh,   \* ghost: whether no source changed since the note was saved
  query,   \* [from, to] of the last search; Absent before
  reply    \* what the search did with the record and the note

coverageVars == <<token, date, note, fresh, query, reply>>
-----------------------------------------------------------------------------
\* Order of texts: the first difference decides, a prefix comes first.
TextUpTo(s, t) ==
  \/ IsPrefix(s, t)
  \/ \E i \in DOMAIN s \cap DOMAIN t :
       s[i] < t[i] /\ \A j \in 1..i-1 : s[j] = t[j]
-----------------------------------------------------------------------------
(***************************************************************************)
(* Periods.                                                                *)
(***************************************************************************)
LastDayOfMonth(y, m) ==
  IF m = 12 THEN DayBefore(y + 1, 1) ELSE DayBefore(y, m + 1)

SpecBounds(spec) ==
  IF Len(spec) = 1 THEN [from |-> <<spec[1], 1, 1>>, to |-> <<spec[1], 12, 31>>]
  ELSE IF Len(spec) = 2
       THEN [from |-> <<spec[1], spec[2], 1>>, to |-> LastDayOfMonth(spec[1], spec[2])]
  ELSE [from |-> spec, to |-> spec]

\* Mutation: a partial date is taken for the first of its period.
PeriodStart(d) == [from |-> d.iso, to |-> d.iso]

\* Of a known date.
Period(d) ==
  LET y == d.iso[1]
  IN IF d.granularity = "day" THEN [from |-> d.iso, to |-> d.iso]
     ELSE IF d.granularity = "month"
          THEN [from |-> <<y, d.iso[2], 1>>, to |-> LastDayOfMonth(y, d.iso[2])]
     ELSE [from |-> <<y, 1, 1>>, to |-> <<y, 12, 31>>]

RangeStart(from) == IF from = Absent THEN <<0, 1, 1>> ELSE SpecBounds(from).from
RangeEnd(to) == IF to = Absent THEN <<9999, 12, 31>> ELSE SpecBounds(to).to

\* passes_range: the lexical branch, browsing and totals.
PassesRange(d, from, to) ==
  \/ d.confidence = "unknown"
  \/ from = Absent /\ to = Absent
  \/ /\ TextUpTo(Period(d).from, RangeEnd(to))
     /\ TextUpTo(RangeStart(from), Period(d).to)

\* _period_ints and _range_ints: the columns and bounds of the vector table.
DayNumber(day) == 10000 * day[1] + 100 * day[2] + day[3]

PeriodInts(d) ==
  IF d.confidence = "unknown" THEN [from |-> 0, to |-> 99999999]
  ELSE [from |-> DayNumber(Period(d).from), to |-> DayNumber(Period(d).to)]

\* _semantic_paragraph_ids: the semantic branch.
PassesVector(d, from, to) ==
  \/ from = Absent /\ to = Absent
  \/ /\ PeriodInts(d).from <= DayNumber(RangeEnd(to))
     /\ PeriodInts(d).to >= DayNumber(RangeStart(from))
-----------------------------------------------------------------------------
(***************************************************************************)
(* Notes and coverage.                                                     *)
(***************************************************************************)
\* _valid_window.
ValidWindow(w) ==
  IF w \in {Absent, Bad} THEN Absent ELSE IF TextUpTo(w.from, w.to) THEN w ELSE Absent

\* _read_one: fields that are malformed, that belong to digests only, or that
\* a revision is missing for, are cleared.
NoteRecord(n) ==
  LET digest == n.type = "digest"
      rev == IF digest /\ n.rev # Bad THEN n.rev ELSE Absent
  IN [type |-> n.type, window |-> ValidWindow(n.window), rev |-> rev,
      complete |-> IF digest /\ rev # Absent /\ n.complete \in {"true", "false"}
                   THEN n.complete ELSE "none"]

\* Mutation: only a window inside the range counts.
WindowInside(w, from, to) ==
  /\ TextUpTo(w.to, IF to = Absent THEN <<9999, 12, 31>> ELSE to)
  /\ TextUpTo(IF from = Absent THEN <<0, 1, 1>> ELSE from, w.from)

\* windows_overlap, as it is called: with the texts the caller gave.
WindowsOverlap(w, from, to) ==
  /\ TextUpTo(w.from, IF to = Absent THEN <<9999, 12, 31>> ELSE to)
  /\ TextUpTo(IF from = Absent THEN <<0, 1, 1>> ELSE from, w.to)

\* Mutation: a digest of any revision is credited.
EligibleEver(r) == r.type = "digest" /\ r.window # Absent /\ r.complete = "true"

Eligible(r) ==
  r.type = "digest" /\ r.window # Absent /\ r.complete = "true" /\ r.rev = token

\* _covered: the windows credited to a search.
Covered(n, from, to) ==
  IF n = Absent \/ (from = Absent /\ to = Absent) THEN {}
  ELSE {w \in {NoteRecord(n).window} :
          Eligible(NoteRecord(n)) /\ WindowsOverlap(w, from, to)}

\* The record's row, and the windows, as the plan compares them.
Row(d) ==
  [unknown |-> d.confidence = "unknown",
   iso |-> IF d.confidence = "unknown" THEN 0 ELSE DayNumber(d.iso),
   exact |-> d.confidence = "exact", source |-> TRUE, tokens |-> 1]

AsNumbers(windows) ==
  {[from |-> DayNumber(w.from), to |-> DayNumber(w.to)] : w \in windows}
-----------------------------------------------------------------------------
CoverageInit ==
  /\ token = 0 /\ date \in Dates
  /\ note = Absent /\ fresh = FALSE /\ query = Absent /\ reply = Absent

\* A reader saves a note, with the corpus revision its replies named, one of
\* an earlier reading, none, or a malformed one.
SaveNote ==
  /\ note = Absent /\ query = Absent
  /\ \E front \in Fronts, rev \in (0..token) \cup {Absent, Bad} :
       /\ note' = [type |-> front.type, window |-> front.window,
                   complete |-> front.complete, rev |-> rev]
       /\ fresh' = (rev = token)
  /\ UNCHANGED <<token, date, query, reply>>

\* A source changes, or its date does: the ledger's revision advances.
ChangeSource ==
  /\ token < MaxToken /\ query = Absent
  /\ token' = token + 1
  /\ date' \in Dates
  /\ fresh' = FALSE
  /\ UNCHANGED <<note, query, reply>>

SearchRange ==
  /\ query = Absent
  /\ \E from \in Specs, to \in Specs :
       LET windows == Covered(note, from, to)
       IN /\ query' = [from |-> from, to |-> to]
          /\ reply' = [lexical |-> PassesRange(date, from, to),
                       semantic |-> PassesVector(date, from, to),
                       covered |-> windows,
                       suppressed |-> IsCovered(Row(date), AsNumbers(windows))]
  /\ UNCHANGED <<token, date, note, fresh>>

CoverageNext == SaveNote \/ ChangeSource \/ SearchRange

CoverageSpec == CoverageInit /\ [][CoverageNext]_coverageVars
-----------------------------------------------------------------------------
(***************************************************************************)
(* Properties.                                                             *)
(***************************************************************************)
\* The days of a month, a year: what a period means, without the code's
\* arithmetic.
DaysOf(prefix) ==
  {day \in {<<prefix[1], m, d>> : m \in IF Len(prefix) = 1 THEN 1..12 ELSE {prefix[2]},
                                 d \in IF Len(prefix) < 3 THEN 1..31 ELSE {prefix[3]}} :
     day[3] <= DaysIn(day[1], day[2])}

PeriodDays(d) ==
  DaysOf(SubSeq(d.iso, 1, IF d.granularity = "day" THEN 3
                          ELSE IF d.granularity = "month" THEN 2 ELSE 1))

InRange(day, from, to) ==
  /\ from = Absent \/ TextUpTo(from, day)
  /\ to = Absent \/ TextUpTo(day, to) \/ IsPrefix(to, day)

\* passes_range: a record passes a range whose ends are in order when some
\* day of its period lies in the range, one without a date always does; and
\* "one predicate, two placements": whatever the range, the lexical branch and
\* the semantic one filter alike.
RangeIsOverlap ==
  query # Absent =>
    /\ reply.lexical = reply.semantic
    /\ TextUpTo(RangeStart(query.from), RangeEnd(query.to)) =>
         (reply.lexical <=>
            \/ date.confidence = "unknown"
            \/ \E day \in PeriodDays(date) : InRange(day, query.from, query.to))

\* _covered and _plan_candidates: a source is withheld from assignments only
\* if its very day lies in the window of a digest declared complete, and no
\* source has changed since the reading.
SuppressedIsRead ==
  query # Absent /\ reply.suppressed =>
    /\ fresh
    /\ date.confidence = "exact"
    /\ note.type = "digest" /\ note.complete = "true"
    /\ TextUpTo(note.window.from, date.iso) /\ TextUpTo(date.iso, note.window.to)

\* A digest at the current revision whose window holds a day of the range.
CoversRange ==
  /\ note # Absent /\ fresh
  /\ note.type = "digest" /\ note.complete = "true"
  /\ note.window \notin {Absent, Bad} /\ TextUpTo(note.window.from, note.window.to)
  /\ \/ InRange(note.window.from, query.from, query.to)
     \/ InRange(note.window.to, query.from, query.to)
     \/ query.from # Absent /\ \E day \in DaysOf(query.from) :
          /\ TextUpTo(note.window.from, day) /\ TextUpTo(day, note.window.to)
          /\ InRange(day, query.from, query.to)

\* "covered reports eligible digests": every digest that covers part of the
\* range searched is reported.
CoverageReported ==
  query # Absent /\ (query.from # Absent \/ query.to # Absent) /\ CoversRange =>
    reply.covered = {note.window}

\* The same, for ranges whose end is given to the day.
CoverageReportedForDays ==
  query # Absent /\ query.to # Absent /\ Len(query.to) = 3 => CoverageReported
=============================================================================
