------------------------------- MODULE Documents -------------------------------
(***************************************************************************)
(* From a file to dated, addressable records and back: the date of a file, *)
(* the sections of a chapter (src/strata/corpus/manuscript.py), the refs   *)
(* they are indexed by (src/strata/refs.py, Record._check_ref) and the     *)
(* reading of a section by its ref (index.py, _manuscript_section).        *)
(*                                                                         *)
(* A paragraph of a chapter is [depth, mark, title]: as many # as depth,   *)
(* none in plain text, then a space or a tab.  A title is a name and the   *)
(* numbers in parentheses it ends in: "Morning (2)" is a name and <<2>>,   *)
(* the name "" being that of "(2)" alone.                                  *)
(***************************************************************************)
EXTENDS Dating

CONSTANT Units   \* the files considered

Title == [name : STRING, numbers : Seq(Nat)]

Paragraph == [depth : Nat, mark : {"space", "tab"}, title : Title]

ASSUME DocumentsAssumption ==
  \A u \in Units :
    /\ u.chapter \in Seq(Paragraph)
    /\ u.name \in Text /\ u.lines \in Seq([label : BOOLEAN, text : Text])
    /\ u.created \in Seq(Nat \X Nat \X Nat)
    /\ \A text \in {u.name} \cup {u.lines[i].text : i \in DOMAIN u.lines} :
         text.whole => OneDate(text)

VARIABLES
  unit,      \* a file
  outcome,   \* of a refresh: "none", "indexed", "raised"
  date,      \* that its records have
  chapter,   \* its paragraphs as indexed
  index,     \* the sections indexed: ref to paragraphs
  reply      \* of the last read of a section, <<ref, paragraphs>>

documentsVars == <<unit, outcome, date, chapter, index, reply>>
-----------------------------------------------------------------------------
(***************************************************************************)
(* Section refs: refs.render, refs.parse, Record._check_ref.               *)
(***************************************************************************)
Render(title, occurrence) ==
  IF occurrence = 1 THEN title ELSE [title EXCEPT !.numbers = Append(@, occurrence)]

Parse(ref) ==
  IF ref.numbers = <<>> THEN [title |-> ref, occurrence |-> 1]
  ELSE [title |-> [ref EXCEPT !.numbers = Front(@)], occurrence |-> Last(ref.numbers)]

\* An occurrence below 1, or nothing before it.
RefusedRef(ref) ==
  ref.numbers # <<>> /\
    (Last(ref.numbers) < 1 \/ Parse(ref).title = [name |-> "", numbers |-> <<>>])

Acceptable(ref) ==
  /\ ~RefusedRef(ref)
  /\ Render(Parse(ref).title, Parse(ref).occurrence) = ref
-----------------------------------------------------------------------------
(***************************************************************************)
(* Sections as the adapter cuts them: _sections, _records_for_file.        *)
(***************************************************************************)
HeadingIn(paras, i) == paras[i].depth \in 1..6

\* Mutation: any following heading ends the section.
SectionEndAtAny(paras, i) ==
  LET after == {j \in i + 1 .. Len(paras) : HeadingIn(paras, j)}
  IN IF after = {} THEN Len(paras) ELSE Min(after) - 1

\* Up to the next heading of equal or shallower depth.
SectionEnd(paras, i) ==
  LET after == {j \in i + 1 .. Len(paras) :
                  HeadingIn(paras, j) /\ paras[j].depth <= paras[i].depth}
  IN IF after = {} THEN Len(paras) ELSE Min(after) - 1

SectionText(paras, i) == SubSeq(paras, i, SectionEnd(paras, i))

SectionStarts(paras) == {i \in DOMAIN paras : paras[i].depth \in {1, 2}}

\* Mutation: headings are counted at each depth apart.
OccurrenceAtDepth(paras, i) ==
  Cardinality({j \in SectionStarts(paras) :
                 j <= i /\ paras[j].title = paras[i].title /\ paras[j].depth = paras[i].depth})

OccurrenceOf(paras, i) ==
  Cardinality({j \in SectionStarts(paras) : j <= i /\ paras[j].title = paras[i].title})

RefOf(paras, i) == Render(paras[i].title, OccurrenceOf(paras, i))

\* Index.sync, {record.ref: record}: of records with one ref the last stays.
Sections(paras) ==
  [ref \in {RefOf(paras, i) : i \in SectionStarts(paras)} |->
     SectionText(paras, Max({i \in SectionStarts(paras) : RefOf(paras, i) = ref}))]
-----------------------------------------------------------------------------
(***************************************************************************)
(* Sections as the reader finds them: _manuscript_section.                 *)
(***************************************************************************)
\* _heading_depth: any number of #, but a space after them.
SeenAsHeading(paras, i) == paras[i].depth >= 1 /\ paras[i].mark = "space"

Matches(paras, title) == {i \in DOMAIN paras : SeenAsHeading(paras, i) /\ paras[i].title = title}

\* The occurrence-th match; fewer raise.
Found(paras, ref) ==
  {i \in Matches(paras, Parse(ref).title) :
     Cardinality({j \in Matches(paras, Parse(ref).title) : j <= i}) = Parse(ref).occurrence}

ReadSection(paras, ref) ==
  LET start == CHOOSE i \in Found(paras, ref) : TRUE
      after == {j \in start + 1 .. Len(paras) :
                  SeenAsHeading(paras, j) /\ paras[j].depth <= paras[start].depth}
  IN IF Found(paras, ref) = {} THEN Null
     ELSE SubSeq(paras, start, IF after = {} THEN Len(paras) ELSE Min(after) - 1)
-----------------------------------------------------------------------------
DocumentsInit ==
  /\ unit \in Units
  /\ outcome = "none" /\ date = Unknown /\ chapter = <<>>
  /\ index = <<>> /\ reply = Null

\* Of a file the adapters and Record accept.
Accepted(u) ==
  IsDate(DateOf(u)) /\ \A i \in SectionStarts(u.chapter) : Acceptable(RefOf(u.chapter, i))

\* A refresh that reads the file and indexes what it made of it.
Refresh ==
  /\ outcome = "none" /\ Accepted(unit)
  /\ outcome' = "indexed"
  /\ date' = DateOf(unit)
  /\ chapter' = unit.chapter
  /\ index' = Sections(unit.chapter)
  /\ UNCHANGED <<unit, reply>>

\* Date or Record raises: the refresh of the whole project fails.
RefreshRaises ==
  /\ outcome = "none" /\ ~Accepted(unit)
  /\ outcome' = "raised"
  /\ UNCHANGED <<unit, date, chapter, index, reply>>

\* The ref of a hit is read.  Every call refreshes before it answers; the
\* file has not changed since the search.
Read ==
  /\ outcome = "indexed" /\ reply = Null
  /\ \E ref \in DOMAIN index : reply' = <<ref, ReadSection(chapter, ref)>>
  /\ UNCHANGED <<unit, outcome, date, chapter, index>>

DocumentsNext == Refresh \/ RefreshRaises \/ Read

DocumentsSpec == DocumentsInit /\ [][DocumentsNext]_documentsVars
-----------------------------------------------------------------------------
(***************************************************************************)
(* Properties.                                                             *)
(***************************************************************************)
\* What the adapter and the reader see alike: a space after every #, and no
\* section's title on a heading too deep to be a section.
SeenAlike(paras) ==
  \A i \in DOMAIN paras :
    /\ HeadingIn(paras, i) => paras[i].mark = "space"
    /\ paras[i].depth > 2 => \A j \in SectionStarts(paras) : paras[j].title # paras[i].title

\* No section's title ends in a number of its own.
Unnumbered(paras) == \A i \in SectionStarts(paras) : paras[i].title.numbers = <<>>

ReadsBack == reply # Null => reply[2] = index[reply[1]]

\* The ref a search gives for a section reads that section back: what the
\* adapter cut and what the reader finds are the same paragraphs, where both
\* see the same headings and no number.  (_sections, _manuscript_section)
SectionsReadBack == SeenAlike(chapter) /\ Unnumbered(chapter) => ReadsBack

KeepsSections ==
  outcome = "indexed" =>
    \A i \in SectionStarts(chapter) :
      \E ref \in DOMAIN index : index[ref] = SectionText(chapter, i)

\* No section of an indexed chapter is lost to another that got its ref, if no
\* title is numbered.  (_records_for_file; the index keys on refs)
EverySectionIndexed == Unnumbered(chapter) => KeepsSections

\* A day as read in the century that was guessed for a year of two digits.
InCentury(day, d) ==
  IF d.text.named # Null /\ d.text.named.digits = 2 THEN <<d.iso[1], day[2], day[3]>> ELSE day

\* A date taken from a line claims no more than the line says, but for the
\* century of a year of two digits, which is guessed and filed as "inferred":
\* the days the line may mean lie in its period, and an exact date is the only
\* one.  (_body_hit, _find_date_shape, _expand_year)
DatesAreHonest ==
  date.text # Null /\ date.text.whole =>
    /\ date.confidence = "exact" => Readings(date.text) = {date.iso}
    /\ \A day \in Readings(date.text) : InPeriod(InCentury(day, date), date)

\* "A date filter drops only what is known to fall outside the range"
\* (CONTEXT.md:83-84): every day the line may mean lies in the period that
\* filters compare.
PeriodsCoverReadings ==
  date.text # Null /\ date.text.whole => \A day \in Readings(date.text) : InPeriod(day, date)

\* "The walk never aborts on one": no single file fails the refresh.
NoFileAborts == outcome # "raised"
=============================================================================
