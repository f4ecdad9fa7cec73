-------------------------------- MODULE Dating --------------------------------
(***************************************************************************)
(* What dates a file (src/strata/dating.py): transport headers, the first  *)
(* line, the path, the document's metadata, in that order, first hit wins. *)
(*                                                                         *)
(* A text - a line, a file name - is what the patterns find in it:         *)
(*   iso       the first yyyy-mm-dd, as a triple                           *)
(*   named     the first day with a month's name, and its year's digits    *)
(*   numeric   the first a/b/yyyy                                          *)
(*   month     the first month's name with a four-digit year               *)
(*   whole     the text is one date and nothing else                       *)
(*   long      the text is over the cap for a dated line                   *)
(* each Null where the pattern matches nowhere.                            *)
(***************************************************************************)
EXTENDS Calendar, SequencesExt

CONSTANT Null

FirstHit(s) ==
  LET hits == {i \in DOMAIN s : s[i] # Null}
  IN IF hits = {} THEN Null ELSE s[CHOOSE i \in hits : \A j \in hits : i <= j]

Only(condition, x) == IF condition THEN x ELSE Null
-----------------------------------------------------------------------------
(***************************************************************************)
(* Date shapes: _valid_day, _expand_year, _find_date_shape.                *)
(***************************************************************************)
ValidDay(y, m, d) == y \in 1900..2100 /\ RealDay(y, m, d)

ExpandYear(y, digits) ==
  IF digits = 4 THEN y ELSE IF y <= 68 THEN 2000 + y ELSE 1900 + y

DayShape(source, y, m, d, digits) ==
  Only(ValidDay(y, m, d),
       [kind |-> "day", source |-> source, year |-> y, month |-> m, day |-> d, digits |-> digits])

\* What the patterns can find in a text: a text that is one date and nothing
\* else matches one of them, save that the month and year of a day are seen by
\* the pattern of months too.
Text ==
  [iso : {Null} \cup (Nat \X Nat \X Nat),
   named : {Null} \cup [year : Nat, month : Nat, day : Nat, digits : {2, 4}],
   numeric : {Null} \cup [a : Nat, b : Nat, year : Nat],
   month : {Null} \cup [year : Nat, month : Nat],
   whole : BOOLEAN, long : BOOLEAN]

OneDate(text) ==
  /\ text.iso = Null \/ (text.named = Null /\ text.numeric = Null)
  /\ text.named = Null \/ text.numeric = Null
  /\ text.month # Null =>
       /\ text.iso = Null /\ text.numeric = Null
       /\ text.named # Null =>
            /\ text.named.digits = 4
            /\ text.named.year = text.month.year /\ text.named.month = text.month.month

\* Mutation: the day comes first, as in most of the world.
NumericDayFirst(n) == DayShape("numeric", n.year, n.b, n.a, 4)

NumericShape(n) ==
  IF n.a <= 12 /\ n.b <= 12
  THEN [kind |-> "ambiguous", source |-> "numeric", year |-> n.year]
  ELSE IF n.a > 12 THEN DayShape("numeric", n.year, n.b, n.a, 4)
                   ELSE DayShape("numeric", n.year, n.a, n.b, 4)

MonthShape(m) ==
  [kind |-> "month", source |-> "month", year |-> m.year, month |-> m.month]

Shape(text) ==
  FirstHit(<<
    IF text.iso = Null THEN Null
    ELSE DayShape("iso", text.iso[1], text.iso[2], text.iso[3], 4),
    IF text.named = Null THEN Null
    ELSE DayShape("named", ExpandYear(text.named.year, text.named.digits),
                  text.named.month, text.named.day, text.named.digits),
    IF text.numeric = Null THEN Null ELSE NumericShape(text.numeric),
    IF text.month = Null THEN Null ELSE MonthShape(text.month)>>)
-----------------------------------------------------------------------------
(***************************************************************************)
(* Dates, and the text each was taken from.                                *)
(***************************************************************************)
DateRow(iso, confidence, granularity, text) ==
  [iso |-> iso, confidence |-> confidence, granularity |-> granularity, text |-> text]

Unknown == DateRow(<<>>, "unknown", "day", Null)

\* record.Date.__post_init__: what else is no date raises.
IsDate(d) == d # Unknown => RealDay(d.iso[1], d.iso[2], d.iso[3])

FromShape(shape, exact, text) ==
  IF shape.kind = "ambiguous" THEN DateRow(<<shape.year, 1, 1>>, "inferred", "year", text)
  ELSE IF shape.kind = "month"
       THEN DateRow(<<shape.year, shape.month, 1>>, "inferred", "month", text)
  ELSE DateRow(<<shape.year, shape.month, shape.day>>,
               IF exact THEN "exact" ELSE "inferred", "day", text)

\* _body_hit
BodyHit(text) ==
  LET shape == Shape(text)
  IN IF text.long \/ shape = Null THEN Null
     ELSE FromShape(shape, text.whole /\ shape.kind = "day" /\ shape.digits = 4, text)

\* _email_headers: the Date header, else the earliest Received.
Headers(unit) ==
  IF unit.suffix # "eml" THEN Null
  ELSE IF unit.sent # Null THEN DateRow(unit.sent, "exact", "day", Null)
  ELSE IF unit.received = {} THEN Null
  ELSE DateRow((CHOOSE r \in unit.received : \A q \in unit.received : r.at <= q.at).day,
               "inferred", "day", Null)

\* _first_line: the first line, then lines labelled as dates among the next
\* four.  Words of a docx or pdf come from its converter alone.
FirstLine(unit) ==
  IF unit.suffix = "eml" THEN Null
  ELSE FirstHit([i \in DOMAIN unit.lines |->
         Only(i = 1 \/ (i <= 5 /\ unit.lines[i].label), BodyHit(unit.lines[i].text))])

\* _filename_hit
FileNameHit(name) ==
  LET shape == Shape(name)
  IN IF shape = Null THEN Null ELSE FromShape(shape, shape.source = "iso", name)

\* _folder_hit: folders, nearest first; the year of a month folder is that of
\* the nearest year folder above it.
FolderHit(folders) ==
  LET near == Reverse(folders)
      years == {i \in DOMAIN near : near[i].year # Null}
      year == near[CHOOSE i \in years : \A j \in years : i <= j].year
      months == {i \in DOMAIN near : near[i].month # Null /\ \A j \in years : i < j}
      month == near[CHOOSE i \in months : \A j \in months : i <= j].month
  IN IF years = {} THEN Null
     ELSE IF months = {} THEN DateRow(<<year, 1, 1>>, "inferred", "year", Null)
     ELSE DateRow(<<year, month, 1>>, "inferred", "month", Null)

PathHit(unit) == FirstHit(<<FileNameHit(unit.name), FolderHit(unit.folders)>>)

\* _metadata: when the document says it was created, in the first of its
\* stamps that is a day; of a scanned pdf it would be the scan's.
Metadata(unit) ==
  IF unit.suffix \notin {"docx", "pdf"} \/ (unit.suffix = "pdf" /\ unit.scanned) THEN Null
  ELSE FirstHit([i \in DOMAIN unit.created |->
                   LET day == unit.created[i]
                   IN Only(ValidDay(day[1], day[2], day[3]), DateRow(day, "inferred", "day", Null))])

\* date
DateOf(unit) ==
  LET hit == IF unit.kind = "note" THEN Null
             ELSE IF unit.kind = "source"
                  THEN FirstHit(<<Headers(unit), FirstLine(unit), PathHit(unit), Metadata(unit)>>)
             ELSE FirstHit(<<FirstLine(unit), PathHit(unit)>>)
  IN IF hit = Null THEN Unknown ELSE hit
-----------------------------------------------------------------------------
\* What a text may mean, without the code's order of patterns: every real day
\* one of its dates can stand for.
Readings(text) ==
  LET triples ==
        (IF text.iso = Null THEN {} ELSE {text.iso})
          \cup (IF text.named = Null THEN {}
                ELSE {<<y, text.named.month, text.named.day>> :
                        y \in IF text.named.digits = 4 THEN {text.named.year}
                              ELSE {1900 + text.named.year, 2000 + text.named.year}})
          \cup (IF text.numeric = Null THEN {}
                ELSE {<<text.numeric.year, text.numeric.a, text.numeric.b>>,
                      <<text.numeric.year, text.numeric.b, text.numeric.a>>})
  IN {t \in triples : RealDay(t[1], t[2], t[3])}

InPeriod(day, date) ==
  /\ day[1] = date.iso[1]
  /\ date.granularity \in {"month", "day"} => day[2] = date.iso[2]
  /\ date.granularity = "day" => day[3] = date.iso[3]
=============================================================================
