------------------------------- MODULE Pagination -------------------------------
(***************************************************************************)
(* Index.read and _paginate: one selection, read page by page with cursors *)
(* that carry an offset, over an index that may change between the calls.  *)
(*                                                                         *)
(* A text is a sequence of characters, a character its UTF-8 length and    *)
(* whether it may not be parted from the one before it.  A selection is    *)
(* its header (the transport labels) and its units: paragraphs, each with  *)
(* the length of its own label, 0 for none.                                *)
(***************************************************************************)
EXTENDS Integers, Sequences, SequencesExt, FiniteSetsExt

CONSTANTS
  Selection,    \* the selections considered: [header, units]
  Published,    \* those a refresh may publish
  Budgets,      \* bytes for labels, text and separators of one page
  LargeHeader,  \* bytes above which a header is paged by itself
  Continued,    \* bytes that " (continued)" adds to a label
  MaxRevision   \* bound on the index revisions

Separator == 2

Character == [bytes : Nat, joins : BOOLEAN]

\* The bytes of each character, counted together.
Bytes(text) == Cardinality(UNION {{i} \X (1..text[i].bytes) : i \in DOMAIN text})

LargeOf(sel) == Bytes(sel.header) > LargeHeader

\* A page has room for a label and a separator: a citation is some tens of
\* bytes, a page some thousands.
ASSUME PaginationAssumption ==
  /\ Selection \subseteq [header : Seq(Character), units : Seq([text : Seq(Character), label : Nat])]
  /\ Published \subseteq Selection /\ Budgets \subseteq Nat
  /\ {LargeHeader, Continued, MaxRevision} \subseteq Nat
  /\ \A sel \in Selection, b \in Budgets :
       \A i \in DOMAIN sel.units :
         /\ Len(sel.units[i].text) > 0
         /\ (IF LargeOf(sel) THEN 0 ELSE Bytes(sel.header))
              + sel.units[i].label + 1 + Continued + Separator <= b

VARIABLES
  selection, revision,  \* what the index holds, and its revision
  cursor,               \* the client's: revision, metadata offset, paragraph, character
  budget,               \* of the page being built
  page, used,           \* its pieces and the bytes they take
  at,                   \* [para, char]: how far the walk has come
  payload, metadata,    \* the pieces and the header the client has collected
  status                \* "open", "building", "done", "refused" or "failed"

paginationVars == <<selection, revision, cursor, budget, page, used, at, payload, metadata, status>>
client == <<cursor, payload, metadata>>
build == <<budget, page, used, at>>

Beginning == [para |-> 1, char |-> 0]

PaginationInit ==
  /\ selection \in Selection /\ revision = 0
  /\ cursor = [rev |-> 0, meta |-> 0, off |-> Beginning]
  /\ budget = 0 /\ page = <<>> /\ used = 0 /\ at = Beginning
  /\ payload = <<>> /\ metadata = <<>>
  /\ status = "open"
-----------------------------------------------------------------------------
(***************************************************************************)
(* Cutting a text.                                                         *)
(***************************************************************************)
Rest(text, from) == SubSeq(text, from + 1, Len(text))

\* The longest prefix of at most room bytes.
HardCut(text, room) == Max({k \in 0..Len(text) : Bytes(SubSeq(text, 1, k)) <= room})

Safe(text, k) == k = Len(text) \/ ~text[k + 1].joins

SafeCut(text, room) ==
  Max({k \in 0..HardCut(text, room) : k = 0 \/ Safe(text, k)})

MinimumCut(text) == Min({k \in 1..Len(text) : Safe(text, k)})

\* Mutation: a cut is made wherever the bytes run out.
CutAnywhere(text, room) == HardCut(text, room)

Cut(text, room) ==
  IF SafeCut(text, room) > 0 THEN SafeCut(text, room)
  ELSE IF Bytes(SubSeq(text, 1, MinimumCut(text))) > room
       THEN HardCut(text, room) ELSE MinimumCut(text)
-----------------------------------------------------------------------------
(***************************************************************************)
(* The page being built.                                                   *)
(***************************************************************************)
paragraphs == selection.units

Large == LargeOf(selection)

Label == IF paragraphs[at.para].label = 0 THEN 0
         ELSE paragraphs[at.para].label + 1 + (IF at.char > 0 THEN Continued ELSE 0)

Remaining == Rest(paragraphs[at.para].text, at.char)

Owned == IF at.para < Len(paragraphs) THEN Separator ELSE 0

Needed == Label + Bytes(Remaining) + Owned

Room == IF budget > Label THEN budget - Label ELSE 0

\* Which characters of which paragraph, and whether its separator follows.
Piece(n, whole) ==
  [para |-> at.para, first |-> at.char + 1, last |-> at.char + n,
   separator |-> whole /\ Owned > 0]

\* read with a cursor.  The budget is what is left after the transport's
\* own text, lowered until the rendered reply fits.
Open ==
  /\ status = "open" /\ cursor.rev = revision
  /\ ~(Large /\ cursor.meta < Len(selection.header))
  /\ \E b \in Budgets : budget' = IF Large THEN b ELSE b - Bytes(selection.header)
  /\ page' = <<>> /\ used' = 0 /\ at' = cursor.off
  /\ status' = "building"
  /\ UNCHANGED <<selection, revision, client>>

\* "Index revision changed since this cursor was issued."
Refuse ==
  /\ status = "open" /\ cursor.rev # revision
  /\ status' = "refused"
  /\ UNCHANGED <<selection, revision, client, build>>

\* Mutation: the header is cut at safe places only.
ReadMetadataSafely ==
  /\ status = "open" /\ cursor.rev = revision
  /\ Large /\ cursor.meta < Len(selection.header)
  /\ \E b \in Budgets :
       LET upTo == cursor.meta + SafeCut(Rest(selection.header, cursor.meta), b)
       IN /\ metadata' = metadata \o [i \in 1..upTo - cursor.meta |-> cursor.meta + i]
          /\ cursor' = [cursor EXCEPT !.meta = upTo]
  /\ UNCHANGED <<selection, revision, payload, build, status>>

\* A large header comes first, by itself, in as many replies as it takes.
ReadMetadata ==
  /\ status = "open" /\ cursor.rev = revision
  /\ Large /\ cursor.meta < Len(selection.header)
  /\ \E b \in Budgets :
       LET rest == Rest(selection.header, cursor.meta)
           safe == SafeCut(rest, b)
           upTo == cursor.meta + (IF safe > 0 THEN safe ELSE HardCut(rest, b))
       IN /\ metadata' = metadata \o [i \in 1..upTo - cursor.meta |-> cursor.meta + i]
          /\ cursor' = [cursor EXCEPT !.meta = upTo]
  /\ UNCHANGED <<selection, revision, payload, build, status>>

TakeParagraph ==
  /\ status = "building" /\ at.para <= Len(paragraphs)
  /\ used + Needed <= budget
  /\ page' = Append(page, Piece(Len(Remaining), TRUE))
  /\ used' = used + Needed
  /\ at' = [para |-> at.para + 1, char |-> 0]
  /\ UNCHANGED <<selection, revision, client, budget, status>>

Send(pieces, next) ==
  /\ payload' = payload \o pieces
  /\ cursor' = [rev |-> revision, meta |-> cursor.meta, off |-> next]
  /\ status' = IF next.para > Len(paragraphs) THEN "done" ELSE "open"
  /\ UNCHANGED metadata

\* The next paragraph starts a page of its own.
EndPage ==
  /\ status = "building"
  /\ at.para <= Len(paragraphs) => used + Needed > budget /\ page # <<>>
  /\ Send(page, at)
  /\ UNCHANGED <<selection, revision, build>>

\* Mutation: the rest of a cut paragraph is resumed one character late.
CutParagraphSkipping ==
  /\ status = "building" /\ at.para <= Len(paragraphs)
  /\ used + Needed > budget /\ page = <<>>
  /\ LET n == Cut(Remaining, Room)
     IN /\ n > 0
        /\ page' = <<Piece(n, FALSE)>>
        /\ used' = Label + Bytes(SubSeq(Remaining, 1, n))
        /\ at' = [at EXCEPT !.char = @ + n + 1]
        /\ Send(page', at')
  /\ UNCHANGED <<selection, revision, budget>>

\* Only a paragraph that alone exceeds a page is cut.
CutParagraph ==
  /\ status = "building" /\ at.para <= Len(paragraphs)
  /\ used + Needed > budget /\ page = <<>>
  /\ LET n == Cut(Remaining, Room)
     IN /\ n > 0
        /\ page' = <<Piece(n, FALSE)>>
        /\ used' = Label + Bytes(SubSeq(Remaining, 1, n))
        /\ at' = [at EXCEPT !.char = @ + n]
        /\ Send(page', at')
  /\ UNCHANGED <<selection, revision, budget>>

\* "Read paragraph label exceeds the reply budget."
GiveUp ==
  /\ status = "building" /\ at.para <= Len(paragraphs)
  /\ used + Needed > budget /\ page = <<>>
  /\ Cut(Remaining, Room) = 0
  /\ status' = "failed"
  /\ UNCHANGED <<selection, revision, client, build>>

\* A refresh changes what the selection holds.
Publish ==
  /\ status = "open" /\ revision < MaxRevision
  /\ revision' = revision + 1
  /\ selection' \in Published
  /\ UNCHANGED <<client, build, status>>

ReadPage ==
  Open \/ Refuse \/ ReadMetadata \/ TakeParagraph \/ EndPage \/ CutParagraph \/ GiveUp

PaginationNext == ReadPage \/ Publish

PaginationSpec == PaginationInit /\ [][PaginationNext]_paginationVars

FairSpec == PaginationSpec /\ WF_paginationVars(ReadPage)
-----------------------------------------------------------------------------
(***************************************************************************)
(* Properties.                                                             *)
(***************************************************************************)
\* Pieces that begin with the first character and go on where the one before
\* ended: behind the separator in the next paragraph, else in the same one.
Linked(pieces) ==
  \A i \in DOMAIN pieces :
    LET piece == pieces[i]
        before == pieces[i - 1]
    IN /\ piece.para \in DOMAIN paragraphs
       /\ piece.last \in piece.first - 1 .. Len(paragraphs[piece.para].text)
       /\ piece.separator =>
            piece.last = Len(paragraphs[piece.para].text) /\ piece.para < Len(paragraphs)
       /\ <<piece.para, piece.first>> =
            IF i = 1 THEN <<1, 1>>
            ELSE IF before.separator THEN <<before.para + 1, 1>>
                 ELSE <<before.para, before.last + 1>>

EndsSelection(pieces) ==
  /\ pieces = <<>> <=> paragraphs = <<>>
  /\ pieces # <<>> =>
       /\ Last(pieces).para = Len(paragraphs)
       /\ Last(pieces).last = Len(paragraphs[Len(paragraphs)].text)

PieceBytes(piece) ==
  LET unit == paragraphs[piece.para]
  IN (IF unit.label = 0 THEN 0
      ELSE unit.label + 1 + (IF piece.first > 1 THEN Continued ELSE 0))
     + Bytes(SubSeq(unit.text, piece.first, piece.last))
     + (IF piece.separator THEN Separator ELSE 0)

\* read: the payloads of the pages, put together, are the selection's text,
\* each character and separator once and in order, at the end all of it; a
\* large header is read out whole, once, before any of that.
ReadExact ==
  /\ metadata = [i \in 1..cursor.meta |-> i]
  /\ cursor.rev = revision =>
       /\ Linked(payload)
       /\ status = "done" => EndsSelection(payload)
       /\ Large /\ payload # <<>> => cursor.meta = Len(selection.header)

\* The last page sent ends inside its paragraph.
Interrupted == status = "open" /\ cursor.rev = revision /\ cursor.off.char > 0

\* A page ends inside a grapheme only if it holds nothing but a part of it.
GraphemesWhole ==
  LET text == paragraphs[cursor.off.para].text
      piece == Last(page)
  IN cursor.off.char < Len(text) /\ text[cursor.off.char + 1].joins
     => \A i \in piece.first + 1..piece.last : text[i].joins

\* A paragraph that fits on a page by itself is never cut, and a cut one has
\* its pages to itself until it is finished.
CutOnlyWhenAlone ==
  LET piece == Last(page)
  IN /\ Len(page) = 1
     /\ PieceBytes([piece EXCEPT !.last = Len(paragraphs[piece.para].text),
                                 !.separator = piece.para < Len(paragraphs)]) > budget

\* _paginate, _safe_char_cut: a page ends inside a paragraph only if it must,
\* and then between graphemes where it can.
CutsAreForced == Interrupted => GraphemesWhole /\ CutOnlyWhenAlone

\* read: following the cursors ends.
ReadEnds == <>(status \in {"done", "refused", "failed"})
=============================================================================
