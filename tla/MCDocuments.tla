------------------------------ MODULE MCDocuments ------------------------------
EXTENDS Documents

Named(name) == [name |-> name, numbers |-> <<>>]
Numbered(name, n) == [name |-> name, numbers |-> <<n>>]
Heading(depth, title) == [depth |-> depth, mark |-> "space", title |-> title]
Plain == Heading(0, Named("prose"))

NoDate == [iso |-> Null, named |-> Null, numeric |-> Null, month |-> Null,
           whole |-> FALSE, long |-> FALSE]

\* 2001-02-28, 2001-02-30, "31 February 2001", "3 Feb 68", "3 Feb 69",
\* 2/3/2001, 13/3/2001, 3/13/2001, 30/2/2001, "March 1850".
WholeTexts ==
  {[NoDate EXCEPT !.whole = TRUE, !.iso = d] : d \in {<<2001, 2, 28>>, <<2001, 2, 30>>}}
    \cup {[NoDate EXCEPT !.whole = TRUE, !.named = [year |-> 2001, month |-> 2, day |-> 31, digits |-> 4],
                         !.month = [year |-> 2001, month |-> 2]]}
    \cup {[NoDate EXCEPT !.whole = TRUE, !.named = [year |-> y, month |-> 2, day |-> 3, digits |-> 2]] :
            y \in {68, 69}}
    \cup {[NoDate EXCEPT !.whole = TRUE, !.numeric = n] :
            n \in {[a |-> a, b |-> b, year |-> 2001] : a \in {2, 13, 30}, b \in {2, 3, 13}}}
    \cup {[NoDate EXCEPT !.whole = TRUE, !.month = [year |-> 1850, month |-> 3]]}

Texts ==
  WholeTexts \cup {NoDate}
    \cup {[t EXCEPT !.whole = FALSE, !.long = long] :
            t \in {t \in WholeTexts : t.iso # Null \/ t.numeric # Null}, long \in BOOLEAN}

Year(y) == [year |-> y, month |-> Null]
Month(m) == [year |-> Null, month |-> m]

Unit == [kind |-> "source", suffix |-> "txt", sent |-> Null, received |-> {}, lines |-> <<>>,
         name |-> NoDate, folders |-> <<>>, created |-> <<>>, scanned |-> FALSE, chapter |-> <<>>]

Line(label, text) == [label |-> label, text |-> text]

\* Text files: a first line, a labelled one, a name, folders.
Written ==
  {[Unit EXCEPT !.kind = kind, !.lines = lines, !.name = name, !.folders = folders] :
     kind \in {"source", "manuscript", "note"},
     lines \in {<<Line(FALSE, t)>> : t \in Texts}
                 \cup {<<Line(FALSE, NoDate), Line(label, t)>> : label \in BOOLEAN, t \in WholeTexts},
     name \in {NoDate, [NoDate EXCEPT !.iso = <<2002, 1, 1>>]},
     folders \in {<<>>, <<Year(2003), Month(5)>>, <<Year(2003)>>, <<Month(5)>>}}

\* Messages and documents with metadata.
Sent ==
  {[Unit EXCEPT !.suffix = "eml", !.sent = sent, !.received = received] :
     sent \in {Null, <<2004, 1, 1>>},
     received \in {{}, {[at |-> 1, day |-> <<2004, 1, 2>>], [at |-> 2, day |-> <<2004, 1, 1>>]}}}
Filed ==
  {[Unit EXCEPT !.suffix = suffix, !.created = created, !.scanned = scanned] :
     suffix \in {"docx", "pdf", "txt"}, created \in {<<>>, <<<<2005, 1, 1>>>>, <<<<1800, 1, 1>>, <<2005, 1, 2>>>>},
     scanned \in BOOLEAN}

Chapters(paragraphs, n) ==
  {[Unit EXCEPT !.kind = "manuscript", !.chapter = c] : c \in UNION {[1..k -> paragraphs] : k \in 0..n}}

Tabbed(depth, title) == [Heading(depth, title) EXCEPT !.mark = "tab"]

\* Sections that repeat at two depths, a scene below them that repeats a
\* title, a tab after the #, prose; titles that end in numbers.
MCParagraphs ==
  {Heading(1, Named("Morning")), Heading(2, Named("Morning")), Heading(2, Named("Evening")),
   Heading(3, Named("Evening")), Tabbed(2, Named("Evening")), Plain,
   Heading(1, Numbered("Morning", 1)), Heading(2, Numbered("Morning", 2))}

MCUnits == Written \cup Sent \cup Filed \cup Chapters(MCParagraphs, 4)

\* A scene with the title of a section; titles that end in a number, "(1)"
\* among them; a line that says "March 0000"; a year of two digits.
FindingUnits ==
  Chapters({Heading(1, Named("Morning")), Heading(3, Named("Morning")), Plain}, 3)
    \cup Chapters({Heading(1, Named("Morning")), Heading(1, Numbered("Morning", 2))}, 3)
    \cup Chapters({Heading(1, Named("Morning")), Heading(1, Numbered("Morning", 1))}, 2)
    \cup {[Unit EXCEPT !.lines = <<Line(FALSE, t)>>] :
            t \in {[NoDate EXCEPT !.month = [year |-> 0, month |-> 3]],
                   [NoDate EXCEPT !.whole = TRUE,
                                  !.named = [year |-> 68, month |-> 2, day |-> 3, digits |-> 2]]}}
=============================================================================
