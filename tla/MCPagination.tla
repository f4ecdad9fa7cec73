----------------------------- MODULE MCPagination -----------------------------
EXTENDS Pagination

\* A letter, an accented letter, a combining mark, a symbol.
a == [bytes |-> 1, joins |-> FALSE]
e == [bytes |-> 3, joins |-> FALSE]
m == [bytes |-> 2, joins |-> TRUE]
f == [bytes |-> 4, joins |-> FALSE]

Texts(chars, n) == UNION {[1..k -> chars] : k \in 1..n}
Unit(texts, labels) == [text : texts, label : labels]

\* No paragraph, one of any kind, then two, then three whose pages fill up.
MCUnits ==
  {<<>>} \cup [1..1 -> Unit(Texts({a, e, m}, 4) \cup {<<f>>, <<a, f>>}, {0, 1})]
    \cup [1..2 -> Unit(Texts({a, m}, 2) \cup {<<a, e, a, e>>}, {0, 1})]
    \cup [1..3 -> Unit({<<a>>, <<e, m>>, <<a, a, a, m, m>>}, {0})]

MCShapes == [header : {<<>>, <<a>>, <<a, m, m, e, f>>}, units : MCUnits]

\* What a refresh publishes.
MCPublished ==
  [header : {<<a, e, m, m, m, m>>}, units : [1..2 -> Unit({<<a, a>>, <<e, m, e, a>>}, {0, 1})]]

MCSelection == MCShapes \cup MCPublished
=============================================================================
