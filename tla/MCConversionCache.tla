--------------------------- MODULE MCConversionCache ---------------------------
EXTENDS ConversionCache, TLC
CONSTANTS P, Q, a, b, c

Projects == Permutations({P, Q})

\* Text files and a scan without text layer.
MCNameOf == [u \in Unit |-> IF u = c THEN "pdf" ELSE "text"]

\* With the rows under bare names, three generations of texts.
MCVersion == <<[text |-> 1, pdf |-> 1], [text |-> 2, pdf |-> 1]>>

\* One release, over a cache of rows under bare names.
OneRelease == <<[n \in Name |-> 1]>>
=============================================================================
