------------------------------- MODULE MCVectors -------------------------------
EXTENDS Vectors
CONSTANTS a, b, m1, m2

\* A repeated paragraph, and one that records of two dates share.
MCContent == {[paragraphs |-> <<a, b, b>>, date |-> 1], [paragraphs |-> <<b>>, date |-> 2]}
=============================================================================
