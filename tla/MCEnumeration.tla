---------------------------- MODULE MCEnumeration ----------------------------
EXTENDS Enumeration

\* Every shape of up to two rows a list, small and large.
MCCosts == {<<>>, <<1>>, <<9>>, <<4>>, <<1, 1>>, <<1, 4>>, <<4, 1>>}
MCShapes == [List -> MCCosts]

\* What a refresh publishes: pages of several replies, and a row too
\* large for any.
MCChanging ==
  {<<<<1>>, <<>>, <<4, 1>>, <<1, 1, 1, 4, 4>>>>,
   <<<<1, 4>>, <<1>>, <<>>, <<1, 1>>>>,
   <<<<>>, <<9>>, <<1>>, <<1, 4, 1>>>>}

MCContent == MCShapes \cup MCChanging
=============================================================================
