------------------------------- MODULE MCRoots --------------------------------
EXTENDS Roots
CONSTANTS A, B, x, y

\* A name in both folders and one of the second; one physical file may be
\* the entry of several places.
MCPlace == {<<A, 1>>, <<B, 1>>, <<B, 2>>}
MCConfigs == {<<A>>, <<B, B>>, <<A, B>>, <<B, A>>}

\* A new ledger, and two older than the roots table.
MCOriginals == {<<>>, <<A>>, <<A, B>>}
MCGiven == {None, <<A>>, <<B>>, <<A, B>>, <<B, A>>, <<A, A>>}

Fresh == {<<>>}
=============================================================================
