------------------------------- MODULE MCSetup --------------------------------
EXTENDS Setup, TLC
CONSTANTS P, Q, a, b, m, n

\* A bare run, a corpus, another with a manuscript, a manuscript alone.
Bare == [corpus |-> None, manuscript |-> None]
MCFlags == {Bare, [corpus |-> {a}, manuscript |-> None], [corpus |-> {b}, manuscript |-> m],
            [corpus |-> None, manuscript |-> n]}
FewFlags == {Bare, [corpus |-> {a}, manuscript |-> None]}

Runners == Permutations({P, Q})
=============================================================================
