----------------------------- MODULE MCAssignments -----------------------------
EXTENDS Assignments

\* Three records: two days or no date; known to the day or not; costs below,
\* at and above the budget.
MCRow ==
  [unknown : {FALSE}, iso : {1, 2}, exact : BOOLEAN, source : {TRUE}, tokens : {1, 3, 7}]
    \cup [unknown : {TRUE}, iso : {0}, exact : {FALSE}, source : BOOLEAN, tokens : {3}]

MCRows == UNION {[1..n -> MCRow] : n \in 1..3}
MCWindows == {{}, {[from |-> 1, to |-> 1]}}

\* A plan whose rows depend on the budget.
FewRows ==
  {[r \in 1..3 |->
     [unknown |-> FALSE, iso |-> r, exact |-> TRUE, source |-> TRUE, tokens |-> 3]]}
NoWindows == {{}}
=============================================================================
