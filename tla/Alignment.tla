----------------------------- MODULE Alignment ------------------------------

EXTENDS Integers, Sequences, FiniteSets

(***************************************************************************)
(* Alignment by exact text (src/strata/ledger.py, _match_paragraphs), as   *)
(* one definition instead of a loop.  The code queues the old numbers of   *)
(* each text in document order and pops one for each new paragraph of that *)
(* text: the k-th new occurrence takes the k-th old one.  AlignmentLoop.tla  *)
(* has the loops and compares.                                             *)
(***************************************************************************)
Occurrence(s, i) == Cardinality({j \in 1..i : s[j] = s[i]})

\* Mutation: a paragraph keeps the number at its position, whatever it says.
MatchByPosition(old, new) ==
  [i \in 1..Len(new) |-> IF i <= Len(old) THEN i ELSE 0]

\* For each new paragraph the old position it keeps, or 0.
Match(old, new) ==
  [i \in 1..Len(new) |->
     LET same == {j \in 1..Len(old) :
                    old[j] = new[i] /\ Occurrence(old, j) = Occurrence(new, i)}
     IN IF same = {} THEN 0 ELSE CHOOSE j \in same : TRUE]

\* Unmatched new paragraphs among the first i: each took one more number.
FreshRank(keep, i) == Cardinality({j \in 1..i : keep[j] = 0})
=============================================================================
