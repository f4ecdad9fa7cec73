------------------------------ MODULE MCLedger ------------------------------
(* Three byte contents, two texts, two converter versions.                   *)
EXTENDS AlignmentLoop

CONSTANTS a, b, s1, s2, s3, c1, c2

MCText == {a, b}
MCSha == {s1, s2, s3}
MCConverter == {c1, c2}

\* s1 repeats a paragraph, s2 drops one copy and moves the other; c2 merges
\* what c1 tells apart; s3 is what is left of s2.
MCParagraphs ==
  [x \in MCSha \X MCConverter |->
     CASE x = <<s1, c1>> -> <<a, b, a>>
       [] x = <<s1, c2>> -> <<a, a>>
       [] x = <<s2, c1>> -> <<b, a>>
       [] x = <<s2, c2>> -> <<b, b>>
       [] x = <<s3, c1>> -> <<b>>
       [] x = <<s3, c2>> -> <<b>>]

\* One source through a history, another that comes beside it.
MCVersions == [q \in Path |-> IF q = 1 THEN 3 ELSE 1]
=============================================================================
