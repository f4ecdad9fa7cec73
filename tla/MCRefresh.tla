----------------------------- MODULE MCRefresh ------------------------------
(* Threads t1 and t2 of process p1, thread t3 of process p2.               *)
EXTENDS Refresh

CONSTANTS a, b, s1, s2, s3, c1, c2, t1, t2, t3, p1, p2

MCText == {a, b}
MCSha == {s1, s2, s3}
MCConverter == {c1, c2}

\* s2 shares a paragraph with s1; nothing can be read in s3 with c2.
MCParagraphs ==
  [x \in MCSha \X MCConverter |->
     CASE x[1] = s1 -> <<a, b>>
       [] x[1] = s2 -> <<b>>
       [] x = <<s3, c1>> -> <<a, a>>
       [] x = <<s3, c2>> -> <<>>]

\* Two contents that share a paragraph; with c2, s1 loses it and nothing can
\* be read in s3.
TwoShas == {s1, s3}
TwoParagraphs ==
  [x \in TwoShas \X MCConverter |->
     CASE x = <<s1, c1>> -> <<a, b>>
       [] x = <<s1, c2>> -> <<b>>
       [] x = <<s3, c1>> -> <<a, a>>
       [] x = <<s3, c2>> -> <<>>]

OneThread == [c \in {t1} |-> p1]
TwoThreads == [c \in {t1, t2} |-> p1]
TwoProcesses == [c \in {t1, t3} |-> IF c = t1 THEN p1 ELSE p2]
ThreeCallers == [c \in {t1, t2, t3} |-> IF c = t3 THEN p2 ELSE p1]

OneTool == [x \in {p1} |-> [converter |-> c1, dating |-> 1]]
SameTool == [x \in {p1, p2} |-> [converter |-> c1, dating |-> 1]]

\* p2 runs a release with another converter and another dating ruleset.
TwoTools ==
  [x \in {p1, p2} |-> IF x = p1 THEN [converter |-> c1, dating |-> 1]
                             ELSE [converter |-> c2, dating |-> 2]]
=============================================================================
