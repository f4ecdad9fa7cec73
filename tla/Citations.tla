----------------------------- MODULE Citations ------------------------------
(***************************************************************************)
(* What the ledger promises to anyone who wrote a citation down: a number  *)
(* once given to a paragraph of a source names that exact text for ever,   *)
(* a retired number never comes back to life, and the corpus revision      *)
(* moves whenever what is citable moves (ADR-0001).  Nothing is said of    *)
(* how versions are aligned.                                               *)
(***************************************************************************)
EXTENDS Naturals

CONSTANT Source      \* whatever has numbered paragraphs

VARIABLES
  quote,             \* quote[s][p]: the text given to number p of source s
  live,              \* live[s]: the numbers of s that are current
  token              \* the corpus revision

cvars == <<quote, live, token>>

CInit ==
  /\ quote = [s \in Source |-> <<>>]
  /\ live = [s \in Source |-> {}]
  /\ token = 0

\* Every number keeps its text, and new numbers may appear.
QuoteGrows(s) ==
  /\ DOMAIN quote[s] \subseteq DOMAIN quote'[s]
  /\ \A p \in DOMAIN quote[s] : quote'[s][p] = quote[s][p]

\* Only numbers that were live, or that never existed, are live afterwards.
NoRevival(s) == live'[s] \cap DOMAIN quote[s] \subseteq live[s]

Revise ==
  /\ token' \in Nat
  /\ token' > token
  /\ \A s \in Source : QuoteGrows(s) /\ NoRevival(s)

CNext == Revise

CSpec == CInit /\ [][CNext]_cvars
=============================================================================
