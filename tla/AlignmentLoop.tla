---------------------------- MODULE AlignmentLoop ----------------------------
(***************************************************************************)
(* The loops of _match_paragraphs (src/strata/ledger.py): every old        *)
(* paragraph joins the queue of its text, then every new one pops the      *)
(* queue of its text.  Old paragraphs are named by position, 0 being a     *)
(* paragraph that needs a fresh anchor.                                    *)
(***************************************************************************)
EXTENDS Ledger

\* for anchor_id, text in old_live: queues[text].append(anchor_id)
Queues(old) ==
  LET filled[i \in 0..Len(old)] ==
        IF i = 0 THEN [t \in Text |-> <<>>]
        ELSE [filled[i - 1] EXCEPT ![old[i]] = Append(@, i)]
  IN filled[Len(old)]

\* Mutation: queue.pop() instead of queue.popleft().
PopLast(state, text) ==
  LET queue == state.queues[text]
  IN IF queue = <<>> THEN [state EXCEPT !.kept = Append(@, 0)]
     ELSE [queues |-> [state.queues EXCEPT ![text] = SubSeq(queue, 1, Len(queue) - 1)],
           kept |-> Append(state.kept, queue[Len(queue)])]

\* queue.popleft(), or no queue or an empty one.
Pop(state, text) ==
  LET queue == state.queues[text]
  IN IF queue = <<>> THEN [state EXCEPT !.kept = Append(@, 0)]
     ELSE [queues |-> [state.queues EXCEPT ![text] = Tail(queue)],
           kept |-> Append(state.kept, Head(queue))]

LoopMatch(old, new) ==
  LET loop[i \in 0..Len(new)] ==
        IF i = 0 THEN [queues |-> Queues(old), kept |-> <<>>] ELSE Pop(loop[i - 1], new[i])
  IN loop[Len(new)].kept
-----------------------------------------------------------------------------
\* Whatever text a source is rewritten to, the loops pair its paragraphs with
\* those it has now as Match does, and a number retires only when its text got
\* scarcer.
PairsAsMatch(versions) ==
  \A q \in Path, new \in versions :
    LET old == LiveTexts(disk.units[q])
        kept == LoopMatch(old, new)
        copies(s, t) == Cardinality({i \in 1..Len(s) : s[i] = t})
        keeping(t) == Cardinality({i \in 1..Len(new) : new[i] = t /\ kept[i] # 0})
    IN /\ kept = Match(old, new)
       /\ \A t \in Text : keeping(t) \in {copies(old, t), copies(new, t)}

Versions == UNION {[1..n -> Text] : n \in 0..4}

\* Of all versions up to four paragraphs, the loops find the pairing that
\* numbers every new version in the ledger's model and that the proofs know;
\* and there is no needless churn.  (Rows met inside a scan are met outside one
\* as well.)  (_match_paragraphs)
LoopIsMatch == ~scanning => PairsAsMatch(Versions)
=============================================================================
