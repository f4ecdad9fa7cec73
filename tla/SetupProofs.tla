----------------------------- MODULE SetupProofs -----------------------------
(***************************************************************************)
(* Setup under any number of runners, files broken by hand and runs killed *)
(* between any two steps: what the user put into a file stays, and a run   *)
(* that nobody overlapped commits what it replaced.                        *)
(***************************************************************************)
EXTENDS Setup, TLAPS

Kinds == Content \cup {Absent, Broken}

\* The place in Order where a file is written, and the one from which on its
\* merged contents are known.
Place == [config |-> 5, mcp |-> 6, permissions |-> 7, ignore |-> 8, overview |-> 9]
Ready == [config |-> 4, mcp |-> 5, permissions |-> 5]

TypeOK ==
  /\ disk \in [File -> Kinds]
  /\ \A f \in File \ Parsed : disk[f] # Broken
  /\ at \in [Runner -> 1..12]
  /\ flags \in [Runner -> Flags \cup {Untyped}]
  /\ before \in [Runner -> [File -> Kinds]]
  /\ new \in [Runner -> [File -> Kinds]]
  /\ wrote \in [Runner -> SUBSET File]
  /\ shared \in SUBSET Runner
  /\ unsaved \in [File -> Runner \cup {None}]

\* Whoever reads the settings to merge them, or writes them, has the lock.
Exclusion == \A p \in Runner : at[p] \in 3..10 => lock = p

\* c loses nothing of what is in the file f.
Keeps(c, f) ==
  /\ c \in Content
  /\ Readable(f) => /\ c.user >= disk[f].user
                    /\ f = "permissions" => disk[f].ours \subseteq c.ours

\* What was merged is not overtaken before it is written.
Merged == \A p \in Runner, f \in Parsed : at[p] \in Ready[f]..Place[f] => Keeps(new[p][f], f)

\* A file is written once in a run.
Past == \A p \in Runner : \A f \in wrote[p] : at[p] > Place[f]

\* A run that is not marked as shared has been the only one since it began.
Alone == \A p \in Runner \ shared, q \in Runner : p # q /\ ~Idle(p) => Idle(q)

\* What such a run replaced is exactly what differs from its snapshot.
Seen ==
  \A p \in Runner \ shared, f \in File :
    ~Idle(p) => IF f \in wrote[p] THEN disk[f] # before[p][f] /\ disk[f] # Absent
                                  ELSE disk[f] = before[p][f]

IInv == TypeOK /\ Exclusion /\ Merged /\ Past /\ Alone /\ Seen
-----------------------------------------------------------------------------
(***************************************************************************)
(* The order of the work.                                                  *)
(***************************************************************************)
LEMMA Steps ==
  ASSUME NEW n \in 1..12
  PROVE  /\ Order[n] = "start" <=> n = 1
         /\ Order[n] = "lock" <=> n = 2
         /\ Order[n] = "validate" <=> n = 3
         /\ Order[n] = "parse" <=> n = 4
         /\ Order[n] = "unlock" <=> n = 10
         /\ Order[n] = "compare" <=> n = 11
         /\ Order[n] = "commit" <=> n = 12
         /\ \A f \in File : Order[n] = f <=> n = Place[f]
<1>1. n \in {1, 2, 3, 4, 5, 6, 7, 8, 9, 10, 11, 12}
  OBVIOUS
<1>2. /\ Order[1] = "start" /\ Order[2] = "lock" /\ Order[3] = "validate" /\ Order[4] = "parse"
      /\ Order[5] = "config" /\ Order[6] = "mcp" /\ Order[7] = "permissions"
      /\ Order[8] = "ignore" /\ Order[9] = "overview" /\ Order[10] = "unlock"
      /\ Order[11] = "compare" /\ Order[12] = "commit"
  BY DEF Order
<1>3. /\ Place["config"] = 5 /\ Place["mcp"] = 6 /\ Place["permissions"] = 7
      /\ Place["ignore"] = 8 /\ Place["overview"] = 9
  BY DEF Place
<1> QED
  BY <1>1, <1>2, <1>3 DEF File, Parsed

\* The same of a runner.
LEMMA Stands ==
  ASSUME TypeOK, NEW p \in Runner
  PROVE  /\ at[p] \in 1..12
         /\ Idle(p) <=> at[p] = 1
         /\ At(p, "lock") <=> at[p] = 2
         /\ At(p, "validate") <=> at[p] = 3
         /\ At(p, "parse") <=> at[p] = 4
         /\ At(p, "unlock") <=> at[p] = 10
         /\ At(p, "compare") <=> at[p] = 11
         /\ At(p, "commit") <=> at[p] = 12
         /\ \A f \in File : At(p, f) <=> at[p] = Place[f]
<1>1. at[p] \in 1..12
  BY DEF TypeOK
<1> QED
  BY <1>1, Steps DEF At, Idle

LEMMA Places ==
  /\ \A f \in File : Place[f] \in 5..9
  /\ \A f \in Parsed : Ready[f] \in 4..5 /\ Ready[f] <= Place[f] /\ f \in File
  /\ Place["config"] = 5 /\ Ready["config"] = 4 /\ Ready["mcp"] = 5 /\ Ready["permissions"] = 5
  BY DEF Place, Ready, File, Parsed

\* What a file holds, or is taken to hold when there is none.
LEMMA OldKept ==
  ASSUME NEW f \in File, disk[f] \in Kinds, disk[f] # Broken
  PROVE  Old(f) \in Content /\ (disk[f] # Absent => Old(f) = disk[f])
<1>1. CASE disk[f] = Absent
  BY <1>1 DEF Old, Content
<1>2. CASE disk[f] # Absent
  BY <1>2 DEF Old, Kinds
<1> QED
  BY <1>1, <1>2

\* Merging replaces what setup put there and keeps the rest.
LEMMA DumpedKeeps ==
  ASSUME NEW f \in File, disk[f] \in Kinds, disk[f] # Broken,
         NEW ours \in SUBSET Ours, f = "permissions" => Old(f).ours \subseteq ours
  PROVE  Keeps(Dumped(f, ours), f)
<1>1. Old(f) \in Content /\ (disk[f] # Absent => Old(f) = disk[f])
  BY OldKept
<1>2. Old(f).user \in Nat
  BY <1>1 DEF Content
<1>3. Dumped(f, ours) \in Content /\ Dumped(f, ours).user = Old(f).user
      /\ Dumped(f, ours).ours = ours
  BY <1>2 DEF Dumped, Content
<1> QED
  BY <1>1, <1>2, <1>3 DEF Keeps, Readable

LEMMA PathsTyped ==
  ASSUME NEW fl \in Flags \cup {Untyped}, disk["config"] \in Kinds, disk["config"] # Broken
  PROVE  Paths(fl) \in SUBSET Ours
<1> DEFINE kept == Old("config").ours
           Corpora == {<<"corpus", c>> : c \in UNION {g.corpus : g \in {h \in Flags : h.corpus # None}}}
<1>1. kept \in SUBSET Ours
  <2>1. "config" \in File
    BY DEF File, Parsed
  <2>2. Old("config") \in Content
    BY <2>1, OldKept
  <2> QED
    BY <2>2 DEF Content
<1>2. ASSUME fl.corpus # None
      PROVE  {<<"corpus", c>> : c \in fl.corpus} \subseteq Ours
  <2>1. fl \in Flags
    BY <1>2 DEF Untyped
  <2>2. \A c \in fl.corpus : c \in UNION {g.corpus : g \in {h \in Flags : h.corpus # None}}
    BY <1>2, <2>1
  <2> QED
    BY <2>2 DEF Ours
<1>3. ASSUME fl.manuscript # None
      PROVE  {<<"manuscript", fl.manuscript>>} \subseteq Ours
  BY <1>3 DEF Untyped, Ours
<1> HIDE DEF kept
<1> QED
  BY <1>1, <1>2, <1>3 DEF Paths, kept
-----------------------------------------------------------------------------
(***************************************************************************)
(* Steps that leave the files alone.                                       *)
(***************************************************************************)
\* A run ends: nothing it held is looked at again.
LEMMA EndKeeps ==
  ASSUME IInv, NEW p \in Runner, NEW how, End(p, how), UNCHANGED disk,
         unsaved' \in [File -> Runner \cup {None}]
  PROVE  IInv'
<1> USE DEF IInv, End
<1>1. TypeOK'
  <2>1. Empty \in [File -> Kinds]
    BY DEF Empty, Kinds
  <2> QED
    BY <2>1 DEF TypeOK
<1>2. \A q \in Runner : IF q = p THEN at'[q] = 1 ELSE at'[q] = at[q]
  BY DEF TypeOK
<1>3. Exclusion'
  <2> SUFFICES ASSUME NEW q \in Runner, at'[q] \in 3..10
               PROVE  lock' = q
    BY DEF Exclusion
  <2>1. q # p /\ at'[q] = at[q]
    BY <1>2
  <2>2. lock = q
    BY <2>1 DEF Exclusion
  <2> QED
    BY <2>1, <2>2
<1>4. Merged'
  <2> SUFFICES ASSUME NEW q \in Runner, NEW f \in Parsed, at'[q] \in Ready[f]..Place[f]
               PROVE  Keeps(new[q][f], f)' 
    BY DEF Merged
  <2>1. q # p /\ at'[q] = at[q]
    BY <1>2, Places
  <2>2. Keeps(new[q][f], f)
    BY <2>1 DEF Merged
  <2>3. new'[q][f] = new[q][f]
    BY <2>1 DEF TypeOK
  <2> QED
    BY <2>2, <2>3 DEF Keeps, Readable
<1>5. Past'
  BY <1>2 DEF Past, TypeOK
<1>6. Alone'
  <2> SUFFICES ASSUME NEW q \in Runner \ shared', NEW r \in Runner, q # r, ~Idle(q)'
               PROVE  Idle(r)'
    BY DEF Alone
  <2>1. q # p /\ at'[q] = at[q] /\ q \notin shared
    BY <1>2 DEF Idle, At, Order
  <2>2. Idle(r)
    BY <2>1 DEF Alone, Idle, At
  <2> QED
    BY <1>2, <2>2 DEF Idle, At, Order
<1>7. Seen'
  <2> SUFFICES ASSUME NEW q \in Runner \ shared', NEW f \in File, ~Idle(q)'
               PROVE  IF f \in wrote'[q] THEN disk'[f] # before'[q][f] /\ disk'[f] # Absent
                                         ELSE disk'[f] = before'[q][f]
    BY DEF Seen
  <2>1. q # p /\ at'[q] = at[q] /\ q \notin shared
    BY <1>2 DEF Idle, At, Order
  <2>2. wrote'[q] = wrote[q] /\ before'[q] = before[q]
    BY <2>1 DEF TypeOK
  <2> QED
    BY <2>1, <2>2 DEF Seen, Idle, At
<1> QED
  BY <1>1, <1>3, <1>4, <1>5, <1>6, <1>7

\* A run goes on to its next step, and may have merged what it is to write.
LEMMA AdvanceKeeps ==
  ASSUME IInv, NEW p \in Runner, at[p] \in 2..11, Next1(p),
         UNCHANGED <<ends, disk, flags, before, wrote, unsaved>>,
         new' \in [Runner -> [File -> Kinds]],
         \A q \in Runner : q # p => new'[q] = new[q],
         at[p] \notin 5..9,
         \A f \in Parsed : at[p] + 1 \in Ready[f]..Place[f] => Keeps(new'[p][f], f),
         \A q \in Runner \ {p} : lock = q => lock' = q,
         at[p] \in 2..9 => lock' = p
  PROVE  IInv'
<1> USE DEF IInv, Next1, ends
<1>1. \A q \in Runner : IF q = p THEN at'[q] = at[q] + 1 ELSE at'[q] = at[q]
  BY DEF TypeOK
<1>2. \A q \in Runner : Idle(q)' <=> Idle(q)
  <2> TAKE q \in Runner
  <2>1. at[q] \in 1..12 /\ at'[q] \in 1..12 /\ (at[q] = 1 <=> at'[q] = 1)
    BY <1>1 DEF TypeOK
  <2> QED
    BY <2>1, Steps DEF Idle, At
<1>3. TypeOK'
  <2>1. at' \in [Runner -> 1..12]
    <3>1. at[p] + 1 \in 1..12
      OBVIOUS
    <3> QED
      BY <3>1 DEF TypeOK
  <2> QED
    BY <2>1 DEF TypeOK
<1>4. Exclusion'
  BY <1>1 DEF Exclusion, TypeOK
<1>5. Merged'
  <2> SUFFICES ASSUME NEW q \in Runner, NEW f \in Parsed, at'[q] \in Ready[f]..Place[f]
               PROVE  Keeps(new'[q][f], f)
    BY DEF Merged, Keeps, Readable
  <2>1. CASE q = p
    BY <1>1, <2>1
  <2>2. CASE q # p
    <3>1. at[q] \in Ready[f]..Place[f] /\ new'[q] = new[q]
      BY <1>1, <2>2
    <3> QED
      BY <3>1 DEF Merged
  <2> QED
    BY <2>1, <2>2
<1>6. Past'
  <2> SUFFICES ASSUME NEW q \in Runner, NEW f \in wrote[q]
               PROVE  at'[q] > Place[f]
    BY DEF Past
  <2>1. f \in File /\ at[q] \in Nat /\ Place[f] \in Nat
    <3>1. f \in File /\ at[q] \in 1..12
      BY DEF TypeOK
    <3> QED
      BY <3>1, Places
  <2>2. at[q] > Place[f]
    BY DEF Past
  <2>3. at'[q] >= at[q]
    BY <1>1, <2>1
  <2> QED
    BY <1>1, <2>1, <2>2, <2>3
<1>7. Alone'
  BY <1>2 DEF Alone
<1>8. Seen'
  BY <1>2 DEF Seen
<1> QED
  BY <1>3, <1>4, <1>5, <1>6, <1>7, <1>8

\* A write: the content replaces the file, unless it is the same.
LEMMA WriteKeeps ==
  ASSUME IInv, NEW p \in Runner, NEW f \in File, at[p] = Place[f],
         NEW content \in Content, Replace(p, f, content),
         UNCHANGED <<ends, lock, flags, before, new>>
  PROVE  IInv'
<1> USE DEF IInv, Replace, Next1, ends
<1>1. at[p] \in 5..9 /\ \A q \in Runner : IF q = p THEN at'[q] = at[q] + 1 ELSE at'[q] = at[q]
  BY Places DEF TypeOK
<1>2. \A q \in Runner : Idle(q)' <=> Idle(q)
  <2> TAKE q \in Runner
  <2>1. at[q] \in 1..12 /\ at'[q] \in 1..12 /\ (at[q] = 1 <=> at'[q] = 1)
    BY <1>1 DEF TypeOK
  <2> QED
    BY <2>1, Steps DEF Idle, At
<1>3. ~Idle(p)
  BY <1>1, Stands DEF Idle
<1>4. content \in Kinds /\ content # Absent /\ content # Broken
  BY SetupAssumption DEF Kinds
<1>5. \A g \in File : disk'[g] = IF g = f THEN content ELSE disk[g]
  BY DEF TypeOK
<1>6. TypeOK'
  <2>1. at' \in [Runner -> 1..12]
    <3>1. at[p] + 1 \in 1..12
      BY <1>1
    <3> QED
      BY <3>1 DEF TypeOK
  <2>2. disk' \in [File -> Kinds] /\ \A g \in File \ Parsed : disk'[g] # Broken
    BY <1>4 DEF TypeOK
  <2>3. wrote' \in [Runner -> SUBSET File]
    BY DEF TypeOK
  <2>4. unsaved' \in [File -> Runner \cup {None}]
    BY DEF TypeOK
  <2> QED
    BY <2>1, <2>2, <2>3, <2>4 DEF TypeOK
<1>7. Exclusion'
  <2>1. lock = p
    BY <1>1 DEF Exclusion
  <2> QED
    BY <1>1, <2>1 DEF Exclusion
<1>8. Merged'
  <2> SUFFICES ASSUME NEW q \in Runner, NEW g \in Parsed, at'[q] \in Ready[g]..Place[g]
               PROVE  Keeps(new[q][g], g)'
    BY DEF Merged
  <2>1. Ready[g] \in 4..5 /\ Place[g] \in 5..9 /\ Place[g] \in 5..7 /\ g \in File
    BY Places DEF Place, Parsed
  <2>2. q = p
    <3>1. lock = p
      BY <1>1 DEF Exclusion
    <3>2. at'[q] \in 3..10
      BY <2>1
    <3> QED
      BY <1>1, <3>1, <3>2 DEF Exclusion
  <2>3. at[p] \in Ready[g]..Place[g] /\ g # f
    BY <1>1, <2>1, <2>2
  <2>4. Keeps(new[q][g], g)
    BY <2>2, <2>3 DEF Merged
  <2>5. disk'[g] = disk[g]
    BY <1>5, <2>1, <2>3
  <2> QED
    BY <2>4, <2>5 DEF Keeps, Readable
<1>9. Past'
  <2> SUFFICES ASSUME NEW q \in Runner, NEW g \in wrote'[q]
               PROVE  at'[q] > Place[g]
    BY DEF Past
  <2>1. g \in File /\ at[q] \in Nat /\ Place[g] \in Nat
    <3>1. wrote'[q] \in SUBSET File /\ at[q] \in 1..12
      BY <1>6 DEF TypeOK
    <3>2. Place[g] \in 5..9
      BY <3>1, Places
    <3> QED
      BY <3>1, <3>2
  <2>2. CASE g \in wrote[q]
    BY <1>1, <2>1, <2>2 DEF Past
  <2>3. CASE g \notin wrote[q]
    <3>1. q = p /\ g = f
      BY <2>3 DEF TypeOK
    <3> QED
      BY <1>1, <3>1
  <2> QED
    BY <2>2, <2>3
<1>10. Alone'
  BY <1>2 DEF Alone
<1>11. Seen'
  <2> SUFFICES ASSUME NEW q \in Runner \ shared, NEW g \in File, ~Idle(q)
               PROVE  IF g \in wrote'[q] THEN disk'[g] # before[q][g] /\ disk'[g] # Absent
                                         ELSE disk'[g] = before[q][g]
    BY <1>2 DEF Seen
  <2>1. q = p
    BY <1>3 DEF Alone
  <2>2. IF g \in wrote[q] THEN disk[g] # before[q][g] /\ disk[g] # Absent
                          ELSE disk[g] = before[q][g]
    BY DEF Seen
  <2>3. CASE g # f
    <3>1. g \in wrote'[q] <=> g \in wrote[q]
      BY <2>3 DEF TypeOK
    <3> QED
      BY <1>5, <2>2, <2>3, <3>1
  <2>4. CASE g = f
    <3>1. f \notin wrote[p]
      BY <1>1 DEF Past
    <3>2. disk[f] = before[p][f] /\ disk'[f] = content
      BY <1>5, <2>1, <2>2, <2>4, <3>1
    <3>3. wrote'[p] = IF disk[f] = content THEN wrote[p] ELSE wrote[p] \cup {f}
      BY DEF TypeOK
    <3> QED
      BY <1>4, <2>1, <2>4, <3>1, <3>2, <3>3
  <2> QED
    BY <2>3, <2>4
<1> QED
  BY <1>6, <1>7, <1>8, <1>9, <1>10, <1>11

\* What a write puts into a file: content, and nothing of the user's is lost.
LEMMA Written ==
  ASSUME IInv, NEW p \in Runner, NEW f \in File, Write(p, f)
  PROVE  /\ at[p] = Place[f]
         /\ \E content \in Content : Keeps(content, f) /\ Replace(p, f, content)
<1>1. at[p] = Place[f]
  BY Stands DEF Write, IInv
<1>2. CASE f \in Parsed /\ Replace(p, f, new[p][f])
  <2>1. at[p] \in Ready[f]..Place[f]
    BY <1>1, <1>2, Places
  <2>2. Keeps(new[p][f], f)
    BY <1>2, <2>1 DEF IInv, Merged
  <2> QED
    BY <1>1, <1>2, <2>2 DEF Keeps
<1>3. ASSUME f \in {"ignore", "overview"}
      PROVE  Old(f) \in Content /\ (disk[f] # Absent => Old(f) = disk[f])
  <2>1. disk[f] \in Kinds /\ disk[f] # Broken
    BY <1>3 DEF IInv, TypeOK, Parsed
  <2> QED
    BY <2>1, OldKept
<1>4. CASE f = "ignore" /\ Replace(p, f, [Old(f) EXCEPT !.ours = {<<"entries">>}])
  <2> DEFINE c == [Old(f) EXCEPT !.ours = {<<"entries">>}]
  <2>1. {<<"entries">>} \in SUBSET Ours
    BY DEF Ours
  <2>2. c \in Content /\ c.user = Old(f).user /\ Old(f).user \in Nat
    BY <1>3, <1>4, <2>1 DEF Content
  <2>3. Keeps(c, f)
    BY <1>3, <1>4, <2>2 DEF Keeps, Readable
  <2> QED
    BY <1>1, <1>4, <2>2, <2>3
<1>5. CASE f = "overview" /\ Replace(p, f, Old(f))
  <2>1. Old(f).user \in Nat
    BY <1>3, <1>5 DEF Content
  <2>2. Keeps(Old(f), f)
    BY <1>3, <1>5, <2>1 DEF Keeps, Readable
  <2> QED
    BY <1>1, <1>3, <1>5, <2>2
<1> QED
  BY <1>2, <1>4, <1>5 DEF Write
-----------------------------------------------------------------------------
(***************************************************************************)
(* The steps of a run and of the user.                                     *)
(***************************************************************************)
\* A run begins with the files as they are; one that finds another under way
\* marks both.
LEMMA StartKeeps ==
  ASSUME IInv, NEW p \in Runner, NEW fl \in Flags, Start(p, fl)
  PROVE  IInv'
<1> USE DEF IInv, Start, Next1, user
<1>1. at[p] = 1
  BY Stands
<1>2. \A q \in Runner : at'[q] = IF q = p THEN 2 ELSE at[q]
  BY <1>1 DEF TypeOK
<1>3. \A q \in Runner : Idle(q)' <=> q # p /\ Idle(q)
  BY <1>2, Steps DEF Idle, At, TypeOK
<1>4. TypeOK'
  BY <1>1 DEF TypeOK
<1>5. Exclusion'
  BY <1>2 DEF Exclusion
<1>6. Merged'
  <2> SUFFICES ASSUME NEW q \in Runner, NEW f \in Parsed, at'[q] \in Ready[f]..Place[f]
               PROVE  Keeps(new[q][f], f)
    BY DEF Merged, Keeps, Readable
  <2> QED
    BY <1>2, Places DEF Merged
<1>10. wrote[p] = {}
  <2> SUFFICES ASSUME NEW f \in wrote[p]
               PROVE  FALSE
    OBVIOUS
  <2>1. f \in File
    BY DEF TypeOK
  <2>2. Place[f] \in 5..9 /\ at[p] > Place[f]
    BY <2>1, Places DEF Past
  <2> QED
    BY <1>1, <2>2
<1>7. Past'
  BY <1>2, <1>10 DEF Past
<1>8. Alone'
  BY <1>3 DEF Alone
<1>9. Seen'
  <2> SUFFICES ASSUME NEW q \in Runner \ shared', NEW f \in File, ~Idle(q)'
               PROVE  IF f \in wrote[q] THEN disk[f] # before'[q][f] /\ disk[f] # Absent
                                        ELSE disk[f] = before'[q][f]
    BY DEF Seen
  <2>1. q = p
    BY <1>3
  <2>2. before'[q] = disk
    BY <2>1 DEF TypeOK
  <2> QED
    BY <1>10, <2>1, <2>2
<1> QED
  BY <1>4, <1>5, <1>6, <1>7, <1>8, <1>9

\* An edit, with no run under way.
LEMMA EditKeeps ==
  ASSUME IInv, \A p \in Runner : Idle(p), NEW f \in File, NEW kind \in Kinds,
         f \notin Parsed => kind # Broken,
         disk' = [disk EXCEPT ![f] = kind], unsaved' = [unsaved EXCEPT ![f] = None],
         UNCHANGED <<ends, lock, at, flags, before, new, wrote>>
  PROVE  IInv'
<1> USE DEF IInv, ends
<1>1. \A p \in Runner : at[p] = 1
  BY Stands DEF IInv
<1>2. TypeOK'
  BY DEF TypeOK
<1>3. Exclusion' /\ Past' /\ Alone'
  BY DEF Exclusion, Past, Alone, Idle, At
<1>4. Merged'
  <2>1. \A g \in Parsed : 1 \notin Ready[g]..Place[g]
    BY Places
  <2>2. \A p \in Runner : at'[p] = 1
    BY <1>1
  <2> QED
    BY <2>1, <2>2 DEF Merged
<1>5. Seen'
  BY DEF Seen, Idle, At
<1> QED
  BY <1>2, <1>3, <1>4, <1>5

\* The settings are merged.
LEMMA ValidateKeeps ==
  ASSUME IInv, NEW p \in Runner, Validate(p)
  PROVE  IInv'
<1> DEFINE c == Dumped("config", Paths(flags[p]))
<1>1. at[p] = 3 /\ lock = p
  <2>1. at[p] = 3
    BY Stands DEF IInv, Validate
  <2> QED
    BY <2>1 DEF IInv, Exclusion
<1>2. Keeps(c, "config")
  <2>1. "config" \in File /\ disk["config"] \in Kinds /\ disk["config"] # Broken
    BY DEF IInv, TypeOK, Validate, Valid, File, Parsed
  <2>2. flags[p] \in Flags \cup {Untyped}
    BY DEF IInv, TypeOK
  <2>3. Paths(flags[p]) \in SUBSET Ours
    BY <2>1, <2>2, PathsTyped
  <2>4. "config" # "permissions"
    OBVIOUS
  <2> QED
    BY <2>1, <2>3, <2>4, DumpedKeeps
<1>3. c \in Kinds
  BY <1>2 DEF Keeps, Kinds
<1> HIDE DEF c
<1>4. new' \in [Runner -> [File -> Kinds]] /\ new'[p]["config"] = c
      /\ \A q \in Runner : q # p => new'[q] = new[q]
  <2>1. new' = [new EXCEPT ![p]["config"] = c]
    BY DEF Validate, c
  <2>2. "config" \in File
    BY DEF File, Parsed
  <2> QED
    BY <1>3, <2>1, <2>2 DEF IInv, TypeOK
<1>5. \A f \in Parsed : at[p] + 1 \in Ready[f]..Place[f] => Keeps(new'[p][f], f)
  BY <1>1, <1>2, <1>4, Places DEF Parsed
<1>6. Next1(p) /\ UNCHANGED <<ends, disk, flags, before, wrote, unsaved>> /\ lock' = lock
  BY DEF Validate
<1> QED
  BY <1>1, <1>4, <1>5, <1>6, AdvanceKeeps

\* The other parsed files are merged; the settings wait for their write.
LEMMA ParseKeeps ==
  ASSUME IInv, NEW p \in Runner, Parse(p)
  PROVE  IInv'
<1> DEFINE c == Dumped("mcp", {<<"strata">>})
           ours == Old("permissions").ours \cup {<<"rules">>} \cup Manuscripts(new[p]["config"].ours)
           d == Dumped("permissions", ours)
<1>1. at[p] = 4 /\ lock = p
  <2>1. at[p] = 4
    BY Stands DEF IInv, Parse
  <2> QED
    BY <2>1 DEF IInv, Exclusion
<1>2. Keeps(new[p]["config"], "config")
  BY <1>1, Places DEF IInv, Merged, Parsed
<1>3. \A f \in {"mcp", "permissions"} : f \in File /\ disk[f] \in Kinds /\ disk[f] # Broken
  BY DEF IInv, TypeOK, Parse, File, Parsed
<1>4. Keeps(c, "mcp")
  <2>1. {<<"strata">>} \in SUBSET Ours
    BY DEF Ours
  <2> QED
    BY <1>3, <2>1, DumpedKeeps
<1>5. Keeps(d, "permissions")
  <2>1. Old("permissions").ours \in SUBSET Ours
    <3>1. Old("permissions") \in Content
      BY <1>3, OldKept
    <3> QED
      BY <3>1 DEF Content
  <2>2. Manuscripts(new[p]["config"].ours) \in SUBSET Ours
    BY <1>2 DEF Keeps, Content, Manuscripts
  <2>3. ours \in SUBSET Ours
    BY <2>1, <2>2 DEF Ours
  <2> HIDE DEF ours
  <2>4. Old("permissions").ours \subseteq ours
    BY DEF ours
  <2> QED
    BY <1>3, <2>3, <2>4, DumpedKeeps
<1>6. c \in Kinds /\ d \in Kinds
  BY <1>4, <1>5 DEF Keeps, Kinds
<1>7. new' = [new EXCEPT ![p]["mcp"] = c, ![p]["permissions"] = d]
  BY DEF Parse
<1> HIDE DEF c, d
<1>8. new' \in [Runner -> [File -> Kinds]] /\ \A q \in Runner : q # p => new'[q] = new[q]
  <2>1. "mcp" \in File /\ "permissions" \in File
    BY <1>3
  <2> QED
    BY <1>6, <1>7, <2>1 DEF IInv, TypeOK
<1>9. /\ new'[p]["config"] = new[p]["config"]
      /\ new'[p]["mcp"] = c /\ new'[p]["permissions"] = d
  <2>1. new[p] \in [File -> Kinds] /\ "mcp" \in File /\ "permissions" \in File /\ "config" \in File
    BY <1>3 DEF IInv, TypeOK, File, Parsed
  <2>2. new'[p] = [new[p] EXCEPT !["mcp"] = c, !["permissions"] = d]
    BY <1>7 DEF IInv, TypeOK
  <2> QED
    BY <2>1, <2>2
<1>10. \A f \in Parsed : at[p] + 1 \in Ready[f]..Place[f] => Keeps(new'[p][f], f)
  BY <1>2, <1>4, <1>5, <1>9 DEF Parsed
<1>11. Next1(p) /\ UNCHANGED <<ends, disk, flags, before, wrote, unsaved>> /\ lock' = lock
  BY DEF Parse
<1> QED
  BY <1>1, <1>8, <1>10, <1>11, AdvanceKeeps

\* The other steps that go on: the lock is taken and given back, and the
\* comparison finds something to commit.
LEMMA GoOnKeeps ==
  ASSUME IInv, NEW p \in Runner, Next1(p), at[p] \in {2, 10, 11},
         UNCHANGED <<ends, disk, flags, before, new, wrote, unsaved>>,
         at[p] = 2 => lock = None /\ lock' = p,
         at[p] # 2 => lock' = lock \/ lock = p
  PROVE  IInv'
<1>1. new' \in [Runner -> [File -> Kinds]] /\ \A q \in Runner : q # p => new'[q] = new[q]
  BY DEF IInv, TypeOK
<1>2. \A f \in Parsed : at[p] + 1 \notin Ready[f]..Place[f]
  BY Places DEF Place, Parsed
<1>3. \A q \in Runner \ {p} : lock = q => lock' = q
  BY SetupAssumption
<1> QED
  BY <1>1, <1>2, <1>3, AdvanceKeeps

\* Every step keeps the invariant.
LEMMA NextInv == IInv /\ [Next]_vars => IInv'
<1> SUFFICES ASSUME IInv, [Next]_vars
             PROVE  IInv'
  OBVIOUS
<1>1. ASSUME NEW f \in Parsed, Break(f)
      PROVE  IInv'
  <2>1. f \in File /\ Broken \in Kinds
    BY DEF File, Kinds
  <2> QED
    BY <1>1, <2>1, EditKeeps DEF Break
<1>2. ASSUME NEW f \in File, Edit(f)
      PROVE  IInv'
  <2> DEFINE c == [disk[f] EXCEPT !.user = @ + 1, !.layout = "hand"]
  <2>1. disk[f] \in Content
    BY <1>2 DEF Edit, IInv, TypeOK, Kinds
  <2>2. c \in Content
    <3>1. disk[f].user + 1 \in Nat
      BY <2>1 DEF Content
    <3> QED
      BY <2>1, <3>1 DEF Content
  <2>3. c \in Kinds /\ c # Broken
    BY <2>2, SetupAssumption DEF Kinds
  <2>4. disk' = [disk EXCEPT ![f] = c]
    BY <1>2 DEF Edit, IInv, TypeOK
  <2> HIDE DEF c
  <2> QED
    BY <1>2, <2>3, <2>4, EditKeeps DEF Edit
<1>3. CASE Stage \/ UNCHANGED vars
  <2>1. UNCHANGED <<ends, disk, lock, at, flags, before, new, wrote, unsaved>>
    BY <1>3 DEF Stage, vars, ends
  <2>2. TypeOK' /\ Exclusion' /\ Past'
    BY <2>1 DEF IInv, ends, TypeOK, Exclusion, Past
  <2>3. Merged'
    BY <2>1 DEF IInv, Merged, Keeps, Readable
  <2>4. Alone' /\ Seen'
    BY <2>1 DEF IInv, ends, Alone, Seen, Idle, At
  <2> QED
    BY <2>2, <2>3, <2>4 DEF IInv
<1>4. ASSUME NEW p \in Runner, NEW fl \in Flags, Start(p, fl)
      PROVE  IInv'
  BY <1>4, StartKeeps
<1>5. ASSUME NEW p \in Runner, Lock(p)
      PROVE  IInv'
  <2>1. at[p] = 2
    BY <1>5, Stands DEF Lock, IInv
  <2>2. Next1(p) /\ lock = None /\ lock' = p
        /\ UNCHANGED <<ends, disk, flags, before, new, wrote, unsaved>>
    BY <1>5 DEF Lock
  <2> QED
    BY <2>1, <2>2, GoOnKeeps
<1>6. ASSUME NEW p \in Runner, Validate(p) \/ Parse(p)
      PROVE  IInv'
  BY <1>6, ValidateKeeps, ParseKeeps
<1>7. ASSUME NEW p \in Runner, NEW f \in File, Write(p, f)
      PROVE  IInv'
  <2>1. PICK content \in Content : at[p] = Place[f] /\ Replace(p, f, content)
    BY <1>7, Written
  <2> QED
    BY <1>7, <2>1, WriteKeeps DEF Write
<1>8. ASSUME NEW p \in Runner, Unlock(p)
      PROVE  IInv'
  <2>1. at[p] = 10
    BY <1>8, Stands DEF Unlock, IInv
  <2>2. Next1(p) /\ (lock' = lock \/ lock = p)
        /\ UNCHANGED <<ends, disk, flags, before, new, wrote, unsaved>>
    BY <1>8 DEF Unlock
  <2> QED
    BY <2>1, <2>2, GoOnKeeps
<1>9. ASSUME NEW p \in Runner, Compare(p)
      PROVE  IInv'
  <2>1. CASE \E how : End(p, how)
    BY <1>9, <2>1, EndKeeps DEF Compare, IInv, TypeOK
  <2>2. CASE Next1(p) /\ UNCHANGED <<ends, lock, flags, before, new, wrote>>
    <3>1. at[p] = 11
      BY <1>9, Stands DEF Compare, IInv
    <3> QED
      BY <1>9, <2>2, <3>1, GoOnKeeps DEF Compare
  <2> QED
    BY <1>9, <2>1, <2>2 DEF Compare
<1>10. ASSUME NEW p \in Runner, Commit(p)
       PROVE  IInv'
  <2>1. unsaved' \in [File -> Runner \cup {None}]
    BY <1>10 DEF Commit, IInv, TypeOK
  <2> QED
    BY <1>10, <2>1, EndKeeps DEF Commit
<1>11. ASSUME NEW p \in Runner, Refuse(p) \/ Stop(p)
       PROVE  IInv'
  BY <1>11, EndKeeps DEF Refuse, Stop, IInv, TypeOK
<1> QED
  BY <1>1, <1>2, <1>3, <1>4, <1>5, <1>6, <1>7, <1>8, <1>9, <1>10, <1>11 DEF Next

\* Setup keeps its types, its lock keeps runs apart, and each run knows what
\* it replaced, in every reachable state.
THEOREM Invariance == Spec => []IInv
<1>1. Init => IInv
  <2> SUFFICES ASSUME Init
               PROVE  IInv
    OBVIOUS
  <2>1. Empty \in [File -> Kinds] /\ \A f \in File : Empty[f] = Absent
    BY DEF Empty, Kinds
  <2>2. \A p \in Runner : at[p] = 1 /\ Idle(p)
    <3>1. Order[1] = "start"
      BY DEF Order
    <3> QED
      BY <3>1 DEF Init, Idle, At
  <2>3. TypeOK
    BY <2>1, SetupAssumption DEF Init, TypeOK
  <2>4. Exclusion /\ Past /\ Alone /\ Seen
    BY <2>2 DEF Init, Exclusion, Past, Alone, Seen
  <2>5. Merged
    BY <2>2, Places DEF Merged
  <2> QED
    BY <2>3, <2>4, <2>5 DEF IInv
<1> QED
  BY <1>1, NextInv, PTL DEF Spec

\* A step takes from no file what the user or, of the permissions, an
\* earlier run put there.
LEMMA StepDropsNothing ==
  ASSUME IInv, [Next]_vars, NEW f \in File, Readable(f), disk'[f] \notin {Absent, Broken}
  PROVE  /\ disk'[f].user >= disk[f].user
         /\ f = "permissions" => disk[f].ours \subseteq disk'[f].ours
<1>1. disk[f] \in Content
  BY DEF IInv, TypeOK, Kinds, Readable
<1>2. disk[f].user \in Nat
  BY <1>1 DEF Content
<1>3. CASE disk' = disk
  BY <1>2, <1>3
<1>4. ASSUME NEW g \in File, Edit(g)
      PROVE  disk'[f].user >= disk[f].user /\ disk'[f].ours = disk[f].ours
  <2>1. CASE g = f
    <3>1. disk'[f] = [disk[f] EXCEPT !.user = @ + 1, !.layout = "hand"]
      BY <1>4, <2>1 DEF Edit, IInv, TypeOK
    <3>2. disk'[f].user = disk[f].user + 1 /\ disk'[f].ours = disk[f].ours
      BY <1>1, <3>1 DEF Content
    <3> QED
      BY <1>2, <3>2
  <2>2. CASE g # f
    BY <1>2, <1>4, <2>2 DEF Edit, IInv, TypeOK
  <2> QED
    BY <2>1, <2>2
<1>5. ASSUME NEW g \in Parsed, Break(g)
      PROVE  disk'[f] = disk[f]
  BY <1>5 DEF Break, IInv, TypeOK, File
<1>6. ASSUME NEW p \in Runner, NEW g \in File, Write(p, g)
      PROVE  /\ disk'[f].user >= disk[f].user
             /\ f = "permissions" => disk[f].ours \subseteq disk'[f].ours
  <2>1. PICK content \in Content : Keeps(content, g) /\ Replace(p, g, content)
    BY <1>6, Written
  <2>2. CASE g = f
    <3>1. disk'[f] = content
      BY <2>1, <2>2 DEF Replace, IInv, TypeOK
    <3> QED
      BY <2>1, <2>2, <3>1 DEF Keeps
  <2>3. CASE g # f
    BY <1>2, <2>1, <2>3 DEF Replace, IInv, TypeOK
  <2> QED
    BY <2>2, <2>3
<1>7. \/ \E g \in Parsed : Break(g)
      \/ \E g \in File : Edit(g)
      \/ \E p \in Runner, g \in File : Write(p, g)
      \/ disk' = disk
  BY DEF Next, vars, user, Stage, Start, Lock, Validate, Parse, Unlock, Compare, Commit, Refuse, Stop
<1> QED
  BY <1>2, <1>3, <1>4, <1>5, <1>6, <1>7

\* No run, finished or killed, loses what the user put into a file, nor a
\* folder another run was allowed to open, however many runs there are.
THEOREM KeepsTheUsers == Spec => NothingDropped
<1>1. IInv /\ [Next]_vars =>
        [\A f \in File : Readable(f) /\ disk'[f] \notin {Absent, Broken} =>
           /\ disk'[f].user >= disk[f].user
           /\ f = "permissions" => disk[f].ours \subseteq disk'[f].ours]_vars
  BY StepDropsNothing, Zenon
<1> QED
  BY <1>1, Invariance, PTL DEF Spec, NothingDropped

\* A run ends only by a step of its own.
LEMMA EndsItself ==
  ASSUME IInv, [Next]_vars, NEW p \in Runner, Saved(p)
  PROVE  (Compare(p) /\ End(p, "saved")) \/ Commit(p)
<1>1. at[p] \in 2..12 /\ at'[p] = 1
  BY Stands DEF IInv, Saved
<1>2. \A q \in Runner : Next1(q) => at'[p] # 1
  BY <1>1 DEF Next1, IInv, TypeOK
<1>3. \A q \in Runner : \A how : End(q, how) => q = p /\ how = "saved"
  BY <1>1 DEF End, Saved, IInv, TypeOK
<1>4. at' # at
  BY <1>1
<1>5. ASSUME NEW q \in Runner, Refuse(q) \/ Stop(q)
      PROVE  FALSE
  BY <1>3, <1>5 DEF Refuse, Stop
<1>6. ASSUME NEW q \in Runner, Compare(q)
      PROVE  q = p /\ End(p, "saved")
  <2>1. End(q, "saved") \/ End(q, "deferred") \/ Next1(q)
    BY <1>6 DEF Compare
  <2>2. "deferred" # "saved"
    OBVIOUS
  <2> QED
    BY <1>1, <1>2, <1>3, <2>1, <2>2
<1>7. ASSUME NEW q \in Runner, Commit(q)
      PROVE  q = p
  BY <1>3, <1>7 DEF Commit
<1>8. \E q \in Runner : Refuse(q) \/ Stop(q) \/ Compare(q) \/ Commit(q)
  <2>1. \A f \in File : ~Edit(f) /\ ~Break(f)
    BY <1>4 DEF Edit, Break
  <2>2. ~Stage /\ ~UNCHANGED vars
    BY <1>4 DEF Stage, vars
  <2>3. \A q \in Runner, fl \in Flags : ~Start(q, fl)
    BY <1>1, <1>2 DEF Start
  <2>4. \A q \in Runner, f \in File : ~Write(q, f)
    BY <1>1, <1>2 DEF Write, Replace
  <2>5. \A q \in Runner : ~(Lock(q) \/ Validate(q) \/ Parse(q) \/ Unlock(q))
    BY <1>1, <1>2 DEF Lock, Validate, Parse, Unlock
  <2>6. Parsed \subseteq File
    BY DEF File
  <2> QED
    BY <2>1, <2>2, <2>3, <2>4, <2>5, <2>6 DEF Next
<1> QED
  BY <1>5, <1>6, <1>7, <1>8

\* What a run alone has replaced is what it finds changed.
LEMMA WroteIsChanged ==
  ASSUME IInv, NEW p \in Runner \ shared, ~Idle(p)
  PROVE  wrote[p] \subseteq Changed(p)
<1> SUFFICES ASSUME NEW f \in wrote[p]
             PROVE  f \in Changed(p)
  OBVIOUS
<1>1. f \in File
  BY DEF IInv, TypeOK
<1> QED
  BY <1>1 DEF IInv, Seen, Changed

\* A run that ends well, with no other run under way, has committed what it
\* replaced, whatever runs that failed or were killed left behind.
THEOREM CommitsWhatItReplaced == Spec => CommitsItsChanges
<1>1. ASSUME IInv, [Next]_vars, NEW p \in Runner, Saved(p), p \notin shared, NEW f \in wrote[p]
      PROVE  unsaved'[f] # p
  <2>1. f \in File /\ f \in Changed(p)
    BY <1>1, WroteIsChanged DEF IInv, TypeOK, Saved
  <2>2. ~(Compare(p) /\ End(p, "saved"))
    <3>1. At(p, "compare") /\ Changed(p) # {} /\ Compare(p) /\ End(p, "saved") => FALSE
      <4>1. End(p, "deferred") => last' = "deferred"
        BY DEF End
      <4>2. End(p, "saved") => last' = "saved" /\ ~Next1(p)
        <5>1. at[p] \in 1..12
          BY <1>1 DEF IInv, TypeOK
        <5>2. at[p] # 1
          BY <1>1, Stands DEF Saved, IInv
        <5> QED
          BY <1>1, <5>1, <5>2 DEF End, Next1, IInv, TypeOK
      <4> QED
        BY <4>1, <4>2 DEF Compare
    <3> QED
      BY <2>1, <3>1 DEF Compare
  <2>3. Commit(p)
    BY <1>1, <2>2, EndsItself
  <2>4. unsaved'[f] = None
    BY <2>1, <2>3 DEF Commit
  <2> QED
    BY <2>4, SetupAssumption
<1>2. IInv /\ [Next]_vars =>
        [\A p \in Runner : Saved(p) /\ p \notin shared => \A f \in wrote[p] : unsaved'[f] # p]_vars
  BY <1>1, Zenon
<1> QED
  BY <1>2, Invariance, PTL DEF Spec, CommitsItsChanges
=============================================================================
