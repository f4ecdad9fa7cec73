--------------------------- MODULE RefreshProofs ---------------------------
(***************************************************************************)
(* A whole refresh keeps its promises for every number of threads and      *)
(* processes, every set of sources, tools and failures, and any number of  *)
(* edits, calls and crashes.                                               *)
(***************************************************************************)
EXTENDS Refresh, TableProofs

(* A scan of the sources keeps the rows consistent and every citation
   intact, and leaves each source live just as the scan found it. *)
LEMMA ScanKeeps ==
  ASSUME NEW rows, TableInv(rows), NEW found \in [Path -> Sha \cup {Null}],
         NEW tool, tool.converter \in Converter,
         NEW e, e = ScanRows(rows, found, tool)
  PROVE  /\ TableInv(e) /\ Later(rows, e)
         /\ \A q \in Path : found[q] = Null => ~Live(e.units[q])
         /\ \A q \in Path : found[q] # Null =>
              /\ Live(e.units[q])
              /\ LiveTexts(e.units[q]) = Converted(found[q], tool.converter)
<1> DEFINE dated == rows.dating \notin {Null, tool.dating}
           S == {q \in Path : found[q] # Null}
           known == Register(rows, S)
           after(q) ==
             IF found[q] # Null THEN Align(known, q, found[q], tool.converter, dated)
             ELSE IF q \in Registered(known) THEN RetireUnit(known, q)
             ELSE known
           changed == {q \in Path : after(q).token # known.token}
<1>1. /\ TableInv(known) /\ Later(rows, known)
      /\ S \subseteq Registered(known) /\ known.token = rows.token
  BY RegisterKeeps
<1>2. dated \in BOOLEAN
  OBVIOUS
<1> HIDE DEF dated, known
<1>3. ASSUME NEW q \in Path, found[q] # Null
      PROVE  /\ TableInv(after(q)) /\ Later(known, after(q))
             /\ Live(after(q).units[q])
             /\ LiveTexts(after(q).units[q]) = Converted(found[q], tool.converter)
  <2>1. q \in Registered(known) /\ found[q] \in Sha
    BY <1>1, <1>3
  <2>2. after(q) = Align(known, q, found[q], tool.converter, dated)
    BY <1>3
  <2> HIDE DEF after
  <2>3. /\ TableInv(after(q)) /\ Later(known, after(q))
        /\ LastVersion(after(q).units[q]) > 0 /\ ~after(q).units[q].deleted
        /\ LiveTexts(after(q).units[q]) = Converted(found[q], tool.converter)
    BY <1>1, <1>2, <2>1, <2>2, AlignKeeps
  <2> QED
    BY <2>3 DEF Live
<1>4. ASSUME NEW q \in Path, found[q] = Null
      PROVE  /\ TableInv(after(q)) /\ Later(known, after(q))
             /\ ~Live(after(q).units[q])
  <2>1. CASE q \in Registered(known)
    <3>1. after(q) = RetireUnit(known, q)
      BY <1>4, <2>1
    <3> HIDE DEF after
    <3>2. /\ TableInv(after(q)) /\ Later(known, after(q))
          /\ after(q).units[q].deleted
      BY <1>1, <2>1, <3>1, RetireUnitKeeps
    <3> QED
      BY <3>2 DEF Live
  <2>2. CASE q \notin Registered(known)
    <3>1. after(q) = known
      BY <1>4, <2>2
    <3> HIDE DEF after
    <3>2. known.units[q] = NewUnit(0)
      BY <1>1, <2>2 DEF Registered, TableInv
    <3>3. ~Live(known.units[q])
      BY <3>2 DEF Live, NewUnit, LastVersion
    <3> QED
      BY <1>1, <3>1, <3>3, LaterReflexive
  <2> QED
    BY <2>1, <2>2
<1>5. \A q \in Path : TableInv(after(q)) /\ Later(known, after(q))
  BY <1>3, <1>4
<1>6. /\ e.units = [q \in Path |-> after(q).units[q]]
      /\ e.token = rows.token + Cardinality(changed)
      /\ e = [units |-> e.units, token |-> e.token, dating |-> e.dating]
  BY DEF ScanRows, dated, known
<1>7. /\ Cardinality(changed) \in Nat
      /\ Cardinality(changed) = 0 => changed = {}
  <2>1. changed \in SUBSET Path
    OBVIOUS
  <2>2. IsFiniteSet(changed)
    BY <2>1, PathAssumption, FS_Subset
  <2> QED
    BY <2>2, FS_CardinalityType, FS_EmptySet
<1>8. ASSUME NEW q \in Path, found[q] = Null, q \notin Registered(known)
      PROVE  after(q) = known
  BY <1>8
<1> HIDE DEF after
<1>9. \A q \in Path : e.units[q] = after(q).units[q]
  BY <1>6
<1>10. \A q \in Path : e.units[q].id = known.units[q].id
  <2>1. ASSUME NEW q \in Registered(known)
        PROVE  e.units[q].id = known.units[q].id
    BY <1>5, <1>9 DEF Later, Registered
  <2>2. ASSUME NEW q \in Path, q \notin Registered(known)
        PROVE  e.units[q].id = known.units[q].id
    <3>1. found[q] = Null
      BY <1>1, <2>2
    <3> QED
      BY <1>8, <1>9, <2>2, <3>1
  <2> QED
    BY <2>1, <2>2
<1>11. /\ rows.token \in Nat /\ e.token \in Nat
       /\ \A q \in Path : UnitInv(e.units[q])
       /\ \A q \in Path : e.units[q].id = 0 => e.units[q] = NewUnit(0)
  BY <1>5, <1>6, <1>7, <1>9 DEF TableInv, AreRows
<1>12. TableInv(e)
  <2>1. \A q \in Path : IsUnit(e.units[q])
    BY <1>11 DEF UnitInv
  <2>2. e.units \in [Path -> {e.units[q] : q \in Path}]
    BY <1>6
  <2>3. AreRows(e)
    BY <1>6, <1>11, <2>1, <2>2, Zenon DEF AreRows
  <2>4. BoundedIds(e) /\ DistinctIds(e)
    BY <1>1, <1>10 DEF TableInv, BoundedIds, DistinctIds, Registered
  <2> QED
    BY <1>11, <2>3, <2>4 DEF TableInv
<1>13. ASSUME e.token = known.token
       PROVE  SameCorpus(known, e)
  <2>1. changed = {}
    BY <1>1, <1>6, <1>7, <1>11, <1>13
  <2>2. ASSUME NEW q \in Path
        PROVE  SameCorpus(known, after(q))
    BY <1>5, <2>1 DEF Later
  <2>3. CorpusState(e) = CorpusState(known)
    <3>1. \A q \in Path : CorpusState(after(q))[q] = CorpusState(known)[q]
      BY <2>2 DEF SameCorpus
    <3>2. \A q \in Path : CorpusState(e)[q] = CorpusState(after(q))[q]
      BY <1>9 DEF CorpusState
    <3> QED
      BY <3>1, <3>2 DEF CorpusState
  <2>4. QuoteOf(e) = QuoteOf(known)
    <3>1. \A q \in Path : QuoteOf(after(q))[q] = QuoteOf(known)[q]
      BY <2>2 DEF SameCorpus
    <3>2. \A q \in Path : QuoteOf(e)[q] = QuoteOf(after(q))[q]
      BY <1>9 DEF QuoteOf
    <3> QED
      BY <3>1, <3>2 DEF QuoteOf
  <2>5. LiveOf(e) = LiveOf(known)
    <3>1. \A q \in Path : LiveOf(after(q))[q] = LiveOf(known)[q]
      BY <2>2 DEF SameCorpus
    <3>2. \A q \in Path : LiveOf(e)[q] = LiveOf(after(q))[q]
      BY <1>9 DEF LiveOf
    <3> QED
      BY <3>1, <3>2 DEF LiveOf
  <2> QED
    BY <2>3, <2>4, <2>5 DEF SameCorpus
<1>14. Later(known, e)
  <2>1. e.token >= known.token
    BY <1>1, <1>6, <1>7, <1>11
  <2>2. \A q \in Path : Extends(known.units[q], e.units[q])
    BY <1>5, <1>9 DEF Later
  <2>3. \A q \in Registered(known) : e.units[q].id = known.units[q].id
    BY <1>10 DEF Registered
  <2> QED
    BY <1>13, <2>1, <2>2, <2>3 DEF Later
<1>15. Later(rows, e)
  BY <1>1, <1>12, <1>14, LaterTransitive
<1> QED
  BY <1>3, <1>4, <1>9, <1>12, <1>15
-----------------------------------------------------------------------------
\* A thread waits for the file lock holding its process's lock.
WaitsInTurn ==
  \A c \in Caller : pc[c] = "wantFile" => threadLock[ProcessOf[c]] = c

\* The scan's findings are kept by nobody but the holder who is scanning.
ScanIsHolders ==
  /\ fileLock = Null => \A q \in Path : pending[q] = Null
  /\ \A c \in Caller : pc[c] \in {"open", "walk"} =>
       \A q \in Path : pending[q] = Null

\* While the holder works on it, the index is marked incomplete.
Marked ==
  \A c \in Caller :
    pc[c] \in {"walk", "read", "notes", "sync"} => ~index.complete

\* `seen` holds what every file is now.
SeesTheWorld ==
  \A c \in Caller : pc[c] \in Inside => \A q \in Path : file[q] \in seen[q]

\* What the scan has of q is what some moment since the lock was taken had.
Witnessed(q, tool) ==
  \E x \in seen[q] :
    IF pending[q] = Null THEN x = Null \/ Converted(x, tool.converter) = <<>>
    ELSE x = pending[q]

ScanIsFresh ==
  \A c \in Caller :
    /\ pc[c] \in {"read", "notes", "sync"} =>
         \A q \in Path \ todo : Witnessed(q, ToolOf(c))
    /\ pc[c] \in {"notes", "sync"} => todo = {}

\* The ledger's latest version of q is what the scan found of it.
Aligned(q, tool) ==
  IF pending[q] = Null THEN ~Live(ledger.units[q])
  ELSE /\ Live(ledger.units[q])
       /\ LiveTexts(ledger.units[q]) = Converted(pending[q], tool.converter)

ScanIsAligned ==
  \A c \in Caller : pc[c] \in {"notes", "sync"} =>
    \A q \in Path : Aligned(q, ToolOf(c))

\* The inductive invariant.
IInv ==
  /\ TypeOK
  /\ OneRefresher /\ WaitsInTurn
  /\ Marked /\ CompleteIsCurrent
  /\ TableInv(ledger) /\ NumbersQuoteTheirText
  /\ ScanIsHolders /\ SeesTheWorld /\ ScanIsFresh /\ ScanIsAligned
  /\ ServedFresh
-----------------------------------------------------------------------------
(* The holder's steps between opening and serving; all keep the locks. *)
HolderStep(c) ==
  \/ Open(c) \/ Walk(c) \/ ReadFile(c) \/ CommitScan(c)
  \/ ReadNotes(c) \/ SyncIndex(c)

(* The tool of a process has a converter. *)
LEMMA ToolType ==
  ASSUME NEW c \in Caller
  PROVE  /\ ProcessOf[c] \in Process
         /\ ToolOf(c).converter \in Converter
         /\ ToolOf(c).dating \in {Tool[p].dating : p \in Process}
BY ToolAssumption DEF ToolOf, Process

(* What a row of the index becomes is a row again. *)
LEMMA RowAfterType ==
  ASSUME TypeOK, TableInv(ledger), NEW c \in Caller, NEW q \in Path, pending[q] # Null
  PROVE  RowAfter(q, ToolOf(c)) \in Row
<1> DEFINE record == RecordOf(pending[q], ToolOf(c))
<1>1. pending[q] \in Sha
  BY DEF TypeOK
<1>2. Converted(pending[q], ToolOf(c).converter) \in Seq(Text)
  BY <1>1, ToolType, ConvertedType
<1>3. LiveAnchors(ledger.units[q]) \in Seq(Nat)
  <2>1. IsUnit(ledger.units[q]) /\ OrderIsLive(ledger.units[q])
    BY DEF TableInv, UnitInv
  <2> QED
    BY <2>1, LiveTextsType
<1>4. Insert(record, q) \in Row
  BY <1>2, <1>3, ToolType DEF Insert, RecordOf, Row
<1>5. index.records[q] \in Row \cup {Null}
  BY DEF TypeOK, IndexTables
<1>6. RowAfter(q, ToolOf(c)) \in {Insert(record, q), index.records[q]}
  BY DEF RowAfter
<1>7. RowAfter(q, ToolOf(c)) = index.records[q] => index.records[q] # Null \/ RowAfter(q, ToolOf(c)) = Insert(record, q)
  BY DEF RowAfter
<1> QED
  BY <1>4, <1>5, <1>6, <1>7

(* The columns SyncIndex writes. *)
LEMMA SyncIndexWrites ==
  ASSUME TypeOK, NEW c \in Caller, SyncIndex(c)
  PROVE  /\ index'.epoch = index.epoch /\ index'.complete = TRUE
         /\ index'.corpus = ledger.token /\ index'.other = notes
         /\ index'.records = RowsAfter(ToolOf(c))
         /\ index'.revision =
              IF ChangedAny(RowsAfter(ToolOf(c))) THEN index.revision + 1
              ELSE index.revision
         /\ index' = [epoch |-> index'.epoch, revision |-> index'.revision,
                      complete |-> index'.complete, corpus |-> index'.corpus,
                      records |-> index'.records, other |-> index'.other]
<1> DEFINE rows == RowsAfter(ToolOf(c))
           revision == IF ChangedAny(rows) THEN index.revision + 1 ELSE index.revision
<1>1. index' = [index EXCEPT !.records = rows, !.other = notes, !.corpus = ledger.token,
                             !.revision = revision, !.complete = TRUE]
  BY DEF SyncIndex
<1>2. index = [epoch |-> index.epoch, revision |-> index.revision,
               complete |-> index.complete, corpus |-> index.corpus,
               records |-> index.records, other |-> index.other]
  BY DEF TypeOK, IndexTables
<1> HIDE DEF rows, revision
<1>3. index' = [epoch |-> index.epoch, revision |-> revision, complete |-> TRUE,
                corpus |-> ledger.token, records |-> rows, other |-> notes]
  BY <1>1, <1>2
<1> QED
  BY <1>3 DEF rows, revision

(* Every step keeps the types. *)
LEMMA TypeStep ==
  ASSUME TypeOK, TableInv(ledger), Next
  PROVE  TypeOK'
<1> USE DEF TypeOK
<1>1. ASSUME NEW q \in Path, EditFile(q)
      PROVE  TypeOK'
  BY <1>1 DEF EditFile, locks, scan
<1>2. CASE EditOther
  BY <1>2 DEF EditOther, locks, scan
<1>3. CASE DropIndex
  <2>1. EmptyIndex(index.epoch + 1) \in IndexTables
    BY DEF EmptyIndex, IndexTables
  <2> QED
    BY <1>3, <2>1 DEF DropIndex, world, locks, scan
<1>4. ASSUME NEW c \in Caller, Call(c)
      PROVE  TypeOK'
  BY <1>4 DEF Call, Goto, Labels, world, locks, scan
<1>5. ASSUME NEW c \in Caller, TakeThreadLock(c)
      PROVE  TypeOK'
  BY <1>5, ToolType DEF TakeThreadLock, Goto, Labels, world, scan
<1>6. ASSUME NEW c \in Caller, TakeFileLock(c)
      PROVE  TypeOK'
  BY <1>6 DEF TakeFileLock, Goto, Labels, world, scan
<1>7. ASSUME NEW c \in Caller, TimeOut(c)
      PROVE  TypeOK'
  BY <1>7, ToolType DEF TimeOut, ReleaseThreadLock, Goto, Labels, world, scan
<1>8. ASSUME NEW c \in Caller, Open(c)
      PROVE  TypeOK'
  <2>1. index' \in IndexTables
    BY <1>8 DEF Open, IndexTables
  <2> QED
    BY <1>8, <2>1 DEF Open, Goto, Labels, world, locks, scan
<1>9. ASSUME NEW c \in Caller, Walk(c)
      PROVE  TypeOK'
  BY <1>9 DEF Walk, Goto, Labels, world, locks
<1>10. ASSUME NEW c \in Caller, ReadFile(c)
       PROVE  TypeOK'
  BY <1>10 DEF ReadFile, world, locks
<1>11. ASSUME NEW c \in Caller, CommitScan(c)
       PROVE  TypeOK'
  <2>1. TableInv(ScanRows(ledger, pending, ToolOf(c)))
    BY ToolType, ScanKeeps
  <2>2. AreRows(ledger')
    BY <1>11, <2>1 DEF CommitScan, TableInv
  <2> QED
    BY <1>11, <2>2 DEF CommitScan, Goto, Labels, world, locks, scan
<1>12. ASSUME NEW c \in Caller, ReadNotes(c)
       PROVE  TypeOK'
  BY <1>12 DEF ReadNotes, Goto, Labels, world, locks
<1>13. ASSUME NEW c \in Caller, SyncIndex(c)
       PROVE  TypeOK'
  <2>1. RowsAfter(ToolOf(c)) \in [Path -> Row \cup {Null}]
    BY RowAfterType DEF RowsAfter
  <2>2. ledger.token \in Nat
    BY DEF AreRows
  <2>3. /\ index.epoch \in Nat /\ index.revision \in Nat
        /\ notes \in Other \cup {Null}
    BY DEF IndexTables
  <2>4. /\ index'.epoch \in Nat /\ index'.revision \in Nat
        /\ index'.complete \in BOOLEAN /\ index'.corpus \in Nat \cup {Null}
        /\ index'.records \in [Path -> Row \cup {Null}]
        /\ index'.other \in Other \cup {Null}
    <3>1. /\ index'.epoch = index.epoch /\ index'.complete = TRUE
          /\ index'.corpus = ledger.token /\ index'.other = notes
          /\ index'.records = RowsAfter(ToolOf(c))
          /\ index'.revision \in {index.revision, index.revision + 1}
      BY <1>13, SyncIndexWrites
    <3>2. index'.complete \in BOOLEAN
      BY <3>1, Zenon
    <3>3. index'.revision \in Nat
      BY <2>3, <3>1
    <3> QED
      BY <2>1, <2>2, <2>3, <3>1, <3>2, <3>3
  <2>5. index' = [epoch |-> index'.epoch, revision |-> index'.revision,
                  complete |-> index'.complete, corpus |-> index'.corpus,
                  records |-> index'.records, other |-> index'.other]
    BY <1>13, SyncIndexWrites
  <2>6. index' \in IndexTables
    BY <2>4, <2>5, Zenon DEF IndexTables
  <2> QED
    BY <1>13, <2>6 DEF SyncIndex, Goto, Labels, world, locks, scan
<1>14. ASSUME NEW c \in Caller, Serve(c) \/ FailOpen(c) \/ Fail(c)
       PROVE  TypeOK'
  <2>1. Leave(c) /\ UNCHANGED <<world, calls, ledger>>
    BY <1>14 DEF Serve, FailOpen, Fail
  <2>2. index' \in IndexTables
    BY <1>14 DEF Serve, FailOpen, Fail, IndexTables
  <2> QED
    BY <2>1, <2>2, ToolType DEF Leave, ReleaseThreadLock, Goto, Labels, world
<1>15. ASSUME NEW p \in Process, Crash(p)
       PROVE  TypeOK'
  BY <1>15 DEF Crash, Labels, world
<1> QED
  BY <1>1, <1>2, <1>3, <1>4, <1>5, <1>6, <1>7, <1>8, <1>9, <1>10, <1>11, <1>12,
     <1>13, <1>14, <1>15 DEF Next, Step
-----------------------------------------------------------------------------
(* Whoever is inside holds both locks, and lets go of both when it leaves. *)
LEMMA LockStep ==
  ASSUME TypeOK, OneRefresher, WaitsInTurn, Next
  PROVE  OneRefresher' /\ WaitsInTurn'
<1> USE DEF OneRefresher, WaitsInTurn
<1>0. /\ pc \in [Caller -> Labels]
      /\ threadLock \in [Process -> Caller \cup {Null}]
      /\ fileLock \in Caller \cup {Null}
      /\ \A c \in Caller : ProcessOf[c] \in Process
      /\ Null \notin Caller
  BY ToolType, AbsenceAssumption DEF TypeOK
<1>1. ASSUME UNCHANGED <<pc, threadLock, fileLock>>
      PROVE  OneRefresher' /\ WaitsInTurn'
  BY <1>1
<1>2. ASSUME NEW c \in Caller, Call(c)
      PROVE  OneRefresher' /\ WaitsInTurn'
  BY <1>0, <1>2 DEF Call, Goto, Inside, locks
<1>3. ASSUME NEW c \in Caller, TakeThreadLock(c)
      PROVE  OneRefresher' /\ WaitsInTurn'
  BY <1>0, <1>3 DEF TakeThreadLock, Goto, Inside
<1>4. ASSUME NEW c \in Caller, TakeFileLock(c)
      PROVE  OneRefresher' /\ WaitsInTurn'
  BY <1>0, <1>4 DEF TakeFileLock, Goto, Inside
<1>5. ASSUME NEW c \in Caller, TimeOut(c)
      PROVE  OneRefresher' /\ WaitsInTurn'
  BY <1>0, <1>5 DEF TimeOut, ReleaseThreadLock, Goto, Inside
<1>6. ASSUME NEW c \in Caller, HolderStep(c)
      PROVE  OneRefresher' /\ WaitsInTurn'
  <2>1. /\ pc[c] \in Inside
        /\ \E label \in Inside : pc' = [pc EXCEPT ![c] = label]
        /\ UNCHANGED locks
    <3>1. CASE ReadFile(c)
      <4>1. pc' = [pc EXCEPT ![c] = "read"]
        BY <1>0, <3>1 DEF ReadFile
      <4> QED
        BY <3>1, <4>1 DEF ReadFile, Inside
    <3> QED
      BY <1>6, <3>1
      DEF HolderStep, Open, Walk, CommitScan, ReadNotes, SyncIndex, Goto, Inside
  <2> QED
    BY <1>0, <2>1 DEF Inside, locks
<1>7. ASSUME NEW c \in Caller, Serve(c) \/ FailOpen(c) \/ Fail(c)
      PROVE  OneRefresher' /\ WaitsInTurn'
  <2>1. Leave(c) /\ pc[c] \in Inside
    BY <1>7 DEF Serve, FailOpen, Fail, Inside
  <2> QED
    BY <1>0, <2>1 DEF Leave, ReleaseThreadLock, Goto, Inside
<1>8. ASSUME NEW p \in Process, Crash(p)
      PROVE  OneRefresher' /\ WaitsInTurn'
  BY <1>0, <1>8 DEF Crash, Inside
<1>9. ASSUME EditOther \/ DropIndex \/ \E q \in Path : EditFile(q)
      PROVE  UNCHANGED <<pc, threadLock, fileLock>>
  BY <1>9 DEF EditOther, DropIndex, EditFile, locks
<1> QED
  BY <1>1, <1>2, <1>3, <1>4, <1>5, <1>6, <1>7, <1>8, <1>9
  DEF Next, Step, HolderStep
-----------------------------------------------------------------------------
(* Two callers are never inside together. *)
LEMMA HolderIsAlone ==
  ASSUME OneRefresher, NEW c \in Caller, NEW d \in Caller,
         pc[c] \in Inside, pc[d] \in Inside
  PROVE  c = d
BY DEF OneRefresher

(* The live numbers of a unit quote its live paragraphs. *)
LEMMA LiveNumbersQuote ==
  ASSUME NEW u, UnitInv(u)
  PROVE  /\ Len(LiveAnchors(u)) = Len(LiveTexts(u))
         /\ \A i \in 1..Len(LiveAnchors(u)) :
              /\ LiveAnchors(u)[i] \in DOMAIN u.anchors
              /\ Quote(u, LiveAnchors(u)[i]) = LiveTexts(u)[i]
<1>1. IsUnit(u) /\ OrderIsLive(u) /\ TextSplit(u)
  BY DEF UnitInv
<1>2. /\ \A i \in 1..Len(LiveAnchors(u)) : LiveAnchors(u)[i] \in DOMAIN u.active
      /\ Len(LiveTexts(u)) = Len(LiveAnchors(u))
  BY <1>1, LiveTextsType
<1>3. \A p \in DOMAIN u.active : p \in DOMAIN u.anchors /\ Quote(u, p) = u.active[p]
  BY <1>1 DEF TextSplit, Quote
<1>4. \A i \in 1..Len(LiveAnchors(u)) : LiveTexts(u)[i] = u.active[LiveAnchors(u)[i]]
  BY DEF LiveTexts
<1> QED
  BY <1>2, <1>3, <1>4

(* Index and ledger agree wherever the flag says so, and every number the
   index shows quotes the text beside it. *)
LEMMA PublishedStep ==
  ASSUME IInv, Next
  PROVE  /\ Marked' /\ CompleteIsCurrent'
         /\ TableInv(ledger)' /\ NumbersQuoteTheirText'
<1> DEFINE Working == {"walk", "read", "notes", "sync"}
           Goal == /\ Marked' /\ CompleteIsCurrent'
                   /\ TableInv(ledger)' /\ NumbersQuoteTheirText'
<1>0. /\ TypeOK /\ TableInv(ledger) /\ OneRefresher
      /\ Marked /\ CompleteIsCurrent /\ NumbersQuoteTheirText
      /\ pc \in [Caller -> Labels]
      /\ Working \subseteq Inside
      /\ Null \notin Row
  BY AbsenceAssumption DEF IInv, TypeOK, Inside
<1>1. ASSUME UNCHANGED <<ledger, index>>,
             \A d \in Caller : pc'[d] \in Working => pc[d] \in Working
      PROVE  Goal
  BY <1>0, <1>1 DEF Marked, CompleteIsCurrent, NumbersQuoteTheirText
<1>2. ASSUME UNCHANGED ledger, index'.complete = FALSE, index'.records = index.records
      PROVE  Goal
  BY <1>0, <1>2 DEF Marked, CompleteIsCurrent, NumbersQuoteTheirText
<1>3. CASE DropIndex
  <2>1. /\ UNCHANGED ledger
        /\ index'.complete = FALSE
        /\ \A q \in Path : index'.records[q] = Null
    BY <1>3 DEF DropIndex, EmptyIndex
  <2> QED
    BY <1>0, <2>1 DEF Marked, CompleteIsCurrent, NumbersQuoteTheirText
<1>4. ASSUME NEW c \in Caller, CommitScan(c)
      PROVE  Goal
  <2>1. /\ TableInv(ledger') /\ Later(ledger, ledger')
    <3>1. pending \in [Path -> Sha \cup {Null}]
      BY <1>0 DEF TypeOK
    <3> QED
      BY <1>0, <1>4, <3>1, ToolType, ScanKeeps DEF CommitScan
  <2>2. index.complete = FALSE /\ index' = index
    BY <1>0, <1>4 DEF CommitScan, Marked, TypeOK, IndexTables
  <2>3. \A q \in Path : Extends(ledger.units[q], ledger'.units[q])
    BY <2>1 DEF Later
  <2>4. NumbersQuoteTheirText'
    BY <1>0, <2>2, <2>3 DEF NumbersQuoteTheirText, Extends
  <2> QED
    BY <2>1, <2>2, <2>4 DEF Marked, CompleteIsCurrent
<1>5. ASSUME NEW c \in Caller, SyncIndex(c)
      PROVE  Goal
  <2>1. /\ pc[c] = "sync" /\ pc' = [pc EXCEPT ![c] = "serve"]
        /\ ledger' = ledger
        /\ \A q \in Path : Aligned(q, ToolOf(c))
    BY <1>5 DEF SyncIndex, Goto, IInv, ScanIsAligned
  <2>2. /\ index'.complete = TRUE /\ index'.corpus = ledger.token
        /\ index'.records = RowsAfter(ToolOf(c))
    BY <1>0, <1>5, SyncIndexWrites
  <2>3. Marked'
    <3>1. ASSUME NEW d \in Caller, pc'[d] \in Working
          PROVE  FALSE
      <4>1. d # c /\ pc[d] \in Inside /\ pc[c] \in Inside
        BY <1>0, <2>1, <3>1 DEF Inside
      <4> QED
        BY <1>0, <4>1, HolderIsAlone
    <3> QED
      BY <3>1 DEF Marked
  <2>4. ASSUME NEW q \in Path, pending[q] = Null
        PROVE  /\ index'.records[q] = Null
               /\ ~Live(ledger.units[q])
    BY <2>1, <2>2, <2>4 DEF RowsAfter, Aligned
  <2>5. ASSUME NEW q \in Path, pending[q] # Null
        PROVE  LET row == index'.records[q]
                   u == ledger.units[q]
               IN  /\ row # Null
                   /\ Live(u) /\ row.record.texts = LiveTexts(u)
                   /\ Len(row.numbers) = Len(row.record.texts)
                   /\ \A i \in 1..Len(row.numbers) :
                        /\ row.numbers[i] \in DOMAIN u.anchors
                        /\ Quote(u, row.numbers[i]) = row.record.texts[i]
    <3> DEFINE record == RecordOf(pending[q], ToolOf(c))
               row == index'.records[q]
               u == ledger.units[q]
    <3>1. row = RowAfter(q, ToolOf(c)) /\ row # Null
      BY <1>0, <2>2, <2>5, RowAfterType DEF RowsAfter
    <3>2. /\ UnitInv(u) /\ Live(u)
          /\ LiveTexts(u) = Converted(pending[q], ToolOf(c).converter)
      BY <1>0, <2>1, <2>5 DEF Aligned, TableInv
    <3>3. record.texts = LiveTexts(u)
      BY <3>2 DEF RecordOf
    <3>4. CASE index.records[q] # Null /\ index.records[q].record = record
      <4>1. row = index.records[q]
        BY <3>1, <3>4 DEF RowAfter
      <4> QED
        BY <1>0, <3>1, <3>2, <3>3, <3>4, <4>1 DEF NumbersQuoteTheirText
    <3>5. CASE ~(index.records[q] # Null /\ index.records[q].record = record)
      <4>1. row.record = record /\ row.numbers = LiveAnchors(u)
        BY <3>1, <3>5 DEF RowAfter, Insert
      <4> QED
        BY <3>1, <3>2, <3>3, <4>1, LiveNumbersQuote
    <3> QED
      BY <3>4, <3>5
  <2>6. CompleteIsCurrent'
    BY <2>1, <2>2, <2>4, <2>5 DEF CompleteIsCurrent
  <2>7. NumbersQuoteTheirText'
    BY <2>1, <2>4, <2>5 DEF NumbersQuoteTheirText
  <2> QED
    BY <1>0, <2>1, <2>3, <2>6, <2>7
<1>6. ASSUME NEW c \in Caller, Open(c) \/ Fail(c)
      PROVE  Goal
  <2>1. /\ UNCHANGED ledger
        /\ index' = [index EXCEPT !.complete = FALSE]
    BY <1>6 DEF Open, Fail
  <2>2. index'.complete = FALSE /\ index'.records = index.records
    BY <1>0, <2>1 DEF TypeOK, IndexTables
  <2> QED
    BY <1>2, <2>1, <2>2
<1>7. ASSUME NEW c \in Caller,
             \/ Call(c) \/ TakeThreadLock(c) \/ TakeFileLock(c) \/ TimeOut(c)
             \/ Walk(c) \/ ReadFile(c) \/ ReadNotes(c) \/ Serve(c) \/ FailOpen(c)
      PROVE  Goal
  <2>1. UNCHANGED <<ledger, index>>
    BY <1>7 DEF Call, TakeThreadLock, TakeFileLock, TimeOut, Walk, ReadFile,
                ReadNotes, Serve, FailOpen
  <2>2. \A d \in Caller : pc'[d] \in Working => pc[d] \in Working
    BY <1>0, <1>7 DEF Call, TakeThreadLock, TakeFileLock, TimeOut, Walk, ReadFile,
                      ReadNotes, Serve, FailOpen, Leave, Goto
  <2> QED
    BY <1>1, <2>1, <2>2
<1>8. ASSUME NEW p \in Process, Crash(p)
      PROVE  Goal
  <2>1. UNCHANGED <<ledger, index>>
    BY <1>8 DEF Crash
  <2>2. \A d \in Caller : pc'[d] \in Working => pc[d] \in Working
    BY <1>0, <1>8 DEF Crash
  <2> QED
    BY <1>1, <2>1, <2>2
<1>9. ASSUME EditOther \/ \E q \in Path : EditFile(q)
      PROVE  Goal
  <2>1. UNCHANGED <<ledger, index, pc>>
    BY <1>9 DEF EditOther, EditFile
  <2> QED
    BY <1>1, <2>1
<1> QED
  BY <1>3, <1>4, <1>5, <1>6, <1>7, <1>8, <1>9 DEF Next, Step
-----------------------------------------------------------------------------
(* The scan under way is the holder's, shows each source as it was at some
   moment since the lock was taken, and agrees with the ledger once it is
   committed. *)
LEMMA ScanStep ==
  ASSUME IInv, Next
  PROVE  ScanIsHolders' /\ SeesTheWorld' /\ ScanIsFresh' /\ ScanIsAligned'
<1> DEFINE Goal == ScanIsHolders' /\ SeesTheWorld' /\ ScanIsFresh' /\ ScanIsAligned'
<1>0. /\ TypeOK /\ TableInv(ledger) /\ OneRefresher
      /\ ScanIsHolders /\ SeesTheWorld /\ ScanIsFresh /\ ScanIsAligned
      /\ pc \in [Caller -> Labels] /\ fileLock \in Caller \cup {Null}
      /\ file \in [Path -> Sha \cup {Null}] /\ todo \in SUBSET Path
      /\ pending \in [Path -> Sha \cup {Null}]
      /\ seen \in [Path -> SUBSET (Sha \cup {Null})]
      /\ Null \notin Caller /\ Null \notin Sha
      /\ \A c \in Caller : pc[c] \in Inside => fileLock = c
  BY AbsenceAssumption, NullAssumption DEF IInv, TypeOK, OneRefresher
<1>1. ASSUME UNCHANGED <<file, seen, pending, todo, ledger, fileLock>>,
             \A d \in Caller : pc'[d] \in Inside => pc'[d] = pc[d]
      PROVE  Goal
  BY <1>0, <1>1 DEF ScanIsHolders, SeesTheWorld, ScanIsFresh, ScanIsAligned,
                    Witnessed, Aligned, Inside
<1>2. ASSUME \A d \in Caller : pc'[d] \notin Inside, \A q \in Path : pending'[q] = Null
      PROVE  Goal
  BY <1>2 DEF ScanIsHolders, SeesTheWorld, ScanIsFresh, ScanIsAligned, Inside
<1>3. ASSUME NEW q \in Path, EditFile(q)
      PROVE  Goal
  <2>1. UNCHANGED <<pc, pending, todo, ledger, fileLock>>
    BY <1>3 DEF EditFile, locks, scan
  <2>2. ASSUME NEW c \in Caller, pc[c] \in Inside
        PROVE  \A r \in Path : seen[r] \subseteq seen'[r] /\ file'[r] \in seen'[r]
    <3>1. PICK x \in Sha \cup {Null} :
            /\ file' = [file EXCEPT ![q] = x]
            /\ seen' = [seen EXCEPT ![q] = @ \cup {x}]
      BY <1>0, <1>3, <2>2 DEF EditFile
    <3> QED
      BY <1>0, <2>2, <3>1 DEF SeesTheWorld
  <2>3. ScanIsHolders' /\ ScanIsAligned'
    BY <1>0, <2>1 DEF ScanIsHolders, ScanIsAligned, Aligned
  <2>4. SeesTheWorld'
    BY <2>1, <2>2 DEF SeesTheWorld
  <2>5. ScanIsFresh'
    <3>1. ASSUME NEW c \in Caller, pc[c] \in {"read", "notes", "sync"}, NEW r \in Path \ todo
          PROVE  Witnessed(r, ToolOf(c))'
      <4>1. Witnessed(r, ToolOf(c))
        BY <1>0, <3>1 DEF ScanIsFresh
      <4>2. seen[r] \subseteq seen'[r]
        BY <2>2, <3>1 DEF Inside
      <4> QED
        BY <2>1, <4>1, <4>2 DEF Witnessed
    <3> QED
      BY <1>0, <2>1, <3>1 DEF ScanIsFresh, ToolOf
  <2> QED
    BY <2>3, <2>4, <2>5
<1>4. ASSUME NEW c \in Caller, TakeFileLock(c)
      PROVE  Goal
  <2>1. /\ pc' = [pc EXCEPT ![c] = "open"]
        /\ seen' = [q \in Path |-> {file[q]}]
        /\ UNCHANGED <<file, pending>>
        /\ fileLock' = c
        /\ \A q \in Path : pending[q] = Null
        /\ \A d \in Caller : pc[d] \notin Inside
    BY <1>0, <1>4 DEF TakeFileLock, Goto, world, scan, ScanIsHolders
  <2>2. \A d \in Caller : pc'[d] \in Inside => d = c /\ pc'[d] = "open"
    BY <1>0, <2>1
  <2> QED
    BY <1>0, <2>1, <2>2 DEF ScanIsHolders, SeesTheWorld, ScanIsFresh, ScanIsAligned, Inside
<1>5. ASSUME NEW c \in Caller, HolderStep(c)
      PROVE  \A d \in Caller : d # c => pc[d] \notin Inside /\ pc'[d] \notin Inside
  <2>1. pc[c] \in Inside
    BY <1>5 DEF HolderStep, Open, Walk, ReadFile, CommitScan, ReadNotes, SyncIndex, Inside
  <2>2. \A d \in Caller : d # c => pc'[d] = pc[d]
    BY <1>0, <1>5 DEF HolderStep, Open, Walk, ReadFile, CommitScan, ReadNotes,
                      SyncIndex, Goto
  <2> QED
    BY <1>0, <2>1, <2>2, HolderIsAlone
<1>6. ASSUME NEW c \in Caller, Open(c)
      PROVE  Goal
  <2>1. /\ pc[c] = "open" /\ pc' = [pc EXCEPT ![c] = "walk"]
        /\ UNCHANGED <<file, seen, pending, todo, ledger, fileLock>>
    BY <1>6 DEF Open, Goto, world, locks, scan
  <2>2. pc'[c] = "walk" /\ \A d \in Caller : pc'[d] \in Inside => d = c
    BY <1>0, <1>5, <1>6, <2>1 DEF HolderStep
  <2> QED
    BY <1>0, <2>1, <2>2 DEF ScanIsHolders, SeesTheWorld, ScanIsFresh, ScanIsAligned, Inside
<1>7. ASSUME NEW c \in Caller, Walk(c)
      PROVE  Goal
  <2>1. /\ pc[c] = "walk" /\ pc' = [pc EXCEPT ![c] = "read"]
        /\ todo' = {q \in Path : file[q] # Null}
        /\ UNCHANGED <<file, seen, pending, ledger, fileLock>>
    BY <1>7 DEF Walk, Goto, world, locks
  <2>2. pc'[c] = "read" /\ \A d \in Caller : pc'[d] \in Inside => d = c
    BY <1>0, <1>5, <1>7, <2>1 DEF HolderStep
  <2>3. \A q \in Path : pending[q] = Null /\ file[q] \in seen[q]
    BY <1>0, <2>1 DEF ScanIsHolders, SeesTheWorld, Inside
  <2>4. \A q \in Path \ todo' : Witnessed(q, ToolOf(c))'
    BY <2>1, <2>3 DEF Witnessed
  <2> QED
    BY <1>0, <2>1, <2>2, <2>3, <2>4
    DEF ScanIsHolders, SeesTheWorld, ScanIsFresh, ScanIsAligned, Inside, ToolOf
<1>8. ASSUME NEW c \in Caller, ReadFile(c)
      PROVE  Goal
  <2>1. /\ pc[c] = "read" /\ pc' = pc
        /\ UNCHANGED <<file, seen, ledger, fileLock>>
    BY <1>8 DEF ReadFile, world, locks
  <2>2. \A d \in Caller : pc'[d] \in Inside => d = c
    BY <1>5, <1>8 DEF HolderStep
  <2>3. PICK q \in todo :
          /\ todo' = todo \ {q}
          /\ pending' = [pending EXCEPT ![q] =
               IF file[q] = Null THEN Null
               ELSE IF Converted(file[q], ToolOf(c).converter) = <<>> THEN Null
               ELSE file[q]]
    BY <1>8 DEF ReadFile
  <2>4. Witnessed(q, ToolOf(c))'
    <3>1. file[q] \in seen'[q]
      <4>1. pc[c] \in Inside
        BY <2>1 DEF Inside
      <4> QED
        BY <1>0, <2>1, <4>1 DEF SeesTheWorld
    <3>2. IF pending'[q] = Null
          THEN file[q] = Null \/ Converted(file[q], ToolOf(c).converter) = <<>>
          ELSE file[q] = pending'[q]
      BY <1>0, <2>3
    <3> QED
      BY <3>1, <3>2 DEF Witnessed, ToolOf
  <2>5. ASSUME NEW r \in Path \ todo
        PROVE  Witnessed(r, ToolOf(c))'
    <3>1. Witnessed(r, ToolOf(c))
      BY <1>0, <2>1 DEF ScanIsFresh
    <3>2. pending'[r] = pending[r]
      BY <1>0, <2>3
    <3> QED
      BY <2>1, <3>1, <3>2 DEF Witnessed
  <2>6. ScanIsFresh'
    BY <2>1, <2>2, <2>3, <2>4, <2>5 DEF ScanIsFresh, Inside, ToolOf
  <2>7. ScanIsHolders' /\ SeesTheWorld' /\ ScanIsAligned'
    BY <1>0, <2>1, <2>2 DEF ScanIsHolders, SeesTheWorld, ScanIsAligned, Inside
  <2> QED
    BY <2>6, <2>7
<1>9. ASSUME NEW c \in Caller, CommitScan(c)
      PROVE  Goal
  <2>1. /\ pc[c] = "read" /\ pc' = [pc EXCEPT ![c] = "notes"] /\ todo = {}
        /\ ledger' = ScanRows(ledger, pending, ToolOf(c))
        /\ UNCHANGED <<file, seen, pending, todo, fileLock>>
    BY <1>9 DEF CommitScan, Goto, world, locks, scan
  <2>2. pc'[c] = "notes" /\ \A d \in Caller : pc'[d] \in Inside => d = c
    BY <1>0, <1>5, <1>9, <2>1 DEF HolderStep
  <2>3. /\ \A q \in Path : pending[q] = Null => ~Live(ledger'.units[q])
        /\ \A q \in Path : pending[q] # Null =>
             /\ Live(ledger'.units[q])
             /\ LiveTexts(ledger'.units[q]) = Converted(pending[q], ToolOf(c).converter)
    BY <1>0, <2>1, ToolType, ScanKeeps
  <2>4. \A q \in Path : Aligned(q, ToolOf(c))'
    BY <2>1, <2>3 DEF Aligned, ToolOf
  <2>5. \A q \in Path : Witnessed(q, ToolOf(c))'
    BY <1>0, <2>1 DEF ScanIsFresh, Witnessed
  <2> QED
    BY <1>0, <2>1, <2>2, <2>4, <2>5
    DEF ScanIsHolders, SeesTheWorld, ScanIsFresh, ScanIsAligned, Inside, ToolOf
<1>10. ASSUME NEW c \in Caller, ReadNotes(c)
       PROVE  Goal
  <2>1. /\ pc[c] = "notes" /\ pc' = [pc EXCEPT ![c] = "sync"]
        /\ UNCHANGED <<file, seen, pending, todo, ledger, fileLock>>
    BY <1>10 DEF ReadNotes, Goto, world, locks
  <2>2. pc'[c] = "sync" /\ \A d \in Caller : pc'[d] \in Inside => d = c
    BY <1>0, <1>5, <1>10, <2>1 DEF HolderStep
  <2>3. /\ todo = {}
        /\ \A q \in Path : Aligned(q, ToolOf(c))'
        /\ \A q \in Path : Witnessed(q, ToolOf(c))'
    BY <1>0, <2>1 DEF ScanIsFresh, ScanIsAligned, Witnessed, Aligned
  <2> QED
    BY <1>0, <2>1, <2>2, <2>3
    DEF ScanIsHolders, SeesTheWorld, ScanIsFresh, ScanIsAligned, Inside, ToolOf
<1>11. ASSUME NEW c \in Caller, SyncIndex(c)
       PROVE  Goal
  <2>1. /\ pc[c] = "sync" /\ pc' = [pc EXCEPT ![c] = "serve"]
        /\ UNCHANGED <<file, seen, pending, todo, ledger, fileLock>>
    BY <1>11 DEF SyncIndex, Goto, world, locks, scan
  <2>2. pc'[c] = "serve" /\ \A d \in Caller : pc'[d] \in Inside => d = c
    BY <1>0, <1>5, <1>11, <2>1 DEF HolderStep
  <2> QED
    BY <1>0, <2>1, <2>2
    DEF ScanIsHolders, SeesTheWorld, ScanIsFresh, ScanIsAligned, Inside
<1>12. ASSUME NEW c \in Caller, Serve(c) \/ FailOpen(c) \/ Fail(c)
       PROVE  Goal
  <2>1. Leave(c) /\ pc[c] \in Inside
    BY <1>12 DEF Serve, FailOpen, Fail, Inside
  <2>2. \A d \in Caller : pc'[d] \notin Inside
    BY <1>0, <2>1 DEF Leave, Goto, Inside
  <2>3. \A q \in Path : pending'[q] = Null
    BY <2>1 DEF Leave
  <2> QED
    BY <1>2, <2>2, <2>3
<1>13. ASSUME NEW p \in Process, Crash(p)
       PROVE  Goal
  <2> DEFINE dead == {c \in Caller : ProcessOf[c] = p}
  <2>1. \A d \in Caller : pc'[d] = IF d \in dead THEN "idle" ELSE pc[d]
    BY <1>13 DEF Crash
  <2>2. CASE fileLock \in dead
    <3>1. \A d \in Caller : pc'[d] \notin Inside
      BY <1>0, <2>1, <2>2 DEF Inside
    <3>2. \A q \in Path : pending'[q] = Null
      BY <1>13, <2>2 DEF Crash
    <3> QED
      BY <1>2, <3>1, <3>2
  <2>3. CASE fileLock \notin dead
    <3>1. UNCHANGED <<file, seen, pending, todo, ledger, fileLock>>
      BY <1>13, <2>3 DEF Crash, world
    <3>2. \A d \in Caller : pc'[d] \in Inside => pc'[d] = pc[d]
      BY <2>1 DEF Inside
    <3> QED
      BY <1>1, <3>1, <3>2
  <2> QED
    BY <2>2, <2>3
<1>14. ASSUME NEW c \in Caller, Call(c) \/ TakeThreadLock(c) \/ TimeOut(c)
       PROVE  Goal
  <2>1. UNCHANGED <<file, seen, pending, todo, ledger, fileLock>>
    BY <1>14 DEF Call, TakeThreadLock, TimeOut, world, locks, scan
  <2>2. \A d \in Caller : pc'[d] \in Inside => pc'[d] = pc[d]
    BY <1>0, <1>14 DEF Call, TakeThreadLock, TimeOut, Goto, Inside
  <2> QED
    BY <1>1, <2>1, <2>2
<1>15. ASSUME EditOther \/ DropIndex
       PROVE  Goal
  <2>1. UNCHANGED <<file, seen, pending, todo, ledger, fileLock, pc>>
    BY <1>15 DEF EditOther, DropIndex, world, locks, scan
  <2> QED
    BY <1>1, <2>1
<1> QED
  BY <1>3, <1>4, <1>6, <1>7, <1>8, <1>9, <1>10, <1>11, <1>12, <1>13, <1>14, <1>15
  DEF Next, Step
-----------------------------------------------------------------------------
(* What the holder serves stays what it published. *)
LEMMA ServedStep ==
  ASSUME IInv, Next
  PROVE  ServedFresh'
<1>0. /\ TypeOK /\ TableInv(ledger) /\ OneRefresher /\ ServedFresh
      /\ pc \in [Caller -> Labels] /\ fileLock \in Caller \cup {Null}
      /\ file \in [Path -> Sha \cup {Null}]
      /\ seen \in [Path -> SUBSET (Sha \cup {Null})]
      /\ Null \notin Caller /\ Null \notin Sha /\ Null \notin Row
      /\ \A c \in Caller : pc[c] = "serve" => pc[c] \in Inside /\ fileLock = c
  BY AbsenceAssumption, NullAssumption DEF IInv, TypeOK, OneRefresher, Inside
<1>1. ASSUME \A d \in Caller : pc'[d] = "serve" =>
               pc[d] = "serve" /\ index' = index /\ \A q \in Path : seen[q] \subseteq seen'[q]
      PROVE  ServedFresh'
  BY <1>1, <1>0 DEF ServedFresh, ToolOf
<1>2. ASSUME NEW c \in Caller, SyncIndex(c)
      PROVE  ServedFresh'
  <2>1. /\ pc[c] = "sync" /\ pc[c] \in Inside /\ pc' = [pc EXCEPT ![c] = "serve"]
        /\ UNCHANGED <<seen, pending>>
    BY <1>2 DEF SyncIndex, Goto, scan, Inside
  <2>2. index'.complete = TRUE /\ index'.records = RowsAfter(ToolOf(c))
    BY <1>0, <1>2, SyncIndexWrites
  <2>3. \A d \in Caller : pc'[d] = "serve" => d = c
    BY <1>0, <2>1, HolderIsAlone
  <2>4. ASSUME NEW q \in Path
        PROVE  \E x \in seen'[q] :
                 IF index'.records[q] = Null
                 THEN x = Null \/ Converted(x, ToolOf(c).converter) = <<>>
                 ELSE x # Null /\ index'.records[q].record = RecordOf(x, ToolOf(c))
    <3>1. Witnessed(q, ToolOf(c))
      BY <2>1 DEF IInv, ScanIsFresh
    <3>2. CASE pending[q] = Null
      <4>1. index'.records[q] = Null
        BY <2>2, <3>2 DEF RowsAfter
      <4> QED
        BY <2>1, <3>1, <3>2, <4>1 DEF Witnessed
    <3>3. CASE pending[q] # Null
      <4>1. index'.records[q] = RowAfter(q, ToolOf(c)) /\ index'.records[q] # Null
        BY <1>0, <2>2, <3>3, RowAfterType DEF RowsAfter
      <4>2. index'.records[q].record = RecordOf(pending[q], ToolOf(c))
        BY <4>1 DEF RowAfter, Insert
      <4>3. pending[q] \in seen'[q]
        BY <2>1, <3>1, <3>3 DEF Witnessed
      <4> QED
        BY <3>3, <4>1, <4>2, <4>3
    <3> QED
      BY <3>2, <3>3
  <2> QED
    BY <2>2, <2>3, <2>4 DEF ServedFresh, ToolOf
<1>3. ASSUME NEW q \in Path, EditFile(q)
      PROVE  ServedFresh'
  <2>1. UNCHANGED <<pc, index>>
    BY <1>3 DEF EditFile
  <2>2. \A r \in Path : seen[r] \subseteq seen'[r]
    BY <1>0, <1>3 DEF EditFile
  <2> QED
    BY <1>1, <2>1, <2>2
<1>4. ASSUME EditOther
      PROVE  ServedFresh'
  BY <1>1, <1>4 DEF EditOther
<1>5. ASSUME DropIndex
      PROVE  ServedFresh'
  <2>1. \A d \in Caller : pc'[d] # "serve"
    BY <1>0, <1>5 DEF DropIndex
  <2> QED
    BY <1>1, <2>1
<1>6. ASSUME NEW c \in Caller, TakeFileLock(c)
      PROVE  ServedFresh'
  <2>1. \A d \in Caller : pc'[d] # "serve"
    BY <1>0, <1>6 DEF TakeFileLock, Goto
  <2> QED
    BY <1>1, <2>1
<1>7. ASSUME NEW c \in Caller, Call(c) \/ TakeThreadLock(c) \/ TimeOut(c)
      PROVE  ServedFresh'
  <2>1. UNCHANGED <<index, seen>>
    BY <1>7 DEF Call, TakeThreadLock, TimeOut
  <2>2. \A d \in Caller : pc'[d] = "serve" => pc[d] = "serve"
    BY <1>0, <1>7 DEF Call, TakeThreadLock, TimeOut, Goto
  <2> QED
    BY <1>1, <2>1, <2>2
<1>8. ASSUME NEW c \in Caller, Open(c) \/ Walk(c) \/ ReadFile(c) \/ CommitScan(c) \/ ReadNotes(c)
      PROVE  ServedFresh'
  <2>1. pc[c] \in Inside /\ pc[c] # "serve"
    BY <1>8 DEF Open, Walk, ReadFile, CommitScan, ReadNotes, Inside
  <2>2. \A d \in Caller : pc'[d] = "serve" => pc[d] = "serve"
    BY <1>0, <1>8 DEF Open, Walk, ReadFile, CommitScan, ReadNotes, Goto
  <2>3. \A d \in Caller : pc'[d] # "serve"
    BY <1>0, <2>1, <2>2, HolderIsAlone
  <2> QED
    BY <1>1, <2>3
<1>9. ASSUME NEW c \in Caller, Serve(c) \/ FailOpen(c) \/ Fail(c)
      PROVE  ServedFresh'
  <2>1. Leave(c) /\ pc[c] \in Inside
    BY <1>9 DEF Serve, FailOpen, Fail, Inside
  <2>2. \A d \in Caller : pc'[d] = "serve" => d # c /\ pc[d] = "serve"
    BY <1>0, <2>1 DEF Leave, Goto
  <2>3. \A d \in Caller : pc'[d] # "serve"
    BY <1>0, <2>1, <2>2, HolderIsAlone
  <2> QED
    BY <1>1, <2>3
<1>10. ASSUME NEW p \in Process, Crash(p)
       PROVE  ServedFresh'
  <2>1. ASSUME NEW d \in Caller, pc'[d] = "serve"
        PROVE  pc[d] = "serve" /\ index' = index /\ seen' = seen
    <3>1. pc[d] = "serve" /\ ProcessOf[d] # p
      BY <1>10, <2>1 DEF Crash
    <3>2. fileLock \notin {c \in Caller : ProcessOf[c] = p}
      BY <1>0, <3>1
    <3> QED
      BY <1>10, <3>1, <3>2 DEF Crash
  <2> QED
    BY <1>1, <2>1
<1> QED
  BY <1>2, <1>3, <1>4, <1>5, <1>6, <1>7, <1>8, <1>9, <1>10 DEF Next, Step
-----------------------------------------------------------------------------
(* Only a committed scan moves the ledger, and only forward. *)
LEMMA LedgerStep ==
  ASSUME IInv, Next
  PROVE  Later(ledger, ledger')
<1>0. TableInv(ledger) /\ pending \in [Path -> Sha \cup {Null}]
  BY DEF IInv, TypeOK
<1>1. ASSUME NEW c \in Caller, CommitScan(c)
      PROVE  Later(ledger, ledger')
  BY <1>0, <1>1, ToolType, ScanKeeps DEF CommitScan
<1>2. CASE ledger' = ledger
  BY <1>0, <1>2, LaterReflexive
<1>3. (\E c \in Caller : CommitScan(c)) \/ ledger' = ledger
  BY DEF Next, Step, EditFile, EditOther, DropIndex, Call, TakeThreadLock,
         TakeFileLock, TimeOut, Open, FailOpen, Walk, ReadFile, ReadNotes,
         SyncIndex, Serve, Fail, Crash
<1> QED
  BY <1>1, <1>2, <1>3

(* The inductive invariant. *)
LEMMA InitKeeps == Init => IInv
<1> SUFFICES ASSUME Init PROVE IInv
  OBVIOUS
<1>1. /\ pc = [c \in Caller |-> "idle"]
      /\ \A c \in Caller : pc[c] = "idle" /\ pc[c] \notin Inside
      /\ threadLock = [p \in Process |-> Null]
      /\ fileLock = Null /\ \A c \in Caller : fileLock # c
      /\ ledger = EmptyLedger /\ index = EmptyIndex(0)
      /\ pending = [q \in Path |-> Null]
  BY AbsenceAssumption DEF Init, Inside
<1>2. TableInv(ledger)
  BY <1>1, EmptyLedgerKeeps
<1>3. /\ index \in IndexTables /\ index.complete = FALSE
      /\ \A q \in Path : index.records[q] = Null
  BY <1>1 DEF EmptyIndex, IndexTables
<1>4. TypeOK
  BY <1>1, <1>2, <1>3 DEF Init, TypeOK, TableInv, Labels
<1>5. OneRefresher /\ WaitsInTurn /\ Marked
  BY <1>1 DEF OneRefresher, WaitsInTurn, Marked
<1>6. CompleteIsCurrent /\ NumbersQuoteTheirText
  BY <1>3 DEF CompleteIsCurrent, NumbersQuoteTheirText
<1>7. ScanIsHolders /\ SeesTheWorld /\ ScanIsFresh /\ ScanIsAligned /\ ServedFresh
  BY <1>1 DEF ScanIsHolders, SeesTheWorld, ScanIsFresh, ScanIsAligned, ServedFresh
<1> QED
  BY <1>2, <1>4, <1>5, <1>6, <1>7 DEF IInv

LEMMA NextKeeps == IInv /\ [Next]_vars => IInv' /\ Later(ledger, ledger')
<1> SUFFICES ASSUME IInv, [Next]_vars PROVE IInv' /\ Later(ledger, ledger')
  OBVIOUS
<1>1. CASE Next
  <2>1. TypeOK'
    BY <1>1, TypeStep DEF IInv
  <2>2. OneRefresher' /\ WaitsInTurn'
    BY <1>1, LockStep DEF IInv
  <2> QED
    BY <1>1, <2>1, <2>2, PublishedStep, ScanStep, ServedStep, LedgerStep DEF IInv
<1>2. CASE UNCHANGED vars
  <2>1. Later(ledger, ledger')
    BY <1>2, LaterReflexive DEF vars, IInv
  <2>2. IInv'
    BY <1>2 DEF vars, IInv, TypeOK, OneRefresher, WaitsInTurn, Marked,
                CompleteIsCurrent, NumbersQuoteTheirText, ScanIsHolders,
                SeesTheWorld, ScanIsFresh, ScanIsAligned, Witnessed, Aligned,
                ServedFresh
  <2> QED
    BY <2>1, <2>2
<1> QED
  BY <1>1, <1>2

(* Every step of every caller, every failure and every change of the files
   keeps the refresh's rows, locks and witnesses consistent. *)
THEOREM Invariance == Spec => []IInv
<1>1. IInv /\ [Next]_vars => IInv'
  BY NextKeeps
<1> QED
  BY InitKeeps, <1>1, PTL DEF Spec
-----------------------------------------------------------------------------
(* Every variable of a refresh keeps its type. *)
THEOREM RefreshTypes == Spec => []TypeOK
<1>1. IInv => TypeOK
  BY DEF IInv
<1> QED
  BY Invariance, <1>1, PTL

(* Never two callers inside a refresh or a query, of one process or two. *)
THEOREM RefreshersExcluded == Spec => []OneRefresher
<1>1. IInv => OneRefresher
  BY DEF IInv
<1> QED
  BY Invariance, <1>1, PTL

(* An index marked complete holds what the ledger holds, whatever failed or
   died between the ledger's commit and the index's. *)
THEOREM CompleteVouches == Spec => []CompleteIsCurrent
<1>1. IInv => CompleteIsCurrent
  BY DEF IInv
<1> QED
  BY Invariance, <1>1, PTL

(* A reply shows every source as it was at some moment since its caller took
   the lock, as that caller's own tool converts and dates it. *)
THEOREM RepliesFresh == Spec => []ServedFresh
<1>1. IInv => ServedFresh
  BY DEF IInv
<1> QED
  BY Invariance, <1>1, PTL

(* The numbers the index takes for a source are those of the scan it is
   publishing: _insert_record finds as many numbers as paragraphs. *)
THEOREM IndexedAsAligned == Spec => []AlignedBeforeIndexed
<1>1. IInv => AlignedBeforeIndexed
  BY DEF IInv, ScanIsAligned, Aligned, AlignedBeforeIndexed
<1> QED
  BY Invariance, <1>1, PTL

(* A number shown beside a paragraph quotes that very paragraph. *)
THEOREM ShownNumbersQuote == Spec => []NumbersQuoteTheirText
<1>1. IInv => NumbersQuoteTheirText
  BY DEF IInv
<1> QED
  BY Invariance, <1>1, PTL

(* An index revision names one content: a step that changes what a query
   reads moves the revision, or starts a new index. *)
THEOREM RevisionsNameContent == Spec => RevisionNamesContent
<1> DEFINE Same == /\ index'.records = index.records
                   /\ index'.other = index.other
                   /\ index'.corpus = index.corpus
           Kept == /\ index'.epoch = index.epoch
                   /\ index'.revision = index.revision
<1>1. IInv /\ [Next]_vars => [Kept => Same]_index
  <2> SUFFICES ASSUME IInv, Next, Kept PROVE Same \/ UNCHANGED index
    BY DEF vars
  <2>1. TypeOK /\ index.epoch \in Nat /\ index.revision \in Nat
    BY DEF IInv, TypeOK, IndexTables
  <2>2. ASSUME NEW c \in Caller, SyncIndex(c)
        PROVE  Same
    <3>1. /\ index'.corpus = ledger.token /\ index'.other = notes
          /\ index'.records = RowsAfter(ToolOf(c))
          /\ index'.revision = IF ChangedAny(RowsAfter(ToolOf(c)))
                               THEN index.revision + 1 ELSE index.revision
      BY <2>1, <2>2, SyncIndexWrites
    <3>2. ~ChangedAny(RowsAfter(ToolOf(c)))
      BY <2>1, <3>1
    <3> QED
      BY <3>1, <3>2 DEF ChangedAny
  <2>3. CASE DropIndex
    BY <2>1, <2>3 DEF DropIndex, EmptyIndex
  <2>4. ASSUME NEW c \in Caller, Open(c) \/ Fail(c)
        PROVE  Same
    <3>1. index' = [index EXCEPT !.complete = FALSE]
      BY <2>4 DEF Open, Fail
    <3> QED
      BY <2>1, <3>1 DEF TypeOK, IndexTables
  <2>5. \/ UNCHANGED index \/ DropIndex
        \/ \E c \in Caller : SyncIndex(c) \/ Open(c) \/ Fail(c)
    BY DEF Next, Step, EditFile, EditOther, Call, TakeThreadLock, TakeFileLock,
           TimeOut, FailOpen, Walk, ReadFile, CommitScan, ReadNotes, Serve, Crash
  <2> QED
    BY <2>2, <2>3, <2>4, <2>5
<1> QED
  BY Invariance, <1>1, PTL DEF Spec, RevisionNamesContent

(* The ledger keeps its promise to citations through every refresh, failed
   ones and dead ones included. *)
THEOREM RefreshKeepsCitations == Spec => KeepsCitations
<1>1. Init => Promise!CInit
  <2> SUFFICES ASSUME Init PROVE Promise!CInit
    OBVIOUS
  <2>1. ledger = EmptyLedger /\ ledger.token = 0
    BY DEF Init, EmptyLedger
  <2> QED
    BY <2>1, EmptyCitations DEF Promise!CInit
<1>2. IInv /\ [Next]_vars => [Promise!CNext]_(Promise!cvars)
  <2> SUFFICES ASSUME IInv, [Next]_vars
               PROVE  Promise!CNext \/ UNCHANGED Promise!cvars
    BY DEF Promise!cvars
  <2>1. TableInv(ledger) /\ TableInv(ledger') /\ Later(ledger, ledger')
    BY NextKeeps DEF IInv
  <2>2. QuoteOf(ledger)' = QuoteOf(ledger') /\ LiveOf(ledger)' = LiveOf(ledger')
    BY DEF QuoteOf, LiveOf, Quote
  <2> QED
    BY <2>1, <2>2, LaterRevises
    DEF Promise!CNext, Promise!Revise, Promise!QuoteGrows, Promise!NoRevival, Promise!cvars
<1> QED
  BY Invariance, <1>1, <1>2, PTL DEF Spec, KeepsCitations, Promise!CSpec
=============================================================================
