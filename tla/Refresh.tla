------------------------------ MODULE Refresh -------------------------------
(***************************************************************************)
(* One tool call of Knowledge Strata, from Project.current                 *)
(* (src/strata/project.py): take the thread lock and the file lock, mark   *)
(* the index incomplete, scan the sources into the ledger in one           *)
(* transaction, read notes and manuscript, sync the index in one           *)
(* transaction, answer from it, release.  Callers are threads of processes *)
(* that may run different tool versions; files change and folders come and *)
(* go at any moment; a step may fail; a process may die.                   *)
(***************************************************************************)
EXTENDS LedgerTables

CONSTANTS
  Caller,       \* threads that call search, read or index
  ProcessOf,    \* the process of each thread
  Tool,         \* the tool each process runs: its converter and DATING_VERSION
  Other,        \* contents of notes/ and the manuscript folder
  Faults,       \* the failures that may strike
  MaxEdits,     \* bound: changes to files and folders
  MaxCalls,     \* bound: calls
  MaxDrops      \* bound: deletions of the index file

Process == {ProcessOf[c] : c \in Caller}

Fault == {"config", "corpus", "read", "manuscript", "embed", "crash"}

ASSUME CallersAssumption == ProcessOf \in [Caller -> Process]
ASSUME ToolAssumption ==
  /\ DOMAIN Tool = Process
  /\ \A p \in Process : Tool[p].converter \in Converter /\ Tool[p].dating # Null
ASSUME FaultsAssumption == Faults \subseteq Fault
ASSUME BoundsAssumption == {MaxEdits, MaxCalls, MaxDrops} \subseteq Nat

\* What the index keeps of a source: the record that its content hash covers,
\* and the numbers its paragraphs had when they were inserted.
Row ==
  [record : [texts : Seq(Text), dating : {Tool[p].dating : p \in Process}],
   numbers : Seq(Nat)]

ASSUME AbsenceAssumption == Null \notin Caller /\ Null \notin Row

VARIABLES
  file,        \* file[q]: the hash of the source's bytes, Null when absent
  other,       \* notes and manuscript as they are on disk
  edits,       \* changes made so far
  calls,       \* calls made so far
  pc,          \* where each caller is
  threadLock,  \* Project._lock of each process: a caller or Null
  fileLock,    \* .strata/refresh.lock: a caller or Null
  ledger,      \* committed rows of ledger.db
  index,       \* committed rows of index.db
  todo,        \* the holder's scan: keys listed by _walk and not yet read
  pending,     \* the holder's scan: hash read and convertible, or Null
  notes,       \* what the holder read of notes and manuscript
  seen         \* history: contents each file had since the lock was taken

world == <<file, other, edits>>
locks == <<threadLock, fileLock>>
scan == <<todo, pending, notes>>
vars == <<file, other, edits, calls, pc, threadLock, fileLock, ledger, index,
          todo, pending, notes, seen>>

ToolOf(c) == Tool[ProcessOf[c]]

EmptyIndex(epoch) ==
  [epoch |-> epoch, revision |-> 0, complete |-> FALSE, corpus |-> Null,
   records |-> [q \in Path |-> Null], other |-> Null]

Init ==
  /\ file \in [Path -> Sha \cup {Null}]
  /\ other \in Other
  /\ edits = 0
  /\ calls = 0
  /\ pc = [c \in Caller |-> "idle"]
  /\ threadLock = [p \in Process |-> Null]
  /\ fileLock = Null
  /\ ledger = EmptyLedger
  /\ index = EmptyIndex(0)
  /\ todo = {}
  /\ pending = [q \in Path |-> Null]
  /\ notes = Null
  /\ seen = [q \in Path |-> {}]
-----------------------------------------------------------------------------
(***************************************************************************)
(* The world outside: the archive and the user.                            *)
(***************************************************************************)
\* A source is created, rewritten or removed.
EditFile(q) ==
  /\ edits < MaxEdits
  /\ edits' = edits + 1
  /\ \E x \in (Sha \cup {Null}) \ {file[q]} :
       /\ file' = [file EXCEPT ![q] = x]
       /\ seen' = IF fileLock = Null THEN seen ELSE [seen EXCEPT ![q] = @ \cup {x}]
  /\ UNCHANGED <<other, calls, pc, locks, ledger, index, scan>>

EditOther ==
  /\ edits < MaxEdits
  /\ edits' = edits + 1
  /\ other' \in Other \ {other}
  /\ UNCHANGED <<file, calls, pc, locks, ledger, index, scan, seen>>

\* index.db is disposable: delete it, and the next open starts a new epoch.
DropIndex ==
  /\ fileLock = Null
  /\ index.epoch < MaxDrops
  /\ index' = EmptyIndex(index.epoch + 1)
  /\ UNCHANGED <<world, calls, pc, locks, ledger, scan, seen>>
-----------------------------------------------------------------------------
(***************************************************************************)
(* Locks: Project._refresh_lock and project_lock.  A deadline may pass at  *)
(* any moment of a wait.                                                   *)
(***************************************************************************)
Goto(c, label) == pc' = [pc EXCEPT ![c] = label]

Call(c) ==
  /\ pc[c] = "idle"
  /\ calls < MaxCalls
  /\ calls' = calls + 1
  /\ Goto(c, "wantThread")
  /\ UNCHANGED <<world, locks, ledger, index, scan, seen>>

TakeThreadLock(c) ==
  /\ pc[c] = "wantThread"
  /\ threadLock[ProcessOf[c]] = Null
  /\ threadLock' = [threadLock EXCEPT ![ProcessOf[c]] = c]
  /\ Goto(c, "wantFile")
  /\ UNCHANGED <<world, calls, fileLock, ledger, index, scan, seen>>

\* Mutation: the lock is taken without looking whether it is held.
TakeFileLockAnyway(c) ==
  /\ pc[c] = "wantFile"
  /\ fileLock' = c
  /\ Goto(c, "open")
  /\ seen' = [q \in Path |-> {file[q]}]
  /\ UNCHANGED <<world, calls, threadLock, ledger, index, scan>>

TakeFileLock(c) ==
  /\ pc[c] = "wantFile"
  /\ fileLock = Null
  /\ fileLock' = c
  /\ Goto(c, "open")
  /\ seen' = [q \in Path |-> {file[q]}]
  /\ UNCHANGED <<world, calls, threadLock, ledger, index, scan>>

ReleaseThreadLock(c) ==
  threadLock' = [threadLock EXCEPT ![ProcessOf[c]] = IF @ = c THEN Null ELSE @]

\* RefreshFailed: indexing incomplete, retry shortly.
TimeOut(c) ==
  /\ \/ pc[c] = "wantThread" /\ threadLock[ProcessOf[c]] # Null
     \/ pc[c] = "wantFile" /\ fileLock # Null
  /\ ReleaseThreadLock(c)
  /\ Goto(c, "idle")
  /\ UNCHANGED <<world, calls, fileLock, ledger, index, scan, seen>>

\* The finally clauses of project_lock and _refresh_lock.
Leave(c) ==
  /\ fileLock' = Null
  /\ ReleaseThreadLock(c)
  /\ Goto(c, "idle")
  /\ todo' = {}
  /\ pending' = [q \in Path |-> Null]
  /\ notes' = Null
  /\ seen' = [q \in Path |-> {}]
-----------------------------------------------------------------------------
(***************************************************************************)
(* The refresh of the lock's holder.                                       *)
(***************************************************************************)
\* Mutation: the index is not marked incomplete first.
OpenUnmarked(c) ==
  /\ pc[c] = "open"
  /\ Goto(c, "walk")
  /\ UNCHANGED <<world, calls, locks, ledger, index, scan, seen>>

\* Open ledger and index; commit "incomplete" before anything that can fail.
Open(c) ==
  /\ pc[c] = "open"
  /\ index' = [index EXCEPT !.complete = FALSE]
  /\ Goto(c, "walk")
  /\ UNCHANGED <<world, calls, locks, ledger, scan, seen>>

\* config() or opening a database raises: nothing was touched.
FailOpen(c) ==
  /\ pc[c] = "open"
  /\ "config" \in Faults
  /\ Leave(c)
  /\ UNCHANGED <<world, calls, ledger, index>>

\* sources._walk lists the files there are.
Walk(c) ==
  /\ pc[c] = "walk"
  /\ todo' = {q \in Path : file[q] # Null}
  /\ Goto(c, "read")
  /\ UNCHANGED <<world, calls, locks, ledger, index, pending, notes, seen>>

\* Mutation: a file that disappeared is waited for.
ReadFileOrWait(c) ==
  /\ pc[c] = "read"
  /\ \E q \in todo :
       /\ \A r \in todo : q <= r
       /\ todo' = IF file[q] = Null THEN todo ELSE todo \ {q}
       /\ pending' = [pending EXCEPT ![q] =
            IF file[q] = Null THEN Null
            ELSE IF Converted(file[q], ToolOf(c).converter) = <<>> THEN Null
            ELSE file[q]]
  /\ UNCHANGED <<world, calls, pc, locks, ledger, index, notes, seen>>

\* read_bytes, then the cached or fresh conversion.  A file gone by now, or
\* one that yields no paragraph, is skipped.
ReadFile(c) ==
  /\ pc[c] = "read"
  /\ \E q \in todo :
       /\ \A r \in todo : q <= r
       /\ todo' = todo \ {q}
       /\ pending' = [pending EXCEPT ![q] =
            IF file[q] = Null THEN Null
            ELSE IF Converted(file[q], ToolOf(c).converter) = <<>> THEN Null
            ELSE file[q]]
  /\ UNCHANGED <<world, calls, pc, locks, ledger, index, notes, seen>>

\* register, align every pending key, retire every other live unit, record
\* the dating version: one row set per key, so the order does not matter.
ScanRows(rows, found, tool) ==
  LET dated == rows.dating \notin {Null, tool.dating}
      known == Register(rows, {q \in Path : found[q] # Null})
      after(q) ==
        IF found[q] # Null THEN Align(known, q, found[q], tool.converter, dated)
        ELSE IF q \in Registered(known) THEN RetireUnit(known, q)
        ELSE known
      changed == {q \in Path : after(q).token # known.token}
  IN [units |-> [q \in Path |-> after(q).units[q]],
      token |-> rows.token + Cardinality(changed),
      dating |-> tool.dating]

\* The end of sources.sync: the scan's transaction commits.
CommitScan(c) ==
  /\ pc[c] = "read"
  /\ todo = {}
  /\ ledger' = ScanRows(ledger, pending, ToolOf(c))
  /\ Goto(c, "notes")
  /\ UNCHANGED <<world, calls, locks, index, scan, seen>>

\* notes.read and manuscript.read.
ReadNotes(c) ==
  /\ pc[c] = "notes"
  /\ notes' = other
  /\ Goto(c, "sync")
  /\ UNCHANGED <<world, calls, locks, ledger, index, todo, pending, seen>>

\* The Record a scanned source becomes; its content hash covers all of it.
RecordOf(x, tool) ==
  [texts |-> Converted(x, tool.converter), dating |-> tool.dating]

\* Mutation: paragraphs are numbered by position.
InsertPositions(record, q) ==
  [record |-> record, numbers |-> [i \in 1..Len(record.texts) |-> i]]

\* Index._insert_record: each paragraph with the number it has just now.
Insert(record, q) == [record |-> record, numbers |-> LiveAnchors(ledger.units[q])]

\* A record whose content hash is unchanged is left untouched.
RowAfter(q, tool) ==
  LET record == RecordOf(pending[q], tool)
  IN IF index.records[q] # Null /\ index.records[q].record = record
     THEN index.records[q]
     ELSE Insert(record, q)

RowsAfter(tool) ==
  [q \in Path |-> IF pending[q] = Null THEN Null ELSE RowAfter(q, tool)]

\* Mutation: the index revision follows the corpus revision alone.
ChangedAnyCorpus(rows) == index.corpus # ledger.token

\* changed_any of Index._sync.
ChangedAny(rows) ==
  index.corpus # ledger.token \/ rows # index.records \/ notes # index.other

SyncIndex(c) ==
  LET rows == RowsAfter(ToolOf(c))
  IN /\ pc[c] = "sync"
     /\ index' = [index EXCEPT
          !.records = rows, !.other = notes, !.corpus = ledger.token,
          !.revision = IF ChangedAny(rows) THEN @ + 1 ELSE @, !.complete = TRUE]
     /\ Goto(c, "serve")
     /\ UNCHANGED <<world, calls, locks, ledger, scan, seen>>

\* The query runs under the lock, then the locks go.
Serve(c) ==
  /\ pc[c] = "serve"
  /\ Leave(c)
  /\ UNCHANGED <<world, calls, ledger, index>>

\* An exception while refreshing: a corpus folder or a file cannot be read,
\* the manuscript folder is missing, the embedder fails.  The open
\* transaction rolls back and the index stays marked incomplete.
Fail(c) ==
  /\ \/ pc[c] = "walk" /\ "corpus" \in Faults
     \/ pc[c] = "read" /\ "read" \in Faults
     \/ pc[c] = "notes" /\ "manuscript" \in Faults
     \/ pc[c] = "sync" /\ "embed" \in Faults
  /\ index' = [index EXCEPT !.complete = FALSE]
  /\ Leave(c)
  /\ UNCHANGED <<world, calls, ledger>>

\* A process dies: its threads vanish, the operating system drops its locks,
\* open transactions are lost.
Crash(p) ==
  LET dead == {c \in Caller : ProcessOf[c] = p}
  IN /\ "crash" \in Faults
     /\ \E c \in dead : pc[c] # "idle"
     /\ pc' = [c \in Caller |-> IF c \in dead THEN "idle" ELSE pc[c]]
     /\ threadLock' = [threadLock EXCEPT ![p] = Null]
     /\ fileLock' = IF fileLock \in dead THEN Null ELSE fileLock
     /\ todo' = IF fileLock \in dead THEN {} ELSE todo
     /\ pending' = IF fileLock \in dead THEN [q \in Path |-> Null] ELSE pending
     /\ notes' = IF fileLock \in dead THEN Null ELSE notes
     /\ seen' = IF fileLock \in dead THEN [q \in Path |-> {}] ELSE seen
     /\ UNCHANGED <<world, calls, ledger, index>>

Step(c) ==
  \/ TakeThreadLock(c) \/ TakeFileLock(c) \/ TimeOut(c)
  \/ Open(c) \/ Walk(c) \/ ReadFile(c) \/ CommitScan(c)
  \/ ReadNotes(c) \/ SyncIndex(c) \/ Serve(c)

Next ==
  \/ \E q \in Path : EditFile(q)
  \/ EditOther
  \/ DropIndex
  \/ \E c \in Caller : Call(c) \/ Step(c) \/ FailOpen(c) \/ Fail(c)
  \/ \E p \in Process : Crash(p)

Spec == Init /\ [][Next]_vars

\* A thread that can take a step takes one: nothing in a refresh waits for
\* anything but the two locks, and those waits have a deadline.  Nothing that
\* fails is ever bound to fail.
FairSpec == Spec /\ \A c \in Caller : WF_vars(Step(c))
-----------------------------------------------------------------------------
(***************************************************************************)
(* Properties.                                                             *)
(***************************************************************************)
Labels == {"idle", "wantThread", "wantFile", "open", "walk", "read", "notes",
           "sync", "serve"}

\* The labels at which a caller owns the project.
Inside == {"open", "walk", "read", "notes", "sync", "serve"}

IndexTables ==
  [epoch : Nat, revision : Nat, complete : BOOLEAN, corpus : Nat \cup {Null},
   records : [Path -> Row \cup {Null}], other : Other \cup {Null}]

\* Every variable keeps its type.
TypeOK ==
  /\ file \in [Path -> Sha \cup {Null}]
  /\ other \in Other
  /\ edits \in Nat /\ calls \in Nat
  /\ pc \in [Caller -> Labels]
  /\ threadLock \in [Process -> Caller \cup {Null}]
  /\ fileLock \in Caller \cup {Null}
  /\ AreRows(ledger)
  /\ index \in IndexTables
  /\ todo \in SUBSET Path
  /\ pending \in [Path -> Sha \cup {Null}]
  /\ notes \in Other \cup {Null}
  /\ seen \in [Path -> SUBSET (Sha \cup {Null})]

\* Threads of one process and of different processes alike: whoever is inside
\* a refresh or a query holds both locks, so there is never a second one.
OneRefresher ==
  \A c \in Caller :
    /\ pc[c] \in Inside => fileLock = c /\ threadLock[ProcessOf[c]] = c
    /\ fileLock = c => pc[c] \in Inside

Live(u) == LastVersion(u) > 0 /\ ~u.deleted

\* "complete" is never left standing over a ledger that moved on: it vouches
\* that index and ledger hold the same corpus, whatever failed or died.
CompleteIsCurrent ==
  index.complete =>
    /\ index.corpus = ledger.token
    /\ \A q \in Path :
         IF index.records[q] = Null THEN ~Live(ledger.units[q])
         ELSE /\ Live(ledger.units[q])
              /\ index.records[q].record.texts = LiveTexts(ledger.units[q])

\* A reply shows each source as some moment since its caller took the lock
\* had it, converted and dated by that caller's own tool; never an older
\* snapshot, and never one a failed refresh left behind.
ServedFresh ==
  \A c \in Caller : pc[c] = "serve" =>
    /\ index.complete
    /\ \A q \in Path : \E x \in seen[q] :
         IF index.records[q] = Null
         THEN x = Null \/ Converted(x, ToolOf(c).converter) = <<>>
         ELSE x # Null /\ index.records[q].record = RecordOf(x, ToolOf(c))

\* When the index takes a source's live numbers, the ledger's latest version
\* is the very scan being indexed, so _insert_record's count check cannot fire.
AlignedBeforeIndexed ==
  \A c \in Caller : pc[c] \in {"notes", "sync"} => \A q \in Path :
    pending[q] # Null =>
      LiveTexts(ledger.units[q]) = Converted(pending[q], ToolOf(c).converter)

\* A number the index shows beside a paragraph quotes exactly that paragraph
\* in the ledger, live or retired, even after refreshes that failed halfway.
NumbersQuoteTheirText ==
  \A q \in Path : index.records[q] # Null =>
    LET row == index.records[q]
    IN /\ Len(row.numbers) = Len(row.record.texts)
       /\ \A i \in 1..Len(row.numbers) :
            /\ row.numbers[i] \in DOMAIN ledger.units[q].anchors
            /\ Quote(ledger.units[q], row.numbers[i]) = row.record.texts[i]

\* A complete index cites live numbers: "the next refresh reconciles it before
\* any result is served" (README.md:68-69).
NumbersAreLive ==
  index.complete => \A q \in Path : index.records[q] # Null =>
    index.records[q].numbers = LiveAnchors(ledger.units[q])

\* A continuation is honoured when its index revision is the current one: two
\* complete indexes with one revision hold the same records.
RevisionNamesContent ==
  [][/\ index'.epoch = index.epoch
     /\ index'.revision = index.revision
     => /\ index'.records = index.records
        /\ index'.other = index.other
        /\ index'.corpus = index.corpus]_index

\* Whatever fails or dies between the two commits, what the ledger promises to
\* those who wrote citations down holds of its committed rows.
Promise == INSTANCE Citations
  WITH Source <- Path, quote <- QuoteOf(ledger), live <- LiveOf(ledger),
       token <- ledger.token

KeepsCitations == Promise!CSpec

\* A call always comes back, with a reply or a refusal, and leaves neither lock
\* behind: neither a lock nor a crash of its holder keeps another caller
\* waiting for ever.  (Project._refresh_lock, project_lock)
CallReturns ==
  \A c \in Caller :
    pc[c] # "idle" ~> pc[c] = "idle" /\ threadLock[ProcessOf[c]] # c /\ fileLock # c
=============================================================================
