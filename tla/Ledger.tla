------------------------------- MODULE Ledger -------------------------------
(***************************************************************************)
(* The durable ledger (src/strata/ledger.py) as a state machine: the rows  *)
(* a connection sees (db), the rows on disk (disk), and whether an outer   *)
(* transaction is open.  Each Ledger method runs in transaction(), which   *)
(* nests: inside a source scan only the scan commits, outside each method  *)
(* commits by itself.  Any exception, and a crash, rolls the outermost     *)
(* transaction back.                                                       *)
(***************************************************************************)
EXTENDS LedgerTables

CONSTANTS
  DatingVersions,   \* dating rulesets of the tool versions in use
  MaxVersions       \* bound: versions of each unit

ASSUME DatingAssumption == Null \notin DatingVersions
ASSUME MaxVersionsAssumption == MaxVersions \in [Path -> Nat]

VARIABLES
  db,          \* rows as the open connection reads them
  disk,        \* rows as committed
  scanning     \* an outer transaction is open (_transaction_depth > 0)

vars == <<db, disk, scanning>>

Init ==
  /\ db = EmptyLedger
  /\ disk = EmptyLedger
  /\ scanning = FALSE

-----------------------------------------------------------------------------
\* with transaction(): a method's rows commit when no outer one is open.
Write(new) ==
  /\ db' = new
  /\ disk' = IF scanning THEN disk ELSE new
  /\ UNCHANGED scanning

BeginScan ==
  /\ ~scanning
  /\ scanning' = TRUE
  /\ UNCHANGED <<db, disk>>

CommitScan ==
  /\ scanning
  /\ disk' = db
  /\ scanning' = FALSE
  /\ UNCHANGED db

\* An exception out of the scan, or the process dies and reopens the file.
RollBack ==
  /\ scanning
  /\ db' = disk
  /\ scanning' = FALSE
  /\ UNCHANGED disk

RegisterPaths(S) == Write(Register(db, S))

AlignPath(q, sha, converter, dated) ==
  /\ q \in Registered(db)
  /\ LastVersion(db.units[q]) < MaxVersions[q]
  /\ Write(Align(db, q, sha, converter, dated))

RetirePath(q) ==
  /\ q \in Registered(db)
  /\ LastVersion(db.units[q]) < MaxVersions[q]
  /\ Write(RetireUnit(db, q))

RecordDating(version) == Write(SetDatingVersion(db, version))

Next ==
  \/ BeginScan
  \/ CommitScan
  \/ RollBack
  \/ \E S \in SUBSET Path : RegisterPaths(S)
  \/ \E q \in Path, sha \in Sha, converter \in Converter, dated \in BOOLEAN :
       AlignPath(q, sha, converter, dated)
  \/ \E q \in Path : RetirePath(q)
  \/ \E version \in DatingVersions : RecordDating(version)

Spec == Init /\ [][Next]_vars
-----------------------------------------------------------------------------
(***************************************************************************)
(* Types.                                                                  *)
(***************************************************************************)
\* Every row has the type its column declares.
TypeOK ==
  /\ AreRows(db) /\ db.dating \in DatingVersions \cup {Null}
  /\ AreRows(disk) /\ disk.dating \in DatingVersions \cup {Null}
  /\ scanning \in BOOLEAN
-----------------------------------------------------------------------------
\* In every unit, of the open connection and on disk, an anchor's row, its
\* text tables and the latest order tell the same story.
AnchorsConsistent ==
  \A d \in {db, disk} : \A q \in Path :
    TextSplit(d.units[q]) /\ OrderIsLive(d.units[q])

\* live_anchors, zipped with the paragraphs last aligned, is right: the index
\* attaches numbers to paragraphs on that assumption.
LiveTextIsContent ==
  \A d \in {db, disk} : \A q \in Path : ContentMatches(d.units[q])

\* added_v and retired_v, which retired citations report, bound exactly the
\* versions that listed the number.
AnchorLifetimes ==
  \A d \in {db, disk} : \A q \in Path : Lifetimes(d.units[q])

CitationsOf(u) ==
  LET known == DOMAIN u.anchors \cup {MaxAnchor(u) + 1}
  IN [form : {"one", "tail"}, p : known, q : {0}] \cup [form : {"span"}, p : known, q : known]

\* Reading one citation gives live numbers with their text in document order,
\* both endpoints among them, and never rows for a retired or missing one; and
\* the writer of a note is warned when it reads otherwise, and only then.
ReadsRight(u, c) ==
  LET r == ReadCitation(u, c)
  IN /\ r.kind = "rows" =>
          /\ r.rows[1][1] = c.p
          /\ c.form = "span" => r.rows[Len(r.rows)][1] = c.q
          /\ c.form = "one" \/ c.p = c.q => Len(r.rows) = 1
          /\ \A i \in 1..Len(r.rows) :
               /\ IsLive(u, r.rows[i][1])
               /\ r.rows[i][2] = Quote(u, r.rows[i][1])
     /\ r.kind \in {"retired", "missing"} => ~IsLive(u, r.at)
     /\ r.kind = "retired" <=> r.kind # "rows" /\ r.at \in DOMAIN u.retired
     /\ CitationWarnings(u, c) = {} <=> r.kind = "rows"
     /\ CitationWarnings(u, c) = {"reversed"} <=> r.kind = "reversed"

\* Between scans, which is when calls are answered, every citation reads right
\* and is warned of accordingly.
\* (Ledger.range, _read_source, _citation_warnings)
RangeReads ==
  ~scanning => \A q \in Path :
    \A c \in CitationsOf(disk.units[q]) : ReadsRight(disk.units[q], c)
-----------------------------------------------------------------------------
(***************************************************************************)
(* What committed steps may do.                                            *)
(***************************************************************************)
\* A corpus revision names one corpus state: content, membership or
\* converter never changes on disk under an unchanged or a smaller token.
TokenNamesState ==
  [][/\ disk'.token >= disk.token
     /\ disk'.token = disk.token => CorpusState(disk') = CorpusState(disk)]_disk

\* A SRC number stands for its path for ever: the path keeps it through
\* deletion and return, and no other path is ever given it.
IdsPermanent ==
  [][\A q \in Registered(disk), r \in Path :
       (disk'.units[r].id = disk.units[q].id) <=> (r = q)]_disk

Promise == INSTANCE Citations
  WITH Source <- Path, quote <- QuoteOf(disk), live <- LiveOf(disk),
       token <- disk.token

\* The ledger implements Citations: through scans, rollbacks, deletions and
\* returns, a committed citation keeps its exact text and never revives.
KeepsCitations == Promise!CSpec
=============================================================================
