# Formal models of Knowledge Strata

TLA+ models of the parts of Knowledge Strata that are hard to test: a durable
ledger of citations, a disposable index derived from it, and the refresh that
runs before every tool call while files change, processes compete and steps
fail. TLC checks every model on small instances; TLAPS proves every safety property
that the runs find to hold, for instances of any size.

Paths below are relative to the repository; `strata/` means `src/strata/`.

## The system

| Part | Code | State | Operations |
| --- | --- | --- | --- |
| Ledger | `strata/ledger.py` | `ledger.db`: units (SRC numbers), versions with their paragraph order, anchors with the versions they were added and retired at, live and retired text, corpus revision, dating version, root numbers | register, align, retire_unit, text, range, root_ids, nested transactions |
| Refresh | `strata/project.py` | `.strata/refresh.lock`, one lock per process | current: locks, scan, notes, manuscript, index sync, query |
| Source scan | `strata/corpus/sources.py` | conversion cache | walk roots, read, convert, register, align, retire, sweep |
| Index | `strata/index.py` | `index.db`: records, numbered paragraphs, vectors, revision and epoch, completeness flag | sync, search, browse, coverage, read, continue |
| Notes, manuscript, records | `strata/corpus/notes.py`, `manuscript.py`, `strata/record.py` | none | read |
| Command line, configuration | `strata/cli.py`, `config.py` | `config.yaml` and host files | init, index, serve |
| Tool server | `strata/server.py` | none | search, read |
| Dating, references, normalizer | `strata/dating.py`, `refs.py`, `normalizer.py` | none | pure functions |
| Embeddings | `strata/embeddings.py` | `store.db`: vectors, shared by the user's projects | embed passages in batches |

How they interact. A tool call (`server.py`, or `strata index`) enters
`Project.current`: thread lock, then file lock, both under one deadline. The
holder marks the index incomplete, scans all sources into the ledger in one
SQLite transaction, reads notes and manuscript, publishes the records in one
transaction of the index (which asks the ledger for the live numbers of every
source it rewrites), answers the query, and releases. The ledger and the index
are two databases: nothing makes the two commits one, so the completeness flag
and the next refresh have to.

What is hard, and what makes each part correct:

- **Ledger.** Repeated paragraphs, deletions and returns, converter and dating
  changes, rollbacks of half a scan. Correct when a number once given to a
  paragraph names that text for ever and never comes back to life, when rows of
  five tables agree after every commit, and when the corpus revision moves with
  the corpus.
- **Refresh.** Threads, processes, releases of different versions, files
  changing under the scan, failure and death between the two commits. Correct
  when there is one refresher, when what is served is what the files held during
  the call, when numbers served quote the text they stand beside, and when every
  call returns.
- **Source scan.** Overlapping and missing roots, duplicate keys, a conversion
  cache shared by releases. Correct when every file has one key for ever and only
  a file that is gone is retired.
- **Index queries.** Cursors over a moving index, pages cut within a token
  budget, chunk plans, date filters written twice, coverage by digests. Correct
  when pages and chunks partition what they cut and a stale cursor is refused.
- **Vectors.** Two databases that commit at different moments, an embedder that
  may fail in any batch, releases with different models. Correct when an index
  holds the vectors of one model for exactly its paragraphs, and when what was
  committed before a failure is not computed again.
- **Dating and sections.** Four strategies, day and month in either order, and a
  chapter cut into sections by one parser and found again by another. Correct
  when a date claims no more than its text and a ref reads what was indexed.
- **Initialization.** Several files replaced one by one. Correct when nothing is
  written before everything is validated and a rerun completes a broken run.

## Modules

| Module | What it is |
| --- | --- |
| `Alignment` | `_match_paragraphs` as one definition: the k-th new copy of a text keeps the number of the k-th old copy |
| `AlignmentLoop` | the same function as the loops of the code, over their queues; extends `Ledger` to be compared on what it can hold |
| `LedgerTables` | the ledger's rows and its methods, as operators from rows to rows; what a citation of them reads and is warned of |
| `Ledger` | the ledger as a state machine: the connection's rows (`db`), the committed rows (`disk`), and whether an outer transaction is open |
| `Citations` | the abstract promise: quotes only grow, nothing revives, the revision moves with any change |
| `Refresh` | `Project.current`, the scan and `Index.sync` together, with callers, processes, files, failures, crashes; uses `LedgerTables` |
| `Roots` | which file a source key means: `sources._walk`, `Ledger.root_ids`, registration and retirement over changing corpus lists |
| `ConversionCache` | `sources._ConversionCache` and its use by the scans of several projects |
| `ChunkPlan` | the partition of evidence into reader assignments, as operators; `Assignments` is a client that lists and executes them |
| `Enumeration` | `Index.search` as a client pages through it: four lists, one reply budget, cursors |
| `Pagination` | `Index.read` and `_paginate`: pages, cuts, metadata, cursors |
| `Coverage` | date periods, range filters, digests and what they suppress; uses `ChunkPlan` |
| `Vectors` | opening an index and syncing its vectors, with the cache in `store.db` and a failing embedder |
| `Calendar` | days of the calendar, for `Coverage` and `Dating` |
| `Dating` | what dates a file: four strategies over what the patterns find |
| `Documents` | a file from disk to dated, addressable sections and back |
| `Setup` | `strata init`: merge, write, commit |
| `TableProofs`, `LedgerProofs`, `RefreshProofs`, `ConversionCacheProofs`, `VectorsProofs`, `SetupProofs` | the proofs about the module each is named for |
| `CorpusProofs` | the proofs about `Roots`, `Documents` and `Pagination` |
| `SearchProofs` | the proofs about `Enumeration`, `Coverage` and `Assignments` |
| `MC*` | small instances for TLC, one per module they extend |

### Ledger

One path's rows in `units`, `versions`, `anchors`, `active_text` and
`retired_text` form one record. `WriteVersion` stands for the statements that
write a version: `NextAnchors` for the inserts and the `retired_v` updates,
`NextActive` and `NextRetired` for text moving from one table to the other.
`Align`, `RetireUnit`, `Register` and `SetDatingVersion` are the methods of
class `Ledger`; each returns what the code's early returns leave alone. The
actions of `Ledger` wrap them in `Write`, the code's `transaction()`: a method
called inside a scan commits nothing by itself. `RollBack` is any exception out
of the scan and also a crash, which SQLite turns into the same thing.

`Cited` is the numbers a citation names (`refs.py` and `read`), `CitationsOf` what
is read for it, and `CitationWarnings` what `_citation_warnings` says of it.

`LoopMatch` threads the queues of `_match_paragraphs` through the new paragraphs;
everything else uses `Match`, which has no state and can be reasoned about.

Left out of the rows: the autoincrement key of an anchor (the schema makes
`(unit_id, p)` unique), the hash of its text (written, never read) and the time
of a version. Bytes are a hash; a constant function `Paragraphs` says what a
converter makes of them.

### Refresh

A caller is a thread; `pc` names the statement of `Project.current` it is at.

| Action | Code |
| --- | --- |
| `Call`, `TakeThreadLock`, `TakeFileLock`, `TimeOut`, `Leave` | `refresh`/`search`/`read`, `_refresh_lock`, `project_lock` and their `finally` clauses |
| `Open`, `FailOpen` | configuration, opening both databases, `mark_complete(False)` |
| `Walk`, `ReadFile`, `CommitScan` | `sources.sync`: list, read one file after another, then register, align, retire and commit |
| `ReadNotes` | `notes.read`, `manuscript.read` |
| `SyncIndex` | `Index.sync`: difference by content hash, numbers from the ledger, revision, completeness, commit |
| `Serve` | the query, under the locks |
| `Fail`, `Crash` | an exception at any stage with its rollback and `mark_complete(False)`; death of a process |
| `EditFile`, `EditOther`, `DropIndex` | the world outside |

The scan's writes are one action because SQLite commits them at once and the
lock keeps other writers out; `Ledger` is where they interleave with rollbacks.
Reading files is one action per file, because files may change in between. Ghost
variable `seen` remembers the contents each file had since the lock was taken; no
action reads it. Notes and manuscript are one opaque content. A record's content
hash covers date, title and paragraphs but not the numbers: `RecordOf` is what is
hashed, `Insert` what is stored, and the difference is the finding below. A new
dating ruleset is taken to change the date of every source.

### Roots and the conversion cache

`Roots` keeps what decides the meaning of a key: the places (a folder and a name
in it) with the physical file each holds, the corpus list, the rows of `roots` and
`units`. `Begin` is the start of `_sync` (availability check, `_dedupe_roots`,
`root_ids` with `Existing` for its legacy branch and `Bind` for its last loop),
`Walk` one folder of `_walk` (`plan` is the set of folders left, and the one with
the least number is next), `Finish` reading, registration and retirement, and
`Abort` any exception, which rolls the transaction back. Between these steps files
change and folders go away; one folder is walked in one step, and a folder that
went away afterwards reads like deleted files, as it does in the code. `home`,
`gone` and `lost` are history. A legacy ledger does not say which folder a number
stood for, and `Existing` refuses a user's list only when the files contradict it: a
wrong list passes when the folders share a name the ledger knows or one of them is left
out. `Misled` is that case, and the only one in which a scan retires a source whose file
is in its place.

`ConversionCache` has the two tables of `store.db`, shared by projects. `Hit`,
`Convert` and `Disappeared` are the branches of the loop over units, `Put` is
`put_ok` or `put_skip`, `Sweep` the transaction at the end, `Interrupt` anything
that leaves the loop, between a conversion and its `Put` too. Each sync runs the
release its process was started with, so releases take turns, overlap and sweep each
other's rows, as the docstring of `sweep` says. `paid`, `lost`, `swept` and `since`
are history.

### Search and read

The client is part of these models, since the promises span several calls.

`ChunkPlan` translates `_plan_candidates`, `_chunk_plan`, `_scoped_assignment` and
`_chunk_row`; a record is its day, cost and kind. `Candidates` is the one listing of
the uncovered refs in plan order, what `sort` makes of them. The two nested loops
are recursive functions over the same running state, and the buckets of days are
filled ref by ref. `Assignments` pages through the plan and executes each
assignment's cursor; each call plans anew, as the code does.

`Enumeration` has the reply of one search as it is built: `Search` or `Resume`
cut the lists at their caps, `Shorten` is one turn of the trimming loop, `Send` or
`GiveUp` its end; a row is its rendered cost. `Publish` is a refresh between two
calls, which always moves the index revision (`index.py:824-846`).

`Pagination` walks `_paginate` paragraph by paragraph: `TakeParagraph`, `EndPage`,
`CutParagraph`, `GiveUp` are the branches of its loop, `ReadMetadata` the branch
of `read` for a large header. A character is its UTF-8 length and whether it may
not be parted from the one before; the bytes of a text are counted together, as the
size of a set. A page is kept as its pieces: a paragraph, the first and the last
character taken of it, and whether a separator follows. `read` lowers the page's
budget until the rendered reply fits; the model takes any of a few budgets for each
page instead.

`Coverage` translates the date helpers, both range filters and `_covered`, with
the frontmatter rules of `notes.py` that they rest on. A range is the prefix of a
day that its text is. `fresh` is history: whether no source has changed since the
revision the digest names.

### Vectors

| Action | Code |
| --- | --- |
| `Open` | `_ensure_embedder_identity`: the same model, or one transaction that drops table and cache and embeds all rows |
| `EmbedBatch`, `CommitBatch` | `CachedEmbedder.embed_passages`: the model computes a batch; its length and dimension are checked and `store.db` commits it |
| `Reembedded` | the end of `_ensure_embedder_identity`, its commit |
| `BeginSync`, `Replace`, `Embedded`, `Publish` | `Index.sync`: vanished records, then each changed record with `_embed_new`, then the commit |
| `Close` | closing |
| `Interrupt`, `EmbedderFails`, `Die` | an exception or death with its rollback: before the sync, with texts to embed or a batch to commit, anywhere else |
| `Edit`, `Elsewhere` | the corpus; a commit of another project to the shared store |

A vector is its model and its text. The model comes from a function of the text
that may fail; its numbers are not looked at. `Refresh` treats embedding as one
step that may fail, `Vectors` treats scan and adapters as one step that reads
`corpus`: the lock keeps the refreshes of a project apart, so each is sequential.

### Dates and sections

A text is what the patterns of `dating.py` find in it, a paragraph of a chapter is
its depth, the mark after the `#`s and its title; a title is a name and the numbers
in parentheses that it ends in, which is all that rendering and parsing a ref look
at. `Refresh` makes records of one file and indexes them, `RefreshRaises` is an
exception of `record.Date` or `Record`, `Read` asks for a ref of the index.

### Setup

A runner goes through `Order`; `Replace` is `_atomic_write`. A file is a count of
the user's edits, the set of entries setup put in, and whether its layout is the
serializer's. The user edits files only between runs, and stages work at any
time. `ledger.db`, which setup commits too, and the files under `~/.claude` are
left out; creating the repository is taken to be idempotent.

## Runs

| Run | Question and bounds |
| --- | --- |
| `ledger_history` | Two sources, one through three versions and one through one; three contents, two converters, two texts: duplicates, moves, deletion, return, conversion change, registration in every order and grouping, a scan rolled back at any point. A number can retire and its text come back under another. Between scans: every citation of every form against the rows, and the loops of alignment against `Match` for every rewrite of up to four paragraphs. |
| `refresh` | Two threads of one process and a process of a release with another converter and dating ruleset; one source, one edit, three calls, one deletion of the index, every kind of failure, death of a process, deadlines; under fairness every call returns. Three calls are a refresh that breaks, one that the other process runs, and one that has to repair. |
| `refresh_stale` | The shortest way to break `NumbersAreLive` when a refresh may fail (finding 1). |
| `assignments` | Up to three records on one or two days or undated, costs below, at and above the budget, with and without a digest, budgets 3 and 4, and an edit of `chunk_tokens` at any moment: all ways a day and a record can meet the end of an assignment. |
| `enumeration` | Every content of four lists of up to two rows of four costs, one of which fits no reply, and three longer contents a refresh may publish in between; under fairness. |
| `pagination` | Up to three paragraphs of letters, wide letters and combining marks, with and without labels and headers, any budget of 6 or 9 bytes per page, one change of the selection under a live cursor; under fairness. A paragraph may take four pages; a grapheme may be longer than a page, and so may a header. |
| `coverage` | Days at ends of months, of a year and of a leap February; dates of every precision against all ranges of all precisions; digests with windows over those days, in order and not, and every combination of type, completeness and revision; one change of sources. |
| `roots` | Two folders with one file name in both and another in one, a convertible and a refused file; two changes of files or folders, two of the corpus list; a new ledger, and two legacy ones with every mapping that is right, swapped, short, repeated or missing. |
| `conversion_cache` | Two projects, a text and a scan without text, processes of two releases of which one bumps the text converter, a cache with and without rows from before versions, three syncs that may overlap and break anywhere, one file that comes or goes. Three syncs are one that converts, one of another release that sweeps, and one that has to convert again; with the bare names there are three generations. |
| `vectors` | Two models that take turns, two records of repeated and shared paragraphs, one edit, deletion or return, batches of one text, one text that other projects embed too, a failure or death at every step; under fairness the project is served. |
| `documents` | Texts with every pattern alone, in range and out of it, alone in their line or not, in the first line, a labelled one, the name or folders; headers and metadata; chapters of up to four paragraphs of eight kinds: sections that repeat at both depths, scenes, tabs, titles ending in numbers, prose. |
| `setup` | Two runners, three runs, two edits, every step may be the last. |

Bounds: `MaxVersions`, `MaxEdits`, `MaxCalls`, `MaxDrops`, `MaxRevision`,
`MaxConfigs`, `MaxSyncs`, `MaxRuns`, named in the guards they limit. `CHECK_DEADLOCK
FALSE` where the system stops: loops terminate, a client has read everything, or
the changes a run allows are used up.

Properties. `Ledger`: `AnchorsConsistent`, `LiveTextIsContent`, `AnchorLifetimes`
(rows agree), `IdsPermanent` (SRC numbers), `RangeReads` (what a citation reads,
against what each number quotes, and that a warning is given exactly for what
cannot be read), `LoopIsMatch` (the loops compute `Match` and retire no number
needlessly), `TokenNamesState` (corpus revision),
`KeepsCitations` (refinement of `Citations`). `Refresh`:
`CompleteIsCurrent` (the flag vouches for agreement of index and ledger),
`ServedFresh` (each source as it was at some moment of this call, converted by this
caller's release), `NumbersQuoteTheirText`,
`NumbersAreLive`, `RevisionNamesContent` (continuations), `CallReturns` (and leaves no lock behind).

`Roots`: `NumbersKeepFolders`, `NewKeysDistinct`, `RetiredForCause` (what a scan
retires is gone, refused, no longer listed, was on a folder that went away, or had its
number given to another folder by the user).
`ConversionCache`: `PaidAgainForCause` (a unit is converted with the same version
again only if the first conversion was lost before it was stored, is not stored yet, or
another release swept it), `NoneBehindGeneration`, `SweepsOnlyReplaced` (a sync sweeps
when what it listed itself has its current row).
`Assignments`: `PlanPartitions` (each
record in one assignment, a day divided only when it must be), `ExecutedAsListed`.
`Enumeration`: `RowsOnceInOrder`, `EndMeansAll`, `FailsOnlyOverOneRow`,
`EnumerationEnds`. `Pagination`: `ReadExact`, `CutsAreForced`, `ReadEnds`. `Coverage`: `RangeIsOverlap` (against a definition by days, for ranges
whose ends are in order, and in both of its translations), `SuppressedIsRead`,
`CoverageReportedForDays`. `Vectors`: `OneModelOnDisk`, `ServedByMeaning`,
`PaidAgainIfLost` (a text is embedded again only if it was lost with its batch), `EventuallyServed`. `Documents`: `SectionsReadBack`,
`EverySectionIndexed`, `DatesAreHonest` (but for the guessed century of a two-digit
year). `Setup`: `NothingDropped`, and `CommitsItsChanges` for
runs that overlap no other.

Each property has a mutation: a definition marked "Mutation" next to the one it
replaces, wrong in a way the code could plausibly be. `PROJECT.json` pairs them;
with the replacement in place TLC finds the property violated.

Fairness. `Refresh`: each caller's steps other than failures are weakly fair. A
thread that can run runs; inside a refresh nothing waits for anything but the two
locks, and both waits have a deadline, modelled as `TimeOut` at any moment of a
wait. Nothing is bound to fail, and nothing is assumed of the order in which locks
are granted, of edits, failures or crashes. `Enumeration` and `Pagination`: the
client goes on with its cursor and the server, which is sequential, answers;
nothing is assumed of publications. `Vectors`: the user tries again (`Open`) and the
steps of a refresh are taken; strongly fair are `EmbedBatch`, `CommitBatch` and
`BeginSync`, which says that an embedder asked for ever answers now and then, that
`store.db` takes its answer now and then, and that adapters do not fail in every
refresh. Outside of these a refresh does not die for ever (`<>[][~Die]_vars`). Each
failed refresh may get one batch further only, and that is enough because batches stay
in `store.db`.

## Findings

1. `Index._sync` (`strata/index.py:836`) skips a record whose content hash is
   unchanged. Run `refresh_stale`: a source is edited, the scan commits, the
   manuscript folder is missing so the refresh fails before `Index.sync`, the edit
   is undone. The next scan retires the numbers of the edit and gives the old text
   new numbers; the index still holds the old text with its old, now retired,
   numbers, finds the hash unchanged, and is marked complete. The README (68-69)
   says "If the ledger advanced before an index failure, the next refresh
   reconciles it before any result is served." The damage is bounded, and
   run `refresh` shows it: `NumbersQuoteTheirText` holds, so the stale
   numbers still quote the right text, as retired citations.

Further disagreements met while modelling. Each names the configuration that shows it
and the property it violates; they are not among the runs.

2. `MCAssignmentsEdited.cfg`, `RevisionPartitions`: the revision a cursor names does not cover
   `chunk_tokens`. After an edit between two pages the client holds parts of two
   plans, and records between them are never assigned. `PlanPartitions` holds for a list whose pages were all
   planned with one value; executing what was listed is right in any case
   (`ExecutedAsListed`).
3. `MCCoveragePartial.cfg`, `CoverageReported`: `windows_overlap` (`index.py:182`) compares a window with the
   text of `from` and `to`. "2000-02-01" is after "2000" as a text, so a digest that
   begins inside the last period of a range given as a month or a year is not
   reported. It errs on the safe side: what it fails to suppress is read again.
   For ranges that end in a day the property holds (`coverage`).
4. `MCRootsOverlap.cfg`, `CountedOnce`: a key the ledger knows is kept although its file was already
   met under another folder (`sources.py:219`), legacy or not.
5. `MCRootsUnplugged.cfg`, `InaccessibleRetiresNothing`: a folder that goes away after it was listed is
   indistinguishable from deleted files (`sources.py:123`), and its sources are
   retired. The check at `sources.py:92` covers the start of the scan only.
6. `MCSetupDeferred.cfg`, `DeferredCommitIsMade`: a later run compares with its own snapshot (`cli.py:288`) and
   never makes a commit that was put off.
7. `MCSetupBare.cfg`, `BareLeavesConfig`: a bare run rewrites a `config.yaml` whose layout was edited by hand
   (`cli.py:127`).
8. `MCDocumentsFindings.cfg`, `ReadsBack`: the adapter counts sections among
   headings of depth 1 and 2, with any blank after the `#` (`manuscript.py:75`); the
   reader counts headings of every depth, with a space (`index.py:373`). A scene with
   the title of a section, or a tab after the `#`, makes a ref read another section
   or none. (This configuration has four violations, this one and those of findings 9
   to 11; `tlc -continue` shows them all.)
9. `MCDocumentsFindings.cfg`, `KeepsSections`: a second "Scene" and a section
   titled "Scene (2)" have one ref; the index keeps the last.
10. `MCDocumentsFindings.cfg`, `NoFileAborts`: a heading "Morning (1)", or a line that
    says "March 0000", raises out of the whole refresh; `manuscript.py` says of files
    it cannot use that "the walk never aborts on one" (13, 41).
11. `MCDocumentsFindings.cfg`, `PeriodsCoverReadings`: the century of a two-digit year
    is guessed (`dating.py:203-207`) and the date filed as that one day, "3 Feb 68" as
    2068-02-03. A filter for 1968 drops the source, where `CONTEXT.md:83-84` says that
    "a date filter drops only what is known to fall outside the range". The date is
    marked as inferred; `DatesAreHonest` says what holds beside the century.
12. `MCConversionCacheShared.cfg`, `NeverNeitherGeneration`: a sweep takes every
    superseded row of the shared cache (`sources.py:322`), also of units that only
    another sync has listed and has not reached yet. Over a cache of rows under bare names, with
    all processes of one release, project P lists a file, Q converts its own files and
    sweeps, and the only row of P's file goes; if P is now interrupted, neither
    generation is left, where the comment at `sources.py:149-152` says that "an
    interrupted sync never leaves the cache with neither generation". The docstring
    (310-314) admits only the case of two releases. The cost is a conversion; what a
    sync listed itself is kept (`SweepsOnlyReplaced`).
13. `ServedByMeaning` in `MCVectors.cfg` with `Semantic = {TRUE, FALSE}`: a change of model seen by an index opened
    with `semantic=False` leaves it without a table, and opened with `semantic=True`
    afterwards it answers without searching by meaning, where `index.py:83` rules
    out "degrading silently". Only tests and evaluation scripts open an index with
    `semantic=False`; the program never does.

## Proofs

Every theorem holds for all values of the constants that satisfy the named
assumptions of its module; no proof bounds a length, a number of callers, of files or
of steps. The bounds that keep TLC's instances finite (`MaxEdits` and the like) are
arbitrary numbers in the proofs. Each inductive invariant was checked by TLC on its
run's instance before it was proved. In every module the actions are taken one at a
time, in one lemma (`NextKeeps`, `NextInv`) or in a lemma each; the theorems follow
from them, those about steps together with what one action does.

What a loop of the code computes is a recursive function over the positions of a
list. The library's induction takes an operator as a parameter, which these provers
cannot instantiate, so induction is done by hand: `LeastNatural` gives a set of
naturals its least member (`<` is well-founded), and a loop that went wrong would
have a first turn at which it did. `LoopRuns` says with it that such a function
exists and has a type, and each loop's own lemma what holds after every turn.

| Module | Theorems and the properties they state |
| --- | --- |
| `TableProofs` | `MatchIsSound`, `FreshRankGrows`, `NewOrderFits`, `WriteVersionKeeps` |
| `LedgerProofs` | `LedgerTypes`, `PairsWithoutChurn` (`LoopIsMatch`), `LedgerConsistent` (`AnchorsConsistent`), `LedgerHoldsContent` (`LiveTextIsContent`), `LedgerLifetimes` (`AnchorLifetimes`), `SourceNumbersPermanent` (`IdsPermanent`), `RevisionNamesState` (`TokenNamesState`), `CitationsReadRight` (`RangeReads`), `LedgerKeepsCitations` (`KeepsCitations`) |
| `RefreshProofs` | `RefreshTypes`, `RefreshersExcluded` (mutual exclusion), `CompleteVouches` (`CompleteIsCurrent`), `RepliesFresh` (`ServedFresh`), `ShownNumbersQuote` (`NumbersQuoteTheirText`), `RevisionsNameContent` (`RevisionNamesContent`), `IndexedAsAligned`, `RefreshKeepsCitations` (refines `Citations`) |
| `CorpusProofs` | of `Roots`: `FoldersKeepNumbers` (`NumbersKeepFolders`), `NewKeysAreDistinct` (`NewKeysDistinct`), `RetiresForCause` (`RetiredForCause`); of `Documents`: `NoSectionLost` (`EverySectionIndexed`), `RefsReadBack` (`SectionsReadBack`), `DatedHonestly` (`DatesAreHonest`); of `Pagination`: `ReadsExactly` (`ReadExact`), `CutsOnlyWhenForced` (`CutsAreForced`) |
| `ConversionCacheProofs` | `SweptStaysSwept` (`NoneBehindGeneration`), `ConvertedAgainForCause` (`PaidAgainForCause`), `SweepKeepsWhatWasRead` (`SweepsOnlyReplaced`) |
| `VectorsProofs` | `DiskIsOfOneModel` (`OneModelOnDisk`), `MeaningIsServed` (`ServedByMeaning`), `VectorsPaidAgainIfLost` (`PaidAgainIfLost`) |
| `SearchProofs` | of `Enumeration`: `HeadsCollected` (`RowsOnceInOrder`), `GivesUpForCause` (`FailsOnlyOverOneRow`), `EndsComplete` (`EndMeansAll`); of `Coverage`: `FiltersByDays` (`RangeIsOverlap`), `WithheldAsRead` (`SuppressedIsRead`), `DigestsReported` (`CoverageReportedForDays`); of `Assignments`: `EvidencePartitioned` (`PlanPartitions`), `ExecutesWhatWasListed` (`ExecutedAsListed`) |
| `SetupProofs` | `KeepsTheUsers` (`NothingDropped`), `CommitsWhatItReplaced` (`CommitsItsChanges`) |

**Rows of a unit, `TableProofs`.** Counting lemmas about `Match` and `FreshRank` (only
equal texts are paired, each old number at most once, fresh numbers ascend), then
`NewOrderFits` (the order `_do_align` writes lists each number once, live numbers
for their own text only, others above `MAX(p)`) and `WriteVersionKeeps` (a version
that fits leaves a unit's rows consistent and its quotes extended). `AlignKeeps`,
`RetireUnitKeeps`, `RegisterKeeps` and `DatingKeeps` lift this to the ledger's methods;
both the ledger and the refresh use them. Assumed: paths are finitely many and
ordered, a converter returns a sequence of texts, NULL is not a value.

**Ledger.** `IInv` says of both `db` and `disk` that types hold, that SRC and anchor
numbers are bounded (so MAX exists), that rows of every unit agree (`UnitInv`) and
that unregistered paths have no rows; and that `db` is `Later` than `disk`.
Consistency needs the lifetimes and order facts together: that a fresh number is new
depends on the order listing only known numbers. `Later` is needed because a commit
replaces `disk` by `db` at once: without it nothing relates a committed state to the
one before, and `KeepsCitations`, `TokenNamesState` and `IdsPermanent` would not be
provable.

**The loops of alignment.** After k new paragraphs the queue of a text is what is left
of its old positions when as many are taken from its front as the first k paragraphs
have copies of it, and what was kept is `Match` cut at k. So `LoopMatch` is `Match` for
versions of any length (`LoopMatches`), and counting both sides gives
`PairsWithoutChurn`: a number retires only when its text got scarcer.

**Refresh.** The invariant adds to the two locks (who refreshes has both) the state of
the one scan under way: what the holder has read is something the file held since the
lock was taken (`ScanIsFresh`), the ledger rows are aligned with what it read by the
holder's own converter (`ScanIsAligned`), and the index keeps for every record the
numbers its texts had in some aligned version. That last part has to survive records
that `Index._sync` skips, which is why finding 1 is a finding and
`NumbersQuoteTheirText` nevertheless a theorem. `ScanKeeps` is proved from the lemmas
of `TableProofs` for any set of found files. `RefreshKeepsCitations` maps the committed
ledger to `Citations`: every step of a refresh, a failure or a crash is a step of the
promise or a stutter. Assumed of constants: a process has one converter and dating
ruleset, and a missing row is no row (`AbsenceAssumption`).

**Roots.** `Numbering` (no number twice, a greatest one, so `max(existing) + 1` is new)
is kept by `Bind` because new folders are numbered by how many were listed before them
(`Ahead`, a cardinality). `Scanning` says what a walk has bound and listed so far:
nothing renumbered, every known key of a walked folder listed unless its place was
found empty. Retirement needs `Uncontradicted` for legacy ledgers: it carries the
outcome of the check in `root_ids`, made when the migration began, to the end of the
scan, past every file that changes meanwhile. Assumed: an original list has no folder twice.

**Conversion cache.** `NoneBehindGeneration` is inductive because a row once stored is
`since` until its converter is swept for again. For `PaidAgainForCause` every conversion
made is accounted for (`PaidIsAccounted`): its row is stored, is in the hands of the sync
that made it, was lost, or was swept; and no sync sweeps a row of its own version, so
whoever swept it was of another release. `SweepsOnlyReplaced` needs `TakenIsAccounted`,
the same for the rows that a sync has read. `HeldIsCurrent` says that what a sync holds
is of its own release. Assumed (`CacheAssumption`): a version is never the mark for bare
names; nothing is assumed of the order of versions.

**Vectors.** `MeaningInv` says of the committed rows and of the open transaction that the vectors are
those of the model they name, for every row but those of the job under way, and what
the job still has to embed. Two theorems are stated under `Semantic = {TRUE}`:
`Project` opens its index with `semantic=True` and nothing in the program does
otherwise; without it finding 13 refutes them. `VectorsPaidAgainIfLost` needs no such
hypothesis: a vector paid for is in `store.db`, in the batch not committed yet, or was
lost (`PaidIsAccounted`), and a job asks only for texts that `store.db` lacked. Assumed:
records are finitely many numbers, a batch is not empty.

**Enumeration.** `FarAsCollected` ties the offsets of cursor and reply to what the
client holds, and says that offsets stay inside the lists while the revision is the
one they were cut from; `EmptiedForCause` that the trimming loop empties a page only
over a row too large for any reply. Costs are a recursive function over the page; the
facts needed of it are about one step, not about every input. Assumed
(`EnumerationAssumption`): header and cursor fit a reply.

**Coverage.** `CoverageInv` keeps what was saved and what was answered apart: a note is
as its frontmatter reads and fresh exactly when it names the current revision
(`SavedAsRead`), a reply is that of the corpus as it stands (`AnsweredAsAsked`). The
rest is about days: the bounds of a period are its first and its last day, by the
calendar, and prefixes of days compare as the periods they name. Both translations of
the range filter are then the overlap of two sets of days. Assumed
(`CoverageAssumption`): dates and ranges name a year, month or day of the calendar,
as `record.Date` and `_valid_window` enforce; no range is December 9999, of which
Python's calendar has no day after to count back from (`index.py:101`); marks are not revisions.

**Documents.** `DocumentsInv` says that an index is of the chapter and date of the one
file and a reply is of that index. The adapter numbers a section by the sections of
its title before it (`OccurrencesCount`), so a ref parses back to title and number
(`RefParsesBack`) and two sections have two refs unless a title ends in a number,
which both properties rule out (`Unnumbered`). The reader's count over headings of every
depth reaches the same heading when moreover no scene repeats a section's title and
every mark is a space (`SeenAlike`). Findings 8 and 9 are what happens otherwise.
`DateHonest` goes through the four strategies down to the single pattern that hit; of a
two-digit year it says nothing about the century, which is finding 11. Assumed
(`DocumentsAssumption`): a line that is one date as a whole is one that the patterns
agree on.

**Pagination.** `PagesInv`: the pieces handed out, followed by those of the page under
way, are linked, each beginning where the one before ended (`Linked`), and end where
the walk stands (`Reached`); of the revision the cursor names the client has everything
up to the cursor (`Collected`). A cut takes at least one character and never more than
the paragraph has (`CutFits`), so at the end the pieces are the selection
(`ExactWhenDone`). Assumed (`PaginationAssumption`): no paragraph is empty, and a page
has room for a header that is not large, one label with its "(continued)" and a
separator; these take tens of bytes where a page has thousands.

**Assignments.** What the loops keep, record by record and bucket by bucket, is `Covers`:
after m records the plan partitions the first a of them, and the records held are
those from a + 1 to m, with their tokens; what came together into one assignment stays
together. A day that fits is added whole, so it never is divided; segments of a large
record follow each other from the first to the last (`SegmentsAppended`). `PlanCovers`
concludes for the whole plan, by the buckets being consecutive stretches of the
candidates (`BucketsCut`). `SliceIsStretch`: the keys in a cursor give back exactly the
stretch they were taken from, since plan order is total and the uncovered refs have one
listing in it (`ListingsAgree`). Of states, `AssignmentsInv` says that the list is the
beginning of the plan of the one budget used, that every row comes from the plan of some
budget used, and that what was executed is what was listed. Assumed
(`AssignmentsAssumption`): an index has finitely many records, `chunk_tokens` is
positive.

**Setup.** `Exclusion` (who merges or writes has the lock) makes `Merged` inductive:
what was merged is not overtaken before it is written. The commit is made after the
lock is given back, so `CommitsItsChanges` is about runs nobody overlapped:
`Alone` says that such a run has been the only one since it took its snapshot, `Past`
that it writes a file once, and `Seen` that what it replaced is then exactly what
differs from the snapshot. Assumed: content is neither of the marks for no file and
for a file that does not parse.

Only model-checked:

- Liveness (`CallReturns`, `EnumerationEnds`, `ReadEnds`, `EventuallyServed`): it rests
  on fairness, and this prover has no rule for ENABLED.
- The findings, which are counterexamples: `NumbersAreLive` and the properties that the
  configurations of findings 2 to 13 violate.

## Not modelled

- The normalizer, and the regular expressions and e-mail, docx and pdf parsers
  behind dating: functions of bytes, many of them libraries; `Dating` and the ledger
  start from what they return.
- The grammar of source refs and the refusal of paths (`refs.py`): lexical, covered
  by its tests.
- Ranking, alias expansion and snippets: order and wording of hits within one
  revision. `Enumeration` takes the ranked lists as given, and a cursor's revision
  fixes them.
- Titles and aliases of notes, and the warnings stored with them.
- Marshalling and messages of the tool server and the command line, argument
  parsing, the skill files under `~/.claude`.
- Scripts, fixtures and examples.

## What is left

Every part with state or concurrency of its own has a model, and every safety property
that the runs find to hold is a theorem. What would come next:

1. An abstract enumeration (each record of one revision once) that `Enumeration` and
   `Assignments` are shown to implement.
2. One model of a call that reads several kinds of evidence while a refresh publishes,
   `Enumeration` and `Pagination` composed with `Refresh`; today a publication is one
   step of theirs that moves the revision.
3. Proofs of the liveness properties, with a prover that has rules for ENABLED.
