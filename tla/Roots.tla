------------------------------- MODULE Roots --------------------------------
(***************************************************************************)
(* Which file a source key means.  A key is the persistent number of a     *)
(* corpus folder and a path inside it; sources._walk lists the files of    *)
(* the configured folders, Ledger.root_ids numbers the folders, _sync      *)
(* registers what it listed and retires the rest.  Folders come and go,    *)
(* are listed in any order, overlap, and share files through links.        *)
(***************************************************************************)
EXTENDS Naturals, Sequences, FiniteSets, Functions

CONSTANTS
  Folder,      \* resolved folders
  Place,       \* pairs of a folder and a name in it, names numbered in sorted order
  File,        \* physical files
  Refused,     \* files that no converter turns into text
  None,
  Originals,   \* ledgers to start from: the folders, in order, of one older than
               \* the roots table; <<>> is a new ledger
  Given,       \* values of --legacy-root: sequences of folders, or None
  Configs,     \* corpus lists the user may write: sequences of folders
  MaxEdits,    \* bound: changes to files and folders
  MaxConfigs   \* bound: changes to the corpus list

ASSUME RootsAssumption ==
  /\ Place \subseteq Folder \X Nat /\ Refused \subseteq File /\ None \notin File
  /\ \A original \in Originals : original \in Seq(Folder) /\ IsInjective(original)
  /\ Configs \subseteq Seq(Folder) /\ Given \subseteq Seq(Folder) \cup {None}
  /\ {MaxEdits, MaxConfigs} \subseteq Nat

VARIABLES
  entry, there,   \* what each place holds; the folders that can be read
  config,         \* the corpus list
  edits, lists,   \* changes made so far
  original,       \* history: the ledger this one began as
  roots,          \* rows of the roots table: folder to number
  units,          \* rows of the units table: key to "live" or "retired"
  pc, bound,      \* the scan: its state, and the roots its transaction sees
  plan,           \* folders still to walk, in the order of their numbers
  listed,         \* units of the scan, kept after it: [key, file, known]
  home,           \* history: the folder each key was registered for
  gone, lost      \* history: places without convertible file, and folders that
                  \* could not be read, at some moment since the scan began

vars == <<entry, there, config, edits, lists, original, roots, units, pc, bound, plan, listed,
          home, gone, lost>>
world == <<entry, there, config, edits, lists>>
rows == <<original, roots, units, home>>
scan == <<bound, plan, listed>>
history == <<gone, lost>>

Key(number, name) == <<number, name>>
Empty(at) == {p \in Place : at[p] \in Refused \cup {None}}

\* A ledger without a roots table holds keys of its original folders.
LegacyKeys == {Key(n - 1, name) : n \in DOMAIN original, name \in {p[2] : p \in Place}}
HomeOf(key) == <<original[key[1] + 1], key[2]>>

Init ==
  /\ entry \in [Place -> File \cup {None}] /\ there = Folder
  /\ config \in Configs /\ edits = 0 /\ lists = 0
  /\ original \in Originals
  /\ roots = <<>>
  /\ units = [k \in {k \in LegacyKeys : HomeOf(k) \in Place} |->
                IF HomeOf(k) \in Empty(entry) THEN "retired" ELSE "live"]
  /\ home = [k \in DOMAIN units |-> HomeOf(k)[1]]
  /\ pc = "idle" /\ bound = <<>> /\ plan = {} /\ listed = {}
  /\ gone = Empty(entry) /\ lost = {}
-----------------------------------------------------------------------------
(***************************************************************************)
(* The world.                                                              *)
(***************************************************************************)
Edit == edits < MaxEdits /\ edits' = edits + 1 /\ UNCHANGED lists

Change(p) ==
  /\ Edit
  /\ \E f \in (File \cup {None}) \ {entry[p]} : entry' = [entry EXCEPT ![p] = f]
  /\ gone' = gone \cup Empty(entry')
  /\ UNCHANGED <<there, config, rows, pc, scan, lost>>

Unplug(folder) ==
  /\ Edit
  /\ there' = IF folder \in there THEN there \ {folder} ELSE there \cup {folder}
  /\ lost' = lost \cup {folder}
  /\ UNCHANGED <<entry, config, rows, pc, scan, gone>>

Configure(list) ==
  /\ pc = "idle" /\ list # config
  /\ lists < MaxConfigs /\ lists' = lists + 1
  /\ config' = list
  /\ UNCHANGED <<entry, there, edits, rows, pc, scan, history>>
-----------------------------------------------------------------------------
(***************************************************************************)
(* Numbering the folders.                                                  *)
(***************************************************************************)
\* The folders of a list, each once.
Distinct(list) == Range(list)

NextNumber(numbers) ==
  IF numbers = <<>> THEN 0
  ELSE 1 + CHOOSE n \in Range(numbers) : \A m \in Range(numbers) : m <= n

FirstAt(paths, f) == CHOOSE i \in DOMAIN paths : /\ paths[i] = f
                                                /\ \A j \in 1..i-1 : paths[j] # f

\* Mutation: numbers follow the order of the configuration.
BindByPosition(existing, paths) ==
  [f \in DOMAIN existing \cup Range(paths) |->
     IF f \in Range(paths) THEN FirstAt(paths, f) - 1 ELSE Len(paths) + existing[f]]

\* The folders that get a number before f does: new ones, listed before it.
Ahead(existing, paths, f) ==
  {g \in Range(paths) \ DOMAIN existing : FirstAt(paths, g) < FirstAt(paths, f)}

Bind(existing, paths) ==
  [f \in DOMAIN existing \cup Range(paths) |->
     IF f \in DOMAIN existing THEN existing[f]
     ELSE NextNumber(existing) + Cardinality(Ahead(existing, paths, f))]

Holds(folder, name) == folder \in there /\ <<folder, name>> \in Place /\ entry[<<folder, name>>] # None

LiveNames(number) == {k[2] : k \in {k \in DOMAIN units : k[1] = number /\ units[k] = "live"}}

Resolves(folder, number) == \E name \in LiveNames(number) : Holds(folder, name)

Conflict(given, i) ==
  /\ ~Resolves(given[i], i - 1)
  /\ \E j \in DOMAIN given : j # i /\ Resolves(given[j], i - 1)

\* The rows of the user's list, in its order.
Positions(given) == [f \in Range(given) |-> FirstAt(given, f) - 1]

\* The rows that root_ids starts from; None when it refuses.
Existing(given) ==
  CASE roots # <<>> \/ units = <<>> -> roots
    [] given = None -> None
    [] OTHER ->
         IF /\ IsInjective(given)
            /\ \A k \in DOMAIN units : k[1] < Len(given)
            /\ \A i \in DOMAIN given : ~Conflict(given, i)
         THEN Positions(given)
         ELSE None
-----------------------------------------------------------------------------
(***************************************************************************)
(* The scan: one transaction, rolled back by any failure.                  *)
(***************************************************************************)
Begin(given) ==
  /\ pc = "idle"
  /\ Range(config) \subseteq there
  /\ Existing(given) # None
  /\ bound' = Bind(Existing(given), config)
  /\ plan' = Distinct(config)
  /\ listed' = {} /\ gone' = Empty(entry) /\ lost' = {}
  /\ pc' = "walk"
  /\ UNCHANGED <<world, rows>>

\* Mutation: every directory entry counts.
CountsAlways(folder, name) == TRUE

\* Mutation: known keys are given up for duplicates as well.
CountsUnlessMet(folder, name) ==
  LET file == entry[<<folder, name>>]
  IN  /\ \A u \in listed : u.file # file
      /\ \A p \in Place : p[1] = folder /\ p[2] < name => entry[p] # file

\* A file is listed under a key the ledger knows, and otherwise only when it
\* was not met before in this walk.
Counts(folder, name) ==
  LET file == entry[<<folder, name>>]
  IN  \/ Key(bound[folder], name) \in DOMAIN units
      \/ /\ \A u \in listed : u.file # file
         /\ \A p \in Place : p[1] = folder /\ p[2] < name => entry[p] # file

\* The entries of a folder that are listed, as units of the scan.
Entries(folder) ==
  {[key   |-> Key(bound[folder], p[2]), file |-> entry[p],
    known |-> Key(bound[folder], p[2]) \in DOMAIN units] :
    p \in {p \in Place : p[1] = folder /\ entry[p] # None /\ Counts(folder, p[2])}}

Walk(folder) ==
  /\ pc = "walk"
  /\ folder \in plan /\ \A f \in plan : bound[folder] <= bound[f]
  /\ folder \in there
  /\ listed' = listed \cup Entries(folder)
  /\ plan' = plan \ {folder}
  /\ UNCHANGED <<world, rows, pc, bound, history>>

PlaceOf(key) == <<CHOOSE f \in DOMAIN bound : bound[f] = key[1], key[2]>>

\* The listed units whose bytes were found and converted.  A file of a folder
\* that went away is not found, like a file that was deleted.
Pending ==
  {u.key : u \in {u \in listed : PlaceOf(u.key)[1] \in there /\ PlaceOf(u.key) \notin Empty(entry)}}

\* They become live, every other unit of the ledger is retired.
Finish ==
  /\ pc = "walk" /\ plan = {}
  /\ units' = [k \in DOMAIN units \cup Pending |-> IF k \in Pending THEN "live" ELSE "retired"]
  /\ roots' = bound
  /\ home' = [k \in DOMAIN units' |-> IF k \in DOMAIN home THEN home[k] ELSE PlaceOf(k)[1]]
  /\ pc' = "idle" /\ bound' = <<>>
  /\ UNCHANGED <<world, original, plan, listed, history>>

Abort ==
  /\ pc = "walk"
  /\ pc' = "idle" /\ bound' = <<>> /\ plan' = {} /\ listed' = {}
  /\ UNCHANGED <<world, rows, history>>

Next ==
  \/ \E p \in Place : Change(p)
  \/ \E f \in Folder : Unplug(f)
  \/ \E list \in Configs : Configure(list)
  \/ \E given \in Given : Begin(given)
  \/ \E f \in Folder : Walk(f)
  \/ Finish \/ Abort

Spec == Init /\ [][Next]_vars
-----------------------------------------------------------------------------
(***************************************************************************)
(* Properties.                                                             *)
(***************************************************************************)
\* Whatever the order and the history of the corpus list, the number in a key
\* is the number of the folder the key was registered for: "Root
\* numbers are now persisted against resolved folders in the durable ledger,
\* so configuration order cannot swap source identities."
\* (docs/design.md:536-537; Ledger.root_ids)  Not of a ledger older than the
\* roots table, whose folders are what --legacy-root says they are.
NumbersKeepFolders ==
  original = <<>> =>
    \A k \in DOMAIN home, f \in DOMAIN roots : (roots[f] = k[1]) <=> (home[k] = f)

Retired(k) == units[k] = "live" /\ units'[k] = "retired"

\* The folder that bears the number of a source, when it is not the source's.
\* --legacy-root can say so, unless the files contradict it: the folder has a
\* file by a name the number is known for, or the source's own folder was left
\* out of the list.
Misled(k) ==
  \E f \in DOMAIN roots' :
    /\ roots'[f] = k[1] /\ f # home[k]
    /\ \/ \E name \in LiveNames(k[1]) : <<f, name>> \in Place
       \/ \A q \in DOMAIN units : q[1] < roots'[home[k]]

\* A scan retires a source only when its folder is no longer listed, or when
\* during the scan its place held no convertible file or its folder went
\* away, or when the user named another folder for its number.  A folder that
\* cannot be read when the scan begins, another listing order, a second link
\* to the same file or a refused migration retires nothing. (sources._walk,
\* Ledger.root_ids)
RetiredForCause ==
  [][\A k \in DOMAIN units : Retired(k) =>
       \/ home[k] \notin Range(config)
       \/ <<home[k], k[2]>> \in gone
       \/ home[k] \in lost
       \/ Misled(k)]_vars

\* "missing/inaccessible roots are failures, not empty archives"
\* (docs/design.md:541): no source of a listed folder is retired while its
\* file is in its place. (sources._walk, sources._sync)
InaccessibleRetiresNothing ==
  [][\A k \in DOMAIN units : Retired(k) =>
       home[k] \notin Range(config) \/ <<home[k], k[2]>> \in gone]_vars

\* One scan never gives two new keys to one physical file, whether the files
\* are linked inside a folder or across folders. (sources._walk)
NewKeysDistinct ==
  \A u, v \in listed : u # v /\ ~u.known /\ ~v.known => u.file # v.file

\* No scan that starts from a ledger without legacy keys lists one physical
\* file under two keys: "Overlapping roots are deduplicated by physical file
\* identity, except existing legacy duplicate identities"
\* (docs/design.md:537-539; sources._walk)
CountedOnce == \A u, v \in listed : u # v => u.file # v.file
=============================================================================
