--------------------------- MODULE ConversionCache ---------------------------
(***************************************************************************)
(* The conversion cache, ~/.strata/cache/store.db, shared by the projects  *)
(* of one user (sources._ConversionCache and its calls in sources._sync).  *)
(* A unit is a file's bytes with the converter its suffix selects; a row   *)
(* is keyed by the unit and the converter's version.  A release of the     *)
(* tool has one version of each converter; a process keeps the release it  *)
(* was started with, so syncs of several releases take turns and overlap.  *)
(* Any sync may be interrupted.                                            *)
(***************************************************************************)
EXTENDS Naturals, Sequences

CONSTANTS
  Project,
  Unit,         \* units: a content hash and a converter's name
  NameOf,       \* the converter of each unit
  Refused,      \* units that convert to no text
  Version,      \* Version[r][n]: converter n's version in release r
  MaxEdits,     \* bound: changes to the projects' files
  MaxSyncs      \* bound: syncs begun

Name == {NameOf[u] : u \in Unit}
Release == DOMAIN Version
Bare == 0  \* the version of rows kept under a converter's name alone
Idle == 0  \* the release of a project that no process syncs

ASSUME CacheAssumption ==
  /\ Refused \subseteq Unit
  /\ Version \in Seq([Name -> Nat \ {Bare}])
  /\ {MaxEdits, MaxSyncs} \subseteq Nat

VARIABLES
  files,       \* files[p]: units in the project's corpus
  edits, syncs,
  rows,        \* conversions: [unit, version, outcome]
  generation,  \* converter_generations: version last swept for, or Bare
  release,     \* of the process that syncs a project, or Idle
  todo,        \* the units its sync has still to read
  used,        \* current_converters: names met by the sync
  made,        \* the conversion it has made and not stored yet: one row or none
  taken,       \* the rows that the units read so far came from
  paid,        \* history: project, unit and version of every conversion made
  lost,        \* history: those last lost before they were stored
  swept,       \* history: units and versions that a sweep took since last stored
  since        \* history: the rows stored since their converter was last swept for

vars == <<files, edits, syncs, rows, generation, release, todo, used, made, taken,
          paid, lost, swept, since>>
world == <<files, edits, syncs>>
cache == <<rows, generation>>
history == <<paid, lost, swept, since>>

Current(p, u) == Version[release[p]][NameOf[u]]
Outcome(u) == IF u \in Refused THEN "skip" ELSE "ok"

Init ==
  /\ files \in [Project -> SUBSET Unit] /\ edits = 0 /\ syncs = 0
  /\ rows \in SUBSET {[unit |-> u, version |-> Bare, outcome |-> Outcome(u)] : u \in Unit}
  /\ generation = [n \in Name |-> Bare]
  /\ release = [p \in Project |-> Idle]
  /\ todo = [p \in Project |-> {}] /\ used = [p \in Project |-> {}]
  /\ made = [p \in Project |-> {}] /\ taken = [p \in Project |-> {}]
  /\ paid = {} /\ lost = {} /\ swept = {} /\ since = {}
-----------------------------------------------------------------------------
Change(p) ==
  /\ edits < MaxEdits /\ edits' = edits + 1
  /\ \E u \in Unit : files' = [files EXCEPT ![p] = IF u \in @ THEN @ \ {u} ELSE @ \cup {u}]
  /\ UNCHANGED <<syncs, cache, release, todo, used, made, taken, history>>

\* A process of any release: one that was just started, or a server that runs
\* since before an upgrade.
Begin(p) ==
  /\ release[p] = Idle
  /\ syncs < MaxSyncs /\ syncs' = syncs + 1
  /\ \E r \in Release : release' = [release EXCEPT ![p] = r]
  /\ todo' = [todo EXCEPT ![p] = files[p]]
  /\ UNCHANGED <<files, edits, cache, used, made, taken, history>>

\* A listed file whose converter exists counts as met, and is skipped when
\* its bytes are gone.
Meet(p, u) ==
  /\ release[p] # Idle /\ made[p] = {} /\ u \in todo[p]
  /\ todo' = [todo EXCEPT ![p] = @ \ {u}]
  /\ used' = [used EXCEPT ![p] = @ \cup {NameOf[u]}]

Disappeared(p, u) ==
  /\ Meet(p, u)
  /\ u \notin files[p]
  /\ UNCHANGED <<world, cache, release, made, taken, history>>

Cached(u, v) == {row \in rows : row.unit = u /\ row.version = v}

\* Text goes into pending, a reason into skipped.
Take(p, row) == taken' = [taken EXCEPT ![p] = @ \cup {row}]

Hit(p, u) ==
  /\ Meet(p, u)
  /\ u \in files[p]
  /\ \E row \in Cached(u, Current(p, u)) : Take(p, row)
  /\ UNCHANGED <<world, cache, release, made, history>>

\* get finds nothing, and normalize: two syncs that both miss both convert.
Convert(p, u) ==
  LET row == [unit |-> u, version |-> Current(p, u), outcome |-> Outcome(u)]
      conversion == <<p, u, Current(p, u)>>
  IN /\ Meet(p, u)
     /\ u \in files[p]
     /\ Cached(u, Current(p, u)) = {}
     /\ made' = [made EXCEPT ![p] = {row}]
     /\ paid' = paid \cup {conversion} /\ lost' = lost \ {conversion}
     /\ UNCHANGED <<world, cache, release, taken, swept, since>>

\* Mutation: what a converter refuses is not remembered.
StoreText(row) == IF row.outcome = "ok" THEN rows \cup {row} ELSE rows

\* INSERT OR REPLACE: what is made of a unit depends on its version alone.
Store(row) == rows \cup {row}

\* put_ok and put_skip, each a commit of its own.
Put(p) ==
  /\ \E row \in made[p] :
       /\ rows' = Store(row)
       /\ Take(p, row)
       /\ swept' = swept \ {<<row.unit, row.version>>}
       /\ since' = since \cup {row}
  /\ made' = [made EXCEPT ![p] = {}]
  /\ UNCHANGED <<world, generation, release, todo, used, paid, lost>>

\* Mutation: only the generation swept for last time is superseded.
SupersededLast(n, v) == {row \in rows : NameOf[row.unit] = n /\ row.version = generation[n]}

\* The bare name and every version but the current one.
Superseded(n, v) == {row \in rows : NameOf[row.unit] = n /\ row.version # v}

Bumped(p) == {n \in used[p] : generation[n] # Version[release[p]][n]}

Outdated(p) == UNION {Superseded(n, Version[release[p]][n]) : n \in Bumped(p)}

\* DELETE and INSERT OR REPLACE for each converter met, in one transaction.
SweepCache(p) ==
  /\ rows' = rows \ Outdated(p)
  /\ generation' = [n \in Name |-> IF n \in Bumped(p) THEN Version[release[p]][n] ELSE generation[n]]
  /\ swept' = swept \cup {<<row.unit, row.version>> : row \in Outdated(p)}
  /\ since' = {row \in since : NameOf[row.unit] \notin Bumped(p)}

Leave(p) ==
  /\ release' = [release EXCEPT ![p] = Idle]
  /\ todo' = [todo EXCEPT ![p] = {}]
  /\ used' = [used EXCEPT ![p] = {}]
  /\ made' = [made EXCEPT ![p] = {}]
  /\ taken' = [taken EXCEPT ![p] = {}]

\* Mutation: a sync sweeps without looking at what it has read.
SweepEarly(p) ==
  /\ release[p] # Idle /\ made[p] = {}
  /\ SweepCache(p)
  /\ release' = [release EXCEPT ![p] = IF todo[p] = {} THEN Idle ELSE @]
  /\ UNCHANGED <<world, todo, used, made, taken, paid, lost>>

\* Once every unit is converted and stored; the sync goes on to the ledger.
Sweep(p) ==
  /\ release[p] # Idle /\ todo[p] = {} /\ made[p] = {}
  /\ SweepCache(p)
  /\ Leave(p)
  /\ UNCHANGED <<world, paid, lost>>

\* A read, a conversion or a commit raises, an interrupt, a crash: what was
\* made and not stored is lost.
Interrupt(p) ==
  /\ release[p] # Idle
  /\ lost' = lost \cup {<<p, row.unit, row.version>> : row \in made[p]}
  /\ Leave(p)
  /\ UNCHANGED <<world, cache, paid, swept, since>>

Next ==
  \E p \in Project :
    \/ Change(p) \/ Begin(p) \/ Put(p) \/ Sweep(p) \/ Interrupt(p)
    \/ \E u \in Unit : Disappeared(p, u) \/ Hit(p, u) \/ Convert(p, u)

Spec == Init /\ [][Next]_vars
-----------------------------------------------------------------------------
(***************************************************************************)
(* Properties.                                                             *)
(***************************************************************************)
\* Whatever projects and releases share the cache and whatever fails, a unit
\* is converted with a version that some project has used before only if that
\* conversion was lost before it was stored, is not stored yet, or was swept
\* by a process of another release: else "a second sync - or a second project
\* over the same archive - pays nothing for it", refusals included.
\* (sources._ConversionCache)
PaidAgainForCause ==
  [][\A p, q \in Project, u \in Unit :
       LET v == Current(p, u)
       IN Convert(p, u) /\ <<q, u, v>> \in paid =>
            \/ <<q, u, v>> \in lost
            \/ \E row \in made[q] : row.unit = u /\ row.version = v
            \/ <<u, v>> \in swept]_vars

\* A converter's rows are of the version it was last swept for or were stored
\* after that sweep, whatever releases took turns, were skipped or were
\* interrupted before; rows under its bare name included.  (sweep)
NoneBehindGeneration ==
  \A row \in rows : LET n == NameOf[row.unit]
                    IN generation[n] # Bare => row.version = generation[n] \/ row \in since

Listed(p) == todo[p] \cup {row.unit : row \in made[p] \cup taken[p]}

\* When a sync sweeps, each unit it listed has its current row, or another
\* release swept that one meanwhile: "only now is it safe to sweep the rows a
\* bumped converter left behind" (src/strata/corpus/sources.py:148-151).
SweepsOnlyReplaced ==
  [][\A p \in Project : Sweep(p) =>
       \A u \in Listed(p) :
         Cached(u, Current(p, u)) \cap rows' # {} \/ <<u, Current(p, u)>> \in swept]_vars

\* "An interrupted sync never leaves the cache with neither generation"
\* (src/strata/corpus/sources.py:150-151): at no moment of a sync that may be
\* its last does a unit that it listed lose its only row.
NeverNeitherGeneration ==
  [][\A p \in Project, row \in rows \ rows' :
       release[p] # Idle /\ row.unit \in files[p] \cap Listed(p) =>
         \E kept \in rows' : kept.unit = row.unit]_vars
=============================================================================
