------------------------ MODULE ConversionCacheProofs ------------------------
(***************************************************************************)
(* The conversion cache, for any number of projects, units, converters and *)
(* releases.  Every conversion paid for is accounted for: stored, about to *)
(* be, lost before it was, or swept.  So is every row that a sync has      *)
(* read.  Both accounts are needed to say what a miss may have as cause    *)
(* and what a sweep can rely on.                                           *)
(***************************************************************************)
EXTENDS ConversionCache, TLAPS

Row == [unit : Unit, version : Nat, outcome : {"ok", "skip"}]

CacheTypes ==
  /\ files \in [Project -> SUBSET Unit]
  /\ rows \subseteq Row
  /\ generation \in [Name -> Nat]
  /\ release \in [Project -> Release \cup {Idle}]
  /\ todo \in [Project -> SUBSET Unit]
  /\ used \in [Project -> SUBSET Name]
  /\ made \in [Project -> SUBSET Row]
  /\ taken \in [Project -> SUBSET Row]

\* A sync holds at most one conversion that is not stored, and what it made
\* and took is of its release; a project that no process syncs holds nothing.
HeldIsCurrent ==
  \A p \in Project :
    /\ \A row, other \in made[p] : row = other
    /\ release[p] = Idle => made[p] = {} /\ taken[p] = {}
    /\ \A row \in made[p] \cup taken[p] : row.version = Current(p, row.unit)

Swept(u, v) == <<u, v>> \in swept
Making(q, u, v) == \E row \in made[q] : row.unit = u /\ row.version = v

\* What was paid for is stored, or is not for one of three causes.
PaidIsAccounted ==
  \A q \in Project, u \in Unit, v \in Nat : <<q, u, v>> \in paid =>
    <<q, u, v>> \in lost \/ Making(q, u, v) \/ Swept(u, v) \/ Cached(u, v) # {}

\* What a sync has read is stored, or was swept since.
TakenIsAccounted ==
  \A p \in Project : \A row \in taken[p] :
    Swept(row.unit, row.version) \/ Cached(row.unit, row.version) # {}

IInv ==
  CacheTypes /\ HeldIsCurrent /\ NoneBehindGeneration /\ PaidIsAccounted /\ TakenIsAccounted
-----------------------------------------------------------------------------
(* A release has a version of every converter, and never the bare one. *)
LEMMA VersionType ==
  /\ Idle \notin Release
  /\ \A r \in Release, n \in Name : Version[r][n] \in Nat \ {Bare}
BY CacheAssumption DEF Release, Idle

(* The version a sync reads a unit with. *)
LEMMA CurrentType ==
  ASSUME CacheTypes, NEW p \in Project, release[p] # Idle, NEW u \in Unit
  PROVE  Current(p, u) \in Nat
<1>1. release[p] \in Release /\ NameOf[u] \in Name
  BY DEF CacheTypes, Name
<1> QED
  BY <1>1, VersionType DEF Current

LEMMA InitKeeps == Init => IInv
<1> SUFFICES ASSUME Init PROVE IInv
  OBVIOUS
<1>1. rows \subseteq Row
  BY DEF Init, Row, Outcome, Bare
<1>2. CacheTypes
  BY <1>1 DEF Init, CacheTypes, Bare
<1>3. NoneBehindGeneration
  BY <1>2 DEF Init, NoneBehindGeneration, Name, CacheTypes, Row
<1>4. HeldIsCurrent /\ PaidIsAccounted /\ TakenIsAccounted
  BY DEF Init, HeldIsCurrent, PaidIsAccounted, TakenIsAccounted
<1> QED
  BY <1>2, <1>3, <1>4 DEF IInv

(* Types. *)
LEMMA TypeStep ==
  ASSUME CacheTypes, [Next]_vars
  PROVE  CacheTypes'
<1> USE DEF CacheTypes
<1>1. ASSUME NEW p \in Project, Change(p)
      PROVE  CacheTypes'
  BY <1>1 DEF Change, cache
<1>2. ASSUME NEW p \in Project, Begin(p)
      PROVE  CacheTypes'
  BY <1>2 DEF Begin, cache
<1>3. ASSUME NEW p \in Project, NEW u \in Unit, Meet(p, u)
      PROVE  todo' \in [Project -> SUBSET Unit] /\ used' \in [Project -> SUBSET Name]
  BY <1>3 DEF Meet, Name
<1>4. ASSUME NEW p \in Project, NEW row \in Row, Take(p, row)
      PROVE  taken' \in [Project -> SUBSET Row]
  BY <1>4 DEF Take
<1>5. ASSUME NEW p \in Project, NEW u \in Unit, Disappeared(p, u)
      PROVE  CacheTypes'
  BY <1>3, <1>5 DEF Disappeared, world, cache
<1>6. ASSUME NEW p \in Project, NEW u \in Unit, Hit(p, u)
      PROVE  CacheTypes'
  BY <1>3, <1>4, <1>6 DEF Hit, world, cache, Cached
<1>7. ASSUME NEW p \in Project, NEW u \in Unit, Convert(p, u)
      PROVE  CacheTypes'
  <2> DEFINE row == [unit |-> u, version |-> Current(p, u), outcome |-> Outcome(u)]
  <2>1. row \in Row
    BY <1>7, CurrentType DEF Row, Outcome, Convert, Meet
  <2>2. made' = [made EXCEPT ![p] = {row}]
    BY <1>7 DEF Convert
  <2> HIDE DEF row
  <2>3. made' \in [Project -> SUBSET Row]
    BY <2>1, <2>2
  <2> QED
    BY <1>3, <1>7, <2>3 DEF Convert, world, cache
<1>8. ASSUME NEW p \in Project, Put(p)
      PROVE  CacheTypes'
  <2>1. PICK row \in made[p] : rows' = rows \cup {row} /\ Take(p, row)
    BY <1>8 DEF Put, Store
  <2>2. row \in Row /\ made' \in [Project -> SUBSET Row]
    BY <1>8 DEF Put
  <2> QED
    BY <1>4, <1>8, <2>1, <2>2 DEF Put, world
<1>9. ASSUME NEW p \in Project, Leave(p)
      PROVE  /\ release' \in [Project -> Release \cup {Idle}]
             /\ todo' \in [Project -> SUBSET Unit] /\ used' \in [Project -> SUBSET Name]
             /\ made' \in [Project -> SUBSET Row] /\ taken' \in [Project -> SUBSET Row]
  BY <1>9 DEF Leave
<1>10. ASSUME NEW p \in Project, Sweep(p)
       PROVE  CacheTypes'
  <2>1. release[p] \in Release
    BY <1>10 DEF Sweep
  <2>2. generation' \in [Name -> Nat]
    BY <1>10, <2>1, VersionType DEF Sweep, SweepCache
  <2>3. rows' \subseteq Row
    BY <1>10 DEF Sweep, SweepCache
  <2> QED
    BY <1>9, <1>10, <2>2, <2>3 DEF Sweep, world
<1>11. ASSUME NEW p \in Project, Interrupt(p)
       PROVE  CacheTypes'
  BY <1>9, <1>11 DEF Interrupt, world, cache
<1>12. CASE UNCHANGED vars
  BY <1>12 DEF vars, world, cache
<1> QED
  BY <1>1, <1>2, <1>5, <1>6, <1>7, <1>8, <1>10, <1>11, <1>12 DEF Next

(* What a sync holds is of its release. *)
LEMMA HeldStep ==
  ASSUME CacheTypes, HeldIsCurrent, [Next]_vars
  PROVE  HeldIsCurrent'
<1> SUFFICES ASSUME NEW q \in Project
             PROVE  /\ \A row, other \in made'[q] : row = other
                    /\ release'[q] = Idle => made'[q] = {} /\ taken'[q] = {}
                    /\ \A row \in made'[q] \cup taken'[q] :
                         row.version = Version[release'[q]][NameOf[row.unit]]
  BY DEF HeldIsCurrent, Current
<1> USE DEF CacheTypes
<1>1. /\ \A row, other \in made[q] : row = other
      /\ release[q] = Idle => made[q] = {} /\ taken[q] = {}
      /\ \A row \in made[q] \cup taken[q] : row.version = Version[release[q]][NameOf[row.unit]]
  BY DEF HeldIsCurrent, Current
<1>2. ASSUME NEW p \in Project, Begin(p)
      PROVE  /\ made' = made /\ taken' = taken
             /\ q # p => release'[q] = release[q]
             /\ q = p => made[q] = {} /\ taken[q] = {}
  BY <1>1, <1>2 DEF Begin
<1>3. ASSUME NEW p \in Project, NEW u \in Unit, Hit(p, u)
      PROVE  /\ made' = made /\ release' = release /\ release[p] # Idle
             /\ \A row \in taken'[q] :
                  row \in taken[q] \/ row.version = Version[release[q]][NameOf[row.unit]]
  <2>1. PICK row \in Cached(u, Current(p, u)) : taken' = [taken EXCEPT ![p] = @ \cup {row}]
    BY <1>3 DEF Hit, Take
  <2>2. row.version = Version[release[p]][NameOf[row.unit]]
    BY <2>1 DEF Cached, Current
  <2> QED
    BY <1>3, <2>1, <2>2 DEF Hit, Meet
<1>4. ASSUME NEW p \in Project, NEW u \in Unit, Hit(p, u), q # p
      PROVE  taken'[q] = taken[q]
  BY <1>4 DEF Hit, Take
<1>5. ASSUME NEW p \in Project, NEW u \in Unit, Convert(p, u)
      PROVE  /\ release' = release /\ taken' = taken /\ release[p] # Idle
             /\ q # p => made'[q] = made[q]
             /\ q = p => \A row, other \in made'[q] :
                           row = other /\ row.version = Version[release[q]][NameOf[row.unit]]
  <2> DEFINE row == [unit |-> u, version |-> Current(p, u), outcome |-> Outcome(u)]
  <2>1. made' = [made EXCEPT ![p] = {row}] /\ row.version = Version[release[p]][NameOf[row.unit]]
    BY <1>5 DEF Convert, Current
  <2> HIDE DEF row
  <2> QED
    BY <1>5, <2>1 DEF Convert, Meet
<1>6. ASSUME NEW p \in Project, Put(p)
      PROVE  /\ release' = release /\ release[p] # Idle
             /\ q # p => made'[q] = made[q] /\ taken'[q] = taken[q]
             /\ q = p => made'[q] = {} /\ taken'[q] \subseteq taken[q] \cup made[q]
  <2>1. PICK row \in made[p] : taken' = [taken EXCEPT ![p] = @ \cup {row}]
    BY <1>6 DEF Put, Take
  <2>2. release[p] # Idle
    BY <2>1 DEF HeldIsCurrent
  <2> QED
    BY <1>6, <2>1, <2>2 DEF Put
<1>7. ASSUME NEW p \in Project, Leave(p)
      PROVE  /\ q # p => made'[q] = made[q] /\ taken'[q] = taken[q] /\ release'[q] = release[q]
             /\ q = p => made'[q] = {} /\ taken'[q] = {}
  BY <1>7 DEF Leave
<1>8. ASSUME ~(\E p \in Project : Begin(p) \/ Put(p) \/ Leave(p)),
             ~(\E p \in Project, u \in Unit : Hit(p, u) \/ Convert(p, u))
      PROVE  made' = made /\ taken' = taken /\ release' = release
  BY <1>8 DEF Next, vars, world, cache, Change, Sweep, Interrupt, Disappeared
<1>9. CASE \E p \in Project : Begin(p)
  BY <1>1, <1>2, <1>9
<1>10. CASE \E p \in Project, u \in Unit : Hit(p, u)
  BY <1>1, <1>3, <1>4, <1>10
<1>11. CASE \E p \in Project, u \in Unit : Convert(p, u)
  BY <1>1, <1>5, <1>11
<1>12. CASE \E p \in Project : Put(p)
  BY <1>1, <1>6, <1>12
<1>13. CASE \E p \in Project : Leave(p)
  BY <1>1, <1>7, <1>13
<1> QED
  BY <1>1, <1>8, <1>9, <1>10, <1>11, <1>12, <1>13

(* A row of a swept converter is of the version it was swept for, or newer
   than that sweep. *)
LEMMA RowsStep ==
  ASSUME CacheTypes, NoneBehindGeneration, [Next]_vars
  PROVE  NoneBehindGeneration'
<1> SUFFICES ASSUME NEW row \in rows', generation'[NameOf[row.unit]] # Bare
             PROVE  row.version = generation'[NameOf[row.unit]] \/ row \in since'
  BY DEF NoneBehindGeneration
<1> DEFINE n == NameOf[row.unit]
<1>1. n \in Name
  BY TypeStep DEF CacheTypes, Row, Name
<1>2. row \in rows /\ generation[n] # Bare => row.version = generation[n] \/ row \in since
  BY DEF NoneBehindGeneration
<1>3. ASSUME NEW p \in Project, Sweep(p)
      PROVE  row.version = generation'[n] \/ row \in since'
  <2>1. /\ row \in rows /\ row \notin Outdated(p)
        /\ generation'[n] = IF n \in Bumped(p) THEN Version[release[p]][n] ELSE generation[n]
        /\ since' = {r \in since : NameOf[r.unit] \notin Bumped(p)}
    BY <1>1, <1>3 DEF Sweep, SweepCache
  <2>2. n \in Bumped(p) => row.version = Version[release[p]][n]
    BY <2>1 DEF Outdated, Superseded
  <2> QED
    BY <1>2, <2>1, <2>2
<1>4. ASSUME NEW p \in Project, Put(p)
      PROVE  row.version = generation'[n] \/ row \in since'
  <2>1. PICK new \in made[p] : rows' = rows \cup {new} /\ since' = since \cup {new}
    BY <1>4 DEF Put, Store
  <2> QED
    BY <1>2, <1>4, <2>1 DEF Put
<1>5. ASSUME ~(\E p \in Project : Sweep(p) \/ Put(p))
      PROVE  rows' = rows /\ generation' = generation /\ since' = since
  BY <1>5 DEF Next, vars, cache, world, history, Change, Begin, Interrupt, Disappeared, Hit,
              Convert
<1> QED
  BY <1>2, <1>3, <1>4, <1>5

(* What a step may do to the rows of a unit and version: a sweep that takes
   them says so, and only storing one again takes that back. *)
LEMMA StoredOrSwept ==
  ASSUME CacheTypes, [Next]_vars, NEW u, NEW v, Swept(u, v) \/ Cached(u, v) # {}
  PROVE  Swept(u, v)' \/ Cached(u, v)' # {}
<1>1. ASSUME NEW p \in Project, Sweep(p)
      PROVE  Swept(u, v)' \/ Cached(u, v)' # {}
  <2>1. /\ rows' = rows \ Outdated(p)
        /\ swept' = swept \cup {<<row.unit, row.version>> : row \in Outdated(p)}
    BY <1>1 DEF Sweep, SweepCache
  <2>2. CASE Swept(u, v)
    BY <2>1, <2>2 DEF Swept
  <2>3. CASE Cached(u, v) # {}
    <3>1. PICK row \in rows : row.unit = u /\ row.version = v
      BY <2>3 DEF Cached
    <3>2. CASE row \in Outdated(p)
      BY <2>1, <3>1, <3>2 DEF Swept
    <3>3. CASE row \notin Outdated(p)
      BY <2>1, <3>1, <3>3 DEF Cached
    <3> QED
      BY <3>2, <3>3
  <2> QED
    BY <2>2, <2>3
<1>2. ASSUME NEW p \in Project, Put(p)
      PROVE  Swept(u, v)' \/ Cached(u, v)' # {}
  <2>1. PICK row \in made[p] : /\ rows' = rows \cup {row}
                              /\ swept' = swept \ {<<row.unit, row.version>>}
    BY <1>2 DEF Put, Store
  <2>2. Cached(u, v) # {} => Cached(u, v)' # {}
    BY <2>1 DEF Cached
  <2>3. CASE row.unit = u /\ row.version = v
    BY <2>1, <2>3 DEF Cached
  <2>4. CASE ~(row.unit = u /\ row.version = v)
    BY <2>1, <2>2, <2>4 DEF Swept
  <2> QED
    BY <2>3, <2>4
<1>3. ASSUME ~(\E p \in Project : Sweep(p) \/ Put(p))
      PROVE  rows' = rows /\ swept' = swept
  BY <1>3 DEF Next, vars, cache, world, history, Change, Begin, Interrupt, Disappeared, Hit,
              Convert
<1> QED
  BY <1>1, <1>2, <1>3 DEF Swept, Cached

(* Every conversion paid for stays accounted for. *)
LEMMA PaidStep ==
  ASSUME CacheTypes, HeldIsCurrent, PaidIsAccounted, [Next]_vars
  PROVE  PaidIsAccounted'
<1> SUFFICES ASSUME NEW q \in Project, NEW u \in Unit, NEW v \in Nat, <<q, u, v>> \in paid'
             PROVE  \/ <<q, u, v>> \in lost' \/ Making(q, u, v)'
                    \/ Swept(u, v)' \/ Cached(u, v)' # {}
  BY DEF PaidIsAccounted
<1> DEFINE t == <<q, u, v>>
           Goal == t \in lost' \/ Making(q, u, v)' \/ Swept(u, v)' \/ Cached(u, v)' # {}
<1> USE DEF CacheTypes
<1>1. t \in paid => t \in lost \/ Making(q, u, v) \/ Swept(u, v) \/ Cached(u, v) # {}
  BY DEF PaidIsAccounted
<1>2. Swept(u, v) \/ Cached(u, v) # {} => Goal
  BY StoredOrSwept
<1>3. ASSUME NEW p \in Project, NEW w \in Unit, Convert(p, w)
      PROVE  Goal
  <2> DEFINE row == [unit |-> w, version |-> Current(p, w), outcome |-> Outcome(w)]
             conversion == <<p, w, Current(p, w)>>
  <2>1. /\ made' = [made EXCEPT ![p] = {row}] /\ made[p] = {}
        /\ paid' = paid \cup {conversion} /\ lost' = lost \ {conversion}
    BY <1>3 DEF Convert, Meet
  <2>2. row.unit = w /\ row.version = Current(p, w)
    OBVIOUS
  <2>3. CASE t = conversion
    <3>1. q = p /\ u = w /\ v = Current(p, w)
      BY <2>3
    <3> HIDE DEF row, conversion
    <3>2. row \in made'[q]
      BY <2>1, <3>1
    <3> QED
      BY <2>2, <3>1, <3>2 DEF Making
  <2>4. CASE t # conversion
    <3> HIDE DEF row, conversion
    <3>1. t \in paid /\ (t \in lost => t \in lost')
      BY <2>1, <2>4
    <3>2. Making(q, u, v) => Making(q, u, v)'
      BY <2>1 DEF Making
    <3> QED
      BY <1>1, <1>2, <3>1, <3>2
  <2> QED
    BY <2>3, <2>4
<1>4. ASSUME NEW p \in Project, Put(p)
      PROVE  Goal
  <2>1. PICK row \in made[p] : rows' = rows \cup {row}
    BY <1>4 DEF Put, Store
  <2>2. t \in paid /\ lost' = lost
    BY <1>4 DEF Put
  <2>3. CASE Making(q, u, v) /\ q = p
    <3>1. row.unit = u /\ row.version = v
      BY <2>1, <2>3 DEF Making, HeldIsCurrent
    <3> QED
      BY <2>1, <3>1 DEF Cached
  <2>4. CASE Making(q, u, v) /\ q # p
    BY <1>4, <2>4 DEF Put, Making
  <2> QED
    BY <1>1, <1>2, <2>2, <2>3, <2>4
<1>5. ASSUME NEW p \in Project, Sweep(p)
      PROVE  Goal
  <2>1. t \in paid /\ lost' = lost /\ made[p] = {}
    BY <1>5 DEF Sweep
  <2>2. Making(q, u, v) => Making(q, u, v)'
    BY <1>5, <2>1 DEF Sweep, Leave, Making
  <2> QED
    BY <1>1, <1>2, <2>1, <2>2
<1>6. ASSUME NEW p \in Project, Interrupt(p)
      PROVE  Goal
  <2>1. t \in paid /\ lost' = lost \cup {<<p, row.unit, row.version>> : row \in made[p]}
    BY <1>6 DEF Interrupt
  <2>2. CASE Making(q, u, v) /\ q = p
    BY <2>1, <2>2 DEF Making
  <2>3. CASE Making(q, u, v) /\ q # p
    BY <1>6, <2>3 DEF Interrupt, Leave, Making
  <2> QED
    BY <1>1, <1>2, <2>1, <2>2, <2>3
<1>7. ASSUME ~(\E p \in Project : Put(p) \/ Sweep(p) \/ Interrupt(p)),
             ~(\E p \in Project, w \in Unit : Convert(p, w))
      PROVE  paid' = paid /\ lost' = lost /\ made' = made
  BY <1>7 DEF Next, vars, cache, world, history, Change, Begin, Disappeared, Hit
<1>8. CASE paid' = paid /\ lost' = lost /\ made' = made
  BY <1>1, <1>2, <1>8 DEF Making
<1> QED
  BY <1>3, <1>4, <1>5, <1>6, <1>7, <1>8

(* What a sync has read stays accounted for. *)
LEMMA TakenStep ==
  ASSUME CacheTypes, TakenIsAccounted, [Next]_vars
  PROVE  TakenIsAccounted'
<1> SUFFICES ASSUME NEW q \in Project, NEW row \in taken'[q]
             PROVE  Swept(row.unit, row.version)' \/ Cached(row.unit, row.version)' # {}
  BY DEF TakenIsAccounted
<1> DEFINE Goal == Swept(row.unit, row.version)' \/ Cached(row.unit, row.version)' # {}
<1> USE DEF CacheTypes
<1>1. row \in taken[q] => Goal
  BY StoredOrSwept DEF TakenIsAccounted
<1>2. ASSUME NEW p \in Project, NEW u \in Unit, Hit(p, u)
      PROVE  Goal
  <2>1. PICK hit \in Cached(u, Current(p, u)) : Take(p, hit)
    BY <1>2 DEF Hit
  <2>2. row \in taken[q] \/ row = hit
    BY <2>1 DEF Take
  <2>3. hit \in rows' /\ hit \in rows
    BY <1>2, <2>1 DEF Hit, cache, Cached
  <2> QED
    BY <1>1, <2>2, <2>3 DEF Cached
<1>3. ASSUME NEW p \in Project, Put(p)
      PROVE  Goal
  <2>1. PICK new \in made[p] : rows' = rows \cup {new} /\ Take(p, new)
    BY <1>3 DEF Put, Store
  <2>2. row \in taken[q] \/ row = new
    BY <2>1 DEF Take
  <2> QED
    BY <1>1, <2>1, <2>2 DEF Cached
<1>4. ASSUME NEW p \in Project, Leave(p)
      PROVE  row \in taken[q]
  BY <1>4 DEF Leave
<1>5. ASSUME ~(\E p \in Project : Put(p) \/ Leave(p)),
             ~(\E p \in Project, u \in Unit : Hit(p, u))
      PROVE  taken' = taken
  BY <1>5 DEF Next, vars, cache, world, Change, Begin, Sweep, Interrupt, Disappeared, Convert
<1> QED
  BY <1>1, <1>2, <1>3, <1>4, <1>5

LEMMA NextKeeps == IInv /\ [Next]_vars => IInv'
BY TypeStep, HeldStep, RowsStep, PaidStep, TakenStep DEF IInv

(* The invariant holds of every reachable state. *)
THEOREM Invariance == Spec => []IInv
BY InitKeeps, NextKeeps, PTL DEF Spec
-----------------------------------------------------------------------------
(* However many releases were skipped or mixed, a row of a swept converter is
   of the version it was swept for or was stored after that sweep. *)
THEOREM SweptStaysSwept == Spec => []NoneBehindGeneration
<1>1. IInv => NoneBehindGeneration
  BY DEF IInv
<1> QED
  BY Invariance, <1>1, PTL

(* A conversion made before is made again only if it was lost before it was
   stored, is not stored yet, or was swept. *)
THEOREM ConvertedAgainForCause == Spec => PaidAgainForCause
<1>1. IInv /\ [Next]_vars =>
        [\A p, q \in Project, u \in Unit :
           LET v == Current(p, u)
           IN Convert(p, u) /\ <<q, u, v>> \in paid =>
                \/ <<q, u, v>> \in lost
                \/ \E row \in made[q] : row.unit = u /\ row.version = v
                \/ <<u, v>> \in swept]_vars
  <2> SUFFICES ASSUME IInv, NEW p \in Project, NEW q \in Project, NEW u \in Unit,
                      Convert(p, u), <<q, u, Current(p, u)>> \in paid
               PROVE  \/ <<q, u, Current(p, u)>> \in lost
                      \/ \E row \in made[q] : row.unit = u /\ row.version = Current(p, u)
                      \/ <<u, Current(p, u)>> \in swept
    OBVIOUS
  <2>1. Current(p, u) \in Nat /\ Cached(u, Current(p, u)) = {}
    BY CurrentType DEF IInv, Convert, Meet
  <2> QED
    BY <2>1 DEF IInv, PaidIsAccounted, Making, Swept
<1> QED
  BY Invariance, <1>1, PTL DEF Spec, PaidAgainForCause

(* When a sync sweeps, what it has read is there in its release's version,
   unless another release swept that meanwhile. *)
THEOREM SweepKeepsWhatWasRead == Spec => SweepsOnlyReplaced
<1>1. IInv /\ [Next]_vars =>
        [\A p \in Project : Sweep(p) =>
           \A u \in Listed(p) :
             Cached(u, Current(p, u)) \cap rows' # {} \/ <<u, Current(p, u)>> \in swept]_vars
  <2> SUFFICES ASSUME IInv, NEW p \in Project, Sweep(p), NEW u \in Listed(p),
                      <<u, Current(p, u)>> \notin swept
               PROVE  Cached(u, Current(p, u)) \cap rows' # {}
    OBVIOUS
  <2>1. PICK row \in taken[p] : row.unit = u
    BY DEF Sweep, Listed
  <2>2. row.version = Current(p, u)
    BY <2>1 DEF IInv, HeldIsCurrent
  <2>3. PICK kept \in rows : kept.unit = u /\ kept.version = Current(p, u)
    BY <2>1, <2>2 DEF IInv, TakenIsAccounted, Swept, Cached
  <2>4. kept \notin Outdated(p)
    BY <2>3 DEF Outdated, Superseded, Current
  <2>5. kept \in rows'
    BY <2>3, <2>4 DEF Sweep, SweepCache
  <2> QED
    BY <2>3, <2>5 DEF Cached
<1> QED
  BY Invariance, <1>1, PTL DEF Spec, SweepsOnlyReplaced
=============================================================================
