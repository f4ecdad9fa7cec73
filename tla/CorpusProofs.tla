---------------------------- MODULE CorpusProofs ----------------------------
(***************************************************************************)
(* The corpus, for any of it: the numbers of folders and the keys of files *)
(* under any corpus lists and any history of them, the sections of any     *)
(* chapters and their refs, the dates of any files, the pages in which any *)
(* selection is read.                                                      *)
(***************************************************************************)
EXTENDS Roots, Documents, Pagination, FiniteSetTheorems, NaturalsInduction,
        SequenceTheorems, WellFoundedInduction, TLAPS

\* Rows that a roots table may have: no number twice, a greatest one.
Numbering(numbers) ==
  /\ numbers \in [DOMAIN numbers -> Nat] /\ DOMAIN numbers \subseteq Folder
  /\ IsInjective(numbers)
  /\ \E n \in Nat : \A f \in DOMAIN numbers : numbers[f] <= n

\* Every number in a key is some folder's, and a live key names a place.
Numbered(numbers) ==
  \A k \in DOMAIN units : \E f \in DOMAIN numbers :
    numbers[f] = k[1] /\ (units[k] = "live" => <<f, k[2]>> \in Place)

RootTypes ==
  /\ original \in Originals /\ config \in Configs
  /\ entry \in [Place -> File \cup {None}] /\ there \subseteq Folder
  /\ units \in [DOMAIN units -> {"live", "retired"}]
  /\ DOMAIN units \subseteq Nat \X Nat
  /\ DOMAIN home = DOMAIN units
  /\ pc \in {"idle", "walk"}
  /\ Numbering(roots)

\* Of a new ledger only.
HomesNumbered ==
  original = <<>> =>
    \A k \in DOMAIN home : home[k] \in DOMAIN roots /\ roots[home[k]] = k[1]

HomesPlaced == \A k \in DOMAIN units : <<home[k], k[2]>> \in Place

KeysNumbered == roots # <<>> => Numbered(roots)

\* What a scan has bound: nothing is renumbered, and a folder of the list has
\* the number of the sources found in it unless the user said otherwise.
Bound ==
  /\ Numbering(bound)
  /\ \A f \in DOMAIN roots : f \in DOMAIN bound /\ bound[f] = roots[f]
  /\ Range(config) \subseteq DOMAIN bound
  /\ \A k \in DOMAIN units : \E f \in DOMAIN bound : bound[f] = k[1]
  /\ roots # <<>> => Numbered(bound)

\* The number of k names a folder that the files did not contradict.
Excused(k, h) ==
  \E f \in DOMAIN bound :
    /\ bound[f] = k[1]
    /\ \/ \E name \in LiveNames(k[1]) : <<f, name>> \in Place
       \/ \A q \in DOMAIN units : q[1] < bound[h]

Uncontradicted ==
  \A k \in DOMAIN units, h \in Range(config) :
    /\ units[k] = "live"
    /\ <<h, k[2]>> \in Place \ gone
    => bound[h] = k[1] \/ Excused(k, h)

\* What the walk has listed so far.
Walked ==
  /\ plan \subseteq Range(config)
  /\ Range(config) \subseteq there \cup lost
  /\ \A u \in listed : \E p \in Place :
       p[1] \in DOMAIN bound /\ u.key = Key(bound[p[1]], p[2])
  /\ \A p \in Place : p[1] \in Range(config) \ plan /\ p \notin gone
                        /\ Key(bound[p[1]], p[2]) \in DOMAIN units =>
       \E u \in listed : u.key = Key(bound[p[1]], p[2])

Scanning == pc = "walk" => Bound /\ Uncontradicted /\ Walked

Noticed == Empty(entry) \subseteq gone

IInv ==
  /\ RootTypes /\ HomesNumbered /\ HomesPlaced /\ KeysNumbered
  /\ Scanning /\ Noticed /\ NewKeysDistinct
-----------------------------------------------------------------------------
(***************************************************************************)
(* Numbers of folders.                                                     *)
(***************************************************************************)
(* A nonempty set of naturals has a least element. *)
LEMMA LeastNatural ==
  ASSUME NEW S \in SUBSET Nat, S # {}
  PROVE  \E m \in S : \A x \in S : m <= x
<1> DEFINE R == {ss \in Nat \X Nat : ss[1] < ss[2]}
<1>1. IsWellFoundedOn(R, Nat)
  BY NatLessThanWellFounded, Zenon DEF OpToRel
<1>2. PICK m \in S : \A y \in S : ~(<<y, m>> \in R)
  BY <1>1, WFMin
<1>3. \A y \in S : ~(y < m)
  BY <1>2
<1> QED
  BY <1>3

(* A nonempty bounded set of naturals has a greatest element. *)
LEMMA GreatestNatural ==
  ASSUME NEW S \in SUBSET Nat, S # {}, NEW n \in Nat, \A x \in S : x <= n
  PROVE  \E m \in S : \A x \in S : x <= m
<1> DEFINE T == {n - x : x \in S}
<1>1. T \in SUBSET Nat /\ T # {}
  <2>1. \A x \in S : n - x \in Nat
    OBVIOUS
  <2>2. T \in SUBSET Nat
    BY <2>1
  <2>3. PICK x \in S : TRUE
    OBVIOUS
  <2>4. n - x \in T
    BY <2>3
  <2> QED
    BY <2>2, <2>4
<1>2. PICK t \in T : \A y \in T : t <= y
  BY <1>1, LeastNatural
<1>3. PICK m \in S : t = n - m
  OBVIOUS
<1>4. \A x \in S : n - m <= n - x
  BY <1>2, <1>3
<1> QED
  BY <1>4

(* A folder of a list has a first position in it. *)
LEMMA FirstFound ==
  ASSUME NEW paths \in Seq(Folder), NEW f \in Range(paths)
  PROVE  FirstAt(paths, f) \in DOMAIN paths /\ paths[FirstAt(paths, f)] = f
<1> DEFINE At == {i \in DOMAIN paths : paths[i] = f}
<1>1. At \in SUBSET Nat /\ At # {}
  BY DEF Range
<1>2. PICK m \in At : \A i \in At : m <= i
  BY <1>1, LeastNatural
<1>3. /\ m \in DOMAIN paths /\ paths[m] = f
      /\ \A j \in 1..m-1 : paths[j] # f
  <2>1. \A j \in 1..m-1 : j \in DOMAIN paths /\ ~(m <= j)
    OBVIOUS
  <2> QED
    BY <1>2, <2>1
<1> QED
  BY <1>3 DEF FirstAt

(* The next number is above those given. *)
LEMMA NextIsAbove ==
  ASSUME NEW numbers, Numbering(numbers)
  PROVE  /\ NextNumber(numbers) \in Nat
         /\ \A f \in DOMAIN numbers : numbers[f] < NextNumber(numbers)
<1>1. numbers \in [DOMAIN numbers -> Nat]
  BY DEF Numbering
<1>2. CASE numbers = <<>>
  <2>1. DOMAIN numbers = {}
    BY <1>2
  <2> QED
    BY <1>2, <2>1 DEF NextNumber
<1>3. CASE numbers # <<>>
  <2>1. Range(numbers) \in SUBSET Nat /\ Range(numbers) # {}
    <3>1. DOMAIN numbers # {}
      BY <1>1, <1>3
    <3> QED
      BY <1>1, <3>1 DEF Range
  <2>2. PICK n \in Nat : \A x \in Range(numbers) : x <= n
    BY DEF Numbering, Range
  <2>3. PICK m \in Range(numbers) : \A x \in Range(numbers) : x <= m
    BY <2>1, <2>2, GreatestNatural
  <2> DEFINE last == CHOOSE x \in Range(numbers) : \A y \in Range(numbers) : y <= x
  <2>4. last \in Range(numbers) /\ \A y \in Range(numbers) : y <= last
    BY <2>3
  <2>5. NextNumber(numbers) = 1 + last
    BY <1>3 DEF NextNumber
  <2> HIDE DEF last
  <2>6. \A f \in DOMAIN numbers : numbers[f] \in Range(numbers)
    BY DEF Range
  <2> QED
    BY <2>1, <2>4, <2>5, <2>6
<1> QED
  BY <1>2, <1>3

(* A list names finitely many folders. *)
LEMMA ListIsFinite ==
  ASSUME NEW paths \in Seq(Folder)
  PROVE  IsFiniteSet(Range(paths))
<1>1. /\ IsFiniteSet(1..Len(paths))
      /\ DOMAIN paths = 1..Len(paths)
  BY FS_Interval
<1>2. paths \in Surjection(1..Len(paths), Range(paths))
  BY <1>1 DEF Surjection, Range
<1> QED
  BY <1>1, <1>2, FS_Surjection

(* New folders get numbers of their own, above those given before. *)
LEMMA RanksDiffer ==
  ASSUME NEW existing, NEW paths \in Seq(Folder),
         NEW f \in Range(paths) \ DOMAIN existing,
         NEW g \in Range(paths) \ DOMAIN existing, f # g
  PROVE  /\ Cardinality(Ahead(existing, paths, f)) \in Nat
         /\ Cardinality(Ahead(existing, paths, f)) <= Cardinality(Range(paths))
         /\ Cardinality(Ahead(existing, paths, f)) # Cardinality(Ahead(existing, paths, g))
<1> DEFINE A(x) == Ahead(existing, paths, x)
           F(x) == FirstAt(paths, x)
<1>1. ASSUME NEW x \in Range(paths)
      PROVE  F(x) \in Nat /\ paths[F(x)] = x
  BY <1>1, FirstFound
<1>2. ASSUME NEW x
      PROVE  /\ IsFiniteSet(A(x)) /\ Cardinality(A(x)) \in Nat
             /\ Cardinality(A(x)) <= Cardinality(Range(paths))
  <2>1. A(x) \in SUBSET Range(paths)
    BY DEF Ahead
  <2> QED
    BY <2>1, ListIsFinite, FS_Subset, FS_CardinalityType
<1>3. ASSUME NEW x \in Range(paths) \ DOMAIN existing,
             NEW y \in Range(paths) \ DOMAIN existing, F(x) < F(y)
      PROVE  Cardinality(A(x)) # Cardinality(A(y))
  <2>1. A(x) \in SUBSET A(y) /\ x \in A(y) /\ x \notin A(x)
    BY <1>1, <1>3 DEF Ahead
  <2> QED
    BY <1>2, <2>1, FS_Subset
<1>4. F(f) < F(g) \/ F(g) < F(f)
  <2>1. F(f) # F(g)
    BY <1>1
  <2> QED
    BY <1>1, <2>1
<1> QED
  BY <1>2, <1>3, <1>4

(* Binding a list renumbers nothing and gives no number twice. *)
LEMMA BindNumbers ==
  ASSUME NEW existing, Numbering(existing), NEW paths \in Seq(Folder)
  PROVE  /\ Numbering(Bind(existing, paths))
         /\ DOMAIN Bind(existing, paths) = DOMAIN existing \cup Range(paths)
         /\ \A f \in DOMAIN existing : Bind(existing, paths)[f] = existing[f]
         /\ \A f \in Range(paths) \ DOMAIN existing :
              Bind(existing, paths)[f] >= NextNumber(existing)
<1> DEFINE rank(f) == Cardinality(Ahead(existing, paths, f))
           next == NextNumber(existing)
           size == Cardinality(Range(paths))
           old == DOMAIN existing
           new == Range(paths) \ DOMAIN existing
<1>1. /\ existing \in [old -> Nat] /\ old \subseteq Folder
      /\ \A f, g \in old : existing[f] = existing[g] => f = g
  BY DEF Numbering, IsInjective
<1>2. next \in Nat /\ \A f \in old : existing[f] < next
  BY NextIsAbove
<1>3. size \in Nat
  BY ListIsFinite, FS_CardinalityType
<1>4. \A f \in new : rank(f) \in Nat /\ rank(f) <= size
  <2> TAKE f \in new
  <2>1. Ahead(existing, paths, f) \in SUBSET Range(paths)
    BY DEF Ahead
  <2> QED
    BY <2>1, ListIsFinite, FS_Subset, FS_CardinalityType
<1>5. \A f, g \in new : f # g => rank(f) # rank(g)
  BY RanksDiffer
<1>6. PICK b : /\ b = Bind(existing, paths)
               /\ b = [f \in old \cup new |-> IF f \in old THEN existing[f]
                                             ELSE next + rank(f)]
  <2>1. old \cup new = old \cup Range(paths)
    OBVIOUS
  <2> QED
    BY <2>1 DEF Bind
<1> HIDE DEF next, size
<1>7. /\ DOMAIN b = old \cup new
      /\ \A f \in old : b[f] = existing[f]
      /\ \A f \in new : b[f] = next + rank(f)
  BY <1>6
<1> HIDE DEF rank
<1>8. \A f \in DOMAIN b : b[f] \in Nat /\ b[f] <= next + size
  BY <1>1, <1>2, <1>3, <1>4, <1>7
<1>9. IsInjective(b)
  <2> SUFFICES ASSUME NEW f \in DOMAIN b, NEW g \in DOMAIN b, b[f] = b[g]
               PROVE  f = g
    BY DEF IsInjective
  <2>1. CASE f \in old /\ g \in old
    BY <1>1, <1>7, <2>1
  <2>2. CASE f \in new /\ g \in new
    BY <1>2, <1>4, <1>5, <1>7, <2>2
  <2>3. CASE f \in old /\ g \in new
    BY <1>1, <1>2, <1>4, <1>7, <2>3
  <2>4. CASE f \in new /\ g \in old
    BY <1>1, <1>2, <1>4, <1>7, <2>4
  <2> QED
    BY <1>7, <2>1, <2>2, <2>3, <2>4
<1>10. \A f \in new : b[f] >= next
  BY <1>2, <1>4, <1>7
<1>11. Numbering(b)
  <2>1. b \in [DOMAIN b -> Nat]
    BY <1>6, <1>8
  <2>2. DOMAIN b \subseteq Folder
    BY <1>1, <1>7 DEF Range
  <2>3. next + size \in Nat
    BY <1>2, <1>3
  <2> QED
    BY <1>8, <1>9, <2>1, <2>2, <2>3 DEF Numbering
<1>12. DOMAIN b = old \cup Range(paths)
  BY <1>7
<1> QED
  BY <1>6, <1>7, <1>10, <1>11, <1>12 DEF next

(* The rows of a list of distinct folders, numbered from 0. *)
LEMMA PositionsNumber ==
  ASSUME NEW given \in Seq(Folder), IsInjective(given)
  PROVE  /\ Numbering(Positions(given))
         /\ DOMAIN Positions(given) = Range(given)
         /\ \A i \in DOMAIN given : Positions(given)[given[i]] = i - 1
<1> DEFINE numbers == Positions(given)
<1>1. \A i \in DOMAIN given : given[i] \in Range(given) /\ i \in 1..Len(given)
  BY DEF Range
<1>2. \A i \in DOMAIN given : FirstAt(given, given[i]) = i
  BY <1>1, FirstFound DEF IsInjective
<1>3. \A f \in Range(given) : \E i \in DOMAIN given : f = given[i]
  BY DEF Range
<1>4. \A i \in DOMAIN given : numbers[given[i]] = i - 1
  BY <1>1, <1>2 DEF Positions
<1>5. numbers \in [Range(given) -> Nat]
  <2>1. \A f \in Range(given) : FirstAt(given, f) - 1 \in Nat
    BY <1>1, <1>2, <1>3
  <2> QED
    BY <2>1 DEF Positions
<1> HIDE DEF numbers
<1>6. IsInjective(numbers)
  <2> SUFFICES ASSUME NEW f \in Range(given), NEW g \in Range(given),
                      numbers[f] = numbers[g]
               PROVE  f = g
    BY <1>5 DEF IsInjective
  <2>1. PICK i \in DOMAIN given, j \in DOMAIN given : f = given[i] /\ g = given[j]
    BY <1>3
  <2> QED
    BY <1>1, <1>4, <2>1
<1>7. \A f \in DOMAIN numbers : numbers[f] <= Len(given)
  <2> TAKE f \in DOMAIN numbers
  <2>1. PICK i \in DOMAIN given : f = given[i]
    BY <1>3, <1>5
  <2> QED
    BY <1>1, <1>4, <2>1
<1>8. Range(given) \subseteq Folder /\ Len(given) \in Nat
  BY DEF Range
<1>9. Numbering(numbers)
  BY <1>5, <1>6, <1>7, <1>8 DEF Numbering
<1>10. DOMAIN numbers = Range(given)
  BY <1>5
<1> QED
  BY <1>4, <1>9, <1>10 DEF numbers

(* What root_ids starts from: the table, or the user's list for a ledger that
   has none, covering every number and contradicted by no file. *)
LEMMA ExistingNumbers ==
  ASSUME RootsAssumption, RootTypes, KeysNumbered,
         NEW given \in Given, Existing(given) # None
  PROVE  /\ Numbering(Existing(given))
         /\ \/ /\ Existing(given) = roots
               /\ roots # <<>> \/ DOMAIN units = {}
            \/ /\ roots = <<>>
               /\ given \in Seq(Folder) /\ Existing(given) = Positions(given)
               /\ DOMAIN Positions(given) = Range(given)
               /\ \A i \in DOMAIN given : Positions(given)[given[i]] = i - 1
               /\ \A k \in DOMAIN units : k[1] < Len(given)
               /\ \A i \in DOMAIN given : ~Conflict(given, i)
<1>1. CASE roots # <<>> \/ units = <<>>
  <2>1. Existing(given) = roots
    BY <1>1 DEF Existing
  <2>2. units = <<>> => DOMAIN units = {}
    OBVIOUS
  <2> QED
    BY <1>1, <2>1, <2>2 DEF RootTypes
<1>2. CASE roots = <<>> /\ units # <<>>
  <2>1. given # None
    BY <1>2 DEF Existing
  <2>2. given \in Seq(Folder)
    BY <2>1 DEF RootsAssumption
  <2>3. /\ IsInjective(given) /\ \A k \in DOMAIN units : k[1] < Len(given)
        /\ \A i \in DOMAIN given : ~Conflict(given, i)
        /\ Existing(given) = Positions(given)
    BY <1>2, <2>1 DEF Existing
  <2> QED
    BY <1>2, <2>2, <2>3, PositionsNumber
<1> QED
  BY <1>1, <1>2
-----------------------------------------------------------------------------
(***************************************************************************)
(* The invariant.                                                          *)
(***************************************************************************)
LEMMA InitKeeps ==
  ASSUME RootsAssumption, Init
  PROVE  IInv
<1> USE DEF Init
<1>1. Numbering(<<>>)
  <2>1. DOMAIN <<>> = {} /\ 0 \in Nat
    OBVIOUS
  <2>2. <<>> \in [{} -> Nat]
    BY <2>1
  <2> QED
    BY <2>1, <2>2 DEF Numbering, IsInjective
<1>2. /\ DOMAIN units = {k \in LegacyKeys : HomeOf(k) \in Place}
      /\ DOMAIN home = DOMAIN units
      /\ \A k \in DOMAIN units : home[k] = HomeOf(k)[1]
  OBVIOUS
<1>3. DOMAIN units \subseteq Nat \X Nat
  <2>1. original \in Seq(Folder)
    BY DEF RootsAssumption
  <2>2. \A n \in DOMAIN original : n - 1 \in Nat
    BY <2>1
  <2>3. \A p \in Place : p[2] \in Nat
    BY DEF RootsAssumption
  <2> QED
    BY <1>2, <2>2, <2>3 DEF LegacyKeys, Key
<1>4. RootTypes
  <2>1. units \in [DOMAIN units -> {"live", "retired"}]
    OBVIOUS
  <2> QED
    BY <1>1, <1>2, <1>3, <2>1 DEF RootTypes
<1>5. HomesNumbered
  BY <1>2 DEF HomesNumbered, LegacyKeys
<1>6. HomesPlaced
  BY <1>2 DEF HomesPlaced, HomeOf
<1>7. KeysNumbered /\ Scanning /\ Noticed /\ NewKeysDistinct
  BY DEF KeysNumbered, Scanning, Noticed, NewKeysDistinct
<1> QED
  BY <1>4, <1>5, <1>6, <1>7 DEF IInv

LEMMA ExcusesStay ==
  ASSUME UNCHANGED <<units, bound>>, NEW k, NEW h
  PROVE  Excused(k, h) => Excused(k, h)'
<1>1. LiveNames(k[1])' = LiveNames(k[1])
  BY DEF LiveNames
<1> QED
  BY <1>1 DEF Excused

LEMMA ChangeKeeps ==
  ASSUME RootsAssumption, IInv, NEW p \in Place, Change(p)
  PROVE  IInv'
<1> USE DEF IInv, Change, Edit, rows, scan
<1>1. RootTypes'
  BY DEF RootTypes, Numbering, IsInjective
<1>2. HomesNumbered' /\ HomesPlaced' /\ KeysNumbered' /\ NewKeysDistinct'
  BY DEF HomesNumbered, HomesPlaced, KeysNumbered, Numbered, NewKeysDistinct
<1>3. Noticed'
  BY DEF Noticed, Empty
<1>4. gone \subseteq gone'
  OBVIOUS
<1>5. ASSUME pc' = "walk"
      PROVE  Bound' /\ Uncontradicted' /\ Walked'
  <2>1. Bound /\ Uncontradicted /\ Walked
    BY <1>5 DEF Scanning
  <2>2. Bound'
    BY <2>1 DEF Bound, Numbering, IsInjective, Numbered
  <2>3. Uncontradicted'
    BY <1>4, <2>1, ExcusesStay DEF Uncontradicted
  <2>4. Walked'
    BY <1>4, <2>1 DEF Walked
  <2> QED
    BY <2>2, <2>3, <2>4
<1> QED
  BY <1>1, <1>2, <1>3, <1>5 DEF Scanning

LEMMA UnplugKeeps ==
  ASSUME RootsAssumption, IInv, NEW folder \in Folder, Unplug(folder)
  PROVE  IInv'
<1> USE DEF IInv, Unplug, Edit, rows, scan
<1>1. RootTypes'
  BY DEF RootTypes, Numbering, IsInjective
<1>2. HomesNumbered' /\ HomesPlaced' /\ KeysNumbered' /\ NewKeysDistinct'
  BY DEF HomesNumbered, HomesPlaced, KeysNumbered, Numbered, NewKeysDistinct
<1>3. Noticed'
  BY DEF Noticed, Empty
<1>4. there \cup lost \subseteq there' \cup lost'
  OBVIOUS
<1>5. ASSUME pc' = "walk"
      PROVE  Bound' /\ Uncontradicted' /\ Walked'
  <2>1. Bound /\ Uncontradicted /\ Walked
    BY <1>5 DEF Scanning
  <2>2. Bound'
    BY <2>1 DEF Bound, Numbering, IsInjective, Numbered
  <2>3. Uncontradicted'
    BY <2>1, ExcusesStay DEF Uncontradicted
  <2>4. Walked'
    BY <1>4, <2>1 DEF Walked
  <2> QED
    BY <2>2, <2>3, <2>4
<1> QED
  BY <1>1, <1>2, <1>3, <1>5 DEF Scanning

LEMMA ConfigureKeeps ==
  ASSUME RootsAssumption, IInv, NEW list \in Configs, Configure(list)
  PROVE  IInv'
<1> USE DEF IInv, Configure, rows, scan, history
<1>1. RootTypes'
  BY DEF RootTypes, Numbering, IsInjective
<1>2. HomesNumbered' /\ HomesPlaced' /\ KeysNumbered' /\ NewKeysDistinct'
  BY DEF HomesNumbered, HomesPlaced, KeysNumbered, Numbered, NewKeysDistinct
<1>3. Noticed' /\ Scanning'
  BY DEF Noticed, Empty, Scanning
<1> QED
  BY <1>1, <1>2, <1>3

LEMMA AbortKeeps ==
  ASSUME RootsAssumption, IInv, Abort
  PROVE  IInv'
<1> USE DEF IInv, Abort, world, rows, history
<1>1. RootTypes'
  BY DEF RootTypes, Numbering, IsInjective
<1>2. HomesNumbered' /\ HomesPlaced' /\ KeysNumbered' /\ NewKeysDistinct'
  BY DEF HomesNumbered, HomesPlaced, KeysNumbered, Numbered, NewKeysDistinct
<1>3. Noticed' /\ Scanning'
  BY DEF Noticed, Empty, Scanning
<1> QED
  BY <1>1, <1>2, <1>3

(* A list that the files do not contradict misleads nobody about a source
   that is in its place. *)
LEMMA BeginUncontradicted ==
  ASSUME RootsAssumption, IInv, NEW given \in Given, Begin(given)
  PROVE  Uncontradicted'
<1> DEFINE e == Existing(given)
<1>1. /\ config' = config /\ units' = units /\ config \in Seq(Folder)
      /\ Range(config) \subseteq there
      /\ bound' = Bind(e, config) /\ gone' = Empty(entry)
  BY DEF Begin, world, rows, IInv, RootTypes, RootsAssumption
<1>2. /\ Numbering(e)
      /\ \/ e = roots /\ (roots # <<>> \/ DOMAIN units = {})
         \/ /\ roots = <<>>
            /\ given \in Seq(Folder) /\ e = Positions(given)
            /\ DOMAIN Positions(given) = Range(given)
            /\ \A i \in DOMAIN given : Positions(given)[given[i]] = i - 1
            /\ \A k \in DOMAIN units : k[1] < Len(given)
            /\ \A i \in DOMAIN given : ~Conflict(given, i)
  BY ExistingNumbers DEF Begin, IInv
<1> HIDE DEF e
<1>3. /\ DOMAIN bound' = DOMAIN e \cup Range(config)
      /\ \A f \in DOMAIN e : bound'[f] = e[f]
      /\ \A f \in Range(config) \ DOMAIN e : bound'[f] >= NextNumber(e)
  BY <1>1, <1>2, BindNumbers
<1> SUFFICES ASSUME NEW k \in DOMAIN units, NEW h \in Range(config),
                    units[k] = "live", <<h, k[2]>> \in Place \ Empty(entry)
             PROVE  bound'[h] = k[1] \/ Excused(k, h)'
  BY <1>1 DEF Uncontradicted
<1>4. LiveNames(k[1])' = LiveNames(k[1]) /\ k[2] \in LiveNames(k[1])
  <2>1. k = <<k[1], k[2]>>
    BY DEF IInv, RootTypes
  <2> QED
    BY <1>1, <2>1 DEF LiveNames
<1>5. CASE e = roots /\ (roots # <<>> \/ DOMAIN units = {})
  <2>1. PICK f \in DOMAIN roots : roots[f] = k[1] /\ <<f, k[2]>> \in Place
    BY <1>5 DEF IInv, KeysNumbered, Numbered
  <2>2. f \in DOMAIN bound' /\ bound'[f] = k[1]
    BY <1>3, <1>5, <2>1
  <2> QED
    BY <1>4, <2>1, <2>2 DEF Excused
<1>6. CASE /\ roots = <<>>
           /\ given \in Seq(Folder) /\ e = Positions(given)
           /\ DOMAIN Positions(given) = Range(given)
           /\ \A i \in DOMAIN given : Positions(given)[given[i]] = i - 1
           /\ \A q \in DOMAIN units : q[1] < Len(given)
           /\ \A i \in DOMAIN given : ~Conflict(given, i)
  <2>1. \A q \in DOMAIN units :
          /\ q[1] \in Nat /\ q[1] + 1 \in DOMAIN given /\ (q[1] + 1) - 1 = q[1]
    BY <1>6 DEF IInv, RootTypes
  <2>2. \A i \in DOMAIN given : given[i] \in Range(given)
    BY DEF Range
  <2>3. \A q \in DOMAIN units : /\ given[q[1] + 1] \in DOMAIN e
                                 /\ e[given[q[1] + 1]] = q[1]
    BY <1>6, <2>1, <2>2
  <2> DEFINE g == given[k[1] + 1]
  <2>4. g \in DOMAIN bound' /\ bound'[g] = k[1]
    BY <1>3, <2>3
  <2>5. Resolves(h, k[1])
    <3>1. Holds(h, k[2])
      BY <1>1 DEF Holds, Empty
    <3> QED
      BY <1>4, <3>1 DEF Resolves
  <2>6. CASE h \in Range(given)
    <3>1. PICK j \in DOMAIN given : h = given[j]
      BY <2>6 DEF Range
    <3>2. CASE j = k[1] + 1
      BY <2>4, <3>1, <3>2
    <3>3. CASE j # k[1] + 1
      <4>1. ~Conflict(given, k[1] + 1) /\ (k[1] + 1) - 1 = k[1]
        BY <1>6, <2>1
      <4>2. Resolves(g, k[1])
        BY <2>5, <3>1, <3>3, <4>1 DEF Conflict
      <4>3. \E name \in LiveNames(k[1]) : <<g, name>> \in Place
        BY <4>2 DEF Resolves, Holds
      <4> QED
        BY <1>4, <2>4, <4>3 DEF Excused
    <3> QED
      BY <3>2, <3>3
  <2>7. CASE h \notin Range(given)
    <3>1. bound'[h] >= NextNumber(e) /\ bound'[h] \in Nat
      <4>1. bound'[h] >= NextNumber(e)
        BY <1>3, <1>6, <2>7
      <4>2. Numbering(bound') /\ h \in DOMAIN bound'
        BY <1>1, <1>2, <1>3, BindNumbers
      <4> QED
        BY <4>1, <4>2 DEF Numbering
    <3>2. /\ NextNumber(e) \in Nat
          /\ \A f \in DOMAIN e : e[f] < NextNumber(e)
      BY <1>2, NextIsAbove
    <3>3. \A q \in DOMAIN units : q[1] < bound'[h]
      BY <2>1, <2>3, <3>1, <3>2
    <3> QED
      BY <1>1, <2>4, <3>3 DEF Excused
  <2> QED
    BY <2>6, <2>7
<1> QED
  BY <1>2, <1>5, <1>6

LEMMA BeginKeeps ==
  ASSUME RootsAssumption, IInv, NEW given \in Given, Begin(given)
  PROVE  IInv'
<1> USE DEF IInv, Begin, world, rows
<1> DEFINE e == Existing(given)
<1>1. RootTypes'
  BY DEF RootTypes, Numbering, IsInjective
<1>2. HomesNumbered' /\ HomesPlaced' /\ KeysNumbered'
  BY DEF HomesNumbered, HomesPlaced, KeysNumbered, Numbered
<1>3. NewKeysDistinct' /\ Noticed'
  BY DEF NewKeysDistinct, Noticed, Empty
<1>4. /\ Numbering(e)
      /\ \/ e = roots /\ (roots # <<>> \/ DOMAIN units = {})
         \/ /\ roots = <<>>
            /\ given \in Seq(Folder) /\ e = Positions(given)
            /\ DOMAIN Positions(given) = Range(given)
            /\ \A i \in DOMAIN given : Positions(given)[given[i]] = i - 1
            /\ \A k \in DOMAIN units : k[1] < Len(given)
  BY ExistingNumbers
<1>5. config \in Seq(Folder)
  BY DEF RootTypes, RootsAssumption
<1>6. /\ Numbering(Bind(e, config))
      /\ DOMAIN Bind(e, config) = DOMAIN e \cup Range(config)
      /\ \A f \in DOMAIN e : Bind(e, config)[f] = e[f]
  BY <1>4, <1>5, BindNumbers
<1>7. \A f \in DOMAIN roots : f \in DOMAIN e /\ e[f] = roots[f]
  <2>1. DOMAIN <<>> = {}
    OBVIOUS
  <2> QED
    BY <1>4, <2>1
<1>8. \A k \in DOMAIN units : \E f \in DOMAIN e : e[f] = k[1]
  <2>1. CASE e = roots /\ (roots # <<>> \/ DOMAIN units = {})
    BY <2>1 DEF KeysNumbered, Numbered
  <2>2. CASE /\ given \in Seq(Folder) /\ e = Positions(given)
             /\ DOMAIN Positions(given) = Range(given)
             /\ \A i \in DOMAIN given : Positions(given)[given[i]] = i - 1
             /\ \A k \in DOMAIN units : k[1] < Len(given)
    <3> TAKE k \in DOMAIN units
    <3>1. k[1] \in Nat /\ k[1] + 1 \in DOMAIN given
      BY <2>2 DEF RootTypes
    <3>2. given[k[1] + 1] \in Range(given)
      BY <3>1 DEF Range
    <3> QED
      BY <2>2, <3>1, <3>2
  <2> QED
    BY <1>4, <2>1, <2>2
<1> HIDE DEF e
<1>9. bound' = Bind(e, config)
  BY DEF e
<1>10. Bound'
  <2>1. Numbering(bound)'
    BY <1>6, <1>9 DEF Numbering, IsInjective
  <2>2. (\A f \in DOMAIN roots : f \in DOMAIN bound /\ bound[f] = roots[f])'
    BY <1>6, <1>7, <1>9
  <2>3. (Range(config) \subseteq DOMAIN bound)'
    BY <1>6, <1>9
  <2>4. (\A k \in DOMAIN units : \E f \in DOMAIN bound : bound[f] = k[1])'
    BY <1>6, <1>8, <1>9
  <2>5. (roots # <<>> => Numbered(bound))'
    BY <2>2 DEF KeysNumbered, Numbered
  <2> QED
    BY <2>1, <2>2, <2>3, <2>4, <2>5 DEF Bound
<1>11. Uncontradicted'
  BY BeginUncontradicted
<1>12. Walked'
  BY DEF Walked, Distinct
<1> QED
  BY <1>1, <1>2, <1>3, <1>10, <1>11, <1>12 DEF Scanning

(* Of one folder's entries, no two new ones are one file, and no new one was
   listed before. *)
LEMMA EntriesDistinct ==
  ASSUME RootsAssumption, NewKeysDistinct, NEW folder, NEW listing,
         listing = listed \cup Entries(folder)
  PROVE  \A u, v \in listing : u # v /\ ~u.known /\ ~v.known => u.file # v.file
<1>1. ASSUME NEW u \in Entries(folder), ~u.known
      PROVE  \E p \in Place :
               /\ p = <<folder, p[2]>> /\ p[2] \in Nat
               /\ u = [key |-> Key(bound[folder], p[2]), file |-> entry[p],
                       known |-> Key(bound[folder], p[2]) \in DOMAIN units]
               /\ \A v \in listed : v.file # u.file
               /\ \A q \in Place : q[1] = folder /\ q[2] < p[2] => entry[q] # u.file
  <2>1. PICK p \in Place :
          /\ p[1] = folder /\ Counts(folder, p[2])
          /\ u = [key |-> Key(bound[folder], p[2]), file |-> entry[p],
                  known |-> Key(bound[folder], p[2]) \in DOMAIN units]
    BY <1>1 DEF Entries
  <2>2. p = <<folder, p[2]>> /\ p[2] \in Nat
    BY <2>1 DEF RootsAssumption
  <2>3. Key(bound[folder], p[2]) \notin DOMAIN units /\ u.file = entry[p]
    BY <1>1, <2>1
  <2> QED
    BY <2>1, <2>2, <2>3 DEF Counts
<1>2. SUFFICES ASSUME NEW u \in listing, NEW v \in listing, u # v, ~u.known, ~v.known
               PROVE  u.file # v.file
  OBVIOUS
<1>3. CASE u \in Entries(folder) /\ v \in listed
  BY <1>1, <1>2, <1>3
<1>4. CASE u \in listed /\ v \in Entries(folder)
  BY <1>1, <1>2, <1>4
<1>5. CASE u \in listed /\ v \in listed
  BY <1>2, <1>5 DEF NewKeysDistinct
<1>6. CASE u \in Entries(folder) /\ v \in Entries(folder)
  <2>1. PICK p \in Place :
          /\ p = <<folder, p[2]>> /\ p[2] \in Nat
          /\ u = [key |-> Key(bound[folder], p[2]), file |-> entry[p],
                  known |-> Key(bound[folder], p[2]) \in DOMAIN units]
          /\ \A q \in Place : q[1] = folder /\ q[2] < p[2] => entry[q] # u.file
    BY <1>1, <1>2, <1>6
  <2>2. PICK q \in Place :
          /\ q = <<folder, q[2]>> /\ q[2] \in Nat
          /\ v = [key |-> Key(bound[folder], q[2]), file |-> entry[q],
                  known |-> Key(bound[folder], q[2]) \in DOMAIN units]
          /\ \A r \in Place : r[1] = folder /\ r[2] < q[2] => entry[r] # v.file
    BY <1>1, <1>2, <1>6
  <2>3. p[2] # q[2]
    BY <1>2, <2>1, <2>2
  <2>4. p[1] = folder /\ q[1] = folder /\ u.file = entry[p] /\ v.file = entry[q]
    BY <2>1, <2>2
  <2>5. CASE p[2] < q[2]
    BY <2>2, <2>4, <2>5
  <2>6. CASE q[2] < p[2]
    BY <2>1, <2>4, <2>6
  <2> QED
    BY <2>1, <2>2, <2>3, <2>5, <2>6
<1> QED
  BY <1>2, <1>3, <1>4, <1>5, <1>6

LEMMA WalkKeeps ==
  ASSUME RootsAssumption, IInv, NEW folder \in Folder, Walk(folder)
  PROVE  IInv'
<1> USE DEF IInv, Walk, world, rows, history
<1>1. RootTypes'
  BY DEF RootTypes, Numbering, IsInjective
<1>2. HomesNumbered' /\ HomesPlaced' /\ KeysNumbered' /\ Noticed'
  BY DEF HomesNumbered, HomesPlaced, KeysNumbered, Numbered, Noticed, Empty
<1>3. NewKeysDistinct'
  BY EntriesDistinct DEF NewKeysDistinct
<1>4. Bound /\ Uncontradicted /\ Walked
  BY DEF Scanning
<1>5. Bound'
  BY <1>4 DEF Bound, Numbering, IsInjective, Numbered
<1>6. Uncontradicted'
  BY <1>4, ExcusesStay DEF Uncontradicted
<1>7. folder \in DOMAIN bound /\ folder \in Range(config)
  BY <1>4 DEF Bound, Walked
<1>8. Walked'
  <2>1. /\ plan' \subseteq Range(config')
        /\ Range(config') \subseteq there' \cup lost'
    BY <1>4 DEF Walked
  <2>2. ASSUME NEW u \in listed'
        PROVE  \E p \in Place : p[1] \in DOMAIN bound /\ u.key = Key(bound[p[1]], p[2])
    <3>1. CASE u \in listed
      BY <1>4, <3>1 DEF Walked
    <3>2. CASE u \in Entries(folder)
      <4>1. PICK p \in Place : p[1] = folder /\ u.key = Key(bound[folder], p[2])
        BY <3>2 DEF Entries
      <4> QED
        BY <1>7, <4>1
    <3> QED
      BY <2>2, <3>1, <3>2
  <2>3. ASSUME NEW p \in Place, p[1] \in Range(config) \ plan', p \notin gone,
               Key(bound[p[1]], p[2]) \in DOMAIN units
        PROVE  \E u \in listed' : u.key = Key(bound[p[1]], p[2])
    <3>1. CASE p[1] = folder
      <4>1. entry[p] # None
        BY <2>3 DEF Noticed, Empty
      <4>2. Counts(folder, p[2])
        BY <2>3, <3>1 DEF Counts
      <4>3. [key   |-> Key(bound[folder], p[2]), file |-> entry[p],
             known |-> Key(bound[folder], p[2]) \in DOMAIN units] \in Entries(folder)
        BY <2>3, <3>1, <4>1, <4>2 DEF Entries
      <4> QED
        BY <3>1, <4>3
    <3>2. CASE p[1] # folder
      BY <1>4, <2>3, <3>2 DEF Walked
    <3> QED
      BY <3>1, <3>2
  <2> QED
    BY <2>1, <2>2, <2>3 DEF Walked
<1> QED
  BY <1>1, <1>2, <1>3, <1>5, <1>6, <1>8 DEF Scanning

(* A pending key names its place. *)
LEMMA PendingPlaced ==
  ASSUME RootsAssumption, Bound, Walked, NEW k \in Pending
  PROVE  \E p \in Place : /\ p[1] \in DOMAIN bound /\ k = Key(bound[p[1]], p[2])
                          /\ PlaceOf(k) = p /\ p = <<p[1], k[2]>>
                          /\ k \in Nat \X Nat /\ bound[p[1]] = k[1]
<1>1. PICK p \in Place : p[1] \in DOMAIN bound /\ k = Key(bound[p[1]], p[2])
  BY DEF Walked, Pending
<1>2. p = <<p[1], p[2]>> /\ p[2] \in Nat /\ bound[p[1]] \in Nat
  BY <1>1 DEF RootsAssumption, Bound, Numbering
<1>3. k[1] = bound[p[1]] /\ k[2] = p[2] /\ k \in Nat \X Nat
  BY <1>1, <1>2 DEF Key
<1>4. \A f \in DOMAIN bound : bound[f] = k[1] => f = p[1]
  BY <1>1, <1>3 DEF Bound, Numbering, IsInjective
<1>5. PlaceOf(k) = p
  BY <1>1, <1>2, <1>3, <1>4 DEF PlaceOf
<1> QED
  BY <1>1, <1>2, <1>3, <1>5

LEMMA FinishKeeps ==
  ASSUME RootsAssumption, IInv, Finish
  PROVE  IInv'
<1> USE DEF IInv, Finish, world, history
<1>1. Bound /\ Walked
  BY DEF Scanning
<1>2. /\ DOMAIN units' = DOMAIN units \cup Pending
      /\ \A k \in DOMAIN units' : units'[k] = IF k \in Pending THEN "live" ELSE "retired"
      /\ units' \in [DOMAIN units' -> {"live", "retired"}]
  OBVIOUS
<1>3. /\ DOMAIN home' = DOMAIN units'
      /\ \A k \in DOMAIN units' : home'[k] = IF k \in DOMAIN home THEN home[k]
                                              ELSE PlaceOf(k)[1]
  OBVIOUS
<1>4. \A k \in Pending :
        \E p \in Place : /\ p[1] \in DOMAIN bound /\ PlaceOf(k) = p
                         /\ p = <<p[1], k[2]>>
                         /\ k \in Nat \X Nat /\ bound[p[1]] = k[1]
  BY <1>1, PendingPlaced
<1>5. RootTypes'
  <2>1. DOMAIN units' \subseteq Nat \X Nat
    BY <1>2, <1>4 DEF RootTypes
  <2>2. Numbering(roots)'
    BY <1>1 DEF Bound, Numbering, IsInjective
  <2> QED
    BY <1>2, <1>3, <2>1, <2>2 DEF RootTypes
<1>6. HomesNumbered'
  <2> SUFFICES ASSUME original = <<>>, NEW k \in DOMAIN units'
               PROVE  home'[k] \in DOMAIN bound /\ bound[home'[k]] = k[1]
    BY <1>3 DEF HomesNumbered
  <2>1. CASE k \in DOMAIN units
    <3>1. home[k] \in DOMAIN roots /\ roots[home[k]] = k[1] /\ k \in DOMAIN home
      BY <2>1 DEF HomesNumbered, RootTypes
    <3> QED
      BY <1>1, <1>3, <3>1 DEF Bound
  <2>2. CASE k \notin DOMAIN units
    BY <1>2, <1>3, <1>4, <2>2 DEF RootTypes
  <2> QED
    BY <2>1, <2>2
<1>7. HomesPlaced'
  <2> SUFFICES ASSUME NEW k \in DOMAIN units'
               PROVE  <<home'[k], k[2]>> \in Place
    BY DEF HomesPlaced
  <2>1. CASE k \in DOMAIN units
    BY <1>3, <2>1 DEF HomesPlaced, RootTypes
  <2>2. CASE k \notin DOMAIN units
    <3>1. k \in Pending /\ home'[k] = PlaceOf(k)[1]
      BY <1>2, <1>3, <2>2 DEF RootTypes
    <3>2. PICK p \in Place : PlaceOf(k) = p /\ p = <<p[1], k[2]>>
      BY <1>4, <3>1
    <3> QED
      BY <3>1, <3>2
  <2> QED
    BY <2>1, <2>2
<1>8. KeysNumbered'
  <2> SUFFICES ASSUME NEW k \in DOMAIN units'
               PROVE  \E f \in DOMAIN bound :
                        bound[f] = k[1] /\ (units'[k] = "live" => <<f, k[2]>> \in Place)
    BY DEF KeysNumbered, Numbered
  <2>1. CASE k \in Pending
    BY <1>4, <2>1
  <2>2. CASE k \notin Pending
    <3>1. units'[k] # "live" /\ k \in DOMAIN units
      BY <1>2, <2>2
    <3> QED
      BY <1>1, <3>1 DEF Bound
  <2> QED
    BY <2>1, <2>2
<1>9. Scanning' /\ Noticed' /\ NewKeysDistinct'
  BY DEF Scanning, Noticed, Empty, NewKeysDistinct
<1> QED
  BY <1>5, <1>6, <1>7, <1>8, <1>9

LEMMA NextKeeps ==
  ASSUME RootsAssumption, IInv, [Next]_vars
  PROVE  IInv'
<1>1. CASE Next
  BY <1>1, ChangeKeeps, UnplugKeeps, ConfigureKeeps, BeginKeeps, WalkKeeps,
     FinishKeeps, AbortKeeps DEF Next
<1>2. CASE UNCHANGED vars
  <2> USE <1>2 DEF vars, world, rows, scan, history, IInv
  <2>1. RootTypes'
    BY DEF RootTypes, Numbering, IsInjective
  <2>2. HomesNumbered' /\ HomesPlaced' /\ KeysNumbered' /\ NewKeysDistinct'
    BY DEF HomesNumbered, HomesPlaced, KeysNumbered, Numbered, NewKeysDistinct
  <2>3. Noticed'
    BY DEF Noticed, Empty
  <2>4. ASSUME pc' = "walk"
        PROVE  Bound' /\ Uncontradicted' /\ Walked'
    <3>1. Bound /\ Uncontradicted /\ Walked
      BY <2>4 DEF Scanning
    <3>2. Bound'
      BY <3>1 DEF Bound, Numbering, IsInjective, Numbered
    <3>3. Uncontradicted'
      BY <3>1, ExcusesStay DEF Uncontradicted
    <3>4. Walked'
      BY <3>1 DEF Walked
    <3> QED
      BY <3>2, <3>3, <3>4
  <2> QED
    BY <2>1, <2>2, <2>3, <2>4 DEF Scanning
<1> QED
  BY <1>1, <1>2
-----------------------------------------------------------------------------
(***************************************************************************)
(* The theorems.                                                           *)
(***************************************************************************)
(* The invariant holds of every reachable state. *)
THEOREM Invariance == Spec => []IInv
<1>1. Init => IInv
  BY RootsAssumption, InitKeeps
<1>2. IInv /\ [Next]_vars => IInv'
  BY RootsAssumption, NextKeeps
<1> QED
  BY <1>1, <1>2, PTL DEF Spec

(* Ledger.root_ids: for any corpus lists and any history of them, the number
   in a key is the number of the folder the key was registered for. *)
THEOREM FoldersKeepNumbers == Spec => []NumbersKeepFolders
<1>1. IInv => NumbersKeepFolders
  <2> SUFFICES ASSUME IInv, original = <<>>,
                      NEW k \in DOMAIN home, NEW f \in DOMAIN roots
               PROVE  (roots[f] = k[1]) <=> (home[k] = f)
    BY DEF NumbersKeepFolders
  <2>1. home[k] \in DOMAIN roots /\ roots[home[k]] = k[1]
    BY DEF IInv, HomesNumbered
  <2>2. \A g \in DOMAIN roots : roots[g] = roots[f] => g = f
    BY DEF IInv, RootTypes, Numbering, IsInjective
  <2> QED
    BY <2>1, <2>2
<1> QED
  BY <1>1, Invariance, PTL

(* sources._walk: no scan gives two new keys to one file, however folders
   overlap and files are linked. *)
THEOREM NewKeysAreDistinct == Spec => []NewKeysDistinct
<1>1. IInv => NewKeysDistinct
  BY DEF IInv
<1> QED
  BY <1>1, Invariance, PTL

(* sources._sync, Ledger.root_ids: a source is retired only for a cause. *)
THEOREM RetiresForCause == Spec => RetiredForCause
<1> DEFINE Cause(k) == \/ home[k] \notin Range(config)
                       \/ <<home[k], k[2]>> \in gone
                       \/ home[k] \in lost
                       \/ Misled(k)
           ForCause == \A k \in DOMAIN units : Retired(k) => Cause(k)
<1>1. ASSUME IInv, [Next]_vars
      PROVE  [ForCause]_vars
  <2> SUFFICES ASSUME NEW k \in DOMAIN units, Retired(k),
                      home[k] \in Range(config), <<home[k], k[2]>> \notin gone,
                      home[k] \notin lost
               PROVE  Misled(k)
    OBVIOUS
  <2> DEFINE h == home[k]
             p == <<h, k[2]>>
  <2>1. Finish
    BY <1>1 DEF Next, Change, Unplug, Configure, Begin, Walk, Abort, Edit, rows,
                vars, Retired
  <2>2. Bound /\ Uncontradicted /\ Walked
    BY <1>1, <2>1 DEF IInv, Scanning, Finish
  <2>3. k \notin Pending /\ units[k] = "live" /\ roots' = bound
    BY <2>1 DEF Finish, Retired
  <2>4. p \in Place /\ h \in DOMAIN bound /\ k = <<k[1], k[2]>>
    BY <1>1, <2>2 DEF IInv, HomesPlaced, Bound, RootTypes
  <2>5. bound[h] # k[1]
    <3> SUFFICES ASSUME bound[h] = k[1]
                 PROVE  FALSE
      OBVIOUS
    <3>1. Key(bound[h], p[2]) = k
      BY <2>4 DEF Key
    <3>2. PICK u \in listed : u.key = k
      <4>1. p[1] = h /\ p[2] = k[2] /\ plan = {}
        BY <2>1 DEF Finish
      <4> HIDE DEF p, h
      <4>2. p \notin gone /\ h \in Range(config) \ plan
        BY <4>1 DEF p, h
      <4> QED
        BY <2>2, <2>4, <3>1, <4>1, <4>2 DEF Walked
    <3>3. \A f \in DOMAIN bound : bound[f] = k[1] => f = h
      BY <2>2, <2>4 DEF Bound, Numbering, IsInjective
    <3>4. PlaceOf(k) = p
      BY <2>4, <3>3 DEF PlaceOf
    <3>5. h \in there
      BY <2>2 DEF Walked
    <3>6. p \notin Empty(entry)
      BY <1>1 DEF IInv, Noticed
    <3>7. k \in Pending
      BY <3>2, <3>4, <3>5, <3>6 DEF Pending
    <3> QED
      BY <2>3, <3>7
  <2>6. Excused(k, h)
    BY <2>2, <2>3, <2>4, <2>5 DEF Uncontradicted
  <2> QED
    BY <2>3, <2>5, <2>6 DEF Excused, Misled
<1> QED
  BY <1>1, Invariance, PTL DEF Spec, RetiredForCause
-----------------------------------------------------------------------------
(***************************************************************************)
(* Sections and their refs.                                                *)
(***************************************************************************)
\* The files the adapters index, and what is known of the one indexed.
IndexedAsCut ==
  /\ outcome = "indexed" =>
       chapter = unit.chapter /\ date = DateOf(unit) /\ index = Sections(chapter)
  /\ outcome # "indexed" => chapter = <<>> /\ date = Unknown /\ reply = Null

RepliedAsRead ==
  reply # Null => \E ref \in DOMAIN index : reply = <<ref, ReadSection(chapter, ref)>>

DocumentsInv == unit \in Units /\ IndexedAsCut /\ RepliedAsRead

LEMMA DocumentsInvariance == DocumentsSpec => []DocumentsInv
<1>1. DocumentsInit => DocumentsInv
  BY DEF DocumentsInit, DocumentsInv, IndexedAsCut, RepliedAsRead
<1>2. ASSUME DocumentsInv, [DocumentsNext]_documentsVars
      PROVE  DocumentsInv'
  <2>1. CASE Refresh
    <3>1. /\ unit' = unit /\ chapter' = unit.chapter /\ date' = DateOf(unit)
          /\ index' = Sections(unit.chapter) /\ outcome' = "indexed" /\ reply' = reply
      BY <2>1 DEF Refresh
    <3>2. reply = Null
      BY <1>2, <2>1 DEF DocumentsInv, IndexedAsCut, Refresh
    <3>3. IndexedAsCut'
      BY <3>1 DEF IndexedAsCut
    <3>4. RepliedAsRead'
      BY <3>1, <3>2 DEF RepliedAsRead
    <3> QED
      BY <1>2, <3>1, <3>3, <3>4 DEF DocumentsInv
  <2>2. CASE RefreshRaises
    <3>1. UNCHANGED <<unit, date, chapter, index, reply>> /\ outcome' = "raised"
      BY <2>2 DEF RefreshRaises
    <3>2. outcome = "none"
      BY <2>2 DEF RefreshRaises
    <3>3. IndexedAsCut'
      BY <1>2, <3>1, <3>2 DEF DocumentsInv, IndexedAsCut
    <3>4. RepliedAsRead'
      BY <1>2, <3>1 DEF DocumentsInv, RepliedAsRead
    <3> QED
      BY <1>2, <3>1, <3>3, <3>4 DEF DocumentsInv
  <2>3. CASE Read
    <3>1. UNCHANGED <<unit, outcome, date, chapter, index>> /\ outcome = "indexed"
      BY <2>3 DEF Read
    <3>2. IndexedAsCut'
      BY <1>2, <3>1 DEF DocumentsInv, IndexedAsCut
    <3>3. RepliedAsRead'
      BY <2>3, <3>1 DEF RepliedAsRead, Read
    <3> QED
      BY <1>2, <3>1, <3>2, <3>3 DEF DocumentsInv
  <2>4. CASE UNCHANGED documentsVars
    <3>1. UNCHANGED <<unit, outcome, date, chapter, index, reply>>
      BY <2>4 DEF documentsVars
    <3>2. IndexedAsCut'
      BY <1>2, <3>1 DEF DocumentsInv, IndexedAsCut
    <3>3. RepliedAsRead'
      BY <1>2, <3>1 DEF DocumentsInv, RepliedAsRead
    <3> QED
      BY <1>2, <3>1, <3>2, <3>3 DEF DocumentsInv
  <2> QED
    BY <1>2, <2>1, <2>2, <2>3, <2>4 DEF DocumentsNext
<1> QED
  BY <1>1, <1>2, PTL DEF DocumentsSpec

(* The occurrences of a title are numbered from one, each its own. *)
LEMMA OccurrencesCount ==
  ASSUME NEW paras \in Seq(Paragraph), NEW i \in SectionStarts(paras)
  PROVE  /\ OccurrenceOf(paras, i) \in Nat /\ OccurrenceOf(paras, i) >= 1
         /\ \A j \in SectionStarts(paras) :
              paras[j].title = paras[i].title /\ OccurrenceOf(paras, j) = OccurrenceOf(paras, i)
                => j = i
<1> DEFINE upTo(k) == {j \in SectionStarts(paras) : j <= k /\ paras[j].title = paras[k].title}
<1>1. SectionStarts(paras) \subseteq 1..Len(paras) /\ Len(paras) \in Nat
  BY DEF SectionStarts
<1>2. IsFiniteSet(SectionStarts(paras))
  <2>1. IsFiniteSet(1..Len(paras))
    BY <1>1, FS_Interval
  <2> QED
    BY <1>1, <2>1, FS_Subset
<1>3. ASSUME NEW k \in SectionStarts(paras)
      PROVE  /\ IsFiniteSet(upTo(k)) /\ Cardinality(upTo(k)) \in Nat
             /\ OccurrenceOf(paras, k) = Cardinality(upTo(k)) /\ k \in upTo(k)
  <2>1. upTo(k) \subseteq SectionStarts(paras)
    OBVIOUS
  <2>2. IsFiniteSet(upTo(k)) /\ Cardinality(upTo(k)) \in Nat
    BY <1>2, <2>1, FS_Subset, FS_CardinalityType
  <2>3. k \in upTo(k)
    BY <1>1
  <2>4. OccurrenceOf(paras, k) = Cardinality(upTo(k))
    BY DEF OccurrenceOf
  <2> QED
    BY <2>2, <2>3, <2>4
<1>4. OccurrenceOf(paras, i) >= 1
  <2>1. upTo(i) # {}
    BY <1>3
  <2>2. Cardinality(upTo(i)) # 0
    BY <1>3, <2>1, FS_EmptySet
  <2>3. OccurrenceOf(paras, i) \in Nat /\ OccurrenceOf(paras, i) # 0
    BY <1>3, <2>2
  <2> QED
    BY ONLY <2>3
<1>5. ASSUME NEW j \in SectionStarts(paras), NEW k \in SectionStarts(paras), j < k,
             paras[j].title = paras[k].title
      PROVE  OccurrenceOf(paras, j) # OccurrenceOf(paras, k)
  <2>1. upTo(j) \subseteq upTo(k)
    BY <1>1, <1>5
  <2>2. k \in upTo(k) /\ k \notin upTo(j)
    BY <1>1, <1>5
  <2>3. upTo(j) # upTo(k)
    BY <2>2
  <2>4. Cardinality(upTo(j)) # Cardinality(upTo(k))
    BY <1>3, <2>1, <2>3, FS_Subset
  <2> QED
    BY <1>3, <2>4
<1>6. ASSUME NEW j \in SectionStarts(paras), paras[j].title = paras[i].title,
             OccurrenceOf(paras, j) = OccurrenceOf(paras, i)
      PROVE  j = i
  <2>1. i \in Nat /\ j \in Nat
    BY <1>1
  <2>2. ~(j < i) /\ ~(i < j)
    BY <1>5, <1>6
  <2> QED
    BY <2>1, <2>2
<1> QED
  BY <1>3, <1>4, <1>6

(* The ref of an unnumbered title names the title and its occurrence. *)
LEMMA RefParsesBack ==
  ASSUME NEW title \in Title, title.numbers = <<>>, NEW n \in Nat, n >= 1
  PROVE  /\ Parse(Render(title, n)).title = title
         /\ Parse(Render(title, n)).occurrence = n
<1>1. CASE n = 1
  <2>1. Render(title, n) = title
    BY <1>1 DEF Render
  <2> QED
    BY <1>1, <2>1 DEF Parse
<1>2. CASE n # 1
  <2> DEFINE ref == Render(title, n)
  <2>1. ref = [title EXCEPT !.numbers = Append(@, n)]
    BY <1>2 DEF Render
  <2>2. Append(<<>>, n) = <<n>>
    OBVIOUS
  <2>3. ref.numbers = <<n>>
    BY <2>1, <2>2 DEF Title
  <2>4. <<n>> # <<>> /\ Last(<<n>>) = n
    BY DEF Last
  <2>5. Front(<<n>>) = <<>>
    BY DEF Front
  <2>6. [ref EXCEPT !.numbers = <<>>] = title
    BY <2>1 DEF Title
  <2> HIDE DEF ref
  <2>7. Parse(ref) = [title |-> [ref EXCEPT !.numbers = Front(@)], occurrence |-> Last(ref.numbers)]
    BY <2>3, <2>4 DEF Parse
  <2>8. [ref EXCEPT !.numbers = Front(@)] = [ref EXCEPT !.numbers = <<>>]
    BY <2>3, <2>5
  <2> QED
    BY <2>3, <2>4, <2>6, <2>7, <2>8 DEF ref
<1> QED
  BY <1>1, <1>2

(* Where no title is numbered, a ref stands for one section. *)
LEMMA RefsAreSections ==
  ASSUME NEW paras \in Seq(Paragraph), Unnumbered(paras), NEW i \in SectionStarts(paras)
  PROVE  /\ Parse(RefOf(paras, i)).title = paras[i].title
         /\ Parse(RefOf(paras, i)).occurrence = OccurrenceOf(paras, i)
         /\ RefOf(paras, i) \in DOMAIN Sections(paras)
         /\ Sections(paras)[RefOf(paras, i)] = SectionText(paras, i)
<1>1. \A k \in SectionStarts(paras) :
        /\ Parse(RefOf(paras, k)).title = paras[k].title
        /\ Parse(RefOf(paras, k)).occurrence = OccurrenceOf(paras, k)
  <2> TAKE k \in SectionStarts(paras)
  <2>1. paras[k] \in Paragraph
    BY DEF SectionStarts
  <2>2. paras[k].title \in Title
    BY <2>1 DEF Paragraph
  <2>3. paras[k].title.numbers = <<>>
    BY DEF Unnumbered
  <2> QED
    BY <2>2, <2>3, OccurrencesCount, RefParsesBack DEF RefOf
<1>2. {k \in SectionStarts(paras) : RefOf(paras, k) = RefOf(paras, i)} = {i}
  <2>1. \A k \in SectionStarts(paras) : RefOf(paras, k) = RefOf(paras, i) => k = i
    BY <1>1, OccurrencesCount
  <2> QED
    BY <2>1
<1>3. Max({i}) = i
  <2>1. i \in Nat
    BY DEF SectionStarts
  <2> QED
    BY <2>1 DEF Max
<1> QED
  BY <1>1, <1>2, <1>3 DEF Sections

(* What is indexed is what was cut from a file of the walk. *)
LEMMA IndexedChapter ==
  ASSUME DocumentsInv, outcome = "indexed"
  PROVE  chapter \in Seq(Paragraph) /\ index = Sections(chapter)
BY DocumentsAssumption DEF DocumentsInv, IndexedAsCut

LEMMA SectionsKept == DocumentsInv => EverySectionIndexed
<1> SUFFICES ASSUME DocumentsInv, Unnumbered(chapter), outcome = "indexed",
                    NEW i \in SectionStarts(chapter)
             PROVE  \E ref \in DOMAIN index : index[ref] = SectionText(chapter, i)
  BY DEF EverySectionIndexed, KeepsSections
<1>1. chapter \in Seq(Paragraph) /\ index = Sections(chapter)
  BY IndexedChapter
<1>2. /\ RefOf(chapter, i) \in DOMAIN index
      /\ index[RefOf(chapter, i)] = SectionText(chapter, i)
  BY <1>1, RefsAreSections
<1> QED
  BY <1>2

(* No section of an indexed chapter is lost to another that got its ref, of  *)
(* any files: the occurrence that _records_for_file counts tells sections of *)
(* one unnumbered title apart.                                               *)
THEOREM NoSectionLost == DocumentsSpec => []EverySectionIndexed
BY DocumentsInvariance, SectionsKept, PTL

(* The reader takes the section's heading, and no other, for that of its ref. *)
LEMMA HeadingFound ==
  ASSUME NEW paras \in Seq(Paragraph), SeenAlike(paras), Unnumbered(paras),
         NEW i \in SectionStarts(paras)
  PROVE  Found(paras, RefOf(paras, i)) = {i}
<1> DEFINE title == paras[i].title
           matches == {k \in SectionStarts(paras) : paras[k].title = title}
<1>1. Matches(paras, title) = matches
  <2>1. ASSUME NEW k \in SectionStarts(paras)
        PROVE  k \in DOMAIN paras /\ SeenAsHeading(paras, k)
    <3>1. k \in DOMAIN paras /\ paras[k].depth \in {1, 2}
      BY DEF SectionStarts
    <3>2. HeadingIn(paras, k)
      BY <3>1 DEF HeadingIn
    <3>3. paras[k].mark = "space"
      BY <3>1, <3>2 DEF SeenAlike
    <3> QED
      BY <3>1, <3>3 DEF SeenAsHeading
  <2>2. ASSUME NEW k \in DOMAIN paras, SeenAsHeading(paras, k), paras[k].title = title
        PROVE  k \in SectionStarts(paras)
    <3>1. paras[k] \in Paragraph
      OBVIOUS
    <3>2. paras[k].depth \in Nat /\ paras[k].depth >= 1
      BY <2>2, <3>1 DEF SeenAsHeading, Paragraph
    <3>3. ~(paras[k].depth > 2)
      BY <2>2 DEF SeenAlike
    <3>4. paras[k].depth \in {1, 2}
      BY <3>2, <3>3
    <3> QED
      BY <3>4 DEF SectionStarts
  <2> QED
    BY <2>1, <2>2 DEF Matches
<1>2. /\ Parse(RefOf(paras, i)).title = title
      /\ Parse(RefOf(paras, i)).occurrence = OccurrenceOf(paras, i)
  BY RefsAreSections
<1>3. Found(paras, RefOf(paras, i)) =
        {k \in matches : Cardinality({j \in matches : j <= k}) = OccurrenceOf(paras, i)}
  BY <1>1, <1>2 DEF Found
<1>4. ASSUME NEW k \in matches
      PROVE  Cardinality({j \in matches : j <= k}) = OccurrenceOf(paras, k)
  <2>1. {j \in matches : j <= k} =
          {j \in SectionStarts(paras) : j <= k /\ paras[j].title = paras[k].title}
    OBVIOUS
  <2> QED
    BY <2>1 DEF OccurrenceOf
<1>5. Found(paras, RefOf(paras, i)) =
        {k \in matches : OccurrenceOf(paras, k) = OccurrenceOf(paras, i)}
  BY <1>3, <1>4
<1>6. \A k \in matches : OccurrenceOf(paras, k) = OccurrenceOf(paras, i) => k = i
  BY OccurrencesCount
<1>7. i \in matches
  OBVIOUS
<1> QED
  BY <1>5, <1>6, <1>7

LEMMA SectionReadBack ==
  ASSUME NEW paras \in Seq(Paragraph), SeenAlike(paras), Unnumbered(paras),
         NEW i \in SectionStarts(paras)
  PROVE  ReadSection(paras, RefOf(paras, i)) = SectionText(paras, i)
<1> DEFINE cut == {j \in i + 1 .. Len(paras) :
                     HeadingIn(paras, j) /\ paras[j].depth <= paras[i].depth}
           seen == {j \in i + 1 .. Len(paras) :
                      SeenAsHeading(paras, j) /\ paras[j].depth <= paras[i].depth}
<1>1. (CHOOSE k \in Found(paras, RefOf(paras, i)) : TRUE) = i
      /\ Found(paras, RefOf(paras, i)) # {}
  BY HeadingFound
<1>2. i \in DOMAIN paras /\ paras[i].depth \in {1, 2}
  BY DEF SectionStarts
<1>3. ASSUME NEW j \in i + 1 .. Len(paras), paras[j].depth <= paras[i].depth
      PROVE  HeadingIn(paras, j) <=> SeenAsHeading(paras, j)
  <2>1. j \in DOMAIN paras
    BY <1>2
  <2>2. paras[j] \in Paragraph
    BY <2>1
  <2>3. paras[j].depth \in Nat
    BY <2>2 DEF Paragraph
  <2>4. paras[j].depth \in 1..6 <=> paras[j].depth >= 1
    BY <1>2, <1>3, <2>3
  <2>5. paras[j].depth \in 1..6 => paras[j].mark = "space"
    BY <2>1 DEF SeenAlike, HeadingIn
  <2> QED
    BY <2>4, <2>5 DEF HeadingIn, SeenAsHeading
<1>4. cut = seen
  BY <1>3
<1>5. ReadSection(paras, RefOf(paras, i)) =
        SubSeq(paras, i, IF seen = {} THEN Len(paras) ELSE Min(seen) - 1)
  BY <1>1 DEF ReadSection
<1>6. SectionText(paras, i) =
        SubSeq(paras, i, IF cut = {} THEN Len(paras) ELSE Min(cut) - 1)
  BY DEF SectionText, SectionEnd
<1> QED
  BY <1>4, <1>5, <1>6

LEMMA ReadAsIndexed == DocumentsInv => SectionsReadBack
<1> SUFFICES ASSUME DocumentsInv, SeenAlike(chapter), Unnumbered(chapter), reply # Null
             PROVE  reply[2] = index[reply[1]]
  BY DEF SectionsReadBack, ReadsBack
<1>1. outcome = "indexed"
  BY DEF DocumentsInv, IndexedAsCut
<1>2. chapter \in Seq(Paragraph) /\ index = Sections(chapter)
  BY <1>1, IndexedChapter
<1>3. PICK ref \in DOMAIN index : reply = <<ref, ReadSection(chapter, ref)>>
  BY DEF DocumentsInv, RepliedAsRead
<1>4. PICK i \in SectionStarts(chapter) : ref = RefOf(chapter, i)
  BY <1>2 DEF Sections
<1>5. index[ref] = SectionText(chapter, i)
  BY <1>2, <1>4, RefsAreSections
<1>6. ReadSection(chapter, ref) = SectionText(chapter, i)
  BY <1>2, <1>4, SectionReadBack
<1> QED
  BY <1>3, <1>5, <1>6

(* The ref that a search gives for a section reads that section back, of any *)
(* chapter in which the adapter and the reader see the same headings.        *)
THEOREM RefsReadBack == DocumentsSpec => []SectionsReadBack
BY DocumentsInvariance, ReadAsIndexed, PTL
-----------------------------------------------------------------------------
(***************************************************************************)
(* Dates.                                                                  *)
(***************************************************************************)
LEMMA FirstHitIsOne ==
  ASSUME NEW s, DOMAIN s \subseteq Nat, FirstHit(s) # Null
  PROVE  \E i \in DOMAIN s : FirstHit(s) = s[i]
<1> DEFINE hits == {i \in DOMAIN s : s[i] # Null}
           least == CHOOSE i \in hits : \A j \in hits : i <= j
<1>1. hits # {} /\ FirstHit(s) = s[least]
  BY DEF FirstHit
<1>2. \E i \in hits : \A j \in hits : i <= j
  <2>1. hits \in SUBSET Nat
    OBVIOUS
  <2> HIDE DEF hits
  <2> QED
    BY <1>1, <2>1, LeastNatural
<1>3. least \in hits
  BY <1>2
<1> QED
  BY <1>1, <1>3

\* What a date may say of the text it was taken from.
Honest(d) ==
  d.text # Null /\ d.text.whole =>
    /\ d.confidence = "exact" => Readings(d.text) = {d.iso}
    /\ \A day \in Readings(d.text) : InPeriod(InCentury(day, d), d)

LEMMA ShapeIsOne ==
  ASSUME NEW text \in Text, Shape(text) # Null
  PROVE  \/ /\ text.iso # Null
            /\ Shape(text) = DayShape("iso", text.iso[1], text.iso[2], text.iso[3], 4)
         \/ /\ text.named # Null
            /\ Shape(text) = DayShape("named", ExpandYear(text.named.year, text.named.digits),
                                      text.named.month, text.named.day, text.named.digits)
         \/ text.numeric # Null /\ Shape(text) = NumericShape(text.numeric)
         \/ text.month # Null /\ Shape(text) = MonthShape(text.month)
<1> DEFINE iso == IF text.iso = Null THEN Null
                  ELSE DayShape("iso", text.iso[1], text.iso[2], text.iso[3], 4)
           named == IF text.named = Null THEN Null
                    ELSE DayShape("named", ExpandYear(text.named.year, text.named.digits),
                                  text.named.month, text.named.day, text.named.digits)
           numeric == IF text.numeric = Null THEN Null ELSE NumericShape(text.numeric)
           month == IF text.month = Null THEN Null ELSE MonthShape(text.month)
<1>1. Shape(text) = FirstHit(<<iso, named, numeric, month>>)
  BY DEF Shape
<1> HIDE DEF iso, named, numeric, month
<1>2. DOMAIN <<iso, named, numeric, month>> = {1, 2, 3, 4}
  OBVIOUS
<1>3. \E i \in {1, 2, 3, 4} : Shape(text) = <<iso, named, numeric, month>>[i]
  BY <1>1, <1>2, FirstHitIsOne
<1>4. Shape(text) \in {iso, named, numeric, month}
  BY <1>3
<1> QED
  BY <1>4 DEF iso, named, numeric, month

(* A shape of a day is a real one, and its date is that day. *)
LEMMA DayShapeDate ==
  ASSUME NEW source, NEW y, NEW m, NEW d, NEW digits, NEW exact \in BOOLEAN, NEW text,
         NEW shape, shape # Null, shape = DayShape(source, y, m, d, digits)
  PROVE  /\ RealDay(y, m, d)
         /\ shape.kind = "day" /\ shape.source = source /\ shape.digits = digits
         /\ FromShape(shape, exact, text).iso = <<y, m, d>>
         /\ FromShape(shape, exact, text).text = text
         /\ FromShape(shape, exact, text).confidence = IF exact THEN "exact" ELSE "inferred"
<1>1. /\ RealDay(y, m, d)
      /\ shape = [kind |-> "day", source |-> source, year |-> y, month |-> m, day |-> d,
                  digits |-> digits]
  BY DEF DayShape, Only, ValidDay
<1>2. FromShape(shape, exact, text) =
        [iso |-> <<y, m, d>>, confidence |-> IF exact THEN "exact" ELSE "inferred",
         granularity |-> "day", text |-> text]
  BY <1>1 DEF FromShape, DateRow
<1> QED
  BY <1>1, <1>2

(* A date whose text has one reading, that day, is honest. *)
LEMMA OneReading ==
  ASSUME NEW text, NEW d, d.text = text, Readings(text) \subseteq {d.iso},
         d.confidence = "exact" => d.iso \in Readings(text)
  PROVE  Honest(d)
<1>1. \A day \in Readings(text) : InPeriod(InCentury(day, d), d)
  BY DEF InPeriod, InCentury
<1> QED
  BY <1>1 DEF Honest

LEMMA IsoIsHonest ==
  ASSUME NEW text \in Text, OneDate(text), text.iso # Null, NEW exact \in BOOLEAN,
         NEW shape, shape # Null,
         shape = DayShape("iso", text.iso[1], text.iso[2], text.iso[3], 4)
  PROVE  Honest(FromShape(shape, exact, text))
<1> DEFINE d == FromShape(shape, exact, text)
<1>1. text.named = Null /\ text.numeric = Null
  BY DEF OneDate
<1>2. text.iso \in Nat \X Nat \X Nat
  BY DEF Text
<1>3. text.iso = <<text.iso[1], text.iso[2], text.iso[3]>>
  BY <1>2
<1>4. RealDay(text.iso[1], text.iso[2], text.iso[3])
  BY DayShapeDate
<1>5. Readings(text) = {text.iso}
  BY <1>1, <1>4 DEF Readings
<1>6. d.iso = text.iso /\ d.text = text
  BY <1>3, DayShapeDate
<1> QED
  BY <1>5, <1>6, OneReading

LEMMA NamedIsHonest ==
  ASSUME NEW text \in Text, OneDate(text), text.named # Null, NEW exact \in BOOLEAN,
         NEW shape, shape # Null, exact => shape.digits = 4,
         shape = DayShape("named", ExpandYear(text.named.year, text.named.digits),
                          text.named.month, text.named.day, text.named.digits)
  PROVE  Honest(FromShape(shape, exact, text))
<1> DEFINE d == FromShape(shape, exact, text)
           year == ExpandYear(text.named.year, text.named.digits)
<1>1. text.iso = Null /\ text.numeric = Null
  BY DEF OneDate
<1>2. RealDay(year, text.named.month, text.named.day) /\ shape.digits = text.named.digits
  BY DayShapeDate
<1>3. /\ d.iso = <<year, text.named.month, text.named.day>> /\ d.text = text
      /\ d.confidence = IF exact THEN "exact" ELSE "inferred"
  BY DayShapeDate
<1>4. CASE text.named.digits = 4
  <2>1. year = text.named.year
    BY <1>4 DEF ExpandYear
  <2>2. Readings(text) = {<<text.named.year, text.named.month, text.named.day>>}
    BY <1>1, <1>2, <1>4, <2>1 DEF Readings
  <2> QED
    BY <1>3, <2>1, <2>2, OneReading
<1>5. CASE text.named.digits # 4
  <2>1. d.confidence # "exact"
    BY <1>2, <1>3, <1>5
  <2>2. ASSUME NEW day \in Readings(text)
        PROVE  InPeriod(InCentury(day, d), d)
    <3>1. day[2] = text.named.month /\ day[3] = text.named.day
      BY <1>1, <2>2 DEF Readings
    <3>2. text.named.digits = 2
      BY <1>5 DEF Text
    <3>3. InCentury(day, d) = d.iso
      BY <1>3, <3>1, <3>2 DEF InCentury
    <3> QED
      BY <3>3 DEF InPeriod
  <2> QED
    BY <1>3, <2>1, <2>2 DEF Honest
<1> QED
  BY <1>4, <1>5

LEMMA NumericIsHonest ==
  ASSUME NEW text \in Text, OneDate(text), text.numeric # Null, NEW exact \in BOOLEAN,
         NEW shape, shape # Null, shape = NumericShape(text.numeric),
         exact => shape.kind = "day"
  PROVE  Honest(FromShape(shape, exact, text))
<1> DEFINE d == FromShape(shape, exact, text)
           n == text.numeric
           one == <<n.year, n.a, n.b>>
           other == <<n.year, n.b, n.a>>
<1>1. text.iso = Null /\ text.named = Null
  BY DEF OneDate
<1>2. n.a \in Nat /\ n.b \in Nat /\ n.year \in Nat
  BY DEF Text
<1>3. Readings(text) = {t \in {one, other} : RealDay(t[1], t[2], t[3])}
  BY <1>1 DEF Readings
<1> HIDE DEF n
<1>4. CASE n.a <= 12 /\ n.b <= 12
  <2>1. shape = [kind |-> "ambiguous", source |-> "numeric", year |-> n.year]
    BY <1>4 DEF NumericShape, n
  <2>2. d = DateRow(<<n.year, 1, 1>>, "inferred", "year", text)
    BY <2>1 DEF FromShape
  <2>3. \A day \in Readings(text) : day[1] = n.year
    BY <1>3
  <2> QED
    BY <2>2, <2>3 DEF Honest, InPeriod, InCentury, DateRow
<1>5. CASE n.a > 12
  <2>1. shape = DayShape("numeric", n.year, n.b, n.a, 4)
    BY <1>2, <1>5 DEF NumericShape, n
  <2>2. RealDay(n.year, n.b, n.a) /\ d.iso = other /\ d.text = text
    BY <2>1, DayShapeDate
  <2>3. ~RealDay(n.year, n.a, n.b)
    BY <1>2, <1>5 DEF RealDay
  <2>4. Readings(text) = {other}
    BY <1>3, <2>2, <2>3
  <2> QED
    BY <2>2, <2>4, OneReading
<1>6. CASE n.a <= 12 /\ n.b > 12
  <2>1. shape = DayShape("numeric", n.year, n.a, n.b, 4)
    BY <1>2, <1>6 DEF NumericShape, n
  <2>2. RealDay(n.year, n.a, n.b) /\ d.iso = one /\ d.text = text
    BY <2>1, DayShapeDate
  <2>3. ~RealDay(n.year, n.b, n.a)
    BY <1>2, <1>6 DEF RealDay
  <2>4. Readings(text) = {one}
    BY <1>3, <2>2, <2>3
  <2> QED
    BY <2>2, <2>4, OneReading
<1> QED
  BY <1>2, <1>4, <1>5, <1>6

LEMMA MonthIsHonest ==
  ASSUME NEW text \in Text, OneDate(text), text.month # Null, NEW exact,
         NEW shape, shape = MonthShape(text.month)
  PROVE  Honest(FromShape(shape, exact, text))
<1> DEFINE d == FromShape(shape, exact, text)
<1>1. /\ text.iso = Null /\ text.numeric = Null
      /\ text.named # Null =>
           /\ text.named.digits = 4
           /\ text.named.year = text.month.year /\ text.named.month = text.month.month
  BY DEF OneDate
<1>2. d = DateRow(<<text.month.year, text.month.month, 1>>, "inferred", "month", text)
  BY DEF MonthShape, FromShape
<1>3. \A day \in Readings(text) : day[1] = text.month.year /\ day[2] = text.month.month
  BY <1>1 DEF Readings
<1> QED
  BY <1>2, <1>3 DEF Honest, InPeriod, InCentury, DateRow

LEMMA ShapeIsHonest ==
  ASSUME NEW text \in Text, text.whole => OneDate(text), Shape(text) # Null,
         NEW exact \in BOOLEAN,
         exact => Shape(text).kind = "day" /\ Shape(text).digits = 4
  PROVE  Honest(FromShape(Shape(text), exact, text))
<1>1. CASE text.whole
  BY <1>1, ShapeIsOne, IsoIsHonest, NamedIsHonest, NumericIsHonest, MonthIsHonest
<1>2. CASE ~text.whole
  <2>1. FromShape(Shape(text), exact, text).text = text
    BY DEF FromShape, DateRow
  <2> QED
    BY <1>2, <2>1 DEF Honest
<1> QED
  BY <1>1, <1>2

LEMMA BodyHitIsHonest ==
  ASSUME NEW text \in Text, text.whole => OneDate(text), BodyHit(text) # Null
  PROVE  Honest(BodyHit(text))
<1> DEFINE exact == text.whole /\ Shape(text).kind = "day" /\ Shape(text).digits = 4
<1>1. Shape(text) # Null /\ BodyHit(text) = FromShape(Shape(text), exact, text)
  BY DEF BodyHit
<1>2. exact \in BOOLEAN
  BY DEF Text
<1> QED
  BY <1>1, <1>2, ShapeIsHonest

LEMMA NameHitIsHonest ==
  ASSUME NEW name \in Text, name.whole => OneDate(name), FileNameHit(name) # Null
  PROVE  Honest(FileNameHit(name))
<1> DEFINE shape == Shape(name)
<1>1. shape # Null /\ FileNameHit(name) = FromShape(shape, shape.source = "iso", name)
  BY DEF FileNameHit
<1>2. shape.source = "iso" => shape.kind = "day" /\ shape.digits = 4
  <2>1. \A source, y, m, d, digits :
          shape = DayShape(source, y, m, d, digits) =>
            shape.kind = "day" /\ shape.source = source /\ shape.digits = digits
    BY <1>1 DEF DayShape, Only
  <2>2. name.numeric # Null /\ shape = NumericShape(name.numeric) => shape.source = "numeric"
    BY <2>1 DEF NumericShape
  <2>3. name.month # Null /\ shape = MonthShape(name.month) => shape.source = "month"
    BY DEF MonthShape
  <2> HIDE DEF shape
  <2> QED
    BY <1>1, <2>1, <2>2, <2>3, ShapeIsOne DEF shape
<1> QED
  BY <1>1, <1>2, ShapeIsHonest

\* No date, or one that is honest.
Hit(d) == d = Null \/ Honest(d)

LEMMA RowHit ==
  ASSUME NEW iso, NEW confidence, NEW granularity
  PROVE  Honest(DateRow(iso, confidence, granularity, Null))
BY DEF Honest, DateRow

LEMMA FirstHitHonest ==
  ASSUME NEW s, DOMAIN s \subseteq Nat, \A i \in DOMAIN s : Hit(s[i])
  PROVE  Hit(FirstHit(s))
BY FirstHitIsOne DEF Hit

LEMMA LinesHonest ==
  ASSUME NEW u \in Units
  PROVE  Hit(FirstLine(u))
<1> DEFINE candidate(i) == Only(i = 1 \/ (i <= 5 /\ u.lines[i].label), BodyHit(u.lines[i].text))
<1>1. u.lines \in Seq([label : BOOLEAN, text : Text])
  BY DocumentsAssumption
<1>2. ASSUME NEW i \in DOMAIN u.lines
      PROVE  Hit(candidate(i))
  <2>1. u.lines[i].text \in Text
    <3>1. \A S, q : q \in Seq(S) => \A k \in DOMAIN q : q[k] \in S
      OBVIOUS
    <3>2. u.lines[i] \in [label : BOOLEAN, text : Text]
      BY <1>1, <3>1
    <3> QED
      BY <3>2
  <2>2. u.lines[i].text.whole => OneDate(u.lines[i].text)
    BY DocumentsAssumption
  <2>3. Hit(BodyHit(u.lines[i].text))
    BY <2>1, <2>2, BodyHitIsHonest DEF Hit
  <2> QED
    BY <2>3 DEF Only, Hit
<1> DEFINE hits == [i \in DOMAIN u.lines |-> candidate(i)]
<1>3. DOMAIN hits \subseteq Nat
  BY <1>1
<1>4. \A i \in DOMAIN hits : Hit(hits[i])
  BY <1>2
<1>5. Hit(FirstHit(hits))
  BY <1>3, <1>4, FirstHitHonest
<1> QED
  BY <1>5 DEF FirstLine, Hit

LEMMA PathHonest ==
  ASSUME NEW u \in Units
  PROVE  Hit(PathHit(u))
<1>1. Hit(FileNameHit(u.name))
  BY DocumentsAssumption, NameHitIsHonest DEF Hit
<1>2. Hit(FolderHit(u.folders))
  BY RowHit DEF FolderHit, Hit
<1> DEFINE hits == <<FileNameHit(u.name), FolderHit(u.folders)>>
<1>3. DOMAIN hits \subseteq Nat /\ \A i \in DOMAIN hits : Hit(hits[i])
  BY <1>1, <1>2
<1>4. Hit(FirstHit(hits))
  BY <1>3, FirstHitHonest
<1> QED
  BY <1>4 DEF PathHit

LEMMA MetadataHonest ==
  ASSUME NEW u \in Units
  PROVE  Hit(Metadata(u))
<1> DEFINE candidate(i) == LET day == u.created[i]
                           IN Only(ValidDay(day[1], day[2], day[3]),
                                   DateRow(day, "inferred", "day", Null))
           hits == [i \in DOMAIN u.created |-> candidate(i)]
<1>1. u.created \in Seq(Nat \X Nat \X Nat)
  BY DocumentsAssumption
<1>2. DOMAIN hits \subseteq Nat
  BY <1>1
<1>3. \A i \in DOMAIN hits : Hit(hits[i])
  BY RowHit DEF Only, Hit
<1>4. Hit(FirstHit(hits))
  BY <1>2, <1>3, FirstHitHonest
<1> QED
  BY <1>4 DEF Metadata, Hit

LEMMA DateHonest ==
  ASSUME NEW u \in Units
  PROVE  Honest(DateOf(u))
<1>1. Hit(Headers(u))
  BY RowHit DEF Headers, Hit
<1>2. Hit(FirstLine(u)) /\ Hit(PathHit(u)) /\ Hit(Metadata(u))
  BY LinesHonest, PathHonest, MetadataHonest
<1> DEFINE all == <<Headers(u), FirstLine(u), PathHit(u), Metadata(u)>>
           own == <<FirstLine(u), PathHit(u)>>
<1>3. /\ DOMAIN all \subseteq Nat /\ \A i \in DOMAIN all : Hit(all[i])
      /\ DOMAIN own \subseteq Nat /\ \A i \in DOMAIN own : Hit(own[i])
  BY <1>1, <1>2
<1>4. Hit(FirstHit(all)) /\ Hit(FirstHit(own))
  BY <1>3, FirstHitHonest
<1>5. Honest(Unknown)
  BY RowHit DEF Unknown
<1> HIDE DEF all, own
<1> QED
  BY <1>4, <1>5 DEF DateOf, Hit, all, own

(* What a date claims of the line or name it was taken from, for any files:  *)
(* the order in which _find_date_shape tries its patterns never makes a day  *)
(* of a text exact that could be another, nor a period that leaves one out,  *)
(* but for the century guessed for a year of two digits.                     *)
THEOREM DatedHonestly == DocumentsSpec => []DatesAreHonest
<1>1. DocumentsInv => DatesAreHonest
  <2> SUFFICES ASSUME DocumentsInv
               PROVE  Honest(date)
    BY DEF Honest, DatesAreHonest
  <2>1. Honest(Unknown)
    BY RowHit DEF Unknown
  <2> QED
    BY <2>1, DateHonest DEF DocumentsInv, IndexedAsCut
<1> QED
  BY <1>1, DocumentsInvariance, PTL
-----------------------------------------------------------------------------
(***************************************************************************)
(* The pages of a selection.                                               *)
(***************************************************************************)
\* A walk that has come to pos: the pieces behind it are linked and end there.
Reached(pieces, pos) ==
  /\ pos.para \in 1..Len(paragraphs) + 1
  /\ pos.para <= Len(paragraphs) => pos.char <= Len(paragraphs[pos.para].text)
  /\ pieces = <<>> => pos = Beginning
  /\ pieces # <<>> =>
       LET last == Last(pieces)
       IN IF pos.para > Len(paragraphs)
          THEN /\ pos.char = 0 /\ last.para = Len(paragraphs)
               /\ last.last = Len(paragraphs[Len(paragraphs)].text)
          ELSE <<pos.para, pos.char>> = IF last.separator THEN <<last.para + 1, 0>>
                                    ELSE <<last.para, last.last>>

PieceSet == [para : Nat, first : Nat, last : Nat, separator : BOOLEAN]

Position == [para : Nat, char : Nat]

PageTypes ==
  /\ selection \in Selection /\ revision \in Nat
  /\ cursor \in [rev : Nat, meta : Nat, off : Position] /\ cursor.rev <= revision
  /\ budget \in Int /\ used \in Int /\ at \in Position
  /\ page \in Seq(PieceSet) /\ payload \in Seq(PieceSet)

\* What the client has, of the revision it reads.
Collected ==
  cursor.rev = revision =>
    /\ Linked(payload) /\ Reached(payload, cursor.off)
    /\ cursor.meta <= Len(selection.header)
    /\ Large /\ payload # <<>> => cursor.meta = Len(selection.header)
    /\ status = "done" => cursor.off.para > Len(paragraphs)

\* The page under way goes on where the client stands, within a budget that
\* has room for any label.
Building ==
  status = "building" =>
    /\ cursor.rev = revision
    /\ Large => cursor.meta = Len(selection.header)
    /\ Linked(payload \o page) /\ Reached(payload \o page, at)
    /\ page = <<>> => used = 0
    /\ page # <<>> => at.char = 0
    /\ \A i \in DOMAIN paragraphs :
         paragraphs[i].label + 1 + Continued + Separator <= budget

PagesInv ==
  /\ PageTypes /\ Collected /\ Building
  /\ metadata = [i \in 1..cursor.meta |-> i]
  /\ CutsAreForced

(* Bytes are counted in naturals, none for no text. *)
LEMMA BytesCount ==
  ASSUME NEW text \in Seq(Character)
  PROVE  Bytes(text) \in Nat /\ Bytes(<<>>) = 0
<1> DEFINE of(i) == {i} \X (1..text[i].bytes)
           sets == {of(i) : i \in DOMAIN text}
<1>1. \A i \in DOMAIN text : text[i].bytes \in Nat
  <2>1. \A i \in DOMAIN text : text[i] \in Character
    OBVIOUS
  <2> QED
    BY <2>1 DEF Character
<1>2. \A T \in sets : IsFiniteSet(T)
  <2>1. ASSUME NEW i \in DOMAIN text PROVE IsFiniteSet(of(i))
    <3>1. IsFiniteSet({i}) /\ IsFiniteSet(1..text[i].bytes)
      <4>1. text[i].bytes \in Int /\ 1 \in Int
        BY <1>1
      <4> QED
        BY <4>1, FS_Singleton, FS_Interval
    <3> QED
      BY <3>1, FS_Product
  <2> QED
    BY <2>1
<1>3. IsFiniteSet(sets)
  <2>1. IsFiniteSet(DOMAIN text)
    <3>1. DOMAIN text = 1..Len(text) /\ 1 \in Int /\ Len(text) \in Int
      OBVIOUS
    <3> QED
      BY <3>1, FS_Interval
  <2> DEFINE sized == [i \in DOMAIN text |-> of(i)]
  <2>2. sized \in Surjection(DOMAIN text, sets)
    BY DEF Surjection
  <2> HIDE DEF sized, sets
  <2> QED
    BY <2>1, <2>2, FS_Surjection
<1>4. IsFiniteSet(UNION sets)
  BY <1>2, <1>3, FS_UNION
<1>5. Bytes(text) \in Nat
  BY <1>4, FS_CardinalityType DEF Bytes
<1>6. UNION {{i} \X (1..<<>>[i].bytes) : i \in DOMAIN <<>>} = {}
  OBVIOUS
<1> QED
  BY <1>5, <1>6, FS_EmptySet DEF Bytes

LEMMA RestOfText ==
  ASSUME NEW text \in Seq(Character), NEW from \in 0..Len(text)
  PROVE  /\ Rest(text, from) \in Seq(Character)
         /\ Len(Rest(text, from)) = Len(text) - from
         /\ \A k \in 1..Len(text) - from : Rest(text, from)[k] = text[from + k]
<1>1. \A i \in from + 1..Len(text) : text[i] \in Character
  OBVIOUS
<1> QED
  BY <1>1, SubSeqProperties DEF Rest

LEMMA PrefixOfText ==
  ASSUME NEW text \in Seq(Character), NEW k \in 0..Len(text)
  PROVE  SubSeq(text, 1, k) \in Seq(Character)
<1>1. \A i \in 1..k : text[i] \in Character
  OBVIOUS
<1> QED
  BY <1>1, SubSeqProperties

LEMMA HardCutFits ==
  ASSUME NEW text \in Seq(Character), NEW room \in Nat
  PROVE  HardCut(text, room) \in 0..Len(text)
<1> DEFINE fits == {k \in 0..Len(text) : Bytes(SubSeq(text, 1, k)) <= room}
<1>1. SubSeq(text, 1, 0) = <<>>
  BY SubSeqEmpty
<1>2. 0 \in fits
  <2>1. Bytes(SubSeq(text, 1, 0)) = 0
    BY <1>1, BytesCount
  <2>2. 0 \in 0..Len(text)
    OBVIOUS
  <2> QED
    BY <2>1, <2>2
<1>3. \E k \in fits : \A j \in fits : j <= k
  <2>1. fits \in SUBSET Nat /\ Len(text) \in Nat /\ \A k \in fits : k <= Len(text)
    OBVIOUS
  <2> HIDE DEF fits
  <2> QED
    BY <1>2, <2>1, GreatestNatural
<1> QED
  BY <1>3 DEF HardCut, Max

(* No safe place is passed over. *)
LEMMA SafeCutFits ==
  ASSUME NEW text \in Seq(Character), NEW room \in Nat
  PROVE  /\ SafeCut(text, room) \in 0..HardCut(text, room)
         /\ SafeCut(text, room) > 0 => Safe(text, SafeCut(text, room))
         /\ SafeCut(text, room) = 0 => \A k \in 1..HardCut(text, room) : ~Safe(text, k)
<1> DEFINE places == {k \in 0..HardCut(text, room) : k = 0 \/ Safe(text, k)}
<1>1. HardCut(text, room) \in Nat
  BY HardCutFits
<1>2. \E k \in places : \A j \in places : j <= k
  <2>1. 0 \in places /\ places \in SUBSET Nat /\ \A k \in places : k <= HardCut(text, room)
    BY <1>1
  <2> HIDE DEF places
  <2> QED
    BY <1>1, <2>1, GreatestNatural
<1>3. SafeCut(text, room) \in places /\ \A j \in places : j <= SafeCut(text, room)
  BY <1>2 DEF SafeCut, Max
<1> QED
  BY <1>1, <1>3

(* A cut inside a grapheme is behind nothing but a part of one. *)
LEMMA CutFits ==
  ASSUME NEW text \in Seq(Character), text # <<>>, NEW room \in Nat
  PROVE  LET n == Cut(text, room)
         IN /\ n \in 0..Len(text)
            /\ n > 0 /\ n < Len(text) /\ text[n + 1].joins =>
                 \A i \in 2..n : text[i].joins
<1> DEFINE safe == {k \in 1..Len(text) : Safe(text, k)}
<1>1. MinimumCut(text) \in safe
  <2>1. Len(text) \in safe /\ safe \in SUBSET Nat
    BY DEF Safe
  <2>2. \E k \in safe : \A j \in safe : k <= j
    <3> HIDE DEF safe
    <3> QED
      BY <2>1, LeastNatural
  <2> QED
    BY <2>2 DEF MinimumCut, Min
<1>2. HardCut(text, room) \in 0..Len(text)
  BY HardCutFits
<1>3. CASE SafeCut(text, room) > 0
  <2>1. Cut(text, room) = SafeCut(text, room)
    BY <1>3 DEF Cut
  <2>2. SafeCut(text, room) \in 0..Len(text) /\ Safe(text, SafeCut(text, room))
    BY <1>2, <1>3, SafeCutFits
  <2> QED
    BY <2>1, <2>2 DEF Safe
<1>4. CASE SafeCut(text, room) = 0 /\ Cut(text, room) = HardCut(text, room)
  <2>1. \A k \in 1..HardCut(text, room) : text[k + 1].joins
    BY <1>4, SafeCutFits DEF Safe
  <2>2. ASSUME NEW i \in 2..HardCut(text, room) PROVE text[i].joins
    <3>1. i - 1 \in 1..HardCut(text, room) /\ (i - 1) + 1 = i
      BY <1>2
    <3> QED
      BY <2>1, <3>1
  <2> QED
    BY <1>2, <1>4, <2>2
<1>5. CASE Cut(text, room) = MinimumCut(text)
  BY <1>1, <1>5 DEF Safe
<1>6. SafeCut(text, room) > 0 \/ SafeCut(text, room) = 0
  BY <1>2, SafeCutFits
<1> QED
  BY <1>3, <1>4, <1>5, <1>6 DEF Cut

(* A piece that begins where the walk has come to goes on from the others. *)
LEMMA PieceLinks ==
  ASSUME NEW pieces \in Seq(PieceSet), NEW piece \in PieceSet, NEW pos \in Position,
         Linked(pieces), Reached(pieces, pos), pos.para <= Len(paragraphs),
         paragraphs \in Seq([text : Seq(Character), label : Nat]),
         piece.para = pos.para, piece.first = pos.char + 1,
         piece.last \in pos.char..Len(paragraphs[pos.para].text),
         piece.separator =>
           piece.last = Len(paragraphs[pos.para].text) /\ pos.para < Len(paragraphs)
  PROVE  Linked(Append(pieces, piece))
<1> DEFINE q == Append(pieces, piece)
<1>1. /\ q \in Seq(PieceSet) /\ Len(q) = Len(pieces) + 1 /\ q[Len(pieces) + 1] = piece
      /\ \A i \in 1..Len(pieces) : q[i] = pieces[i]
  BY AppendProperties
<1> HIDE DEF q
<1>2. SUFFICES ASSUME NEW i \in 1..Len(pieces) + 1
               PROVE  /\ q[i].para \in DOMAIN paragraphs
                      /\ q[i].last \in q[i].first - 1 .. Len(paragraphs[q[i].para].text)
                      /\ q[i].separator =>
                           q[i].last = Len(paragraphs[q[i].para].text) /\ q[i].para < Len(paragraphs)
                      /\ <<q[i].para, q[i].first>> =
                           IF i = 1 THEN <<1, 1>>
                           ELSE IF q[i - 1].separator THEN <<q[i - 1].para + 1, 1>>
                                ELSE <<q[i - 1].para, q[i - 1].last + 1>>
  <2>1. DOMAIN q = 1..Len(pieces) + 1
    BY <1>1
  <2> QED
    BY <1>2, <2>1 DEF Linked, q
<1>3. CASE i <= Len(pieces)
  <2>1. i \in 1..Len(pieces) /\ (i # 1 => i - 1 \in 1..Len(pieces))
    BY <1>3
  <2>2. i \in DOMAIN pieces
    BY <2>1
  <2>3. q[i] = pieces[i] /\ (i # 1 => q[i - 1] = pieces[i - 1])
    BY <1>1, <2>1
  <2> QED
    BY <2>2, <2>3 DEF Linked
<1>4. CASE i = Len(pieces) + 1
  <2>1. q[i] = piece
    BY <1>1, <1>4
  <2>2. /\ piece.para \in DOMAIN paragraphs
        /\ piece.last \in piece.first - 1 .. Len(paragraphs[piece.para].text)
        /\ piece.separator =>
             piece.last = Len(paragraphs[piece.para].text) /\ piece.para < Len(paragraphs)
    <3>1. pos.para \in 1..Len(paragraphs) + 1 /\ pos.char \in Nat
      BY DEF Reached, Position
    <3>2. piece.para \in DOMAIN paragraphs
      BY <3>1
    <3>3. piece.first - 1 = pos.char
      BY <3>1
    <3> QED
      BY <3>2, <3>3
  <2>3. CASE pieces = <<>>
    <3>1. i = 1 /\ pos.para = 1 /\ pos.char = 0
      BY <1>4, <2>3 DEF Reached, Beginning
    <3> QED
      BY <2>1, <2>2, <3>1
  <2>4. CASE pieces # <<>>
    <3>1. i # 1 /\ q[i - 1] = pieces[Len(pieces)] /\ pieces[Len(pieces)] \in PieceSet
      <4>1. Len(pieces) \in Nat /\ Len(pieces) # 0
        BY <2>4
      <4>2. Len(pieces) \in 1..Len(pieces) /\ i # 1 /\ i - 1 = Len(pieces)
        BY <1>4, <4>1
      <4> QED
        BY <1>1, <4>2, ElementOfSeq
    <3>2. <<pos.para, pos.char>> =
            IF q[i - 1].separator THEN <<q[i - 1].para + 1, 0>>
            ELSE <<q[i - 1].para, q[i - 1].last>>
      BY <2>4, <3>1 DEF Reached, Last
    <3>3. <<pos.para, pos.char + 1>> =
            IF q[i - 1].separator THEN <<q[i - 1].para + 1, 1>>
            ELSE <<q[i - 1].para, q[i - 1].last + 1>>
      <4>1. pos.char \in Nat /\ q[i - 1].last \in Nat
        BY <3>1 DEF PieceSet, Position
      <4>2. CASE q[i - 1].separator
        BY <3>2, <4>1, <4>2
      <4>3. CASE ~q[i - 1].separator
        BY <3>2, <4>1, <4>3
      <4> QED
        BY <4>2, <4>3
    <3> QED
      BY <2>1, <2>2, <3>1, <3>3
  <2> QED
    BY <2>3, <2>4
<1> QED
  BY <1>3, <1>4

LEMMA SelectionShape ==
  ASSUME PageTypes
  PROVE  /\ selection.header \in Seq(Character)
         /\ paragraphs \in Seq([text : Seq(Character), label : Nat])
         /\ Bytes(selection.header) \in Nat /\ Large \in BOOLEAN
         /\ Continued \in Nat /\ MaxRevision \in Nat
<1>1. /\ selection \in [header : Seq(Character), units : Seq([text : Seq(Character), label : Nat])]
      /\ {LargeHeader, Continued, MaxRevision} \subseteq Nat
  BY PaginationAssumption DEF PageTypes
<1>2. Bytes(selection.header) \in Nat
  BY <1>1, BytesCount
<1> QED
  BY <1>1, <1>2 DEF paragraphs, Large, LargeOf

LEMMA UnitShape ==
  ASSUME PageTypes, NEW i \in 1..Len(paragraphs)
  PROVE  i \in DOMAIN paragraphs
         /\ paragraphs[i].text \in Seq(Character) /\ paragraphs[i].label \in Nat
<1>1. paragraphs \in Seq([text : Seq(Character), label : Nat])
  BY SelectionShape
<1>2. paragraphs[i] \in [text : Seq(Character), label : Nat]
  BY <1>1, ElementOfSeq
<1> QED
  BY <1>1, <1>2

(* A page has room for what is left of a paragraph that is at its end. *)
LEMMA ParagraphUnderWay ==
  ASSUME PageTypes, Building, status = "building", at.para <= Len(paragraphs)
  PROVE  /\ at.para \in 1..Len(paragraphs)
         /\ paragraphs[at.para].text \in Seq(Character) /\ paragraphs[at.para].label \in Nat
         /\ at.char \in 0..Len(paragraphs[at.para].text)
         /\ Remaining \in Seq(Character)
         /\ Len(Remaining) = Len(paragraphs[at.para].text) - at.char
         /\ Needed \in Nat /\ Room \in Nat /\ Label \in Nat
         /\ page = <<>> /\ used + Needed > budget => Remaining # <<>>
<1> DEFINE par == paragraphs[at.para]
<1>1. at.para \in 1..Len(paragraphs) /\ at.char \in 0..Len(par.text)
  BY DEF PageTypes, Position, Building, Reached
<1>2. par.text \in Seq(Character) /\ par.label \in Nat
  BY <1>1, UnitShape
<1>3. Remaining \in Seq(Character) /\ Len(Remaining) = Len(par.text) - at.char
  BY <1>1, <1>2, RestOfText DEF Remaining
<1>4. Label \in Nat /\ Owned \in Nat /\ Bytes(Remaining) \in Nat
  <2>1. Continued \in Nat
    BY SelectionShape
  <2>2. Label \in Nat
    BY <1>2, <2>1 DEF Label
  <2>3. Owned \in Nat
    BY DEF Owned, Separator
  <2> QED
    BY <1>3, <2>2, <2>3, BytesCount
<1>5. Label <= par.label + 1 + Continued /\ Owned <= Separator
  <2>1. Continued \in Nat
    BY SelectionShape
  <2>2. Label <= par.label + 1 + Continued
    BY <1>2, <2>1 DEF Label
  <2>3. Owned <= Separator
    BY DEF Owned, Separator
  <2> QED
    BY <2>2, <2>3
<1>6. budget \in Int /\ used \in Int /\ (page = <<>> => used = 0)
      /\ par.label + 1 + Continued + Separator <= budget
  <2>1. at.para \in DOMAIN paragraphs
    BY <1>1, UnitShape
  <2> QED
    BY <2>1 DEF Building, PageTypes
<1>7. Needed \in Nat /\ Room \in Nat
  BY <1>4, <1>6 DEF Needed, Room
<1>8. page = <<>> /\ used + Needed > budget => Remaining # <<>>
  <2>1. SUFFICES ASSUME page = <<>>, Remaining = <<>> PROVE used + Needed <= budget
    BY <1>4, <1>6, <1>7
  <2>2. Bytes(Remaining) = 0 /\ used = 0
    BY <1>3, <1>6, <2>1, BytesCount
  <2>3. Continued \in Nat
    BY SelectionShape
  <2> QED
    <3>1. Needed = Label + 0 + Owned
      BY <2>2 DEF Needed
    <3>2. Label + 0 + Owned <= par.label + 1 + Continued + Separator
      <4>1. par.label \in Nat /\ Label \in Nat /\ Owned \in Nat /\ Separator \in Nat
        BY <1>2, <1>4 DEF Separator
      <4> HIDE DEF par
      <4> QED
        BY <1>5, <2>3, <4>1
    <3>3. par.label + 1 + Continued + Separator <= budget /\ budget \in Int
      BY <1>6
    <3>4. par.label \in Nat /\ Separator \in Nat
      BY <1>2 DEF Separator
    <3> HIDE DEF par
    <3> QED
      BY <1>4, <2>2, <2>3, <3>1, <3>2, <3>3, <3>4
<1> QED
  BY <1>1, <1>2, <1>3, <1>4, <1>7, <1>8

LEMMA PagesInit == PaginationInit => PagesInv
<1> SUFFICES ASSUME PaginationInit PROVE PagesInv
  OBVIOUS
<1>1. PageTypes
  BY DEF PaginationInit, PageTypes, Beginning, Position
<1>2. Collected
  <2>1. Linked(<<>>)
    BY DEF Linked
  <2>2. paragraphs \in Seq([text : Seq(Character), label : Nat])
        /\ selection.header \in Seq(Character)
    BY <1>1, SelectionShape
  <2>3. 1 <= Len(paragraphs) => paragraphs[1].text \in Seq(Character)
    BY <1>1, <2>2, UnitShape
  <2>4. Reached(<<>>, Beginning)
    BY <2>2, <2>3 DEF Reached, Beginning
  <2> QED
    BY <2>1, <2>2, <2>4 DEF PaginationInit, Collected
<1>3. metadata = [i \in 1..cursor.meta |-> i]
  BY DEF PaginationInit
<1> QED
  BY <1>1, <1>2, <1>3 DEF PaginationInit, PagesInv, Building, CutsAreForced, Interrupted,
     Beginning

LEMMA OpenKeeps == PagesInv /\ Open => PagesInv'
<1> SUFFICES ASSUME PagesInv, Open PROVE PagesInv'
  OBVIOUS
<1> USE DEF client
<1>1. PICK b \in Budgets : budget' = IF Large THEN b ELSE b - Bytes(selection.header)
  BY DEF Open
<1>2. b \in Nat /\ selection \in Selection
  BY PaginationAssumption DEF PagesInv, PageTypes
<1>3. PageTypes /\ Bytes(selection.header) \in Nat /\ paragraphs \in Seq([text : Seq(Character), label : Nat])
      /\ Continued \in Nat
  BY SelectionShape DEF PagesInv
<1>4. PageTypes'
  BY <1>1, <1>2, <1>3 DEF Open, PageTypes, Position
<1>5. Collected'
  BY DEF Open, PagesInv, Collected, Linked, Reached, Large, paragraphs
<1>6. Building'
  <2>1. Linked(payload) /\ Reached(payload, cursor.off)
        /\ (Large => cursor.meta = Len(selection.header))
    BY <1>3, SelectionShape DEF Open, PagesInv, Collected, PageTypes
  <2>2. payload' \o page' = payload /\ at' = cursor.off
    BY <1>3, ConcatEmptySeq DEF Open, PageTypes
  <2>3. (Linked(payload \o page) /\ Reached(payload \o page, at))'
    BY <2>1, <2>2 DEF Open, Linked, Reached, paragraphs
  <2>4. ASSUME NEW i \in DOMAIN paragraphs
        PROVE  paragraphs[i].label + 1 + Continued + Separator <= budget'
    <3>1. paragraphs[i].label \in Nat
      BY <1>3, UnitShape
    <3>2. (IF Large THEN 0 ELSE Bytes(selection.header))
            + paragraphs[i].label + 1 + Continued + Separator <= b
      BY <1>2, PaginationAssumption DEF Large, paragraphs
    <3>3. CASE Large
      BY <1>1, <1>2, <1>3, <3>1, <3>2, <3>3 DEF Separator
    <3>4. CASE ~Large
      <4>1. budget' = b - Bytes(selection.header)
        BY <1>1, <3>4
      <4>2. Bytes(selection.header) + paragraphs[i].label + 1 + Continued + Separator <= b
        BY <3>2, <3>4
      <4> DEFINE label == paragraphs[i].label
                 header == Bytes(selection.header)
      <4>3. label \in Nat /\ header \in Nat /\ b \in Nat /\ Continued \in Nat
        BY <1>2, <1>3, <3>1
      <4>4. budget' = b - header /\ header + label + 1 + Continued + 2 <= b
        BY <4>1, <4>2 DEF Separator
      <4> HIDE DEF label, header
      <4>5. label + 1 + Continued + 2 <= budget'
        BY ONLY <4>3, <4>4
      <4> QED
        BY <4>5 DEF label, Separator
    <3> QED
      BY <3>3, <3>4
  <2> QED
    BY <2>1, <2>3, <2>4 DEF Open, Building, paragraphs, Large
<1> QED
  BY <1>4, <1>5, <1>6 DEF Open, PagesInv, CutsAreForced, Interrupted

LEMMA RefuseKeeps == PagesInv /\ Refuse => PagesInv'
  BY DEF PagesInv, Refuse, client, build, PageTypes, Collected, Building, CutsAreForced,
     Interrupted

LEMMA ReadMetadataKeeps == PagesInv /\ ReadMetadata => PagesInv'
<1> SUFFICES ASSUME PagesInv, ReadMetadata PROVE PagesInv'
  OBVIOUS
<1> DEFINE rest == Rest(selection.header, cursor.meta)
           read(b) == IF SafeCut(rest, b) > 0 THEN SafeCut(rest, b) ELSE HardCut(rest, b)
<1>1. PICK b \in Budgets :
        /\ metadata' = metadata \o [i \in 1..(cursor.meta + read(b)) - cursor.meta |-> cursor.meta + i]
        /\ cursor' = [cursor EXCEPT !.meta = cursor.meta + read(b)]
  BY DEF ReadMetadata
<1>2. PageTypes /\ selection.header \in Seq(Character) /\ cursor.meta \in Nat
      /\ cursor \in [rev : Nat, meta : Nat, off : Position]
  BY SelectionShape DEF PagesInv, PageTypes
<1>3. cursor.meta < Len(selection.header) /\ status = "open" /\ cursor.rev = revision /\ Large
  BY DEF ReadMetadata
<1>4. read(b) \in 0..Len(selection.header) - cursor.meta
  <2>1. rest \in Seq(Character) /\ Len(rest) = Len(selection.header) - cursor.meta
    BY <1>2, <1>3, RestOfText
  <2>2. b \in Nat
    BY PaginationAssumption
  <2> HIDE DEF rest
  <2>3. HardCut(rest, b) \in 0..Len(rest)
    BY <2>1, <2>2, HardCutFits
  <2>4. SafeCut(rest, b) \in 0..HardCut(rest, b)
    BY <2>1, <2>2, SafeCutFits
  <2> QED
    BY <2>1, <2>3, <2>4
<1> HIDE DEF read
<1>5. cursor'.meta = cursor.meta + read(b) /\ cursor'.rev = cursor.rev /\ cursor'.off = cursor.off
      /\ cursor' \in [rev : Nat, meta : Nat, off : Position]
  <2>1. cursor.meta + read(b) \in Nat
    BY <1>2, <1>3, <1>4
  <2> QED
    BY <1>1, <1>2, <2>1
<1>6. PageTypes'
  BY <1>5 DEF ReadMetadata, PagesInv, PageTypes, build
<1>7. Collected'
  <2>1. Linked(payload)' /\ (Reached(payload, cursor.off))'
    BY <1>3, <1>5 DEF ReadMetadata, PagesInv, Collected, Linked, Reached, paragraphs
  <2>2. payload' = <<>>
    BY <1>2, <1>3 DEF ReadMetadata, PagesInv, Collected
  <2>3. cursor'.meta <= Len(selection'.header)
    BY <1>2, <1>4, <1>5 DEF ReadMetadata
  <2> QED
    BY <1>3, <2>1, <2>2, <2>3 DEF ReadMetadata, Collected
<1>8. metadata' = [i \in 1..cursor'.meta |-> i]
  <2>1. metadata = [i \in 1..cursor.meta |-> i]
    BY DEF PagesInv
  <2>2. (cursor.meta + read(b)) - cursor.meta = read(b) /\ read(b) \in Nat
    BY <1>2, <1>4
  <2> DEFINE more == [i \in 1..read(b) |-> cursor.meta + i]
             all == [i \in 1..cursor.meta + read(b) |-> i]
  <2>3. metadata \in Seq(Nat) /\ more \in Seq(Nat) /\ all \in Seq(Nat)
        /\ Len(metadata) = cursor.meta /\ Len(more) = read(b) /\ Len(all) = cursor.meta + read(b)
    BY <1>2, <2>1, <2>2
  <2>4. /\ metadata \o more \in Seq(Nat) /\ Len(metadata \o more) = cursor.meta + read(b)
        /\ \A i \in 1..cursor.meta + read(b) :
             (metadata \o more)[i] = IF i <= cursor.meta THEN metadata[i] ELSE more[i - cursor.meta]
    <3> HIDE DEF more, all
    <3>1. /\ metadata \o more \in Seq(Nat) /\ Len(metadata \o more) = Len(metadata) + Len(more)
          /\ \A i \in 1..Len(metadata) + Len(more) :
               (metadata \o more)[i] =
                 IF i <= Len(metadata) THEN metadata[i] ELSE more[i - Len(metadata)]
      BY <2>3, ConcatProperties
    <3> QED
      BY <2>3, <3>1
  <2>5. ASSUME NEW i \in 1..cursor.meta + read(b) PROVE (metadata \o more)[i] = all[i]
    BY <1>2, <2>1, <2>2, <2>4
  <2>6. metadata \o more = all
    <3> HIDE DEF more, all
    <3> QED
      BY <2>3, <2>4, <2>5, SeqEqual
  <2> QED
    BY <1>1, <1>5, <2>2, <2>6
<1>9. CutsAreForced'
  BY <1>3, <1>5 DEF ReadMetadata, PagesInv, CutsAreForced, Interrupted, GraphemesWhole,
     CutOnlyWhenAlone, PieceBytes, paragraphs, build
<1> QED
  BY <1>3, <1>6, <1>7, <1>8, <1>9 DEF ReadMetadata, PagesInv, Building

LEMMA TakeParagraphKeeps == PagesInv /\ TakeParagraph => PagesInv'
<1> SUFFICES ASSUME PagesInv, TakeParagraph PROVE PagesInv'
  OBVIOUS
<1> DEFINE piece == Piece(Len(Remaining), TRUE)
           before == payload \o page
           after == Append(before, piece)
           text == paragraphs[at.para].text
<1>1. PageTypes /\ Building /\ status = "building" /\ at.para <= Len(paragraphs)
      /\ Linked(before) /\ Reached(before, at)
  BY DEF PagesInv, TakeParagraph, Building
<1>2. /\ at.para \in 1..Len(paragraphs) /\ at.char \in 0..Len(text)
      /\ Len(Remaining) = Len(text) - at.char /\ text \in Seq(Character) /\ Needed \in Nat
  BY <1>1, ParagraphUnderWay
<1>3. /\ piece \in PieceSet /\ piece.para = at.para /\ piece.first = at.char + 1
      /\ piece.last = Len(text) /\ (piece.separator <=> at.para < Len(paragraphs))
  <2>1. at.char + Len(Remaining) = Len(text) /\ Len(text) \in Nat
    BY <1>2
  <2>2. (TRUE /\ Owned > 0) <=> at.para < Len(paragraphs)
    BY DEF Owned, Separator
  <2> DEFINE separated == TRUE /\ Owned > 0
  <2>3. piece = [para |-> at.para, first |-> at.char + 1, last |-> Len(text),
                 separator |-> separated]
    BY <2>1 DEF Piece
  <2>4. separated \in BOOLEAN /\ at.para \in Nat /\ at.char + 1 \in Nat
    BY <1>2
  <2> HIDE DEF separated, piece
  <2>5. piece \in PieceSet
    BY <2>1, <2>3, <2>4 DEF PieceSet
  <2>6. /\ piece.para = at.para /\ piece.first = at.char + 1
        /\ piece.last = Len(text) /\ piece.separator = separated
    BY <2>3
  <2> QED
    BY <2>2, <2>5, <2>6 DEF separated
<1>4. payload \in Seq(PieceSet) /\ page \in Seq(PieceSet) /\ before \in Seq(PieceSet)
  BY <1>1, ConcatProperties DEF PageTypes
<1>5. payload' \o page' = after
  <2>1. page' = Append(page, piece)
    BY DEF TakeParagraph
  <2>2. payload' = payload
    BY DEF TakeParagraph, client
  <2> HIDE DEF piece, before
  <2>3. page' = page \o <<piece>> /\ after = before \o <<piece>> /\ <<piece>> \in Seq(PieceSet)
    BY <1>3, <1>4, <2>1, AppendIsConcat
  <2> QED
    BY <1>4, <2>2, <2>3, ConcatAssociative DEF before
<1>6. Linked(after)
  <2>1. at \in Position /\ paragraphs \in Seq([text : Seq(Character), label : Nat])
    BY <1>1, SelectionShape DEF PageTypes
  <2>2. piece.last \in at.char..Len(text)
    <3>1. piece.last = Len(text)
      BY <1>3
    <3> HIDE DEF piece
    <3> QED
      BY <1>2, <3>1
  <2> HIDE DEF piece, before
  <2> QED
    BY <1>1, <1>3, <1>4, <2>1, <2>2, PieceLinks
<1>7. at' = [para |-> at.para + 1, char |-> 0] /\ selection' = selection
  BY DEF TakeParagraph
<1>8. after # <<>> /\ Last(after) = piece
  <2>1. piece \in PieceSet
    BY <1>3
  <2> HIDE DEF piece, before
  <2>2. after # <<>> /\ Len(after) = Len(before) + 1 /\ after[Len(before) + 1] = piece
    BY <1>4, <2>1, AppendProperties
  <2> HIDE DEF after
  <2> QED
    BY <2>2 DEF Last
<1>9. Reached(after, at')
  <2>1. Len(paragraphs) \in Nat
        /\ (at.para + 1 <= Len(paragraphs) => paragraphs[at.para + 1].text \in Seq(Character))
    <3>1. Len(paragraphs) \in Nat
      BY <1>1, SelectionShape
    <3>2. ASSUME at.para + 1 <= Len(paragraphs)
          PROVE  paragraphs[at.para + 1].text \in Seq(Character)
      <4>1. at.para + 1 \in 1..Len(paragraphs)
        BY <1>2, <3>1, <3>2
      <4> QED
        BY <1>1, <4>1, UnitShape
    <3> QED
      BY <3>1, <3>2
  <2>2. at.para + 1 > Len(paragraphs) <=> at.para = Len(paragraphs)
    BY <1>2, <2>1
  <2> HIDE DEF piece, after
  <2>3. at'.para \in 1..Len(paragraphs) + 1 /\ at'.char = 0 /\ at'.para = at.para + 1
    BY <1>2, <1>7, <2>1
  <2>4. at'.para <= Len(paragraphs) => at'.char <= Len(paragraphs[at'.para].text)
    BY <2>1, <2>3
  <2>5. CASE at.para = Len(paragraphs)
    BY <1>3, <1>8, <2>2, <2>3, <2>4, <2>5 DEF Reached
  <2>6. CASE at.para # Len(paragraphs)
    <3>1. at.para < Len(paragraphs) /\ ~(at'.para > Len(paragraphs))
      BY <1>2, <2>1, <2>2, <2>3, <2>6
    <3> QED
      BY <1>3, <1>8, <2>3, <2>4, <3>1 DEF Reached
  <2> QED
    BY <2>5, <2>6
<1>10. PageTypes'
  <2>1. page' \in Seq(PieceSet)
    <3>1. page' = Append(page, piece)
      BY DEF TakeParagraph
    <3> HIDE DEF piece
    <3> QED
      BY <1>3, <1>4, <3>1, AppendProperties
  <2>2. at' \in Position /\ used' \in Int
    BY <1>1, <1>2, <1>7 DEF TakeParagraph, PageTypes, Position
  <2>3. /\ selection' = selection /\ revision' = revision /\ budget' = budget
        /\ cursor' = cursor /\ payload' = payload
    BY DEF TakeParagraph, client
  <2>4. /\ selection' \in Selection /\ revision' \in Nat /\ budget' \in Int
        /\ cursor' \in [rev : Nat, meta : Nat, off : Position] /\ cursor'.rev <= revision'
        /\ payload' \in Seq(PieceSet)
    BY <1>1, <2>3 DEF PageTypes
  <2> QED
    BY <2>1, <2>2, <2>4 DEF PageTypes
<1>11. (Linked(payload \o page) /\ Reached(payload \o page, at))'
  <2> HIDE DEF piece, before, after
  <2> QED
    BY <1>5, <1>6, <1>7, <1>9 DEF Linked, Reached, paragraphs
<1>12. Building'
  <2>1. page' # <<>>
    <3>1. page' = Append(page, piece)
      BY DEF TakeParagraph
    <3> HIDE DEF piece
    <3> QED
      BY <1>3, <1>4, <3>1, AppendProperties
  <2>2. UNCHANGED <<selection, revision, cursor, budget>> /\ at'.char = 0
    BY <1>7 DEF TakeParagraph, client
  <2> QED
    BY <1>1, <1>11, <2>1, <2>2 DEF Building, Large, paragraphs
<1>13. Collected'
  BY <1>7 DEF PagesInv, TakeParagraph, client, Collected, Linked, Reached, Large, paragraphs
<1> QED
  BY <1>10, <1>12, <1>13 DEF PagesInv, TakeParagraph, client, CutsAreForced, Interrupted

(* A page sent ends between paragraphs. *)
LEMMA EndPageKeeps == PagesInv /\ EndPage => PagesInv'
<1> SUFFICES ASSUME PagesInv, EndPage PROVE PagesInv'
  OBVIOUS
<1>1. /\ PageTypes /\ Building /\ status = "building" /\ cursor.rev = revision
      /\ Linked(payload \o page) /\ Reached(payload \o page, at)
      /\ Large => cursor.meta = Len(selection.header)
      /\ cursor.meta <= Len(selection.header)
  BY DEF PagesInv, EndPage, Building, Collected
<1>2. /\ payload' = payload \o page
      /\ cursor' = [rev |-> revision, meta |-> cursor.meta, off |-> at]
      /\ status' = IF at.para > Len(paragraphs) THEN "done" ELSE "open"
      /\ UNCHANGED <<selection, revision, budget, page, used, at, metadata>>
  BY DEF EndPage, Send, build
<1>3. cursor'.rev = revision /\ cursor'.meta = cursor.meta /\ cursor'.off = at
  BY <1>2
<1>4. PageTypes'
  <2>1. payload' \in Seq(PieceSet)
    BY <1>1, <1>2, ConcatProperties DEF PageTypes
  <2>2. cursor' \in [rev : Nat, meta : Nat, off : Position] /\ cursor'.rev <= revision
    BY <1>1, <1>2 DEF PageTypes
  <2> QED
    BY <1>1, <1>2, <2>1, <2>2 DEF PageTypes
<1>5. Collected'
  <2>1. Linked(payload)' /\ Reached(payload, cursor.off)'
    BY <1>1, <1>2, <1>3 DEF Linked, Reached, paragraphs
  <2>2. status' = "done" => at.para > Len(paragraphs)
    BY <1>2
  <2> QED
    BY <1>1, <1>2, <1>3, <2>1, <2>2 DEF Collected, Large, paragraphs
<1>6. CutsAreForced'
  <2>1. ASSUME at.para <= Len(paragraphs) PROVE at.char = 0
    BY <1>1, <2>1 DEF EndPage, Building
  <2>2. ASSUME status' = "open" PROVE at.para <= Len(paragraphs)
    BY <1>1, <1>2, <2>2, SelectionShape DEF PageTypes, Position
  <2> QED
    BY <1>3, <2>1, <2>2 DEF CutsAreForced, Interrupted
<1>7. metadata' = [i \in 1..cursor'.meta |-> i]
  BY <1>2, <1>3 DEF PagesInv
<1>8. Building'
  BY <1>2 DEF Building
<1> QED
  BY <1>4, <1>5, <1>6, <1>7, <1>8 DEF PagesInv

(* A page cut short holds one piece, of a paragraph that no page can hold. *)
LEMMA CutParagraphKeeps == PagesInv /\ CutParagraph => PagesInv'
<1> SUFFICES ASSUME PagesInv, CutParagraph PROVE PagesInv'
  OBVIOUS
<1> DEFINE n == Cut(Remaining, Room)
           piece == Piece(n, FALSE)
           text == paragraphs[at.para].text
           after == Append(payload, piece)
<1>1. /\ PageTypes /\ Building /\ status = "building" /\ cursor.rev = revision
      /\ at.para <= Len(paragraphs) /\ page = <<>> /\ used + Needed > budget
      /\ Large => cursor.meta = Len(selection.header)
      /\ cursor.meta <= Len(selection.header) /\ used = 0
  BY DEF PagesInv, CutParagraph, Building, Collected
<1>2. /\ n > 0 /\ page' = <<piece>> /\ at' = [at EXCEPT !.char = @ + n]
      /\ used' = Label + Bytes(SubSeq(Remaining, 1, n))
      /\ payload' = payload \o page'
      /\ cursor' = [rev |-> revision, meta |-> cursor.meta, off |-> at']
      /\ status' = IF at'.para > Len(paragraphs) THEN "done" ELSE "open"
      /\ UNCHANGED <<selection, revision, budget, metadata>>
  BY DEF CutParagraph, Send
<1>3. /\ at.para \in 1..Len(paragraphs) /\ at.char \in 0..Len(text)
      /\ text \in Seq(Character) /\ Remaining \in Seq(Character) /\ Remaining # <<>>
      /\ Len(Remaining) = Len(text) - at.char
      /\ Needed \in Nat /\ Room \in Nat /\ Label \in Nat
  BY <1>1, ParagraphUnderWay
<1>4. n \in 1..Len(Remaining)
      /\ (n < Len(Remaining) /\ Remaining[n + 1].joins => \A i \in 2..n : Remaining[i].joins)
  <2>1. /\ n \in 0..Len(Remaining)
        /\ (n > 0 /\ n < Len(Remaining) /\ Remaining[n + 1].joins =>
             \A i \in 2..n : Remaining[i].joins)
    BY <1>3, CutFits
  <2>2. n > 0
    BY <1>2
  <2>3. Len(Remaining) \in Nat
    BY <1>3
  <2> HIDE DEF n
  <2> QED
    BY <2>1, <2>2, <2>3
<1> HIDE DEF n
<1>5. piece = [para |-> at.para, first |-> at.char + 1, last |-> at.char + n,
               separator |-> FALSE]
  BY DEF Piece
<1> HIDE DEF piece
<1>6. /\ piece \in PieceSet /\ piece.para = at.para /\ piece.first = at.char + 1
      /\ piece.last = at.char + n /\ piece.separator = FALSE
      /\ at.char + n \in 1..Len(text)
  <2>1. at.char + n \in 1..Len(text)
    <3> DEFINE c == at.char
               m == Len(text)
    <3>1. m \in Nat /\ c \in 0..m /\ n \in 1..m - c
      BY <1>3, <1>4
    <3> HIDE DEF c, m
    <3>2. c + n \in 1..m
      BY ONLY <3>1
    <3> QED
      BY <3>2 DEF c, m
  <2>2. at.para \in Nat /\ at.char + 1 \in Nat /\ at.char + n \in Nat
    BY <1>3, <2>1
  <2>3. piece \in PieceSet
    BY <1>5, <2>2 DEF PieceSet
  <2> QED
    BY <1>5, <2>1, <2>3
<1>7. at'.para = at.para /\ at'.char = at.char + n /\ at' \in Position
  <2>1. at \in Position
    BY <1>1 DEF PageTypes
  <2>2. at.char + n \in Nat
    BY <1>6
  <2> QED
    BY <1>2, <2>1, <2>2 DEF Position
<1>8. cursor'.rev = revision /\ cursor'.meta = cursor.meta /\ cursor'.off = at'
  BY <1>2
<1>9. payload' = after /\ after \in Seq(PieceSet) /\ after # <<>> /\ Last(after) = piece
  <2>1. payload \in Seq(PieceSet)
    BY <1>1 DEF PageTypes
  <2>2. after = payload \o <<piece>>
    BY <1>6, <2>1, AppendIsConcat
  <2> QED
    BY <1>2, <1>6, <2>1, <2>2, AppendProperties DEF Last
<1>10. status' = "open"
  BY <1>2, <1>3, <1>7, SelectionShape
<1>11. PageTypes'
  <2>1. page' \in Seq(PieceSet)
    BY <1>2, <1>6
  <2>2. used' \in Int
    <3>1. SubSeq(Remaining, 1, n) \in Seq(Character)
      BY <1>3, <1>4, PrefixOfText
    <3>2. Bytes(SubSeq(Remaining, 1, n)) \in Nat /\ Label \in Nat
      BY <1>3, <3>1, BytesCount
    <3> QED
      BY <1>2, <3>2
  <2>3. cursor' \in [rev : Nat, meta : Nat, off : Position] /\ cursor'.rev <= revision
    BY <1>1, <1>2, <1>7 DEF PageTypes
  <2> QED
    BY <1>1, <1>2, <1>7, <1>9, <2>1, <2>2, <2>3 DEF PageTypes
<1>12. Collected'
  <2>1. payload \in Seq(PieceSet) /\ Linked(payload) /\ Reached(payload, at)
    <3>1. payload \o page = payload /\ payload \in Seq(PieceSet)
      BY <1>1, ConcatEmptySeq DEF PageTypes
    <3> QED
      BY <1>1, <3>1 DEF Building
  <2>2. Linked(after)
    <3>1. at \in Position /\ paragraphs \in Seq([text : Seq(Character), label : Nat])
      BY <1>1, SelectionShape DEF PageTypes
    <3>2. piece.last \in at.char..Len(text)
      BY <1>3, <1>4, <1>6
    <3> QED
      BY <1>1, <1>6, <2>1, <3>1, <3>2, PieceLinks
  <2> HIDE DEF after
  <2>3. Reached(after, at')
    <3>1. ~(at'.para > Len(paragraphs)) /\ at'.para \in 1..Len(paragraphs) + 1
          /\ at'.char <= Len(text)
      <4>1. Len(paragraphs) \in Nat /\ at.para \in 1..Len(paragraphs)
        BY <1>1, <1>3, SelectionShape
      <4>2. at.char + n \in 1..Len(text)
        BY <1>6
      <4> QED
        BY <1>7, <4>1, <4>2
    <3>2. <<at'.para, at'.char>> = <<piece.para, piece.last>>
      BY <1>6, <1>7
    <3> QED
      BY <1>6, <1>7, <1>9, <3>1, <3>2 DEF Reached
  <2>4. Linked(payload)' /\ Reached(payload, cursor.off)'
    BY <1>2, <1>8, <1>9, <2>2, <2>3 DEF Linked, Reached, paragraphs
  <2> QED
    BY <1>1, <1>2, <1>8, <1>10, <2>4 DEF Collected, Large, paragraphs
<1>13. GraphemesWhole'
  <2>1. ASSUME at.char + n < Len(text), text[at.char + n + 1].joins,
               NEW i \in at.char + 2..at.char + n
        PROVE  text[i].joins
    <3>1. \A k \in 1..Len(Remaining) : Remaining[k] = text[at.char + k]
      BY <1>3, RestOfText DEF Remaining
    <3>2. n + 1 \in 1..Len(Remaining) /\ n < Len(Remaining) /\ i - at.char \in 2..n
          /\ i - at.char \in 1..Len(Remaining) /\ at.char + (i - at.char) = i
          /\ at.char + (n + 1) = at.char + n + 1
      <4> DEFINE m == Len(Remaining)
                 c == at.char
      <4>1. /\ m \in Nat /\ c \in Nat /\ Len(text) \in Nat /\ m = Len(text) - c
            /\ n \in 1..m /\ c + n < Len(text) /\ i \in c + 2..c + n
        BY <1>3, <1>4, <2>1
      <4> HIDE DEF m, c
      <4>2. /\ n + 1 \in 1..m /\ n < m /\ i - c \in 2..n /\ i - c \in 1..m
            /\ c + (i - c) = i /\ c + (n + 1) = c + n + 1
        BY ONLY <4>1
      <4> QED
        BY <4>2 DEF m, c
    <3>3. Remaining[n + 1] = text[at.char + n + 1] /\ Remaining[i - at.char] = text[i]
      BY <3>1, <3>2
    <3> QED
      BY <1>4, <2>1, <3>2, <3>3
  <2>2. Last(page)' = piece
    BY <1>2 DEF Last
  <2>3. (paragraphs[cursor.off.para].text)' = text /\ (cursor.off.char)' = at.char + n
    BY <1>2, <1>7, <1>8 DEF paragraphs
  <2>4. (at.char + 1) + 1 = at.char + 2
    BY <1>3
  <2> QED
    BY <1>6, <2>1, <2>2, <2>3, <2>4 DEF GraphemesWhole
<1>14. CutOnlyWhenAlone'
  <2> DEFINE whole == [piece EXCEPT !.last = Len(paragraphs[piece.para].text),
                                    !.separator = piece.para < Len(paragraphs)]
  <2>1. PieceBytes(whole) = Needed
    <3>1. whole.para = at.para /\ whole.first = at.char + 1 /\ whole.last = Len(text)
          /\ whole.separator = (at.para < Len(paragraphs))
      BY <1>5
    <3>2. whole.first > 1 <=> at.char > 0
      BY <1>3, <3>1
    <3>3. Label = IF paragraphs[at.para].label = 0 THEN 0
                  ELSE paragraphs[at.para].label + 1 + (IF whole.first > 1 THEN Continued ELSE 0)
      BY <3>2 DEF Label
    <3>4. Remaining = SubSeq(text, whole.first, whole.last)
      BY <3>1 DEF Remaining, Rest
    <3>5. Owned = IF whole.separator THEN Separator ELSE 0
      BY <3>1 DEF Owned
    <3> HIDE DEF whole
    <3> QED
      BY <3>1, <3>3, <3>4, <3>5 DEF PieceBytes, Needed
  <2>2. PieceBytes(whole) > budget
    BY <1>1, <1>3, <2>1
  <2>3. Last(page)' = piece /\ Len(page') = 1
    BY <1>2 DEF Last
  <2> QED
    BY <1>2, <2>2, <2>3 DEF CutOnlyWhenAlone, PieceBytes, paragraphs
<1>15. metadata' = [i \in 1..cursor'.meta |-> i]
  BY <1>2, <1>8 DEF PagesInv
<1>16. Building'
  BY <1>10 DEF Building
<1> QED
  BY <1>11, <1>12, <1>13, <1>14, <1>15, <1>16 DEF PagesInv, CutsAreForced

LEMMA GiveUpKeeps == PagesInv /\ GiveUp => PagesInv'
<1> SUFFICES ASSUME PagesInv, GiveUp PROVE PagesInv'
  OBVIOUS
<1>1. /\ UNCHANGED <<selection, revision, cursor, payload, metadata, budget, page, used, at>>
      /\ status = "building" /\ status' = "failed"
  BY DEF GiveUp, client, build
<1>2. PageTypes'
  BY <1>1 DEF PagesInv, PageTypes
<1>3. Collected'
  BY <1>1 DEF PagesInv, Collected, Linked, Reached, Large, paragraphs
<1> QED
  BY <1>1, <1>2, <1>3 DEF PagesInv, Building, CutsAreForced, Interrupted

(* A cursor is of a revision that was published: never of the next. *)
LEMMA PublishKeeps == PagesInv /\ Publish => PagesInv'
<1> SUFFICES ASSUME PagesInv, Publish PROVE PagesInv'
  OBVIOUS
<1>1. /\ PageTypes /\ UNCHANGED <<cursor, payload, metadata, budget, page, used, at, status>>
      /\ revision' = revision + 1 /\ status = "open" /\ selection' \in Selection
  BY PaginationAssumption DEF PagesInv, Publish, client, build
<1>2. PageTypes' /\ cursor'.rev < revision'
  <2>1. revision \in Nat /\ cursor.rev \in Nat /\ cursor.rev <= revision
    BY <1>1 DEF PageTypes
  <2> QED
    BY <1>1, <2>1 DEF PageTypes
<1>3. cursor'.rev # revision'
  BY <1>2 DEF PageTypes
<1> QED
  BY <1>1, <1>2, <1>3 DEF PagesInv, Collected, Building, CutsAreForced, Interrupted

LEMMA PagesKept == PaginationSpec => []PagesInv
<1>1. PagesInv /\ [PaginationNext]_paginationVars => PagesInv'
  <2> SUFFICES ASSUME PagesInv, [PaginationNext]_paginationVars PROVE PagesInv'
    OBVIOUS
  <2>1. CASE UNCHANGED paginationVars
    <3>1. UNCHANGED <<selection, revision, cursor, budget, page, used, at, payload, metadata,
                      status>>
      BY <2>1 DEF paginationVars
    <3>2. PageTypes' /\ metadata' = [i \in 1..cursor'.meta |-> i]
      BY <3>1 DEF PagesInv, PageTypes
    <3>3. Collected'
      BY <3>1 DEF PagesInv, Collected, Linked, Reached, Large, paragraphs
    <3>4. Building'
      BY <3>1 DEF PagesInv, Building, Linked, Reached, Large, paragraphs
    <3>5. CutsAreForced'
      BY <3>1 DEF PagesInv, CutsAreForced, Interrupted, GraphemesWhole, CutOnlyWhenAlone,
         PieceBytes, paragraphs
    <3> QED
      BY <3>2, <3>3, <3>4, <3>5 DEF PagesInv
  <2> QED
    BY <2>1, OpenKeeps, RefuseKeeps, ReadMetadataKeeps, TakeParagraphKeeps, EndPageKeeps,
       CutParagraphKeeps, GiveUpKeeps, PublishKeeps DEF PaginationNext, ReadPage
<1> QED
  BY <1>1, PagesInit, PTL DEF PaginationSpec

(* What the invariant says of a client that has read to the end. *)
LEMMA ExactWhenDone == PagesInv => ReadExact
<1> SUFFICES ASSUME PagesInv PROVE ReadExact
  OBVIOUS
<1>1. ASSUME cursor.rev = revision, status = "done"
      PROVE  EndsSelection(payload)
  <2>1. /\ PageTypes /\ Linked(payload) /\ Reached(payload, cursor.off)
        /\ cursor.off.para > Len(paragraphs) /\ payload \in Seq(PieceSet)
    BY <1>1 DEF PagesInv, Collected, PageTypes
  <2>2. paragraphs \in Seq([text : Seq(Character), label : Nat])
    BY <2>1, SelectionShape
  <2>3. CASE payload = <<>>
    <3>1. Len(paragraphs) < 1
      BY <2>1, <2>3 DEF Reached, Beginning
    <3>2. paragraphs = <<>>
      BY <2>2, <3>1
    <3> QED
      BY <2>3, <3>2 DEF EndsSelection
  <2>4. CASE payload # <<>>
    <3>1. 1 \in DOMAIN payload
      BY <2>1, <2>4
    <3>2. payload[1].para \in DOMAIN paragraphs
      BY <2>1, <3>1 DEF Linked
    <3>3. paragraphs # <<>>
      BY <3>2
    <3> QED
      BY <2>1, <2>4, <3>3 DEF Reached, EndsSelection
  <2> QED
    BY <2>3, <2>4
<1> QED
  BY <1>1 DEF ReadExact, PagesInv, Collected

(* read: following the cursors gives the text of the selection, each       *)
(* character and separator once and in order, at the end all of it, behind *)
(* all of a large header: for any texts, page sizes and refreshes between. *)
THEOREM ReadsExactly == PaginationSpec => []ReadExact
  BY PagesKept, ExactWhenDone, PTL

(* _paginate, _safe_char_cut: a page ends inside a paragraph only if no    *)
(* page can hold it, and inside a grapheme only if it holds nothing but a  *)
(* part of one.                                                            *)
THEOREM CutsOnlyWhenForced == PaginationSpec => []CutsAreForced
<1>1. PagesInv => CutsAreForced
  BY DEF PagesInv
<1> QED
  BY <1>1, PagesKept, PTL
=============================================================================
