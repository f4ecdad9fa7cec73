---------------------------- MODULE TableProofs ----------------------------
(***************************************************************************)
(* What aligning and retiring do to the rows of one unit, for every set of *)
(* texts, hashes and converters and for any history: the consistency of    *)
(* the rows is kept, and so is every citation into them.  First what the   *)
(* proofs need of matching one version's paragraphs to the next.           *)
(***************************************************************************)
EXTENDS LedgerTables, FiniteSetTheorems, NaturalsInduction,
        WellFoundedInduction, TLAPS

(* A nonempty set of naturals has a least element. *)
LEMMA LeastNatural ==
  ASSUME NEW S \in SUBSET Nat, S # {}
  PROVE  \E m \in S : \A x \in S : m <= x
<1> DEFINE R == {ss \in Nat \X Nat : ss[1] < ss[2]}
<1>1. IsWellFoundedOn(R, Nat)
  BY NatLessThanWellFounded, Zenon DEF OpToRel
<1>2. PICK m \in S : \A y \in S : ~(<<y, m>> \in R)
  BY <1>1, WFMin
<1>3. \A y \in S : ~(y < m)
  BY <1>2
<1> QED
  BY <1>3

(* A nonempty bounded set of naturals has a greatest element. *)
LEMMA GreatestNatural ==
  ASSUME NEW S \in SUBSET Nat, S # {}, NEW n \in Nat, \A x \in S : x <= n
  PROVE  \E m \in S : \A x \in S : x <= m
<1> DEFINE T == {n - x : x \in S}
<1>1. T \in SUBSET Nat /\ T # {}
  <2>1. \A x \in S : n - x \in Nat
    OBVIOUS
  <2>2. T \in SUBSET Nat
    BY <2>1
  <2>3. PICK x \in S : TRUE
    OBVIOUS
  <2>4. n - x \in T
    BY <2>3
  <2> QED
    BY <2>2, <2>4
<1>2. PICK t \in T : \A y \in T : t <= y
  BY <1>1, LeastNatural
<1>3. PICK m \in S : t = n - m
  OBVIOUS
<1>4. \A x \in S : n - m <= n - x
  BY <1>2, <1>3
<1> QED
  BY <1>4

(* Members of D among 1..i: finitely many, and more once a member joins.
   Occurrence and FreshRank both count this way. *)
LEMMA CountUpTo ==
  ASSUME NEW D, NEW i \in Nat, NEW j \in Nat, i <= j
  PROVE  LET C(k) == {x \in 1..k : x \in D}
         IN  /\ Cardinality(C(i)) \in Nat
             /\ Cardinality(C(i)) <= i
             /\ Cardinality(C(i)) <= Cardinality(C(j))
             /\ i < j /\ j \in D => Cardinality(C(i)) < Cardinality(C(j))
             /\ i > 0 /\ i \in D => Cardinality(C(i)) > 0
<1> DEFINE C(k) == {x \in 1..k : x \in D}
<1>1. ASSUME NEW k \in Nat
      PROVE  /\ IsFiniteSet(C(k))
             /\ Cardinality(C(k)) \in Nat
             /\ Cardinality(C(k)) <= k
  <2>1. IsFiniteSet(1..k) /\ Cardinality(1..k) = k
    BY FS_Interval
  <2>2. C(k) \in SUBSET (1..k)
    OBVIOUS
  <2> QED
    BY <2>1, <2>2, FS_Subset, FS_CardinalityType
<1>2. C(i) \in SUBSET C(j)
  OBVIOUS
<1>3. Cardinality(C(i)) <= Cardinality(C(j))
  BY <1>1, <1>2, FS_Subset
<1>4. ASSUME i < j, j \in D
      PROVE  Cardinality(C(i)) < Cardinality(C(j))
  <2>1. j \in C(j) /\ j \notin C(i)
    BY <1>4
  <2>2. Cardinality(C(i)) # Cardinality(C(j))
    BY <1>1, <1>2, <2>1, FS_Subset
  <2> QED
    BY <1>1, <1>3, <2>2
<1>5. ASSUME i > 0, i \in D
      PROVE  Cardinality(C(i)) > 0
  <2>1. i \in C(i)
    BY <1>5
  <2> QED
    BY <1>1, <2>1, FS_EmptySet
<1> QED
  BY <1>1, <1>3, <1>4, <1>5

-----------------------------------------------------------------------------
(* A later copy of a text has a greater occurrence number. *)
LEMMA OccurrenceGrows ==
  ASSUME NEW s, NEW i \in Nat, NEW j \in Nat, i < j, s[i] = s[j]
  PROVE  /\ Occurrence(s, i) \in Nat
         /\ Occurrence(s, j) \in Nat
         /\ Occurrence(s, i) < Occurrence(s, j)
<1> DEFINE D == {x \in Nat : s[x] = s[i]}
<1>1. /\ Occurrence(s, i) = Cardinality({x \in 1..i : x \in D})
      /\ Occurrence(s, j) = Cardinality({x \in 1..j : x \in D})
  <2>1. {x \in 1..i : x \in D} = {x \in 1..i : s[x] = s[i]}
    OBVIOUS
  <2>2. {x \in 1..j : x \in D} = {x \in 1..j : s[x] = s[j]}
    OBVIOUS
  <2> QED
    BY <2>1, <2>2 DEF Occurrence
<1>2. j \in D /\ i <= j
  OBVIOUS
<1> HIDE DEF D
<1>3. Cardinality({x \in 1..i : x \in D}) < Cardinality({x \in 1..j : x \in D})
  BY <1>2, CountUpTo
<1>4. /\ Cardinality({x \in 1..i : x \in D}) \in Nat
      /\ Cardinality({x \in 1..j : x \in D}) \in Nat
  <2>1. i <= i /\ j <= j
    OBVIOUS
  <2> QED
    BY <2>1, CountUpTo
<1> QED
  BY <1>1, <1>3, <1>4

(* Match keeps an old paragraph only for a new one of the same exact text,
   and no old paragraph for two new ones. *)
LEMMA MatchIsSound ==
  ASSUME NEW T, NEW old \in Seq(T), NEW new \in Seq(T)
  PROVE  LET keep == Match(old, new)
         IN  /\ keep \in [1..Len(new) -> 0..Len(old)]
             /\ \A i \in 1..Len(new) : keep[i] # 0 => old[keep[i]] = new[i]
             /\ \A i, j \in 1..Len(new) :
                  keep[i] # 0 /\ keep[i] = keep[j] => i = j
<1> DEFINE keep == Match(old, new)
           Same(i) == {j \in 1..Len(old) :
                         /\ old[j] = new[i]
                         /\ Occurrence(old, j) = Occurrence(new, i)}
<1>1. keep = [i \in 1..Len(new) |->
                IF Same(i) = {} THEN 0 ELSE CHOOSE j \in Same(i) : TRUE]
  BY DEF Match
<1>2. ASSUME NEW i \in 1..Len(new)
      PROVE  /\ keep[i] \in 0..Len(old)
             /\ keep[i] # 0 => keep[i] \in Same(i)
  <2>1. CASE Same(i) = {}
    BY <1>1, <2>1
  <2>2. CASE Same(i) # {}
    <3>1. keep[i] \in Same(i)
      BY <1>1, <2>2
    <3> QED
      BY <3>1
  <2> QED
    BY <2>1, <2>2
<1>3. ASSUME NEW i \in 1..Len(new), NEW j \in 1..Len(new),
             keep[i] # 0, keep[i] = keep[j]
      PROVE  i = j
  <2>1. new[i] = new[j] /\ Occurrence(new, i) = Occurrence(new, j)
    BY <1>2, <1>3
  <2>2. ASSUME NEW x \in 1..Len(new), NEW y \in 1..Len(new),
               x < y, new[x] = new[y]
        PROVE  Occurrence(new, x) # Occurrence(new, y)
    <3>1. x \in Nat /\ y \in Nat
      OBVIOUS
    <3> QED
      BY <2>2, <3>1, OccurrenceGrows
  <2>3. ~(i < j) /\ ~(j < i)
    BY <2>1, <2>2
  <2> QED
    BY <2>3
<1>4. keep \in [1..Len(new) -> 0..Len(old)]
  BY <1>1, <1>2
<1> QED
  BY <1>2, <1>3, <1>4

(* FreshRank numbers the unmatched paragraphs 1, 2, ... in document order. *)
LEMMA FreshRankGrows ==
  ASSUME NEW keep, NEW i \in Nat, NEW j \in Nat, i < j, keep[j] = 0
  PROVE  FreshRank(keep, i) < FreshRank(keep, j)
<1> DEFINE D == {x \in Nat : keep[x] = 0}
<1>1. /\ FreshRank(keep, i) = Cardinality({x \in 1..i : x \in D})
      /\ FreshRank(keep, j) = Cardinality({x \in 1..j : x \in D})
  <2>1. {x \in 1..i : x \in D} = {x \in 1..i : keep[x] = 0}
    OBVIOUS
  <2>2. {x \in 1..j : x \in D} = {x \in 1..j : keep[x] = 0}
    OBVIOUS
  <2> QED
    BY <2>1, <2>2 DEF FreshRank
<1>2. j \in D /\ i <= j
  OBVIOUS
<1> HIDE DEF D
<1>3. Cardinality({x \in 1..i : x \in D}) < Cardinality({x \in 1..j : x \in D})
  BY <1>2, CountUpTo
<1> QED
  BY <1>1, <1>3

(* ... and an unmatched paragraph's rank is between 1 and its position. *)
LEMMA FreshRankBounds ==
  ASSUME NEW keep, NEW i \in Nat, i > 0
  PROVE  /\ FreshRank(keep, i) \in Nat
         /\ FreshRank(keep, i) <= i
         /\ keep[i] = 0 => FreshRank(keep, i) > 0
<1> DEFINE D == {x \in Nat : keep[x] = 0}
<1>1. FreshRank(keep, i) = Cardinality({x \in 1..i : x \in D})
  <2>1. {x \in 1..i : x \in D} = {x \in 1..i : keep[x] = 0}
    OBVIOUS
  <2> QED
    BY <2>1 DEF FreshRank
<1>2. keep[i] = 0 => i \in D
  OBVIOUS
<1> HIDE DEF D
<1>3. i <= i
  OBVIOUS
<1>4. LET n == Cardinality({x \in 1..i : x \in D})
      IN n \in Nat /\ n <= i /\ (i \in D => n > 0)
  BY <1>3, CountUpTo
<1> QED
  BY <1>1, <1>2, <1>4
-----------------------------------------------------------------------------

\* Some number bounds every anchor number: MAX(p) exists.
Bounded(u) == \E n \in Nat : \A p \in DOMAIN u.anchors : p <= n

\* The inductive invariant of one unit's rows.
UnitInv(u) ==
  /\ IsUnit(u)
  /\ Bounded(u)
  /\ TextSplit(u)
  /\ OrderIsLive(u)
  /\ Lifetimes(u)
  /\ ContentMatches(u)

\* The numbers a version may list: each once; a live number for its own text,
\* or a number the unit never used.
Fits(u, order, new) ==
  /\ order \in Seq(Nat)
  /\ new \in Seq(Text)
  /\ Len(order) = Len(new)
  /\ \E n \in Nat : \A i \in 1..Len(order) : order[i] <= n
  /\ \A i \in 1..Len(order) : order[i] > 0
  /\ \A i, j \in 1..Len(order) : order[i] = order[j] => i = j
  /\ \A i \in 1..Len(order) :
       \/ order[i] \in DOMAIN u.active /\ u.active[order[i]] = new[i]
       \/ order[i] \notin DOMAIN u.anchors

\* w is a later state of u for a reader of citations: numbers keep their
\* text, and none that was retired is live again.
Extends(u, w) ==
  /\ DOMAIN u.anchors \subseteq DOMAIN w.anchors
  /\ \A p \in DOMAIN u.anchors : Quote(w, p) = Quote(u, p)
  /\ DOMAIN w.active \cap DOMAIN u.anchors \subseteq DOMAIN u.active
-----------------------------------------------------------------------------
(* COALESCE(MAX(..), 0) of a bounded set of numbers is a bound on it. *)
LEMMA SqlMaxBounds ==
  ASSUME NEW S \in SUBSET Nat, NEW n \in Nat, \A x \in S : x <= n
  PROVE  SqlMax(S) \in Nat /\ \A x \in S : x <= SqlMax(S)
<1>1. CASE S = {}
  BY <1>1 DEF SqlMax
<1>2. CASE S # {}
  <2>1. \E m \in S : \A x \in S : x <= m
    BY <1>2, GreatestNatural
  <2>2. SqlMax(S) \in S /\ \A x \in S : x <= SqlMax(S)
    BY <1>2, <2>1 DEF SqlMax
  <2> QED
    BY <2>2
<1> QED
  BY <1>1, <1>2

(* MAX(p) is a natural number that no anchor of the unit exceeds. *)
LEMMA MaxAnchorBounds ==
  ASSUME NEW u, IsUnit(u), Bounded(u)
  PROVE  MaxAnchor(u) \in Nat /\ \A p \in DOMAIN u.anchors : p <= MaxAnchor(u)
<1>1. DOMAIN u.anchors \in SUBSET Nat
  BY DEF IsUnit, IsTable
<1>2. PICK n \in Nat : \A p \in DOMAIN u.anchors : p <= n
  BY DEF Bounded
<1> QED
  BY <1>1, <1>2, SqlMaxBounds DEF MaxAnchor

(* The live numbers are a sequence of active anchors, and so have texts. *)
LEMMA LiveTextsType ==
  ASSUME NEW u, IsUnit(u), OrderIsLive(u)
  PROVE  /\ LiveAnchors(u) \in Seq(Nat)
         /\ \A i \in 1..Len(LiveAnchors(u)) : LiveAnchors(u)[i] \in DOMAIN u.active
         /\ LiveTexts(u) \in Seq(Text)
         /\ Len(LiveTexts(u)) = Len(LiveAnchors(u))
<1>1. u.versions \in Seq(Version)
  BY DEF IsUnit
<1>2. LiveAnchors(u) \in Seq(Nat)
  <2>1. CASE Len(u.versions) = 0
    BY <2>1 DEF LiveAnchors, LastVersion
  <2>2. CASE Len(u.versions) # 0
    <3>1. Len(u.versions) \in 1..Len(u.versions)
      BY <1>1, <2>2
    <3>2. u.versions[Len(u.versions)] \in Version
      BY <1>1, <3>1
    <3> QED
      BY <2>2, <3>2 DEF LiveAnchors, LastVersion, Version
  <2> QED
    BY <2>1, <2>2
<1>3. \A i \in 1..Len(LiveAnchors(u)) : LiveAnchors(u)[i] \in DOMAIN u.active
  BY DEF OrderIsLive, OrderSet
<1>4. u.active \in [DOMAIN u.active -> Text]
  BY DEF IsUnit, IsTable
<1>5. LiveTexts(u) \in [1..Len(LiveAnchors(u)) -> Text]
  BY <1>3, <1>4 DEF LiveTexts
<1>6. Len(LiveAnchors(u)) \in Nat
  BY <1>2
<1> QED
  BY <1>2, <1>3, <1>5, <1>6

(* The order _do_align writes lists each number once, keeps a live number
   only for its exact text, and takes every other number above MAX(p). *)
LEMMA NewOrderFits ==
  ASSUME NEW u, IsUnit(u), Bounded(u), TextSplit(u), OrderIsLive(u),
         NEW new \in Seq(Text)
  PROVE  Fits(u, NewOrder(u, new), new)
<1> DEFINE keep == Match(LiveTexts(u), new)
           order == NewOrder(u, new)
           live == LiveAnchors(u)
           max == MaxAnchor(u)
<1>1. /\ live \in Seq(Nat)
      /\ \A i \in 1..Len(live) : live[i] \in DOMAIN u.active
      /\ LiveTexts(u) \in Seq(Text)
      /\ Len(LiveTexts(u)) = Len(live)
  BY LiveTextsType
<1>2. /\ keep \in [1..Len(new) -> 0..Len(live)]
      /\ \A i \in 1..Len(new) : keep[i] # 0 => LiveTexts(u)[keep[i]] = new[i]
      /\ \A i, j \in 1..Len(new) : keep[i] # 0 /\ keep[i] = keep[j] => i = j
  BY <1>1, MatchIsSound
<1>3. max \in Nat /\ \A p \in DOMAIN u.anchors : p <= max
  BY MaxAnchorBounds
<1>4. order = [i \in 1..Len(new) |->
                 IF keep[i] # 0 THEN live[keep[i]] ELSE max + FreshRank(keep, i)]
  BY DEF NewOrder
<1>5. DOMAIN u.active \subseteq DOMAIN u.anchors /\ DOMAIN u.anchors \subseteq Nat \ {0}
  BY DEF TextSplit, IsUnit, IsTable
<1> HIDE DEF keep, order, live, max
<1>6. ASSUME NEW i \in 1..Len(new), keep[i] # 0
      PROVE  /\ order[i] = live[keep[i]]
             /\ order[i] \in DOMAIN u.active
             /\ u.active[order[i]] = new[i]
             /\ order[i] \in 1..max
  <2>1. keep[i] \in 1..Len(live)
    BY <1>1, <1>2, <1>6
  <2>2. order[i] = live[keep[i]]
    BY <1>4, <1>6
  <2>3. LiveTexts(u)[keep[i]] = u.active[live[keep[i]]]
    BY <2>1 DEF LiveTexts, live
  <2> QED
    BY <1>1, <1>2, <1>3, <1>5, <1>6, <2>1, <2>2, <2>3
<1>7. ASSUME NEW i \in 1..Len(new), keep[i] = 0
      PROVE  /\ order[i] = max + FreshRank(keep, i)
             /\ order[i] \in Nat
             /\ order[i] > max
             /\ order[i] <= max + Len(new)
             /\ order[i] \notin DOMAIN u.anchors
  <2>1. i \in Nat /\ i > 0 /\ i <= Len(new) /\ Len(new) \in Nat
    OBVIOUS
  <2>2. /\ FreshRank(keep, i) \in Nat
        /\ FreshRank(keep, i) > 0
        /\ FreshRank(keep, i) <= i
    BY <1>7, <2>1, FreshRankBounds
  <2>3. order[i] = max + FreshRank(keep, i)
    BY <1>4, <1>7
  <2>4. max \in Nat /\ \A q \in DOMAIN u.anchors : q <= max
    BY <1>3
  <2>5. order[i] \in Nat /\ order[i] > max /\ order[i] <= max + Len(new)
    BY <2>1, <2>2, <2>3, <2>4
  <2> QED
    BY <2>3, <2>4, <2>5
<1>8. Len(new) \in Nat
  OBVIOUS
<1>9. order \in [1..Len(new) -> Nat]
  BY <1>4, <1>6, <1>7
<1>10. order \in Seq(Nat) /\ Len(order) = Len(new)
  BY <1>8, <1>9
<1>11. ASSUME NEW i \in 1..Len(new), NEW j \in 1..Len(new), order[i] = order[j]
       PROVE  i = j
  <2>1. CASE keep[i] # 0 /\ keep[j] # 0
    <3>1. live[keep[i]] = live[keep[j]]
      BY <1>6, <1>11, <2>1
    <3>2. keep[i] \in 1..Len(live) /\ keep[j] \in 1..Len(live)
      <4>1. keep[i] \in 0..Len(live) /\ keep[j] \in 0..Len(live)
        BY <1>2
      <4> QED
        BY <1>1, <2>1, <4>1
    <3>3. keep[i] = keep[j]
      BY <3>1, <3>2 DEF OrderIsLive, live
    <3> QED
      BY <1>2, <2>1, <3>3
  <2>2. CASE keep[i] = 0 /\ keep[j] = 0
    <3>1. FreshRank(keep, i) = FreshRank(keep, j)
      <4>1. FreshRank(keep, i) \in Nat /\ FreshRank(keep, j) \in Nat
        BY FreshRankBounds
      <4> QED
        BY <1>3, <1>7, <1>11, <2>2, <4>1
    <3>2. ASSUME NEW x \in 1..Len(new), NEW y \in 1..Len(new), x < y, keep[y] = 0
          PROVE  FreshRank(keep, x) # FreshRank(keep, y)
      <4>1. x \in Nat /\ y \in Nat /\ x > 0 /\ y > 0
        OBVIOUS
      <4>2. FreshRank(keep, x) \in Nat /\ FreshRank(keep, y) \in Nat
        BY <4>1, FreshRankBounds
      <4>3. FreshRank(keep, x) < FreshRank(keep, y)
        BY <3>2, <4>1, FreshRankGrows
      <4> QED
        BY <4>2, <4>3
    <3> QED
      BY <2>2, <3>1, <3>2
  <2>3. CASE (keep[i] = 0) # (keep[j] = 0)
    BY <1>3, <1>6, <1>7, <1>11, <2>3
  <2> QED
    BY <2>1, <2>2, <2>3
<1>12. \E n \in Nat : \A i \in 1..Len(order) : order[i] <= n
  <2>1. max + Len(new) \in Nat
    BY <1>3, <1>8
  <2>2. \A i \in 1..Len(new) : order[i] <= max + Len(new)
    BY <1>3, <1>6, <1>7, <1>8
  <2> QED
    BY <1>10, <2>1, <2>2
<1>13. \A i \in 1..Len(order) : order[i] > 0
  BY <1>3, <1>6, <1>7, <1>10
<1>14. \A i \in 1..Len(order) :
         \/ order[i] \in DOMAIN u.active /\ u.active[order[i]] = new[i]
         \/ order[i] \notin DOMAIN u.anchors
  BY <1>6, <1>7, <1>10
<1> QED
  BY <1>10, <1>11, <1>12, <1>13, <1>14 DEF Fits, order
-----------------------------------------------------------------------------
(* A version that fits leaves rows as consistent as it found them, with the
   new paragraphs live in order. *)
LEMMA WriteVersionKeeps ==
  ASSUME NEW u, IsUnit(u), Bounded(u), TextSplit(u), OrderIsLive(u), Lifetimes(u),
         NEW sha \in Sha \cup {Null}, NEW deleted \in BOOLEAN,
         NEW c \in ConverterColumn, NEW order, NEW new, Fits(u, order, new),
         NEW w, w = WriteVersion(u, sha, deleted, c, order, new)
  PROVE  /\ IsUnit(w)
         /\ Bounded(w)
         /\ TextSplit(w)
         /\ OrderIsLive(w)
         /\ Lifetimes(w)
         /\ Extends(u, w)
         /\ w.id = u.id /\ w.sha = sha
         /\ LiveAnchors(w) = order
         /\ LiveTexts(w) = new
         /\ LastVersion(w) = LastVersion(u) + 1
         /\ LastConverter(w) = c
<1> DEFINE n == LastVersion(u) + 1
           F == Fresh(u, order)
           R == Retiring(u, order)
           row == [converter |-> c, order |-> order]
<1>1. /\ w.id = u.id /\ w.sha = sha /\ w.deleted = deleted
      /\ w.versions = Append(u.versions, row)
      /\ w.anchors = NextAnchors(u, order)
      /\ w.active = NextActive(u, order, new)
      /\ w.retired = NextRetired(u, order)
      /\ w = [id |-> w.id, sha |-> w.sha, deleted |-> w.deleted,
              versions |-> w.versions, anchors |-> w.anchors,
              active |-> w.active, retired |-> w.retired]
  BY DEF WriteVersion
<1>2. /\ u.versions \in Seq(Version) /\ u.id \in Nat
      /\ u.anchors \in [DOMAIN u.anchors -> AnchorRow]
      /\ u.active \in [DOMAIN u.active -> Text]
      /\ u.retired \in [DOMAIN u.retired -> Text]
      /\ DOMAIN u.anchors \subseteq Nat \ {0}
      /\ n \in Nat /\ n > 0
  BY DEF IsUnit, IsTable, LastVersion
<1>3. /\ order \in Seq(Nat) /\ new \in Seq(Text) /\ Len(order) = Len(new)
      /\ \A i \in 1..Len(order) : order[i] \in Nat /\ order[i] > 0
      /\ \A i, j \in 1..Len(order) : order[i] = order[j] => i = j
      /\ \A i \in 1..Len(order) :
           \/ order[i] \in DOMAIN u.active /\ u.active[order[i]] = new[i]
           \/ order[i] \notin DOMAIN u.anchors
  <2>1. order \in Seq(Nat) /\ \A i \in 1..Len(order) : order[i] > 0
    BY DEF Fits
  <2>2. \A i \in 1..Len(order) : order[i] \in Nat
    BY <2>1
  <2> QED
    BY <2>1, <2>2, Zenon DEF Fits
<1>4. row \in Version
  BY <1>3 DEF Version
<1>5. /\ w.versions \in Seq(Version)
      /\ Len(w.versions) = n
      /\ w.versions[n] = row
      /\ \A m \in 1..LastVersion(u) : w.versions[m] = u.versions[m]
  BY <1>1, <1>2, <1>4 DEF LastVersion
<1> HIDE DEF n, F, R, row
<1>6. LiveAnchors(w) = order /\ LastVersion(w) = n /\ LastConverter(w) = c
  BY <1>2, <1>5 DEF LiveAnchors, LastVersion, LastConverter, row
<1>7. /\ DOMAIN u.active = {p \in DOMAIN u.anchors : u.anchors[p].retired = 0}
      /\ DOMAIN u.retired = {p \in DOMAIN u.anchors : u.anchors[p].retired # 0}
  BY DEF TextSplit
<1>8. /\ F = OrderSet(order) \ DOMAIN u.anchors
      /\ R = DOMAIN u.active \ OrderSet(order)
      /\ F \subseteq Nat \ {0}
      /\ OrderSet(order) \subseteq (DOMAIN u.active) \cup F
  BY <1>3 DEF F, R, Fresh, Retiring, OrderSet
<1>9. /\ DOMAIN w.anchors = DOMAIN u.anchors \cup F
      /\ \A p \in F : w.anchors[p] = [added |-> n, retired |-> 0]
      /\ \A p \in R : w.anchors[p] = [added |-> u.anchors[p].added, retired |-> n]
      /\ \A p \in DOMAIN u.anchors \ R : w.anchors[p] = u.anchors[p]
  BY <1>1, <1>7, <1>8 DEF NextAnchors, F, R, n
<1>10. /\ DOMAIN w.active = (DOMAIN u.active \ R) \cup F
       /\ \A p \in DOMAIN u.active \ R : w.active[p] = u.active[p]
       /\ \A p \in F : w.active[p] = new[CHOOSE i \in 1..Len(order) : order[i] = p]
  BY <1>1, <1>7, <1>8 DEF NextActive, F, R
<1>11. /\ DOMAIN w.retired = DOMAIN u.retired \cup R
       /\ \A p \in R : w.retired[p] = u.active[p]
       /\ \A p \in DOMAIN u.retired \ R : w.retired[p] = u.retired[p]
  BY <1>1 DEF NextRetired, R
<1>12. ASSUME NEW i \in 1..Len(order)
       PROVE  order[i] \in DOMAIN w.active /\ w.active[order[i]] = new[i]
  <2>1. CASE order[i] \in F
    <3>1. (CHOOSE j \in 1..Len(order) : order[j] = order[i]) = i
      BY <1>3
    <3> QED
      BY <1>10, <2>1, <3>1
  <2>2. CASE order[i] \notin F
    <3>1. order[i] \in DOMAIN u.active \ R /\ u.active[order[i]] = new[i]
      BY <1>3, <1>8, <2>2 DEF OrderSet
    <3> QED
      BY <1>10, <3>1
  <2> QED
    BY <2>1, <2>2
<1>13. OrderIsLive(w)
  <2>1. OrderSet(order) = DOMAIN w.active
    BY <1>8, <1>10
  <2> QED
    BY <1>3, <1>6, <2>1 DEF OrderIsLive
<1>14. LiveTexts(w) = new
  BY <1>3, <1>6, <1>12 DEF LiveTexts
<1>15. IsTable(w.anchors, AnchorRow)
  <2>1. ASSUME NEW p \in DOMAIN w.anchors
        PROVE  w.anchors[p] \in AnchorRow
    <3>1. CASE p \in F
      BY <1>2, <1>9, <3>1 DEF AnchorRow
    <3>2. CASE p \in R
      <4>1. u.anchors[p] \in AnchorRow
        BY <1>2, <1>7, <1>8, <3>2
      <4>2. u.anchors[p].added \in Nat /\ n \in Nat
        BY <1>2, <4>1 DEF AnchorRow
      <4>3. w.anchors[p] = [added |-> u.anchors[p].added, retired |-> n]
        BY <1>9, <3>2
      <4> QED
        BY <4>2, <4>3 DEF AnchorRow
    <3>3. CASE p \notin F \cup R
      BY <1>2, <1>9, <3>3
    <3> QED
      BY <3>1, <3>2, <3>3
  <2>2. w.anchors = [p \in DOMAIN w.anchors |-> w.anchors[p]]
    BY <1>1 DEF NextAnchors
  <2>3. DOMAIN w.anchors \subseteq Nat \ {0}
    BY <1>2, <1>8, <1>9
  <2> QED
    BY <2>1, <2>2, <2>3 DEF IsTable
<1>16. IsTable(w.active, Text)
  <2>1. ASSUME NEW p \in DOMAIN w.active
        PROVE  w.active[p] \in Text
    <3>1. p \in OrderSet(order)
      BY <1>6, <1>13 DEF OrderIsLive
    <3>2. PICK i \in 1..Len(order) : order[i] = p
      BY <3>1 DEF OrderSet
    <3> QED
      BY <1>3, <1>12, <3>2
  <2>2. w.active = [p \in DOMAIN w.active |-> w.active[p]]
    BY <1>1 DEF NextActive
  <2>3. DOMAIN w.active \subseteq Nat \ {0}
    BY <1>2, <1>7, <1>8, <1>10
  <2> QED
    BY <2>1, <2>2, <2>3 DEF IsTable
<1>17. IsTable(w.retired, Text)
  <2>1. ASSUME NEW p \in DOMAIN w.retired
        PROVE  w.retired[p] \in Text
    BY <1>2, <1>8, <1>11
  <2>2. w.retired = [p \in DOMAIN w.retired |-> w.retired[p]]
    BY <1>1 DEF NextRetired
  <2>3. DOMAIN w.retired \subseteq Nat \ {0}
    BY <1>2, <1>7, <1>8, <1>11
  <2> QED
    BY <2>1, <2>2, <2>3 DEF IsTable
<1>18. IsUnit(w)
  BY <1>1, <1>2, <1>5, <1>15, <1>16, <1>17 DEF IsUnit
<1>19. Bounded(w)
  <2>1. PICK k \in Nat : \A p \in DOMAIN u.anchors : p <= k
    BY DEF Bounded
  <2>2. PICK m \in Nat : \A i \in 1..Len(order) : order[i] <= m
    BY DEF Fits
  <2>3. \A p \in F : p <= m
    BY <1>8, <2>2 DEF OrderSet
  <2>4. \A p \in DOMAIN w.anchors : p <= k + m
    BY <1>2, <1>8, <1>9, <2>1, <2>3
  <2> QED
    BY <2>4 DEF Bounded
<1>20. TextSplit(w)
  <2>1. ASSUME NEW p \in DOMAIN w.anchors
        PROVE  /\ p \in DOMAIN w.active <=> w.anchors[p].retired = 0
               /\ p \in DOMAIN w.retired <=> w.anchors[p].retired # 0
    <3>1. CASE p \in F
      BY <1>7, <1>8, <1>9, <1>10, <1>11, <3>1
    <3>2. CASE p \in R
      <4>1. w.anchors[p] = [added |-> u.anchors[p].added, retired |-> n]
        BY <1>9, <3>2
      <4>3. w.anchors[p].retired = n
        BY <4>1
      <4>4. n # 0
        BY <1>2
      <4>2. p \notin DOMAIN w.active /\ p \in DOMAIN w.retired
        BY <1>7, <1>8, <1>10, <1>11, <3>2
      <4> QED
        BY <4>2, <4>3, <4>4
    <3>3. CASE p \notin F \cup R
      BY <1>7, <1>9, <1>10, <1>11, <3>3
    <3> QED
      BY <3>1, <3>2, <3>3
  <2>2. /\ DOMAIN w.active \subseteq DOMAIN w.anchors
        /\ DOMAIN w.retired \subseteq DOMAIN w.anchors
    BY <1>7, <1>8, <1>9, <1>10, <1>11
  <2> QED
    BY <2>1, <2>2 DEF TextSplit
<1>21. LastVersion(u) \in Nat /\ n = LastVersion(u) + 1
  BY <1>2 DEF n, LastVersion, IsUnit
<1>22. \A k \in 1..n : k = n \/ k \in 1..LastVersion(u)
  BY <1>21
<1>23. \A k \in 1..n : OrderSet(w.versions[k].order) \subseteq DOMAIN w.anchors
  <2>1. ASSUME NEW k \in 1..LastVersion(u)
        PROVE  OrderSet(w.versions[k].order) \subseteq DOMAIN w.anchors
    BY <1>5, <1>9 DEF Lifetimes
  <2>2. OrderSet(w.versions[n].order) \subseteq DOMAIN w.anchors
    BY <1>5, <1>7, <1>8, <1>9 DEF row
  <2> QED
    BY <1>22, <2>1, <2>2
<1>24. ASSUME NEW p \in DOMAIN w.anchors
       PROVE  /\ w.anchors[p].added \in 1..n
              /\ w.anchors[p].retired <= n
              /\ \A k \in 1..n :
                   (p \in OrderSet(w.versions[k].order)) <=>
                     (/\ w.anchors[p].added <= k
                      /\ w.anchors[p].retired = 0 \/ k < w.anchors[p].retired)
  <2>1. CASE p \in F
    <3>1. w.anchors[p].added = n /\ w.anchors[p].retired = 0
      BY <1>9, <2>1
    <3>2. \A k \in 1..LastVersion(u) : p \notin OrderSet(w.versions[k].order)
      BY <1>5, <1>8, <2>1 DEF Lifetimes
    <3>3. p \in OrderSet(w.versions[n].order)
      BY <1>5, <1>8, <2>1 DEF row
    <3>4. ASSUME NEW k \in 1..n
          PROVE  (p \in OrderSet(w.versions[k].order)) <=> n <= k
      BY <1>21, <1>22, <3>2, <3>3
    <3>5. n \in 1..n /\ \A k \in 1..n : k \in Nat
      BY <1>21
    <3> QED
      BY <3>1, <3>4, <3>5
  <2>2. CASE p \notin F
    <3>1. p \in DOMAIN u.anchors
      BY <1>9, <2>2
    <3>2. u.anchors[p].added \in Nat /\ u.anchors[p].retired \in Nat
      BY <1>2, <3>1 DEF AnchorRow
    <3>3. /\ u.anchors[p].added \in 1..LastVersion(u)
          /\ u.anchors[p].retired <= LastVersion(u)
          /\ \A k \in 1..LastVersion(u) :
                (p \in OrderSet(w.versions[k].order)) <=>
                  (/\ u.anchors[p].added <= k
                   /\ u.anchors[p].retired = 0 \/ k < u.anchors[p].retired)
      BY <1>5, <3>1 DEF Lifetimes
    <3>4. CASE p \in R
      <4>0. w.anchors[p] = [added |-> u.anchors[p].added, retired |-> n]
        BY <1>9, <3>4
      <4>1. w.anchors[p].added = u.anchors[p].added /\ w.anchors[p].retired = n
        BY <4>0
      <4>2. u.anchors[p].retired = 0
        BY <1>7, <1>8, <3>4
      <4>3. p \notin OrderSet(w.versions[n].order)
        BY <1>5, <1>8, <3>4 DEF row
      <4>4. n \in Nat /\ n # 0 /\ u.anchors[p].added \in 1..n
        BY <1>21, <3>3
      <4>5. ASSUME NEW k \in 1..LastVersion(u)
            PROVE  (p \in OrderSet(w.versions[k].order)) <=>
                     u.anchors[p].added <= k /\ k < n
        BY <1>21, <3>3, <4>2
      <4>6. ASSUME NEW k \in 1..n
            PROVE  (p \in OrderSet(w.versions[k].order)) <=>
                     u.anchors[p].added <= k /\ k < n
        BY <1>21, <1>22, <4>3, <4>5
      <4> QED
        BY <4>1, <4>4, <4>6
    <3>5. CASE p \notin R
      <4>1. w.anchors[p] = u.anchors[p]
        BY <1>9, <3>1, <3>5
      <4>2. p \in OrderSet(w.versions[n].order) <=> u.anchors[p].retired = 0
        BY <1>5, <1>7, <1>8, <2>2, <3>1, <3>5 DEF row
      <4>3. u.anchors[p].added \in 1..n /\ u.anchors[p].retired <= n
            /\ u.anchors[p].added <= n /\ ~(n < u.anchors[p].retired)
        BY <1>21, <3>2, <3>3
      <4>4. ASSUME NEW k \in 1..n
            PROVE  (p \in OrderSet(w.versions[k].order)) <=>
                     (/\ u.anchors[p].added <= k
                      /\ u.anchors[p].retired = 0 \/ k < u.anchors[p].retired)
        <5>1. CASE k = n
          BY <4>2, <4>3, <5>1
        <5>2. CASE k \in 1..LastVersion(u)
          BY <3>3, <5>2
        <5> QED
          BY <1>22, <5>1, <5>2
      <4> QED
        BY <4>1, <4>3, <4>4
    <3> QED
      BY <3>4, <3>5
  <2> QED
    BY <2>1, <2>2
<1>25. Lifetimes(w)
  BY <1>6, <1>23, <1>24 DEF Lifetimes
<1>26. Extends(u, w)
  <2>1. ASSUME NEW p \in DOMAIN u.anchors
        PROVE  Quote(w, p) = Quote(u, p)
    <3>1. CASE p \in R
      <4>0. w.anchors[p] = [added |-> u.anchors[p].added, retired |-> n]
        BY <1>9, <3>1
      <4>1. w.anchors[p].retired = n /\ n # 0
        BY <1>2, <4>0
      <4>2. u.anchors[p].retired = 0
        BY <1>7, <1>8, <3>1
      <4> QED
        BY <1>11, <3>1, <4>1, <4>2 DEF Quote
    <3>2. CASE p \notin R
      <4>1. w.anchors[p] = u.anchors[p]
        BY <1>9, <3>2
      <4>2. CASE u.anchors[p].retired = 0
        BY <1>7, <1>10, <3>2, <4>1, <4>2 DEF Quote
      <4>3. CASE u.anchors[p].retired # 0
        BY <1>7, <1>11, <3>2, <4>1, <4>3 DEF Quote
      <4> QED
        BY <4>2, <4>3
    <3> QED
      BY <3>1, <3>2
  <2>2. DOMAIN w.active \cap DOMAIN u.anchors \subseteq DOMAIN u.active
    BY <1>8, <1>10
  <2> QED
    BY <1>1, <1>9, <2>1, <2>2 DEF Extends
<1> QED
  BY <1>1, <1>6, <1>13, <1>14, <1>18, <1>19, <1>20, <1>25, <1>26 DEF n
-----------------------------------------------------------------------------
(* A conversion is a sequence of paragraphs. *)
LEMMA ConvertedType ==
  ASSUME NEW sha \in Sha, NEW c \in Converter
  PROVE  Converted(sha, c) \in Seq(Text)
<1>1. <<sha, c>> \in Sha \X Converter
  OBVIOUS
<1> QED
  BY <1>1, ParagraphsAssumption DEF Converted

(* Ledger._do_align keeps the rows consistent and every citation intact. *)
LEMMA DoAlignKeeps ==
  ASSUME NEW u, UnitInv(u), NEW sha \in Sha, NEW c \in Converter,
         NEW w, w = DoAlign(u, sha, c)
  PROVE  /\ UnitInv(w) /\ Extends(u, w) /\ w.id = u.id
         /\ ~w.deleted /\ LastVersion(w) > 0
         /\ LiveTexts(w) = Converted(sha, c)
<1> DEFINE new == Converted(sha, c)
<1>1. new \in Seq(Text)
  BY ConvertedType DEF new
<1>2. /\ IsUnit(u) /\ Bounded(u) /\ TextSplit(u) /\ OrderIsLive(u)
      /\ Lifetimes(u)
  BY DEF UnitInv
<1>3. w = WriteVersion(u, sha, FALSE, c, NewOrder(u, new), new)
  BY DEF DoAlign
<1> HIDE DEF new
<1>4. Fits(u, NewOrder(u, new), new)
  BY <1>1, <1>2, NewOrderFits
<1>5. /\ IsUnit(w) /\ Bounded(w) /\ TextSplit(w) /\ OrderIsLive(w)
      /\ Lifetimes(w) /\ Extends(u, w)
      /\ w.id = u.id /\ w.sha = sha /\ w.deleted = FALSE
      /\ LiveTexts(w) = new
      /\ LastVersion(w) = LastVersion(u) + 1
      /\ LastConverter(w) = c
  <2>1. w.deleted = FALSE
    BY <1>3 DEF WriteVersion
  <2>2. PICK deleted \in BOOLEAN : deleted = FALSE
    OBVIOUS
  <2>3. w = WriteVersion(u, sha, deleted, c, NewOrder(u, new), new)
    BY <1>3, <2>2
  <2>4. sha \in Sha \cup {Null} /\ c \in ConverterColumn
    BY DEF ConverterColumn
  <2> QED
    BY <1>2, <1>4, <2>1, <2>2, <2>3, <2>4, WriteVersionKeeps
<1>6. LastVersion(u) \in Nat
  BY <1>2 DEF IsUnit, LastVersion
<1>7. ContentMatches(w)
  <2>1. ~(w.deleted \/ LastVersion(w) = 0)
    BY <1>5, <1>6
  <2>2. LiveTexts(w) = Converted(w.sha, LastConverter(w))
    BY <1>5 DEF new
  <2> QED
    BY <2>1, <2>2, Zenon DEF ContentMatches
<1>8. UnitInv(w)
  BY <1>5, <1>7 DEF UnitInv
<1>9. LastVersion(w) > 0
  BY <1>5, <1>6
<1>10. ~w.deleted
  BY <1>5
<1>11. LiveTexts(w) = Converted(sha, c)
  BY <1>5 DEF new
<1> QED
  BY <1>5, <1>8, <1>9, <1>10, <1>11

(* Ledger.retire_unit writes an empty version, with the same guarantees. *)
LEMMA RetireKeeps ==
  ASSUME NEW u, UnitInv(u),
         NEW w, w = DoRetire(u)
  PROVE  UnitInv(w) /\ Extends(u, w) /\ w.id = u.id /\ w.deleted
<1>1. /\ IsUnit(u) /\ Bounded(u) /\ TextSplit(u) /\ OrderIsLive(u)
      /\ Lifetimes(u)
  BY DEF UnitInv
<1>2. Fits(u, <<>>, <<>>)
  BY DEF Fits
<1>3. u.sha \in Sha \cup {Null}
  BY <1>1 DEF IsUnit
<1>4. /\ IsUnit(w) /\ Bounded(w) /\ TextSplit(w) /\ OrderIsLive(w)
      /\ Lifetimes(w) /\ Extends(u, w)
      /\ w.id = u.id /\ w.deleted = TRUE
      /\ LiveAnchors(w) = <<>>
  <2>1. w.deleted = TRUE
    BY DEF WriteVersion, DoRetire
  <2>2. PICK deleted : deleted \in BOOLEAN /\ deleted = TRUE
    OBVIOUS
  <2>3. deleted \in BOOLEAN /\ w = WriteVersion(u, u.sha, deleted, Null, <<>>, <<>>)
    BY <2>2 DEF DoRetire
  <2>4. Null \in ConverterColumn
    BY DEF ConverterColumn
  <2>5. /\ IsUnit(w) /\ Bounded(w) /\ TextSplit(w) /\ OrderIsLive(w)
        /\ Lifetimes(w) /\ Extends(u, w)
        /\ w.id = u.id /\ LiveAnchors(w) = <<>>
    BY <1>1, <1>2, <1>3, <2>3, <2>4, WriteVersionKeeps
  <2> QED
    BY <2>1, <2>5
<1>5. ContentMatches(w)
  <2>1. w.deleted
    BY <1>4
  <2> QED
    BY <1>4, <2>1, Zenon DEF ContentMatches
<1> QED
  BY <1>4, <1>5 DEF UnitInv

(* A row of units just registered has no version and no anchor. *)
LEMMA NewUnitKeeps ==
  ASSUME NEW id \in Nat
  PROVE  /\ UnitInv(NewUnit(id))
         /\ LiveAnchors(NewUnit(id)) = <<>>
         /\ LastConverter(NewUnit(id)) = Null
<1> DEFINE u == NewUnit(id)
<1>1. /\ u.id = id /\ u.sha = Null /\ u.deleted = FALSE
      /\ u.versions = <<>> /\ u.anchors = <<>>
      /\ u.active = <<>> /\ u.retired = <<>>
      /\ u = [id |-> u.id, sha |-> u.sha, deleted |-> u.deleted,
              versions |-> u.versions, anchors |-> u.anchors,
              active |-> u.active, retired |-> u.retired]
  BY DEF NewUnit
<1> HIDE DEF u
<1>2. IsTable(<<>>, AnchorRow) /\ IsTable(<<>>, Text)
  BY DEF IsTable
<1>3. IsUnit(u)
  <2>1. u.versions \in Seq(Version)
    BY <1>1
  <2>2. u.id \in Nat /\ u.sha \in Sha \cup {Null} /\ u.deleted \in BOOLEAN
    BY <1>1
  <2>3. /\ IsTable(u.anchors, AnchorRow)
        /\ IsTable(u.active, Text)
        /\ IsTable(u.retired, Text)
    BY <1>1, <1>2, Zenon
  <2> QED
    BY <1>1, <2>1, <2>2, <2>3, Zenon DEF IsUnit
<1>4. LastVersion(u) = 0 /\ LiveAnchors(u) = <<>> /\ LastConverter(u) = Null
  BY <1>1 DEF LastVersion, LiveAnchors, LastConverter
<1>5. Bounded(u) /\ TextSplit(u)
  BY <1>1 DEF Bounded, TextSplit
<1>6. OrderIsLive(u)
  BY <1>1, <1>4 DEF OrderIsLive, OrderSet
<1>7. Lifetimes(u)
  BY <1>1, <1>4 DEF Lifetimes
<1>8. ContentMatches(u)
  BY <1>4 DEF ContentMatches
<1> QED
  BY <1>3, <1>4, <1>5, <1>6, <1>7, <1>8 DEF UnitInv, u
-----------------------------------------------------------------------------
\* The source numbers given out are bounded: MAX(id) exists.
BoundedIds(d) == \E n \in Nat : \A q \in Path : d.units[q].id <= n

\* Paths share no source number.
DistinctIds(d) ==
  \A q, r \in Registered(d) : d.units[q].id = d.units[r].id => q = r

\* The inductive invariant of all rows.
TableInv(d) ==
  /\ AreRows(d)
  /\ BoundedIds(d)
  /\ DistinctIds(d)
  /\ \A q \in Path : UnitInv(d.units[q])
  /\ \A q \in Path : d.units[q].id = 0 => d.units[q] = NewUnit(0)

\* Everything a corpus revision vouches for is the same.
SameCorpus(d, e) ==
  /\ CorpusState(e) = CorpusState(d)
  /\ QuoteOf(e) = QuoteOf(d)
  /\ LiveOf(e) = LiveOf(d)

\* e is d after any number of operations.
Later(d, e) ==
  /\ e.token >= d.token
  /\ e.token = d.token => SameCorpus(d, e)
  /\ \A q \in Registered(d) : e.units[q].id = d.units[q].id
  /\ \A q \in Path : Extends(d.units[q], e.units[q])
-----------------------------------------------------------------------------
(* Later is a preorder. *)
LEMMA LaterReflexive ==
  ASSUME NEW d, TableInv(d)
  PROVE  Later(d, d)
<1>1. d.token \in Nat
  BY DEF TableInv, AreRows
<1>2. \A q \in Path : Extends(d.units[q], d.units[q])
  BY DEF Extends
<1> QED
  BY <1>1, <1>2 DEF Later, SameCorpus

LEMMA LaterTransitive ==
  ASSUME NEW d, NEW e, NEW f, TableInv(d), TableInv(e), TableInv(f),
         Later(d, e), Later(e, f)
  PROVE  Later(d, f)
<1>1. d.token \in Nat /\ e.token \in Nat /\ f.token \in Nat
  BY DEF TableInv, AreRows
<1>2. f.token >= d.token
  BY <1>1 DEF Later
<1>3. f.token = d.token => SameCorpus(d, f)
  BY <1>1 DEF Later, SameCorpus
<1>4. ASSUME NEW q \in Registered(d)
      PROVE  f.units[q].id = d.units[q].id
  <2>1. q \in Path /\ d.units[q].id # 0 /\ e.units[q].id = d.units[q].id
    BY DEF Later, Registered
  <2>2. q \in Registered(e)
    BY <2>1 DEF Registered
  <2> QED
    BY <2>1, <2>2 DEF Later
<1>5. ASSUME NEW q \in Path
      PROVE  Extends(d.units[q], f.units[q])
  <2>1. Extends(d.units[q], e.units[q]) /\ Extends(e.units[q], f.units[q])
    BY DEF Later
  <2> QED
    BY <2>1 DEF Extends
<1> QED
  BY <1>2, <1>3, <1>4, <1>5 DEF Later

(* A registered unit rewritten as WriteVersionKeeps allows, with a token bump. *)
LEMMA UpdateKeeps ==
  ASSUME NEW d, TableInv(d), NEW q \in Path, d.units[q].id # 0,
         NEW w, UnitInv(w), Extends(d.units[q], w), w.id = d.units[q].id,
         NEW e, e = [d EXCEPT !.units[q] = w, !.token = @ + 1]
  PROVE  TableInv(e) /\ Later(d, e)
<1>1. /\ d = [units |-> d.units, token |-> d.token, dating |-> d.dating]
      /\ d.units \in [Path -> {d.units[r] : r \in Path}]
      /\ d.token \in Nat
      /\ \A r \in Path : UnitInv(d.units[r]) /\ IsUnit(d.units[r])
      /\ \A r \in Path : d.units[r].id = 0 => d.units[r] = NewUnit(0)
  BY DEF TableInv, AreRows
<1>2. /\ e.token = d.token + 1
      /\ e.dating = d.dating
      /\ e.units = [d.units EXCEPT ![q] = w]
      /\ e = [units |-> e.units, token |-> e.token, dating |-> e.dating]
  BY <1>1
<1>3. /\ e.units[q] = w
      /\ \A r \in Path : r # q => e.units[r] = d.units[r]
      /\ e.units = [r \in Path |-> e.units[r]]
  BY <1>1, <1>2
<1>4. \A r \in Path : e.units[r].id = d.units[r].id
  BY <1>3
<1>5. \A r \in Path : UnitInv(e.units[r])
  BY <1>1, <1>3
<1>6. AreRows(e)
  <2>1. \A r \in Path : IsUnit(e.units[r])
    BY <1>5 DEF UnitInv
  <2>2. e.units \in [Path -> {e.units[r] : r \in Path}]
    BY <1>3
  <2>3. e.token \in Nat
    BY <1>1, <1>2
  <2> QED
    BY <1>2, <2>1, <2>2, <2>3, Zenon DEF AreRows
<1>7. BoundedIds(e) /\ DistinctIds(e)
  BY <1>4 DEF TableInv, BoundedIds, DistinctIds, Registered
<1>8. \A r \in Path : e.units[r].id = 0 => e.units[r] = NewUnit(0)
  BY <1>1, <1>3
<1>9. TableInv(e)
  BY <1>5, <1>6, <1>7, <1>8 DEF TableInv
<1>10. \A r \in Path : Extends(d.units[r], e.units[r])
  <2>1. \A u : Extends(u, u)
    BY DEF Extends
  <2> QED
    BY <1>3, <2>1
<1>11. e.token >= d.token /\ e.token # d.token
  BY <1>1, <1>2
<1>12. \A r \in Registered(d) : e.units[r].id = d.units[r].id
  BY <1>4 DEF Registered
<1> QED
  BY <1>9, <1>10, <1>11, <1>12 DEF Later

(* Ledger.align. *)
LEMMA AlignKeeps ==
  ASSUME NEW d, TableInv(d), NEW q \in Registered(d), NEW sha \in Sha,
         NEW c \in Converter, NEW dated \in BOOLEAN
  PROVE  LET e == Align(d, q, sha, c, dated)
         IN  /\ TableInv(e) /\ Later(d, e)
             /\ LastVersion(e.units[q]) > 0 /\ ~e.units[q].deleted
             /\ LiveTexts(e.units[q]) = Converted(sha, c)
<1> DEFINE e == Align(d, q, sha, c, dated)
           w == DoAlign(d.units[q], sha, c)
<1>1. q \in Path /\ d.units[q].id # 0 /\ UnitInv(d.units[q])
  BY DEF Registered, TableInv
<1>2. CASE Unchanged(d.units[q], sha, c, dated)
  <2>1. e = d
    BY <1>2 DEF Align
  <2>2. /\ LastVersion(d.units[q]) > 0 /\ ~d.units[q].deleted
        /\ d.units[q].sha = sha /\ LastConverter(d.units[q]) = c
    BY <1>2 DEF Unchanged
  <2>3. LiveTexts(d.units[q]) = Converted(sha, c)
    BY <1>1, <2>2 DEF UnitInv, ContentMatches
  <2> QED
    BY <2>1, <2>2, <2>3, LaterReflexive
<1>3. CASE ~Unchanged(d.units[q], sha, c, dated)
  <2>1. /\ UnitInv(w) /\ Extends(d.units[q], w) /\ w.id = d.units[q].id
        /\ LastVersion(w) > 0 /\ ~w.deleted
        /\ LiveTexts(w) = Converted(sha, c)
    BY <1>1, DoAlignKeeps
  <2>2. e = [d EXCEPT !.units[q] = w, !.token = @ + 1]
    BY <1>3 DEF Align
  <2> HIDE DEF e, w
  <2>3. TableInv(e) /\ Later(d, e)
    BY <1>1, <2>1, <2>2, UpdateKeeps
  <2>4. e.units[q] = w
    BY <1>1, <2>2 DEF TableInv, AreRows
  <2> QED
    BY <2>1, <2>3, <2>4 DEF e
<1> QED
  BY <1>2, <1>3

(* Ledger.retire_unit. *)
LEMMA RetireUnitKeeps ==
  ASSUME NEW d, TableInv(d), NEW q \in Registered(d)
  PROVE  LET e == RetireUnit(d, q)
         IN  TableInv(e) /\ Later(d, e) /\ e.units[q].deleted
<1> DEFINE e == RetireUnit(d, q)
           w == DoRetire(d.units[q])
<1>1. q \in Path /\ d.units[q].id # 0 /\ UnitInv(d.units[q])
  BY DEF Registered, TableInv
<1>2. CASE d.units[q].deleted
  BY <1>2, LaterReflexive DEF RetireUnit
<1>3. CASE ~d.units[q].deleted
  <2>1. /\ UnitInv(w) /\ Extends(d.units[q], w) /\ w.id = d.units[q].id
        /\ w.deleted
    BY <1>1, RetireKeeps
  <2>2. e = [d EXCEPT !.units[q] = w, !.token = @ + 1]
    BY <1>3 DEF RetireUnit
  <2> HIDE DEF e, w
  <2>3. TableInv(e) /\ Later(d, e)
    BY <1>1, <2>1, <2>2, UpdateKeeps
  <2>4. e.units[q] = w
    BY <1>1, <2>2 DEF TableInv, AreRows
  <2> QED
    BY <2>1, <2>3, <2>4 DEF e
<1> QED
  BY <1>2, <1>3

(* Ledger.set_dating_version. *)
LEMMA DatingKeeps ==
  ASSUME NEW d, TableInv(d), NEW v
  PROVE  LET e == SetDatingVersion(d, v) IN TableInv(e) /\ Later(d, e)
<1> DEFINE e == SetDatingVersion(d, v)
<1>1. /\ d = [units |-> d.units, token |-> d.token, dating |-> d.dating]
      /\ d.units \in [Path -> {d.units[r] : r \in Path}]
      /\ d.token \in Nat
  BY DEF TableInv, AreRows
<1>2. /\ e.units = d.units /\ e.token = d.token /\ e.dating = v
      /\ e = [units |-> e.units, token |-> e.token, dating |-> e.dating]
  BY <1>1 DEF SetDatingVersion
<1> HIDE DEF e
<1>3. AreRows(e)
  BY <1>2 DEF TableInv, AreRows
<1>4. BoundedIds(e) /\ DistinctIds(e)
  BY <1>2 DEF TableInv, BoundedIds, DistinctIds, Registered
<1>5. TableInv(e)
  BY <1>2, <1>3, <1>4 DEF TableInv
<1>6. SameCorpus(d, e)
  BY <1>2 DEF SameCorpus, CorpusState, QuoteOf, LiveOf
<1>7. \A q \in Path : Extends(d.units[q], e.units[q])
  BY <1>2 DEF Extends
<1> QED
  BY <1>1, <1>2, <1>5, <1>6, <1>7 DEF Later, e
-----------------------------------------------------------------------------
(* Among finitely many numbers, a greater one has a greater rank. *)
LEMMA RankGrows ==
  ASSUME NEW new \in SUBSET Path
  PROVE  LET rank(q) == Cardinality({r \in new : r <= q})
         IN  /\ \A q \in new : rank(q) \in 1..Cardinality(Path)
             /\ \A q, r \in new : rank(q) = rank(r) => q = r
<1> DEFINE below(q) == {r \in new : r <= q}
           rank(q) == Cardinality(below(q))
<1>1. Path \subseteq Nat /\ IsFiniteSet(Path) /\ Cardinality(Path) \in Nat
  BY PathAssumption, FS_CardinalityType
<1>2. ASSUME NEW q \in new
      PROVE  /\ IsFiniteSet(below(q))
             /\ rank(q) \in Nat
             /\ rank(q) <= Cardinality(Path)
             /\ rank(q) # 0
  <2>1. below(q) \in SUBSET Path
    OBVIOUS
  <2>2. IsFiniteSet(below(q)) /\ rank(q) <= Cardinality(Path)
    BY <1>1, <2>1, FS_Subset
  <2>3. rank(q) \in Nat
    BY <2>2, FS_CardinalityType
  <2>4. q \in below(q)
    BY <1>1
  <2>5. rank(q) # 0
    BY <2>2, <2>4, FS_EmptySet
  <2> QED
    BY <2>2, <2>3, <2>5
<1>3. ASSUME NEW q \in new, NEW r \in new, q < r
      PROVE  rank(q) # rank(r)
  <2>1. below(q) \in SUBSET below(r)
    <3>1. q \in Nat /\ r \in Nat /\ new \subseteq Nat
      BY <1>1
    <3>2. \A x \in new : x <= q => x <= r
      BY <1>3, <3>1
    <3> QED
      BY <3>2
  <2>2. r \in below(r) /\ r \notin below(q)
    BY <1>1, <1>3
  <2>3. IsFiniteSet(below(r))
    BY <1>2
  <2> HIDE DEF below
  <2> QED
    BY <2>1, <2>2, <2>3, FS_Subset
<1>4. \A q, r \in new : q < r \/ r < q \/ q = r
  BY <1>1
<1> QED
  BY <1>1, <1>2, <1>3, <1>4

(* Ledger.register: new rows take numbers above every number given out. *)
LEMMA RegisterKeeps ==
  ASSUME NEW d, TableInv(d), NEW S \in SUBSET Path
  PROVE  LET e == Register(d, S)
         IN  TableInv(e) /\ Later(d, e) /\ S \subseteq Registered(e) /\ e.token = d.token
<1> DEFINE e == Register(d, S)
           new == S \ Registered(d)
           ids == {d.units[q].id : q \in Registered(d)}
           last == SqlMax(ids)
           rank(q) == Cardinality({r \in new : r <= q})
<1>1. /\ d = [units |-> d.units, token |-> d.token, dating |-> d.dating]
      /\ d.units \in [Path -> {d.units[r] : r \in Path}]
      /\ d.token \in Nat
      /\ \A r \in Path : UnitInv(d.units[r]) /\ IsUnit(d.units[r])
      /\ \A r \in Path : d.units[r].id = 0 => d.units[r] = NewUnit(0)
  BY DEF TableInv, AreRows
<1>2. /\ e.units = [q \in Path |->
                     IF q \in new THEN NewUnit(last + rank(q)) ELSE d.units[q]]
      /\ e.token = d.token /\ e.dating = d.dating
      /\ e = [units |-> e.units, token |-> e.token, dating |-> e.dating]
  <2> DEFINE units == [q \in Path |->
                IF q \in new THEN NewUnit(last + rank(q)) ELSE d.units[q]]
  <2>1. e = [d EXCEPT !.units = units]
    BY DEF Register
  <2> HIDE DEF e, units
  <2>2. /\ e.units = units
        /\ e.token = d.token /\ e.dating = d.dating
        /\ e = [units |-> e.units, token |-> e.token, dating |-> e.dating]
    BY <1>1, <2>1
  <2> QED
    BY <2>2 DEF units
<1>3. /\ \A q \in Path : d.units[q].id \in Nat
      /\ Registered(d) \subseteq Path
      /\ new \in SUBSET Path
      /\ \A q \in Path : q \in Registered(d) <=> d.units[q].id # 0
  BY <1>1 DEF IsUnit, Registered
<1>4. last \in Nat /\ \A q \in Registered(d) : d.units[q].id <= last
  <2>1. PICK n \in Nat : \A q \in Path : d.units[q].id <= n
    BY DEF TableInv, BoundedIds
  <2>2. ids \in SUBSET Nat /\ \A x \in ids : x <= n
    BY <1>3, <2>1
  <2>3. last \in Nat /\ \A x \in ids : x <= last
    BY <2>2, SqlMaxBounds
  <2> QED
    BY <2>3
<1>5. /\ \A q \in new : rank(q) \in 1..Cardinality(Path)
      /\ \A q, r \in new : rank(q) = rank(r) => q = r
  BY <1>3, RankGrows
<1>6. Cardinality(Path) \in Nat
  BY PathAssumption, FS_CardinalityType
<1> HIDE DEF e, new, ids, last, rank
<1>7. ASSUME NEW q \in new
      PROVE  /\ q \in Path
             /\ e.units[q] = NewUnit(last + rank(q))
             /\ e.units[q].id = last + rank(q)
             /\ last + rank(q) \in Nat
             /\ d.units[q] = NewUnit(0)
             /\ d.units[q].id = 0
  <2>1. q \in Path /\ q \notin Registered(d)
    BY <1>3 DEF new
  <2>2. e.units[q] = NewUnit(last + rank(q))
    BY <1>2, <2>1
  <2>3. \A id : NewUnit(id).id = id
    BY DEF NewUnit
  <2>4. d.units[q].id = 0
    BY <1>3, <2>1
  <2>5. d.units[q] = NewUnit(0)
    BY <1>1, <2>1, <2>4
  <2>6. rank(q) \in Nat
    BY <1>5, <1>6
  <2> QED
    BY <1>4, <2>1, <2>2, <2>3, <2>4, <2>5, <2>6
<1>8. \A q \in Path \ new : e.units[q] = d.units[q]
  BY <1>2
<1>9. \A q \in Path : UnitInv(e.units[q])
  BY <1>1, <1>7, <1>8, NewUnitKeeps
<1>10. AreRows(e)
  <2>1. \A q \in Path : IsUnit(e.units[q])
    BY <1>9 DEF UnitInv
  <2>2. e.units \in [Path -> {e.units[q] : q \in Path}]
    BY <1>2
  <2>3. e.token \in Nat
    BY <1>1, <1>2
  <2> QED
    BY <1>2, <2>1, <2>2, <2>3, Zenon DEF AreRows
<1>11. BoundedIds(e)
  <2>1. last + Cardinality(Path) \in Nat
    BY <1>4, <1>6
  <2>2. \A q \in new : e.units[q].id <= last + Cardinality(Path)
    BY <1>4, <1>5, <1>6, <1>7
  <2>3. \A q \in Path \ new : e.units[q].id <= last + Cardinality(Path)
    BY <1>3, <1>4, <1>6, <1>8
  <2> QED
    BY <2>1, <2>2, <2>3 DEF BoundedIds
<1>12. DistinctIds(e)
  <2>1. ASSUME NEW q \in Registered(e), NEW r \in Registered(e),
               e.units[q].id = e.units[r].id
        PROVE  q = r
    <3>1. q \in Path /\ r \in Path /\ e.units[q].id # 0 /\ e.units[r].id # 0
      BY DEF Registered
    <3>2. CASE q \in new /\ r \in new
      <4>1. rank(q) \in Nat /\ rank(r) \in Nat
        BY <1>5, <1>6, <3>2
      <4>2. last + rank(q) = last + rank(r)
        BY <1>7, <2>1, <3>2
      <4>3. rank(q) = rank(r)
        BY <1>4, <4>1, <4>2
      <4> QED
        BY <1>5, <3>2, <4>3
    <3>3. CASE q \notin new /\ r \notin new
      <4>1. q \in Registered(d) /\ r \in Registered(d)
        BY <1>3, <1>8, <3>1, <3>3
      <4> QED
        BY <1>8, <2>1, <3>1, <3>3, <4>1 DEF TableInv, DistinctIds
    <3>4. ASSUME NEW x \in new, NEW y \in Path \ new, e.units[y].id # 0
          PROVE  e.units[x].id # e.units[y].id
      <4>1. y \in Registered(d) /\ e.units[y].id = d.units[y].id
        BY <1>3, <1>8, <3>4
      <4>2. d.units[y].id \in Nat /\ d.units[y].id <= last
        BY <1>3, <1>4, <4>1
      <4>3. rank(x) \in Nat /\ rank(x) > 0
        BY <1>5, <1>6
      <4> QED
        BY <1>4, <1>7, <4>1, <4>2, <4>3
    <3> QED
      BY <2>1, <3>1, <3>2, <3>3, <3>4
  <2> QED
    BY <2>1 DEF DistinctIds
<1>13. \A q \in Path : e.units[q].id = 0 => e.units[q] = NewUnit(0)
  BY <1>1, <1>7, <1>8
<1>14. TableInv(e)
  BY <1>9, <1>10, <1>11, <1>12, <1>13 DEF TableInv
<1>15. \A q \in Registered(d) : e.units[q].id = d.units[q].id
  BY <1>3, <1>8 DEF new
<1>16. \A id : /\ NewUnit(id).anchors = <<>> /\ NewUnit(id).active = <<>>
               /\ NewUnit(id).sha = Null /\ NewUnit(id).deleted = FALSE
               /\ NewUnit(id).versions = <<>>
  BY DEF NewUnit
<1>17. \A q \in Path :
         /\ e.units[q].anchors = d.units[q].anchors
         /\ e.units[q].active = d.units[q].active
         /\ e.units[q].sha = d.units[q].sha
         /\ e.units[q].deleted = d.units[q].deleted
         /\ e.units[q].versions = d.units[q].versions
  <2>1. ASSUME NEW q \in new
        PROVE  /\ e.units[q].anchors = d.units[q].anchors
               /\ e.units[q].active = d.units[q].active
               /\ e.units[q].sha = d.units[q].sha
               /\ e.units[q].deleted = d.units[q].deleted
               /\ e.units[q].versions = d.units[q].versions
    <3>1. PICK id : e.units[q] = NewUnit(id) /\ d.units[q] = NewUnit(0)
      BY <1>7
    <3> QED
      BY <1>16, <3>1, Zenon
  <2> QED
    BY <1>8, <2>1
<1>18. \A q \in Path : \A p \in DOMAIN d.units[q].anchors :
         Quote(e.units[q], p) = Quote(d.units[q], p)
  <2>1. \A p \in DOMAIN <<>> : FALSE
    OBVIOUS
  <2> QED
    BY <1>7, <1>8, <1>16, <2>1
<1>19. SameCorpus(d, e)
  <2>1. CorpusState(e) = CorpusState(d)
    BY <1>17 DEF CorpusState, LiveAnchors, LastConverter, LastVersion
  <2>2. QuoteOf(e) = QuoteOf(d)
    BY <1>17, <1>18 DEF QuoteOf
  <2>3. LiveOf(e) = LiveOf(d)
    BY <1>17 DEF LiveOf
  <2> QED
    BY <2>1, <2>2, <2>3 DEF SameCorpus
<1>20. \A q \in Path : Extends(d.units[q], e.units[q])
  BY <1>17, <1>18 DEF Extends
<1>21. Later(d, e)
  <2>1. e.token >= d.token
    BY <1>1, <1>2
  <2> QED
    BY <1>15, <1>19, <1>20, <2>1 DEF Later
<1>22. S \subseteq Registered(e)
  <2>1. ASSUME NEW q \in S
        PROVE  q \in Path /\ e.units[q].id # 0
    <3>1. CASE q \in new
      <4>1. rank(q) \in Nat /\ rank(q) > 0
        BY <1>5, <1>6, <3>1
      <4> QED
        BY <1>4, <1>7, <3>1, <4>1
    <3>2. CASE q \notin new
      BY <1>3, <1>8, <3>2 DEF new
    <3> QED
      BY <3>1, <3>2
  <2> QED
    BY <2>1 DEF Registered
<1> QED
  BY <1>2, <1>14, <1>21, <1>22 DEF e

(* A ledger just created. *)
LEMMA EmptyLedgerKeeps == TableInv(EmptyLedger) /\ EmptyLedger.dating = Null
<1> DEFINE d == EmptyLedger
<1>1. /\ d.units = [q \in Path |-> NewUnit(0)]
      /\ d.token = 0 /\ d.dating = Null
      /\ d = [units |-> d.units, token |-> d.token, dating |-> d.dating]
  BY DEF EmptyLedger
<1> HIDE DEF d
<1>2. \A q \in Path : d.units[q] = NewUnit(0) /\ UnitInv(d.units[q])
  BY <1>1, NewUnitKeeps
<1>3. \A q \in Path : d.units[q].id = 0
  BY <1>2 DEF NewUnit
<1>4. AreRows(d)
  <2>1. \A q \in Path : IsUnit(d.units[q])
    BY <1>2 DEF UnitInv
  <2>2. d.units \in [Path -> {d.units[q] : q \in Path}]
    BY <1>1
  <2>3. d.token \in Nat
    BY <1>1
  <2> QED
    BY <1>1, <2>1, <2>2, <2>3, Zenon DEF AreRows
<1>5. BoundedIds(d) /\ DistinctIds(d)
  BY <1>3 DEF BoundedIds, DistinctIds, Registered
<1>6. TableInv(d)
  BY <1>2, <1>3, <1>4, <1>5 DEF TableInv
<1> QED
  BY <1>1, <1>6 DEF d
-----------------------------------------------------------------------------
(* Before anything is aligned, nothing is citable. *)
LEMMA EmptyCitations ==
  /\ QuoteOf(EmptyLedger) = [q \in Path |-> <<>>]
  /\ LiveOf(EmptyLedger) = [q \in Path |-> {}]
<1> DEFINE d == EmptyLedger
<1>1. d.units = [q \in Path |-> NewUnit(0)]
  BY DEF EmptyLedger
<1>2. NewUnit(0).anchors = <<>> /\ NewUnit(0).active = <<>>
  BY DEF NewUnit
<1>3. \A q \in Path : DOMAIN d.units[q].anchors = {} /\ DOMAIN d.units[q].active = {}
  BY <1>1, <1>2
<1> HIDE DEF d
<1>4. QuoteOf(d) = [q \in Path |-> <<>>]
  <2>1. \A q \in Path : [p \in DOMAIN d.units[q].anchors |-> Quote(d.units[q], p)] = <<>>
    BY <1>3
  <2> QED
    BY <2>1 DEF QuoteOf
<1>5. LiveOf(d) = [q \in Path |-> {}]
  BY <1>3 DEF LiveOf
<1> QED
  BY <1>4, <1>5 DEF d

(* Between a state of the rows and a later one, either nothing citable has
   changed, or the corpus revision has moved, every number kept its text and
   no retired number came back. *)
LEMMA LaterRevises ==
  ASSUME NEW d, NEW e, TableInv(d), TableInv(e), Later(d, e)
  PROVE  /\ d.token \in Nat /\ e.token \in Nat
         /\ \/ /\ e.token = d.token
               /\ QuoteOf(e) = QuoteOf(d) /\ LiveOf(e) = LiveOf(d)
            \/ /\ e.token > d.token
               /\ \A q \in Path :
                    /\ DOMAIN QuoteOf(d)[q] \subseteq DOMAIN QuoteOf(e)[q]
                    /\ \A p \in DOMAIN QuoteOf(d)[q] :
                         QuoteOf(e)[q][p] = QuoteOf(d)[q][p]
                    /\ LiveOf(e)[q] \cap DOMAIN QuoteOf(d)[q] \subseteq LiveOf(d)[q]
<1>1. d.token \in Nat /\ e.token \in Nat /\ e.token >= d.token
  BY DEF TableInv, AreRows, Later
<1>2. CASE e.token = d.token
  BY <1>1, <1>2 DEF Later, SameCorpus
<1>3. CASE e.token # d.token
  <2>1. e.token > d.token
    BY <1>1, <1>3
  <2>2. ASSUME NEW q \in Path
        PROVE  /\ DOMAIN QuoteOf(d)[q] \subseteq DOMAIN QuoteOf(e)[q]
               /\ \A p \in DOMAIN QuoteOf(d)[q] : QuoteOf(e)[q][p] = QuoteOf(d)[q][p]
               /\ LiveOf(e)[q] \cap DOMAIN QuoteOf(d)[q] \subseteq LiveOf(d)[q]
    <3>1. Extends(d.units[q], e.units[q])
      BY DEF Later
    <3> QED
      BY <3>1 DEF Extends, QuoteOf, LiveOf
  <2> QED
    BY <1>1, <2>1, <2>2
<1> QED
  BY <1>2, <1>3
=============================================================================
