---------------------------- MODULE LedgerProofs ----------------------------
(***************************************************************************)
(* The ledger's state machine keeps its promises, for every set of paths,  *)
(* texts, hashes, converters and dating rulesets and for histories of any  *)
(* length: types, consistency of the rows, unique and permanent source     *)
(* numbers, a corpus revision that names one state, the refinement of      *)
(* Citations, and the loops that pair the paragraphs of two versions.      *)
(***************************************************************************)
EXTENDS AlignmentLoop, TableProofs

\* The dating ruleset recorded is one that was in use.
IsDated(d) == d.dating \in DatingVersions \cup {Null}

\* The connection's rows are the committed ones after some operations, so a
\* commit is allowed to replace the one by the other.
IInv ==
  /\ TableInv(db) /\ IsDated(db)
  /\ TableInv(disk) /\ IsDated(disk)
  /\ scanning \in BOOLEAN
  /\ Later(disk, db)
-----------------------------------------------------------------------------
(* The inductive invariant. *)
LEMMA InitKeeps == Init => IInv
<1> SUFFICES ASSUME Init PROVE IInv
  OBVIOUS
<1>1. TableInv(EmptyLedger) /\ EmptyLedger.dating = Null
  BY EmptyLedgerKeeps
<1>2. Later(EmptyLedger, EmptyLedger)
  BY <1>1, LaterReflexive
<1> QED
  BY <1>1, <1>2 DEF Init, IInv, IsDated

(* Only set_dating_version records a dating ruleset. *)
LEMMA DatingStays ==
  ASSUME NEW d, AreRows(d), IsDated(d)
  PROVE  /\ \A S : IsDated(Register(d, S))
         /\ \A q, sha, c, dated : IsDated(Align(d, q, sha, c, dated))
         /\ \A q : IsDated(RetireUnit(d, q))
         /\ \A v \in DatingVersions : IsDated(SetDatingVersion(d, v))
<1>1. d = [units |-> d.units, token |-> d.token, dating |-> d.dating]
  BY DEF AreRows
<1>2. \A units : [d EXCEPT !.units = units].dating = d.dating
  BY <1>1
<1>3. \A S : IsDated(Register(d, S))
  BY <1>2 DEF Register, IsDated
<1>4. \A q, u : [d EXCEPT !.units[q] = u, !.token = @ + 1].dating = d.dating
  BY <1>1
<1>5. \A q, sha, c, dated : IsDated(Align(d, q, sha, c, dated))
  BY <1>4 DEF Align, IsDated
<1>6. \A q : IsDated(RetireUnit(d, q))
  BY <1>4 DEF RetireUnit, IsDated
<1>7. \A v \in DatingVersions : IsDated(SetDatingVersion(d, v))
  BY <1>1 DEF SetDatingVersion, IsDated
<1> QED
  BY <1>3, <1>5, <1>6, <1>7

(* An operation that keeps the rows, in transaction(). *)
LEMMA WriteKeeps ==
  ASSUME IInv, NEW new, TableInv(new), IsDated(new), Later(db, new), Write(new)
  PROVE  IInv' /\ Later(disk, disk')
<1>1. db' = new /\ scanning' = scanning
  BY DEF Write
<1>2. Later(disk, new)
  BY LaterTransitive DEF IInv
<1>3. CASE scanning
  <2>1. disk' = disk
    BY <1>3 DEF Write
  <2> QED
    BY <1>1, <1>2, <2>1, LaterReflexive DEF IInv
<1>4. CASE ~scanning
  <2>1. disk' = new
    BY <1>4 DEF Write
  <2> QED
    BY <1>1, <1>2, <2>1, LaterReflexive DEF IInv
<1> QED
  BY <1>3, <1>4

(* Every step keeps the invariant and moves the committed rows forward. *)
LEMMA NextKeeps == IInv /\ [Next]_vars => IInv' /\ Later(disk, disk')
<1> SUFFICES ASSUME IInv, [Next]_vars PROVE IInv' /\ Later(disk, disk')
  OBVIOUS
<1>0. /\ TableInv(db) /\ IsDated(db) /\ AreRows(db)
      /\ TableInv(disk) /\ IsDated(disk) /\ Later(disk, disk)
  BY LaterReflexive DEF IInv, TableInv
<1>1. CASE BeginScan
  BY <1>0, <1>1 DEF BeginScan, IInv, IsDated
<1>2. CASE CommitScan
  BY <1>0, <1>2, LaterReflexive DEF CommitScan, IInv, IsDated
<1>3. CASE RollBack
  BY <1>0, <1>3, LaterReflexive DEF RollBack, IInv, IsDated
<1>4. ASSUME NEW S \in SUBSET Path, RegisterPaths(S)
      PROVE  IInv' /\ Later(disk, disk')
  <2>1. TableInv(Register(db, S)) /\ Later(db, Register(db, S)) /\ IsDated(Register(db, S))
    BY <1>0, RegisterKeeps, DatingStays
  <2> QED
    BY <1>4, <2>1, WriteKeeps DEF RegisterPaths
<1>5. ASSUME NEW q \in Path, NEW sha \in Sha, NEW c \in Converter,
             NEW dated \in BOOLEAN, AlignPath(q, sha, c, dated)
      PROVE  IInv' /\ Later(disk, disk')
  <2> DEFINE new == Align(db, q, sha, c, dated)
  <2>1. q \in Registered(db) /\ Write(new)
    BY <1>5 DEF AlignPath
  <2>2. TableInv(new) /\ Later(db, new) /\ IsDated(new)
    BY <1>0, <2>1, AlignKeeps, DatingStays
  <2> HIDE DEF new
  <2> QED
    BY <2>1, <2>2, WriteKeeps
<1>6. ASSUME NEW q \in Path, RetirePath(q)
      PROVE  IInv' /\ Later(disk, disk')
  <2> DEFINE new == RetireUnit(db, q)
  <2>1. q \in Registered(db) /\ Write(new)
    BY <1>6 DEF RetirePath
  <2>2. TableInv(new) /\ Later(db, new) /\ IsDated(new)
    BY <1>0, <2>1, RetireUnitKeeps, DatingStays
  <2> HIDE DEF new
  <2> QED
    BY <2>1, <2>2, WriteKeeps
<1>7. ASSUME NEW v \in DatingVersions, RecordDating(v)
      PROVE  IInv' /\ Later(disk, disk')
  <2>1. /\ TableInv(SetDatingVersion(db, v)) /\ IsDated(SetDatingVersion(db, v))
        /\ Later(db, SetDatingVersion(db, v))
    BY <1>0, DatingKeeps, DatingStays
  <2> QED
    BY <1>7, <2>1, WriteKeeps DEF RecordDating
<1>8. CASE UNCHANGED vars
  BY <1>0, <1>8 DEF vars, IInv, IsDated
<1> QED
  BY <1>1, <1>2, <1>3, <1>4, <1>5, <1>6, <1>7, <1>8 DEF Next

(* The invariant holds of every reachable state. *)
THEOREM Invariance == Spec => []IInv
<1>1. IInv /\ [Next]_vars => IInv'
  BY NextKeeps
<1> QED
  BY InitKeeps, <1>1, PTL DEF Spec
-----------------------------------------------------------------------------
(* Every row keeps its type, whatever is aligned, retired or rolled back. *)
THEOREM LedgerTypes == Spec => []TypeOK
<1>1. IInv => TypeOK
  BY DEF IInv, TableInv, IsDated, TypeOK
<1> QED
  BY Invariance, <1>1, PTL

(* The anchors, the two text tables and the latest order of every unit tell
   one story, committed or not. *)
THEOREM LedgerConsistent == Spec => []AnchorsConsistent
<1>1. IInv => AnchorsConsistent
  BY DEF IInv, TableInv, UnitInv, AnchorsConsistent
<1> QED
  BY Invariance, <1>1, PTL

(* A unit's live texts are the paragraphs last aligned, in order. *)
THEOREM LedgerHoldsContent == Spec => []LiveTextIsContent
<1>1. IInv => LiveTextIsContent
  BY DEF IInv, TableInv, UnitInv, LiveTextIsContent
<1> QED
  BY Invariance, <1>1, PTL

(* _locate finds a number where it is live, and tells a retired number from
   one that was never given out. *)
LEMMA LocateFinds ==
  ASSUME NEW u, UnitInv(u), NEW n
  PROVE  LET l == Locate(u, n)
         IN  /\ l.kind \in {"at", "retired", "missing"}
             /\ l.kind = "at" <=> IsLive(u, n)
             /\ l.kind = "at" =>
                  l.pos \in 1..Len(LiveAnchors(u)) /\ LiveAnchors(u)[l.pos] = n
             /\ l.kind = "retired" <=> n \in DOMAIN u.retired
<1> DEFINE order == LiveAnchors(u)
           at == {i \in 1..Len(order) : order[i] = n}
           first == CHOOSE i \in at : \A j \in at : i <= j
           l == Locate(u, n)
<1>1. /\ IsUnit(u) /\ OrderIsLive(u) /\ TextSplit(u)
      /\ order \in Seq(Nat)
  BY LiveTextsType DEF UnitInv
<1>2. at # {} <=> n \in DOMAIN u.active
  BY <1>1 DEF OrderIsLive, OrderSet
<1>3. at # {} => first \in at
  <2>1. ASSUME NEW k \in at
        PROVE  \A j \in at : k <= j
    BY <1>1 DEF OrderIsLive
  <2> QED
    BY <2>1
<1>4. l = IF at # {} THEN [kind |-> "at", pos |-> first]
          ELSE IF n \in DOMAIN u.anchors THEN [kind |-> "retired", pos |-> 0]
          ELSE [kind |-> "missing", pos |-> 0]
  BY DEF Locate
<1> HIDE DEF at, first, l, order
<1>5. n \in DOMAIN u.active <=> IsLive(u, n)
  BY <1>1 DEF TextSplit, IsLive
<1>6. n \in DOMAIN u.retired <=> n \in DOMAIN u.anchors /\ ~IsLive(u, n)
  BY <1>1 DEF TextSplit, IsLive
<1>7. CASE at # {}
  <2>1. l.kind = "at" /\ l.pos = first
    BY <1>4, <1>7
  <2>2. first \in 1..Len(order) /\ order[first] = n
    BY <1>3, <1>7 DEF at
  <2> QED
    BY <1>2, <1>5, <1>6, <1>7, <2>1, <2>2 DEF l, order
<1>8. CASE at = {} /\ n \in DOMAIN u.anchors
  <2>1. l.kind = "retired"
    BY <1>4, <1>8
  <2> QED
    BY <1>2, <1>5, <1>6, <1>8, <2>1 DEF l
<1>9. CASE at = {} /\ n \notin DOMAIN u.anchors
  <2>1. l.kind = "missing"
    BY <1>4, <1>9
  <2> QED
    BY <1>2, <1>5, <1>6, <1>9, <2>1 DEF l
<1> QED
  BY <1>7, <1>8, <1>9

(* A range holds the live numbers from p to q, or from p on, or says which
   end it stopped at. *)
LEMMA RangeRows ==
  ASSUME NEW u, UnitInv(u), NEW p, NEW q, NEW r, r = RangeOf(u, p, q)
  PROVE  /\ ~IsLive(u, p) => r.kind = Locate(u, p).kind /\ r.at = p
         /\ IsLive(u, p) /\ q # 0 /\ ~IsLive(u, q) =>
              r.kind = Locate(u, q).kind /\ r.at = q
         /\ IsLive(u, p) /\ q # 0 /\ IsLive(u, q)
              /\ Locate(u, p).pos > Locate(u, q).pos => r.kind = "reversed" /\ r.at = p
         /\ IsLive(u, p)
              /\ (q # 0 => IsLive(u, q) /\ Locate(u, p).pos <= Locate(u, q).pos) =>
              /\ r.kind = "rows" /\ r.at = p
              /\ r.rows[1][1] = p
              /\ q # 0 => r.rows[Len(r.rows)][1] = q
              /\ p = q => Len(r.rows) = 1
              /\ \A i \in 1..Len(r.rows) :
                   /\ IsLive(u, r.rows[i][1])
                   /\ r.rows[i][2] = Quote(u, r.rows[i][1])
<1> DEFINE order == LiveAnchors(u)
           start == Locate(u, p)
           end == IF q = 0 THEN [kind |-> "at", pos |-> Len(order)] ELSE Locate(u, q)
           row(i) == <<order[start.pos + i - 1], u.active[order[start.pos + i - 1]]>>
           n == end.pos - start.pos + 1
<1>1. r = CASE start.kind # "at" -> [kind |-> start.kind, at |-> p, rows |-> <<>>]
            [] start.kind = "at" /\ end.kind # "at" ->
                 [kind |-> end.kind, at |-> q, rows |-> <<>>]
            [] start.kind = "at" /\ end.kind = "at" /\ start.pos > end.pos ->
                 [kind |-> "reversed", at |-> p, rows |-> <<>>]
            [] OTHER -> [kind |-> "rows", at |-> p, rows |-> [i \in 1..n |-> row(i)]]
  BY DEF RangeOf
<1>2. /\ start.kind = "at" <=> IsLive(u, p)
      /\ start.kind = "at" => start.pos \in 1..Len(order) /\ order[start.pos] = p
  BY LocateFinds
<1>3. q # 0 => /\ end = Locate(u, q)
               /\ end.kind = "at" <=> IsLive(u, q)
               /\ end.kind = "at" => end.pos \in 1..Len(order) /\ order[end.pos] = q
  BY LocateFinds
<1>4. q = 0 => end.kind = "at" /\ end.pos = Len(order)
  OBVIOUS
<1>5. order \in Seq(Nat) /\ \A i \in 1..Len(order) : order[i] \in DOMAIN u.active
  BY LiveTextsType DEF UnitInv
<1>6. \A m \in DOMAIN u.active : IsLive(u, m) /\ Quote(u, m) = u.active[m]
  BY DEF UnitInv, TextSplit, IsLive, Quote
<1> HIDE DEF order, start, end, row, n
<1>7. CASE ~IsLive(u, p)
  <2>1. r = [kind |-> start.kind, at |-> p, rows |-> <<>>]
    BY <1>1, <1>2, <1>7
  <2> QED
    BY <1>7, <2>1 DEF start
<1>8. CASE IsLive(u, p) /\ q # 0 /\ ~IsLive(u, q)
  <2>1. r = [kind |-> end.kind, at |-> q, rows |-> <<>>]
    BY <1>1, <1>2, <1>3, <1>8
  <2> QED
    BY <1>3, <1>8, <2>1
<1>9. CASE IsLive(u, p) /\ q # 0 /\ IsLive(u, q) /\ start.pos > end.pos
  <2>1. r = [kind |-> "reversed", at |-> p, rows |-> <<>>]
    BY <1>1, <1>2, <1>3, <1>9
  <2>2. ~(start.pos <= end.pos)
    BY <1>2, <1>3, <1>9
  <2> QED
    BY <1>3, <1>9, <2>1, <2>2 DEF start
<1>10. CASE IsLive(u, p) /\ (q # 0 => IsLive(u, q) /\ start.pos <= end.pos)
  <2>1. /\ start.kind = "at" /\ end.kind = "at"
        /\ start.pos \in 1..Len(order) /\ end.pos \in 1..Len(order)
        /\ start.pos <= end.pos
    BY <1>2, <1>3, <1>4, <1>5, <1>10
  <2>2. r = [kind |-> "rows", at |-> p, rows |-> [i \in 1..n |-> row(i)]]
    <3>1. ~(start.pos > end.pos)
      BY <2>1
    <3> QED
      BY <1>1, <2>1, <3>1
  <2>3. n \in Nat /\ n >= 1 /\ start.pos + n - 1 = end.pos /\ (p = q => q = 0 \/ n = 1)
    BY <1>3, <2>1 DEF n, start
  <2>4. r.kind = "rows" /\ r.at = p /\ r.rows = [i \in 1..n |-> row(i)] /\ Len(r.rows) = n
    BY <2>2, <2>3
  <2>5. \A i \in 1..n : /\ r.rows[i] = row(i)
                        /\ start.pos + i - 1 \in 1..Len(order)
    BY <2>1, <2>3, <2>4
  <2>6. \A i \in 1..n : /\ r.rows[i][1] = order[start.pos + i - 1]
                        /\ r.rows[i][2] = u.active[order[start.pos + i - 1]]
    BY <2>5 DEF row
  <2>7. r.rows[1][1] = p
    BY <1>2, <2>1, <2>3, <2>6
  <2>8. q # 0 => r.rows[n][1] = q
    BY <1>3, <2>1, <2>3, <2>6
  <2>9. \A i \in 1..n : IsLive(u, r.rows[i][1]) /\ r.rows[i][2] = Quote(u, r.rows[i][1])
    BY <1>5, <1>6, <2>5, <2>6
  <2>10. p # 0
    BY <1>10 DEF UnitInv, IsUnit, IsTable, IsLive
  <2> QED
    BY <1>3, <1>10, <2>1, <2>3, <2>4, <2>7, <2>8, <2>9, <2>10 DEF start
<1> QED
  BY <1>3, <1>7, <1>8, <1>9, <1>10 DEF start

(* Every citation of a unit reads right, one of a path without a number too. *)
LEMMA CitationReads ==
  ASSUME NEW u, UnitInv(u), u.id = 0 => u = NewUnit(0), NEW c \in CitationsOf(u)
  PROVE  ReadsRight(u, c)
<1> DEFINE r == ReadCitation(u, c)
           kind(n) == Locate(u, n).kind
           pos(n) == Locate(u, n).pos
           warned == CitationWarnings(u, c)
           upset == /\ c.form = "span"
                    /\ IsLive(u, c.p) /\ IsLive(u, c.q) /\ pos(c.p) > pos(c.q)
<1>1. /\ c.form \in {"one", "tail", "span"}
      /\ c.form = "span" => c.q # 0
      /\ c.form # "span" => c.q = 0
      /\ c.p # 0
  <2>1. \A p \in DOMAIN u.anchors : p # 0
    BY DEF UnitInv, IsUnit, IsTable
  <2>2. MaxAnchor(u) \in Nat
    BY MaxAnchorBounds DEF UnitInv
  <2> QED
    BY <2>1, <2>2 DEF CitationsOf
<1>2. \A n : /\ kind(n) \in {"at", "retired", "missing"}
             /\ kind(n) = "at" <=> IsLive(u, n)
             /\ kind(n) = "retired" <=> n \in DOMAIN u.retired
             /\ n \in DOMAIN u.retired => ~IsLive(u, n)
  BY LocateFinds
<1>3. IsLive(u, c.p) /\ IsLive(u, c.q) => pos(c.p) \in Nat /\ pos(c.q) \in Nat
  BY LocateFinds
<1>4. warned = IF upset THEN {"reversed"} ELSE {kind(n) : n \in Cited(c)} \ {"at"}
  <2>1. CASE u.id # 0
    BY <1>1, <1>2, <2>1 DEF CitationWarnings, Cited
  <2>2. CASE u.id = 0
    <3>1. \A n : ~IsLive(u, n) /\ n \notin DOMAIN u.retired
      BY <2>2 DEF NewUnit, IsLive
    <3>2. \A n : kind(n) = "missing"
      BY <1>2, <3>1
    <3>3. {kind(n) : n \in Cited(c)} \ {"at"} = {"missing"}
      BY <3>2 DEF Cited
    <3> QED
      BY <2>2, <3>1, <3>3 DEF CitationWarnings
  <2> QED
    BY <2>1, <2>2
<1>5. CASE c.form = "one"
  <2>1. r = [kind |-> IF kind(c.p) = "at" THEN "rows" ELSE kind(c.p), at |-> c.p,
             rows |-> IF kind(c.p) = "missing" THEN <<>> ELSE <<<<c.p, Quote(u, c.p)>>>>]
    BY <1>5 DEF ReadCitation
  <2>2. warned = {kind(c.p)} \ {"at"}
    BY <1>4, <1>5 DEF Cited
  <2> HIDE DEF r, kind, pos, warned, upset
  <2>3. r.kind = (IF kind(c.p) = "at" THEN "rows" ELSE kind(c.p)) /\ r.at = c.p
    BY <2>1
  <2>4. r.kind = "rows" => /\ r.rows = <<<<c.p, Quote(u, c.p)>>>>
                           /\ IsLive(u, c.p)
    BY <1>2, <2>1
  <2>5. warned = {} <=> r.kind = "rows"
    BY <1>2, <2>2, <2>3
  <2>6. ~(warned = {"reversed"}) /\ ~(r.kind = "reversed")
    BY <1>2, <2>2, <2>3
  <2>7. r.kind = "rows" =>
          /\ r.rows[1][1] = c.p
          /\ Len(r.rows) = 1
          /\ \A i \in 1..Len(r.rows) :
               IsLive(u, r.rows[i][1]) /\ r.rows[i][2] = Quote(u, r.rows[i][1])
    <3> DEFINE first == <<c.p, Quote(u, c.p)>>
    <3>1. first[1] = c.p /\ first[2] = Quote(u, c.p)
      OBVIOUS
    <3> HIDE DEF first
    <3>2. Len(<<first>>) = 1 /\ <<first>>[1] = first
      OBVIOUS
    <3>3. \A i \in 1..1 : i = 1
      OBVIOUS
    <3> QED
      BY <2>4, <3>1, <3>2, <3>3 DEF first
  <2>8. r.kind \in {"retired", "missing"} => ~IsLive(u, r.at)
    BY <1>2, <2>3
  <2>9. r.kind = "retired" <=> r.kind # "rows" /\ r.at \in DOMAIN u.retired
    BY <1>2, <2>3
  <2> QED
    BY <1>5, <2>5, <2>6, <2>7, <2>8, <2>9 DEF ReadsRight, r, warned
<1>6. CASE c.form \in {"tail", "span"}
  <2>1. r = RangeOf(u, c.p, c.q)
    BY <1>1, <1>6 DEF ReadCitation
  <2>2. Cited(c) = IF c.q = 0 THEN {c.p} ELSE {c.p, c.q}
    BY <1>1, <1>6 DEF Cited
  <2>3. c.form = "span" <=> c.q # 0
    BY <1>1, <1>6
  <2>4. /\ ~IsLive(u, c.p) => r.kind = kind(c.p) /\ r.at = c.p
        /\ IsLive(u, c.p) /\ c.q # 0 /\ ~IsLive(u, c.q) =>
             r.kind = kind(c.q) /\ r.at = c.q
        /\ upset => r.kind = "reversed" /\ r.at = c.p
        /\ IsLive(u, c.p) /\ (c.q # 0 => IsLive(u, c.q)) /\ ~upset =>
             /\ r.kind = "rows"
             /\ r.rows[1][1] = c.p
             /\ c.q # 0 => r.rows[Len(r.rows)][1] = c.q
             /\ c.p = c.q => Len(r.rows) = 1
             /\ \A i \in 1..Len(r.rows) :
                  IsLive(u, r.rows[i][1]) /\ r.rows[i][2] = Quote(u, r.rows[i][1])
    BY <1>3, <2>1, <2>3, RangeRows
  <2>5. upset => c.q # 0 /\ IsLive(u, c.p) /\ IsLive(u, c.q)
    BY <2>3
  <2> HIDE DEF r, kind, pos, warned, upset
  <2>6. CASE ~IsLive(u, c.p)
    <3>1. r.kind = kind(c.p) /\ r.at = c.p /\ kind(c.p) \in {"retired", "missing"}
      BY <1>2, <2>4, <2>6
    <3>2. kind(c.p) \in warned
      BY <1>4, <2>2, <2>5, <2>6, <3>1
    <3>3. warned # {} /\ warned # {"reversed"}
      BY <3>1, <3>2
    <3>4. r.kind # "rows" /\ r.kind # "reversed" /\ ~IsLive(u, r.at)
      BY <2>6, <3>1
    <3>5. r.kind = "retired" <=> r.at \in DOMAIN u.retired
      BY <1>2, <3>1
    <3> QED
      BY <3>3, <3>4, <3>5 DEF ReadsRight, r, warned
  <2>7. CASE IsLive(u, c.p) /\ c.q # 0 /\ ~IsLive(u, c.q)
    <3>1. r.kind = kind(c.q) /\ r.at = c.q /\ kind(c.q) \in {"retired", "missing"}
      BY <1>2, <2>4, <2>7
    <3>2. kind(c.q) \in warned
      BY <1>4, <2>2, <2>5, <2>7, <3>1
    <3>3. warned # {} /\ warned # {"reversed"}
      BY <3>1, <3>2
    <3>4. r.kind # "rows" /\ r.kind # "reversed" /\ ~IsLive(u, r.at)
      BY <2>7, <3>1
    <3>5. r.kind = "retired" <=> r.at \in DOMAIN u.retired
      BY <1>2, <3>1
    <3> QED
      BY <3>3, <3>4, <3>5 DEF ReadsRight, r, warned
  <2>8. CASE upset
    <3>1. r.kind = "reversed" /\ r.at = c.p /\ warned = {"reversed"}
      BY <1>4, <2>4, <2>8
    <3>2. r.at \notin DOMAIN u.retired /\ warned # {}
      BY <1>2, <2>5, <2>8, <3>1
    <3> QED
      BY <3>1, <3>2 DEF ReadsRight, r, warned
  <2>9. CASE IsLive(u, c.p) /\ (c.q # 0 => IsLive(u, c.q)) /\ ~upset
    <3>1. warned = {}
      BY <1>2, <1>4, <2>2, <2>9
    <3>2. r.kind = "rows"
      BY <2>4, <2>9
    <3>3. /\ r.rows[1][1] = c.p
          /\ c.form = "span" => r.rows[Len(r.rows)][1] = c.q
          /\ c.form = "one" \/ c.p = c.q => Len(r.rows) = 1
          /\ \A i \in 1..Len(r.rows) :
               IsLive(u, r.rows[i][1]) /\ r.rows[i][2] = Quote(u, r.rows[i][1])
      BY <1>6, <2>3, <2>4, <2>9
    <3>4. warned # {"reversed"}
      BY <3>1
    <3> QED
      BY <3>1, <3>2, <3>3, <3>4 DEF ReadsRight, r, warned
  <2> QED
    BY <2>6, <2>7, <2>8, <2>9
<1> QED
  BY <1>1, <1>5, <1>6

(* Whatever was inserted, moved, retired or rolled back, a citation reads as
   live text in document order or says why not, and its warning agrees. *)
THEOREM CitationsReadRight == Spec => []RangeReads
<1>1. IInv => RangeReads
  <2> SUFFICES ASSUME IInv, NEW q \in Path, NEW c \in CitationsOf(disk.units[q])
               PROVE  ReadsRight(disk.units[q], c)
    BY DEF RangeReads
  <2>1. UnitInv(disk.units[q]) /\ (disk.units[q].id = 0 => disk.units[q] = NewUnit(0))
    BY DEF IInv, TableInv
  <2> QED
    BY <2>1, CitationReads
<1> QED
  BY Invariance, <1>1, PTL

(* added_v and retired_v bound exactly the versions listing a number. *)
THEOREM LedgerLifetimes == Spec => []AnchorLifetimes
<1>1. IInv => AnchorLifetimes
  BY DEF IInv, TableInv, UnitInv, AnchorLifetimes
<1> QED
  BY Invariance, <1>1, PTL

(* A SRC number stands for its path for ever. *)
THEOREM SourceNumbersPermanent == Spec => IdsPermanent
<1>1. IInv /\ [Next]_vars =>
        [\A q \in Registered(disk), r \in Path :
           (disk'.units[r].id = disk.units[q].id) <=> (r = q)]_disk
  <2> SUFFICES ASSUME IInv, [Next]_vars, NEW q \in Registered(disk), NEW r \in Path
               PROVE  (disk'.units[r].id = disk.units[q].id) <=> (r = q)
    OBVIOUS
  <2>1. q \in Path /\ disk.units[q].id # 0
    BY DEF Registered
  <2>2. disk'.units[q].id = disk.units[q].id
    BY NextKeeps DEF Later
  <2>3. DistinctIds(disk')
    BY NextKeeps DEF IInv, TableInv
  <2>4. ASSUME disk'.units[r].id = disk.units[q].id
        PROVE  r = q
    <3>1. q \in Registered(disk') /\ r \in Registered(disk')
      BY <2>1, <2>2, <2>4 DEF Registered
    <3> QED
      BY <2>2, <2>3, <2>4, <3>1 DEF DistinctIds
  <2> QED
    BY <2>2, <2>4
<1> QED
  BY Invariance, <1>1, PTL DEF Spec, IdsPermanent

(* A corpus revision names one state of the corpus. *)
THEOREM RevisionNamesState == Spec => TokenNamesState
<1>1. IInv /\ [Next]_vars =>
        [/\ disk'.token >= disk.token
         /\ disk'.token = disk.token => CorpusState(disk') = CorpusState(disk)]_disk
  BY NextKeeps DEF Later, SameCorpus
<1> QED
  BY Invariance, <1>1, PTL DEF Spec, TokenNamesState

(* The ledger implements Citations: every committed step is a revision that
   keeps each number's text and revives none, or leaves all of it alone. *)
THEOREM LedgerKeepsCitations == Spec => KeepsCitations
<1>1. Init => Promise!CInit
  <2> SUFFICES ASSUME Init PROVE Promise!CInit
    OBVIOUS
  <2>1. disk = EmptyLedger /\ disk.token = 0
    BY DEF Init, EmptyLedger
  <2> QED
    BY <2>1, EmptyCitations DEF Promise!CInit
<1>2. IInv /\ [Next]_vars => [Promise!CNext]_(Promise!cvars)
  <2> SUFFICES ASSUME IInv, [Next]_vars
               PROVE  Promise!CNext \/ UNCHANGED Promise!cvars
    BY DEF Promise!cvars
  <2>1. TableInv(disk) /\ TableInv(disk') /\ Later(disk, disk')
    BY NextKeeps DEF IInv
  <2>2. QuoteOf(disk)' = QuoteOf(disk') /\ LiveOf(disk)' = LiveOf(disk')
    BY DEF QuoteOf, LiveOf, Quote
  <2> QED
    BY <2>1, <2>2, LaterRevises
    DEF Promise!CNext, Promise!Revise, Promise!QuoteGrows, Promise!NoRevival, Promise!cvars
<1> QED
  BY Invariance, <1>1, <1>2, PTL DEF Spec, KeepsCitations, Promise!CSpec
-----------------------------------------------------------------------------
(***************************************************************************)
(* The loops that pair paragraphs.                                         *)
(***************************************************************************)
LEMMA UpTo ==
  ASSUME NEW n \in Nat, NEW S, 0 \in S, \A i \in 0..n : i + 1 <= n /\ i \in S => i + 1 \in S
  PROVE  \A i \in 0..n : i \in S
<1> DEFINE T == {i \in 0..n : i \notin S}
<1> SUFFICES ASSUME T # {} PROVE FALSE
  OBVIOUS
<1>1. T \in SUBSET Nat
  OBVIOUS
<1>2. PICK m \in T : \A x \in T : m <= x
  BY <1>1, LeastNatural
<1>3. m \in 0..n /\ m \notin S /\ m # 0
  BY <1>2
<1>4. m - 1 \in 0..n /\ m - 1 \notin T
  BY <1>2, <1>3
<1>5. m - 1 \in S /\ (m - 1) + 1 = m
  BY <1>3, <1>4
<1> QED
  BY <1>3, <1>4, <1>5

\* A loop of n steps over the values X: f[i] is its value after step i.
IsRun(f, X, base, n, step) ==
  f \in [0..n -> X] /\ f[0] = base /\ \A i \in 1..n : f[i] = step[<<f[i - 1], i>>]

(* Every loop has a run. *)
LEMMA LoopRuns ==
  ASSUME NEW X, NEW base \in X, NEW n \in Nat, NEW step \in [X \X (1..n) -> X]
  PROVE  \E f : IsRun(f, X, base, n, step)
<1> DEFINE Runs(k) == \E f \in [0..k -> X] :
                        f[0] = base /\ \A i \in 1..k : f[i] = step[<<f[i - 1], i>>]
           S == {k \in 0..n : ~Runs(k)}
<1>1. Runs(0)
  <2> DEFINE f == [i \in 0..0 |-> base]
  <2>1. f \in [0..0 -> X] /\ f[0] = base /\ \A i \in 1..0 : f[i] = step[<<f[i - 1], i>>]
    OBVIOUS
  <2> QED
    BY <2>1
<1>2. ASSUME NEW k \in Nat, k + 1 <= n, Runs(k)
      PROVE  Runs(k + 1)
  <2>1. PICK f \in [0..k -> X] :
          f[0] = base /\ \A i \in 1..k : f[i] = step[<<f[i - 1], i>>]
    BY <1>2
  <2>2. step[<<f[k], k + 1>>] \in X
    BY <1>2, <2>1
  <2> DEFINE g == [i \in 0..(k + 1) |-> IF i = k + 1 THEN step[<<f[k], k + 1>>] ELSE f[i]]
  <2>3. g \in [0..(k + 1) -> X]
    BY <2>1, <2>2
  <2>4. g[0] = base
    BY <2>1
  <2>5. ASSUME NEW i \in 1..(k + 1)
        PROVE  g[i] = step[<<g[i - 1], i>>]
    <3>1. i - 1 \in 0..k /\ i - 1 # k + 1 /\ g[i - 1] = f[i - 1]
      OBVIOUS
    <3>2. CASE i = k + 1
      <4>1. i - 1 = k /\ g[i] = step[<<f[k], k + 1>>]
        BY <3>2
      <4> QED
        BY <3>1, <3>2, <4>1
    <3>3. CASE i # k + 1
      <4>1. i \in 1..k /\ g[i] = f[i]
        BY <3>3
      <4> QED
        BY <2>1, <3>1, <4>1
    <3> QED
      BY <3>2, <3>3
  <2> HIDE DEF g
  <2> QED
    BY <2>3, <2>4, <2>5
<1> HIDE DEF Runs
<1>3. S = {}
  <2> SUFFICES ASSUME S # {} PROVE FALSE
    OBVIOUS
  <2>1. S \in SUBSET Nat
    OBVIOUS
  <2>2. PICK m \in S : \A x \in S : m <= x
    BY <2>1, LeastNatural
  <2>3. m # 0 /\ m \in 0..n /\ ~Runs(m)
    BY <1>1, <2>2
  <2>4. m - 1 \in Nat /\ m - 1 <= n /\ m - 1 \notin S
    BY <2>2, <2>3
  <2>5. Runs(m - 1)
    BY <2>3, <2>4
  <2>6. Runs((m - 1) + 1)
    BY <1>2, <2>3, <2>4, <2>5
  <2> QED
    BY <2>3, <2>6
<1>4. Runs(n)
  BY <1>3
<1> QED
  BY <1>4 DEF Runs, IsRun

\* Copies of a text among the first i.
Copies(s, t, i) == Cardinality({j \in 1..i : s[j] = t})

LEMMA CopiesGrow ==
  ASSUME NEW s, NEW t, NEW i \in Nat, NEW j \in Nat, i <= j
  PROVE  /\ Copies(s, t, i) \in Nat /\ Copies(s, t, i) <= Copies(s, t, j)
         /\ Copies(s, t, i + 1) = IF s[i + 1] = t THEN Copies(s, t, i) + 1 ELSE Copies(s, t, i)
         /\ Copies(s, t, 0) = 0
<1> DEFINE C(k) == {x \in 1..k : s[x] = t}
<1>1. ASSUME NEW k \in Nat
      PROVE  IsFiniteSet(C(k)) /\ Cardinality(C(k)) \in Nat
  <2>1. IsFiniteSet(1..k)
    BY FS_Interval
  <2>2. C(k) \subseteq 1..k
    OBVIOUS
  <2> QED
    BY <2>1, <2>2, FS_Subset, FS_CardinalityType
<1>2. Cardinality(C(i)) <= Cardinality(C(j))
  <2>1. C(i) \subseteq C(j)
    OBVIOUS
  <2> QED
    BY <1>1, <2>1, FS_Subset
<1>3. Copies(s, t, 0) = 0
  <2>1. C(0) = {}
    OBVIOUS
  <2> QED
    BY <2>1, FS_EmptySet DEF Copies
<1>4. Copies(s, t, i + 1) = IF s[i + 1] = t THEN Copies(s, t, i) + 1 ELSE Copies(s, t, i)
  <2>1. CASE s[i + 1] = t
    <3>1. C(i + 1) = C(i) \cup {i + 1} /\ i + 1 \notin C(i)
      BY <2>1
    <3>2. Cardinality(C(i + 1)) = Cardinality(C(i)) + 1
      BY <1>1, <3>1, FS_AddElement
    <3> QED
      BY <2>1, <3>2 DEF Copies
  <2>2. CASE s[i + 1] # t
    <3>1. C(i + 1) = C(i)
      BY <2>2
    <3> QED
      BY <2>2, <3>1 DEF Copies
  <2> QED
    BY <2>1, <2>2
<1>5. Copies(s, t, i) \in Nat /\ Copies(s, t, i) <= Copies(s, t, j)
  BY <1>1, <1>2 DEF Copies
<1> QED
  BY <1>3, <1>4, <1>5

LEMMA OccurrenceCounts ==
  ASSUME NEW s, NEW i
  PROVE  Occurrence(s, i) = Copies(s, s[i], i)
BY DEF Copies, Occurrence

(* The loop that fills the queues runs. *)
LEMMA QueuesRun ==
  ASSUME NEW old \in Seq(Text)
  PROVE  \E f : /\ f[0] = [t \in Text |-> <<>>]
                /\ \A i \in 1..Len(old) : f[i] = [f[i - 1] EXCEPT ![old[i]] = Append(@, i)]
                /\ Queues(old) = f[Len(old)]
<1> DEFINE n == Len(old)
           X == [Text -> Seq(Nat)]
           base == [t \in Text |-> <<>>]
           step == [p \in X \X (1..n) |-> [p[1] EXCEPT ![old[p[2]]] = Append(@, p[2])]]
           Fills(f) == f = [i \in 0..n |-> IF i = 0 THEN base
                                          ELSE [f[i - 1] EXCEPT ![old[i]] = Append(@, i)]]
<1>1. n \in Nat /\ \A i \in 1..n : old[i] \in Text
  OBVIOUS
<1>2. base \in X /\ step \in [X \X (1..n) -> X]
  <2>1. ASSUME NEW q \in X, NEW i \in 1..n
        PROVE  [q EXCEPT ![old[i]] = Append(@, i)] \in X
    OBVIOUS
  <2> QED
    BY <2>1
<1> DEFINE filled == CHOOSE f : Fills(f)
<1>3. Queues(old) = filled[n]
  BY DEF Queues
<1> HIDE DEF n, X, base, step
<1>4. PICK f : IsRun(f, X, base, n, step)
  BY <1>1, <1>2, LoopRuns
<1>5. f \in [0..n -> X] /\ f[0] = base /\ \A i \in 1..n : f[i] = step[<<f[i - 1], i>>]
  BY <1>4 DEF IsRun
<1>6. \A i \in 1..n : i \in 0..n /\ i # 0 /\ i - 1 \in 0..n
  BY <1>1
<1>7. 0 \in 0..n /\ \A i \in 0..n : i # 0 => i \in 1..n
  BY <1>1
<1>8. \A i \in 1..n : f[i] = [f[i - 1] EXCEPT ![old[i]] = Append(@, i)]
  <2> TAKE i \in 1..n
  <2>1. f[i - 1] \in X
    BY <1>5, <1>6
  <2>2. <<f[i - 1], i>> \in X \X (1..n)
    BY <2>1
  <2>3. step[<<f[i - 1], i>>] = [f[i - 1] EXCEPT ![old[i]] = Append(@, i)]
    BY <2>2 DEF step
  <2> QED
    BY <1>5, <2>3
<1>9. Fills(f)
  <2> DEFINE g == [i \in 0..n |-> IF i = 0 THEN base
                                 ELSE [f[i - 1] EXCEPT ![old[i]] = Append(@, i)]]
  <2>1. \A i \in 0..n : f[i] = g[i]
    BY <1>5, <1>7, <1>8
  <2>2. DOMAIN g = 0..n /\ DOMAIN f = 0..n
    BY <1>5
  <2>3. f = [i \in 0..n |-> f[i]] /\ g = [i \in 0..n |-> g[i]]
    BY <1>5
  <2> QED
    BY <2>1, <2>3
<1>10. Fills(filled)
  BY <1>9
<1> HIDE DEF filled
<1>11. filled[0] = base
  BY <1>7, <1>10
<1>12. \A i \in 1..n : filled[i] = [filled[i - 1] EXCEPT ![old[i]] = Append(@, i)]
  BY <1>6, <1>10
<1> QED
  BY <1>3, <1>11, <1>12 DEF n, base

(* The queues: of each text its positions, in order. *)
LEMMA QueuesFilled ==
  ASSUME NEW old \in Seq(Text)
  PROVE  /\ Queues(old) = [t \in Text |-> Queues(old)[t]]
         /\ \A t \in Text :
              /\ Queues(old)[t] \in Seq(1..Len(old))
              /\ Len(Queues(old)[t]) = Copies(old, t, Len(old))
              /\ \A k \in 1..Len(Queues(old)[t]) :
                   /\ old[Queues(old)[t][k]] = t
                   /\ Occurrence(old, Queues(old)[t][k]) = k
<1> DEFINE n == Len(old)
<1>1. n \in Nat /\ \A i \in 1..n : old[i] \in Text
  OBVIOUS
<1>2. PICK f : /\ f[0] = [t \in Text |-> <<>>]
               /\ \A i \in 1..n : f[i] = [f[i - 1] EXCEPT ![old[i]] = Append(@, i)]
               /\ Queues(old) = f[n]
  BY QueuesRun
<1> DEFINE Filled(i, queue, t) ==
             /\ queue \in Seq(1..n)
             /\ Len(queue) = Copies(old, t, i)
             /\ \A k \in 1..Len(queue) : old[queue[k]] = t /\ Occurrence(old, queue[k]) = k
           S == {i \in 0..n : f[i] = [t \in Text |-> f[i][t]] /\ \A t \in Text : Filled(i, f[i][t], t)}
<1> HIDE DEF n
<1>3. 0 \in S
  <2>1. ASSUME NEW t \in Text
        PROVE  Filled(0, <<>>, t)
    <3>1. Copies(old, t, 0) = 0
      BY CopiesGrow
    <3> QED
      BY <3>1
  <2> HIDE DEF Filled
  <2> QED
    BY <1>1, <1>2, <2>1
<1>4. ASSUME NEW i \in 0..n, i + 1 <= n, i \in S
      PROVE  i + 1 \in S
  <2>1. i + 1 \in 1..n /\ (i + 1) - 1 = i /\ i + 1 \in 0..n /\ i \in Nat
    BY <1>1, <1>4
  <2>2. f[i + 1] = [f[i] EXCEPT ![old[i + 1]] = Append(@, i + 1)]
    BY <1>2, <2>1
  <2>3. f[i] = [t \in Text |-> f[i][t]] /\ \A t \in Text : Filled(i, f[i][t], t)
    BY <1>4
  <2>4. old[i + 1] \in Text
    BY <1>1, <2>1
  <2> HIDE DEF S
  <2>5. f[i + 1] = [t \in Text |-> f[i + 1][t]]
    BY <2>2, <2>3
  <2>6. ASSUME NEW t \in Text
        PROVE  Filled(i + 1, f[i + 1][t], t)
    <3>1. Filled(i, f[i][t], t)
      BY <2>3
    <3>2. /\ Copies(old, t, i) \in Nat
          /\ Copies(old, t, i + 1) = IF old[i + 1] = t THEN Copies(old, t, i) + 1
                                     ELSE Copies(old, t, i)
      BY <2>1, CopiesGrow
    <3>3. CASE old[i + 1] # t
      <4>1. f[i + 1][t] = f[i][t]
        BY <2>2, <2>3, <3>3
      <4> QED
        BY <3>1, <3>2, <3>3, <4>1
    <3>4. CASE old[i + 1] = t
      <4> DEFINE queue == f[i][t]
                 longer == Append(queue, i + 1)
      <4>1. f[i + 1][t] = longer
        <5> HIDE DEF Filled
        <5> QED
          BY <2>2, <2>3, <2>4, <3>4
      <4>2. Occurrence(old, i + 1) = Copies(old, t, i + 1)
        BY <3>4, OccurrenceCounts
      <4>3. queue \in Seq(1..n) /\ Len(queue) = Copies(old, t, i)
        BY <3>1
      <4>4. longer \in Seq(1..n) /\ Len(longer) = Len(queue) + 1
        BY <2>1, <4>3
      <4>5. ASSUME NEW k \in 1..Len(longer)
            PROVE  old[longer[k]] = t /\ Occurrence(old, longer[k]) = k
        <5>1. CASE k = Len(queue) + 1
          <6>1. longer[k] = i + 1
            BY <4>3, <5>1
          <6> QED
            BY <3>2, <3>4, <4>2, <4>3, <5>1, <6>1
        <5>2. CASE k # Len(queue) + 1
          <6>1. k \in 1..Len(queue)
            BY <4>3, <4>4, <5>2
          <6>2. longer[k] = queue[k]
            BY <4>3, <6>1
          <6> QED
            BY <3>1, <6>1, <6>2
        <5> QED
          BY <5>1, <5>2
      <4>6. Len(longer) = Copies(old, t, i + 1)
        BY <3>2, <3>4, <4>3, <4>4
      <4> HIDE DEF longer
      <4> QED
        BY <4>1, <4>4, <4>5, <4>6
    <3> QED
      BY <3>3, <3>4
  <2> HIDE DEF Filled
  <2> QED
    BY <2>1, <2>5, <2>6 DEF S
<1> HIDE DEF S
<1>5. \A i \in 0..n : i \in S
  BY <1>1, <1>3, <1>4, UpTo
<1>6. f[n] = [t \in Text |-> f[n][t]] /\ \A t \in Text : Filled(n, f[n][t], t)
  <2> HIDE DEF Filled
  <2>1. n \in S
    BY <1>1, <1>5
  <2> QED
    BY <2>1 DEF S
<1> QED
  BY <1>2, <1>6 DEF n

\* Two copies of a text have two occurrence numbers.
LEMMA OccurrenceTells ==
  ASSUME NEW s, NEW i \in Nat, NEW j \in Nat, s[i] = s[j], Occurrence(s, i) = Occurrence(s, j)
  PROVE  i = j
<1>1. ~(i < j)
  BY OccurrenceGrows
<1>2. ~(j < i)
  BY OccurrenceGrows
<1> QED
  BY <1>1, <1>2

LEMMA OccurrenceBounds ==
  ASSUME NEW T, NEW s \in Seq(T), NEW i \in 1..Len(s)
  PROVE  /\ Occurrence(s, i) \in Nat /\ Occurrence(s, i) >= 1
         /\ Occurrence(s, i) = Copies(s, s[i], i - 1) + 1
         /\ Occurrence(s, i) <= Copies(s, s[i], Len(s))
<1>1. i - 1 \in Nat /\ i \in Nat /\ Len(s) \in Nat /\ i <= Len(s) /\ (i - 1) + 1 = i
  OBVIOUS
<1>2. Copies(s, s[i], i - 1) \in Nat /\ Copies(s, s[i], i) = Copies(s, s[i], i - 1) + 1
  <2> DEFINE h == i - 1
  <2>1. h \in Nat /\ h <= h /\ h + 1 = i
    BY <1>1
  <2> HIDE DEF h
  <2>2. /\ Copies(s, s[i], h) \in Nat
        /\ Copies(s, s[i], h + 1) = IF s[h + 1] = s[i] THEN Copies(s, s[i], h) + 1
                                    ELSE Copies(s, s[i], h)
    BY <2>1, CopiesGrow
  <2>3. Copies(s, s[i], i) = Copies(s, s[i], h) + 1
    BY <2>1, <2>2
  <2> QED
    BY <2>2, <2>3 DEF h
<1>3. Copies(s, s[i], i) <= Copies(s, s[i], Len(s))
  BY <1>1, CopiesGrow
<1> QED
  BY <1>2, <1>3, OccurrenceCounts

(* Match in terms of the queues: the paragraph that is the k-th of its text *)
(* keeps the k-th of the queue.                                             *)
LEMMA MatchFromQueue ==
  ASSUME NEW old \in Seq(Text), NEW new \in Seq(Text), NEW i \in 1..Len(new)
  PROVE  LET queue == Queues(old)[new[i]]
             k == Occurrence(new, i)
         IN Match(old, new)[i] = IF k <= Len(queue) THEN queue[k] ELSE 0
<1> DEFINE queue == Queues(old)[new[i]]
           k == Occurrence(new, i)
           same == {j \in 1..Len(old) : old[j] = new[i] /\ Occurrence(old, j) = k}
<1>1. Match(old, new)[i] = IF same = {} THEN 0 ELSE CHOOSE j \in same : TRUE
  BY DEF Match
<1>2. new[i] \in Text
  OBVIOUS
<1>3. /\ queue \in Seq(1..Len(old)) /\ Len(queue) = Copies(old, new[i], Len(old))
      /\ \A x \in 1..Len(queue) : old[queue[x]] = new[i] /\ Occurrence(old, queue[x]) = x
  BY <1>2, QueuesFilled
<1>4. k \in Nat /\ k >= 1
  BY OccurrenceBounds
<1> HIDE DEF queue, k
<1>5. CASE k <= Len(queue)
  <2>1. k \in 1..Len(queue)
    BY <1>3, <1>4, <1>5
  <2>2. queue[k] \in 1..Len(old)
    BY <1>3, <2>1
  <2>3. queue[k] \in same
    BY <1>3, <2>1, <2>2
  <2>4. \A j \in same : j = queue[k]
    <3> TAKE j \in same
    <3>1. old[j] = old[queue[k]] /\ Occurrence(old, j) = Occurrence(old, queue[k])
      BY <1>3, <2>1
    <3>2. j \in Nat /\ queue[k] \in Nat
      BY <2>2
    <3> QED
      BY <3>1, <3>2, OccurrenceTells
  <2> HIDE DEF same
  <2> QED
    BY <1>1, <1>5, <2>3, <2>4 DEF queue, k
<1>6. CASE ~(k <= Len(queue))
  <2>1. \A j \in same : FALSE
    <3> TAKE j \in same
    <3>1. Occurrence(old, j) <= Copies(old, old[j], Len(old))
      BY OccurrenceBounds
    <3> QED
      BY <1>3, <1>6, <3>1
  <2>2. same = {}
    BY <2>1
  <2> QED
    BY <1>1, <1>6, <2>2 DEF queue, k
<1> QED
  BY <1>5, <1>6

(* The loop that pops the queues runs. *)
LEMMA MatchRun ==
  ASSUME NEW old \in Seq(Text), NEW new \in Seq(Text)
  PROVE  \E f : /\ f[0] = [queues |-> Queues(old), kept |-> <<>>]
                /\ \A i \in 1..Len(new) : f[i] = Pop(f[i - 1], new[i])
                /\ LoopMatch(old, new) = f[Len(new)].kept
<1> DEFINE n == Len(new)
           X == [queues : [Text -> Seq(Nat)], kept : Seq(Nat)]
           base == [queues |-> Queues(old), kept |-> <<>>]
           step == [p \in X \X (1..n) |-> Pop(p[1], new[p[2]])]
           Pops(f) == f = [i \in 0..n |-> IF i = 0 THEN base ELSE Pop(f[i - 1], new[i])]
           popped == CHOOSE f : Pops(f)
<1>1. n \in Nat /\ \A i \in 1..n : new[i] \in Text
  OBVIOUS
<1>2. base \in X
  <2>1. \A t \in Text : Queues(old)[t] \in Seq(Nat)
    <3> TAKE t \in Text
    <3>1. Queues(old)[t] \in Seq(1..Len(old))
      BY QueuesFilled
    <3> QED
      BY <3>1
  <2>2. Queues(old) = [t \in Text |-> Queues(old)[t]]
    BY QueuesFilled
  <2>3. Queues(old) \in [Text -> Seq(Nat)]
    BY <2>1, <2>2
  <2> QED
    BY <2>3
<1>3. step \in [X \X (1..n) -> X]
  <2>1. ASSUME NEW state \in X, NEW i \in 1..n
        PROVE  Pop(state, new[i]) \in X
    <3> DEFINE queue == state.queues[new[i]]
    <3>1. queue \in Seq(Nat) /\ state.kept \in Seq(Nat) /\ state.queues \in [Text -> Seq(Nat)]
      BY <1>1
    <3>2. CASE queue = <<>>
      <4>1. Append(state.kept, 0) \in Seq(Nat)
        BY <3>1
      <4>2. Pop(state, new[i]) = [state EXCEPT !.kept = Append(@, 0)]
        BY <3>2 DEF Pop
      <4> QED
        BY <4>1, <4>2
    <3>3. CASE queue # <<>>
      <4>1. Head(queue) \in Nat /\ Tail(queue) \in Seq(Nat)
        BY <3>1, <3>3
      <4>2. Append(state.kept, Head(queue)) \in Seq(Nat)
        BY <3>1, <4>1
      <4>3. [state.queues EXCEPT ![new[i]] = Tail(queue)] \in [Text -> Seq(Nat)]
        BY <3>1, <4>1
      <4>4. Pop(state, new[i]) = [queues |-> [state.queues EXCEPT ![new[i]] = Tail(queue)],
                                  kept |-> Append(state.kept, Head(queue))]
        BY <3>3 DEF Pop
      <4> QED
        BY <4>2, <4>3, <4>4
    <3> QED
      BY <3>2, <3>3
  <2> HIDE DEF X
  <2> QED
    BY <2>1
<1>4. LoopMatch(old, new) = popped[n].kept
  BY DEF LoopMatch
<1> HIDE DEF n, X, base, step
<1>5. PICK f : IsRun(f, X, base, n, step)
  BY <1>1, <1>2, <1>3, LoopRuns
<1>6. f \in [0..n -> X] /\ f[0] = base /\ \A i \in 1..n : f[i] = step[<<f[i - 1], i>>]
  BY <1>5 DEF IsRun
<1>7. \A i \in 1..n : i \in 0..n /\ i # 0 /\ i - 1 \in 0..n
  BY <1>1
<1>8. 0 \in 0..n /\ \A i \in 0..n : i # 0 => i \in 1..n
  BY <1>1
<1>9. \A i \in 1..n : f[i] = Pop(f[i - 1], new[i])
  <2> TAKE i \in 1..n
  <2>1. <<f[i - 1], i>> \in X \X (1..n)
    BY <1>6, <1>7
  <2>2. step[<<f[i - 1], i>>] = Pop(f[i - 1], new[i])
    BY <2>1 DEF step
  <2> QED
    BY <1>6, <2>2
<1>10. Pops(f)
  <2> DEFINE g == [i \in 0..n |-> IF i = 0 THEN base ELSE Pop(f[i - 1], new[i])]
  <2>1. \A i \in 0..n : f[i] = g[i]
    BY <1>6, <1>8, <1>9
  <2>2. f = [i \in 0..n |-> f[i]] /\ g = [i \in 0..n |-> g[i]]
    BY <1>6
  <2> QED
    BY <2>1, <2>2
<1>11. Pops(popped)
  BY <1>10
<1> HIDE DEF popped
<1>12. popped[0] = base
  BY <1>8, <1>11
<1>13. \A i \in 1..n : popped[i] = Pop(popped[i - 1], new[i])
  BY <1>7, <1>11
<1> QED
  BY <1>4, <1>12, <1>13 DEF n, base

\* After i steps: of each queue what the copies so far have left, and the
\* paragraphs kept.
Popped(state, old, new, i) ==
  /\ state = [queues |-> state.queues, kept |-> state.kept]
  /\ state.queues = [t \in Text |-> state.queues[t]]
  /\ \A t \in Text :
       LET all == Queues(old)[t]
           left == state.queues[t]
           taken == Copies(new, t, i)
       IN /\ left \in Seq(1..Len(old))
          /\ Len(left) = IF taken <= Len(all) THEN Len(all) - taken ELSE 0
          /\ \A k \in 1..Len(left) : left[k] = all[k + taken]
  /\ state.kept \in Seq(0..Len(old)) /\ Len(state.kept) = i
  /\ \A j \in 1..i : state.kept[j] = Match(old, new)[j]

LEMMA PopKeeps ==
  ASSUME NEW old \in Seq(Text), NEW new \in Seq(Text), NEW i \in Nat, i + 1 <= Len(new),
         NEW state, Popped(state, old, new, i)
  PROVE  Popped(Pop(state, new[i + 1]), old, new, i + 1)
<1> DEFINE text == new[i + 1]
           after == Pop(state, text)
           all == Queues(old)[text]
           left == state.queues[text]
           taken == Copies(new, text, i)
<1>1. text \in Text /\ i + 1 \in 1..Len(new)
  OBVIOUS
<1>2. /\ all \in Seq(1..Len(old))
      /\ left \in Seq(1..Len(old))
      /\ Len(left) = IF taken <= Len(all) THEN Len(all) - taken ELSE 0
      /\ \A k \in 1..Len(left) : left[k] = all[k + taken]
  BY <1>1, QueuesFilled DEF Popped
<1>3. \A t \in Text :
        /\ Copies(new, t, i) \in Nat
        /\ Copies(new, t, i + 1) = IF text = t THEN Copies(new, t, i) + 1 ELSE Copies(new, t, i)
  BY CopiesGrow
<1>4. Occurrence(new, i + 1) = taken + 1
  BY <1>1, <1>3, OccurrenceCounts
<1>5. Match(old, new)[i + 1] = IF taken + 1 <= Len(all) THEN all[taken + 1] ELSE 0
  BY <1>1, <1>4, MatchFromQueue
<1>6. taken \in Nat /\ Len(all) \in Nat /\ Len(left) \in Nat
  BY <1>1, <1>2, <1>3
<1> DEFINE next == IF left = <<>> THEN left ELSE Tail(left)
           took == IF left = <<>> THEN 0 ELSE Head(left)
<1>7. /\ after.queues = [state.queues EXCEPT ![text] = next]
      /\ after.kept = Append(state.kept, took)
      /\ after = [queues |-> after.queues, kept |-> after.kept]
  <2>1. CASE left = <<>>
    <3>1. after = [state EXCEPT !.kept = Append(@, 0)]
      BY <2>1 DEF Pop
    <3>2. state = [queues |-> state.queues, kept |-> state.kept]
      BY DEF Popped
    <3>3. after = [queues |-> state.queues, kept |-> Append(state.kept, 0)]
      BY <3>1, <3>2
    <3>4. state.queues = [state.queues EXCEPT ![text] = left]
      <4>1. state.queues = [t \in Text |-> state.queues[t]]
        BY DEF Popped
      <4> QED
        BY <4>1
    <3> QED
      BY <2>1, <3>3, <3>4
  <2>2. CASE left # <<>>
    <3>1. after = [queues |-> [state.queues EXCEPT ![text] = Tail(left)],
                   kept |-> Append(state.kept, Head(left))]
      BY <2>2 DEF Pop
    <3> QED
      BY <2>2, <3>1
  <2> QED
    BY <2>1, <2>2
<1> HIDE DEF left, all, taken, text, after
<1>8. /\ next \in Seq(1..Len(old)) /\ took \in 0..Len(old)
      /\ Len(next) = IF taken + 1 <= Len(all) THEN Len(all) - (taken + 1) ELSE 0
      /\ \A k \in 1..Len(next) : next[k] = all[k + (taken + 1)]
      /\ took = IF taken + 1 <= Len(all) THEN all[taken + 1] ELSE 0
  <2>1. CASE left = <<>>
    <3>1. Len(left) = 0
      BY <2>1
    <3>2. ~(taken + 1 <= Len(all))
      <4>1. Len(left) = IF taken <= Len(all) THEN Len(all) - taken ELSE 0
        BY <1>2
      <4> QED
        BY ONLY <1>6, <3>1, <4>1
    <3> QED
      BY <1>2, <2>1, <3>1, <3>2
  <2>2. CASE left # <<>>
    <3>1. Len(left) >= 1
      BY <1>2, <2>2
    <3>2. taken + 1 <= Len(all) /\ Len(left) = Len(all) - taken
      BY <1>2, <1>6, <3>1
    <3>3. /\ next \in Seq(1..Len(old)) /\ took = left[1] /\ took \in 1..Len(old)
          /\ Len(next) = Len(left) - 1
          /\ \A k \in 1..Len(next) : next[k] = left[k + 1]
      <4>1. next = Tail(left) /\ took = Head(left)
        BY <2>2
      <4>2. left \in Seq(1..Len(old))
        BY <1>2
      <4> HIDE DEF next, took
      <4>3. Tail(left) \in Seq(1..Len(old)) /\ Len(Tail(left)) = Len(left) - 1
        BY <2>2, <4>2
      <4>4. Head(left) = left[1] /\ left[1] \in 1..Len(old)
        BY <2>2, <3>1, <4>2
      <4>5. \A k \in 1..Len(Tail(left)) : Tail(left)[k] = left[k + 1]
        BY <2>2, <4>2
      <4> QED
        BY <4>1, <4>3, <4>4, <4>5
    <3> HIDE DEF next, took
    <3>4. took = all[taken + 1]
      <4>1. 1 \in 1..Len(left) /\ 1 + taken = taken + 1
        BY <1>6, <3>1
      <4> QED
        BY <1>2, <3>3, <4>1
    <3>5. ASSUME NEW k \in 1..Len(next)
          PROVE  next[k] = all[k + (taken + 1)]
      <4>1. k + 1 \in 1..Len(left) /\ (k + 1) + taken = k + (taken + 1)
        BY <1>6, <3>3
      <4> QED
        BY <1>2, <3>3, <4>1
    <3> QED
      BY <1>6, <3>2, <3>3, <3>4, <3>5
  <2> QED
    BY <2>1, <2>2
<1> HIDE DEF next, took
<1>9. state.queues = [t \in Text |-> state.queues[t]]
  BY DEF Popped
<1>10. after.queues = [t \in Text |-> after.queues[t]]
  BY <1>1, <1>7, <1>9
<1>11. ASSUME NEW t \in Text
       PROVE  LET every == Queues(old)[t]
                  rest == after.queues[t]
                  used == Copies(new, t, i + 1)
              IN /\ rest \in Seq(1..Len(old))
                 /\ Len(rest) = IF used <= Len(every) THEN Len(every) - used ELSE 0
                 /\ \A k \in 1..Len(rest) : rest[k] = every[k + used]
  <2>1. CASE t = text
    <3>1. after.queues[t] = next /\ Copies(new, t, i + 1) = taken + 1 /\ Queues(old)[t] = all
      BY <1>1, <1>3, <1>7, <1>9, <2>1 DEF taken, all
    <3> QED
      BY <1>8, <3>1
  <2>2. CASE t # text
    <3>1. after.queues[t] = state.queues[t] /\ Copies(new, t, i + 1) = Copies(new, t, i)
      BY <1>3, <1>7, <1>9, <2>2
    <3> QED
      BY <3>1 DEF Popped
  <2> QED
    BY <2>1, <2>2
<1>12. /\ after.kept \in Seq(0..Len(old)) /\ Len(after.kept) = i + 1
       /\ \A j \in 1..(i + 1) : after.kept[j] = Match(old, new)[j]
  <2>1. /\ state.kept \in Seq(0..Len(old)) /\ Len(state.kept) = i
        /\ \A j \in 1..i : state.kept[j] = Match(old, new)[j]
    BY DEF Popped
  <2>2. took = Match(old, new)[i + 1] /\ took \in 0..Len(old)
    BY <1>5, <1>8
  <2> DEFINE kept == state.kept
  <2> HIDE DEF kept
  <2>3. /\ Append(kept, took) \in Seq(0..Len(old)) /\ Len(Append(kept, took)) = i + 1
        /\ \A j \in 1..i : Append(kept, took)[j] = kept[j]
        /\ Append(kept, took)[i + 1] = took
    BY <2>1, <2>2 DEF kept
  <2>4. \A j \in 1..(i + 1) : j \in 1..i \/ j = i + 1
    OBVIOUS
  <2> QED
    BY <1>7, <2>1, <2>2, <2>3, <2>4 DEF kept
<1> QED
  BY <1>7, <1>10, <1>11, <1>12 DEF Popped, after, text

(* The loops pair as Match says, paragraphs of any number and order. *)
LEMMA LoopMatches ==
  ASSUME NEW old \in Seq(Text), NEW new \in Seq(Text)
  PROVE  LoopMatch(old, new) = Match(old, new)
<1> DEFINE n == Len(new)
<1>1. PICK f : /\ f[0] = [queues |-> Queues(old), kept |-> <<>>]
               /\ \A i \in 1..n : f[i] = Pop(f[i - 1], new[i])
               /\ LoopMatch(old, new) = f[n].kept
  BY MatchRun
<1> DEFINE S == {i \in 0..n : Popped(f[i], old, new, i)}
<1>2. n \in Nat
  OBVIOUS
<1>3. 0 \in S
  <2> DEFINE all(t) == Queues(old)[t]
  <2>1. \A t \in Text : Copies(new, t, 0) = 0
    BY CopiesGrow
  <2>2. \A t \in Text : all(t) \in Seq(1..Len(old))
    BY QueuesFilled
  <2>3. Queues(old) = [t \in Text |-> all(t)]
    BY QueuesFilled
  <2> HIDE DEF all
  <2>4. \A t \in Text : /\ all(t) \in Seq(1..Len(old))
                        /\ Len(all(t)) = IF 0 <= Len(all(t)) THEN Len(all(t)) - 0 ELSE 0
                        /\ \A k \in 1..Len(all(t)) : all(t)[k] = all(t)[k + 0]
    BY <2>2
  <2>5. Popped([queues |-> Queues(old), kept |-> <<>>], old, new, 0)
    BY <2>1, <2>3, <2>4 DEF Popped, all
  <2> QED
    BY <1>1, <1>2, <2>5
<1>4. ASSUME NEW i \in 0..n, i + 1 <= n, i \in S
      PROVE  i + 1 \in S
  <2>1. i \in Nat /\ i + 1 \in 1..n /\ (i + 1) - 1 = i
    BY <1>2, <1>4
  <2>2. Popped(Pop(f[i], new[i + 1]), old, new, i + 1)
    BY <1>4, <2>1, PopKeeps
  <2>3. f[i + 1] = Pop(f[i], new[i + 1])
    BY <1>1, <2>1
  <2> QED
    BY <1>2, <2>1, <2>2, <2>3
<1> HIDE DEF n, S
<1>5. n \in S
  <2>1. \A i \in 0..n : i \in S
    BY <1>2, <1>3, <1>4, UpTo
  <2> QED
    BY <1>2, <2>1
<1>6. Popped(f[n], old, new, n)
  BY <1>5 DEF S
<1>7. /\ f[n].kept \in Seq(0..Len(old)) /\ Len(f[n].kept) = n
      /\ \A j \in 1..n : f[n].kept[j] = Match(old, new)[j]
  BY <1>6 DEF Popped
<1>8. Match(old, new) = [j \in 1..n |-> Match(old, new)[j]]
  BY DEF Match, n
<1>9. f[n].kept = [j \in 1..n |-> f[n].kept[j]]
  <2>1. \A T, q : q \in Seq(T) => q = [j \in 1..Len(q) |-> q[j]]
    OBVIOUS
  <2> QED
    BY <1>7, <2>1
<1> QED
  BY <1>1, <1>7, <1>8, <1>9

(* Every occurrence number up to the last is some copy's. *)
LEMMA OccurrenceHit ==
  ASSUME NEW s \in Seq(Text), NEW t \in Text, NEW k \in Nat, k >= 1, k <= Copies(s, t, Len(s))
  PROVE  \E i \in 1..Len(s) : s[i] = t /\ Occurrence(s, i) = k
<1>1. /\ Queues(s)[t] \in Seq(1..Len(s)) /\ Len(Queues(s)[t]) = Copies(s, t, Len(s))
      /\ \A x \in 1..Len(Queues(s)[t]) :
           s[Queues(s)[t][x]] = t /\ Occurrence(s, Queues(s)[t][x]) = x
  BY QueuesFilled
<1> DEFINE queue == Queues(s)[t]
<1> HIDE DEF queue
<1>2. k \in 1..Len(queue)
  BY <1>1 DEF queue
<1>3. queue[k] \in 1..Len(s)
  BY <1>1, <1>2 DEF queue
<1> QED
  BY <1>1, <1>2, <1>3 DEF queue

(* A number retires only when its text got scarcer: of each text, as many   *)
(* paragraphs keep a number as there are old copies, or new ones.           *)
LEMMA NoChurn ==
  ASSUME NEW old \in Seq(Text), NEW new \in Seq(Text), NEW t \in Text
  PROVE  Cardinality({i \in 1..Len(new) : new[i] = t /\ Match(old, new)[i] # 0})
           \in {Copies(old, t, Len(old)), Copies(new, t, Len(new))}
<1> DEFINE keep == Match(old, new)
           keeping == {i \in 1..Len(new) : new[i] = t /\ keep[i] # 0}
           olds == {j \in 1..Len(old) : old[j] = t}
           news == {i \in 1..Len(new) : new[i] = t}
           queue == Queues(old)[t]
<1>1. /\ queue \in Seq(1..Len(old)) /\ Len(queue) = Copies(old, t, Len(old))
      /\ \A x \in 1..Len(queue) : old[queue[x]] = t /\ Occurrence(old, queue[x]) = x
  BY QueuesFilled
<1>2. ASSUME NEW i \in news
      PROVE  /\ i \in 1..Len(new)
             /\ Occurrence(new, i) \in 1..Copies(new, t, Len(new))
             /\ keep[i] = IF Occurrence(new, i) <= Len(queue) THEN queue[Occurrence(new, i)] ELSE 0
  <2>1. Occurrence(new, i) \in Nat /\ Occurrence(new, i) >= 1
        /\ Occurrence(new, i) <= Copies(new, t, Len(new))
    BY OccurrenceBounds
  <2>2. Copies(new, t, Len(new)) \in Nat
    <3>1. Len(new) \in Nat /\ Len(new) <= Len(new)
      OBVIOUS
    <3> QED
      BY <3>1, CopiesGrow
  <2> QED
    BY <2>1, <2>2, MatchFromQueue
<1> HIDE DEF queue, keep
<1>3. /\ Copies(old, t, Len(old)) \in Nat /\ Copies(new, t, Len(new)) \in Nat
      /\ Copies(old, t, Len(old)) = Cardinality(olds)
      /\ Copies(new, t, Len(new)) = Cardinality(news)
  <2>1. Len(old) \in Nat /\ Len(old) <= Len(old) /\ Len(new) \in Nat /\ Len(new) <= Len(new)
    OBVIOUS
  <2>2. Copies(old, t, Len(old)) \in Nat /\ Copies(new, t, Len(new)) \in Nat
    BY <2>1, CopiesGrow
  <2>3. /\ Copies(old, t, Len(old)) = Cardinality(olds)
        /\ Copies(new, t, Len(new)) = Cardinality(news)
    BY DEF Copies
  <2> QED
    BY <2>2, <2>3
<1>4. CASE Copies(new, t, Len(new)) <= Copies(old, t, Len(old))
  <2>1. \A i \in news : keep[i] # 0
    <3> TAKE i \in news
    <3>1. Occurrence(new, i) \in 1..Len(queue)
      <4>1. Occurrence(new, i) \in 1..Copies(new, t, Len(new))
        BY <1>2
      <4>2. Len(queue) = Copies(old, t, Len(old))
        BY <1>1
      <4>3. Copies(old, t, Len(old)) \in Nat /\ Copies(new, t, Len(new)) \in Nat
        BY <1>3
      <4> QED
        BY ONLY <1>4, <4>1, <4>2, <4>3
    <3>2. queue[Occurrence(new, i)] \in 1..Len(old)
      BY <1>1, <3>1
    <3> QED
      BY <1>2, <3>1, <3>2
  <2>2. keeping = news
    BY <2>1
  <2> QED
    BY <1>3, <2>2 DEF keep
<1>5. CASE Copies(old, t, Len(old)) < Copies(new, t, Len(new))
  <2> DEFINE pairing == [i \in keeping |-> keep[i]]
  <2>1. ASSUME NEW i \in keeping
        PROVE  /\ i \in news /\ Occurrence(new, i) \in 1..Len(queue)
               /\ keep[i] = queue[Occurrence(new, i)]
    BY <1>2
  <2>2. pairing \in [keeping -> olds]
    <3> SUFFICES ASSUME NEW i \in keeping PROVE keep[i] \in olds
      OBVIOUS
    <3>1. queue[Occurrence(new, i)] \in 1..Len(old)
      BY <1>1, <2>1
    <3> QED
      BY <1>1, <2>1, <3>1
  <2>3. ASSUME NEW i \in keeping, NEW j \in keeping, pairing[i] = pairing[j]
        PROVE  i = j
    <3>1. queue[Occurrence(new, i)] = queue[Occurrence(new, j)]
      BY <2>1, <2>3
    <3>2. Occurrence(new, i) = Occurrence(new, j)
      BY <1>1, <2>1, <3>1
    <3>3. i \in Nat /\ j \in Nat /\ new[i] = new[j]
      OBVIOUS
    <3> QED
      BY <3>2, <3>3, OccurrenceTells
  <2>4. ASSUME NEW j \in olds
        PROVE  \E i \in keeping : pairing[i] = j
    <3>1. j \in 1..Len(old) /\ old[j] = t
      OBVIOUS
    <3>2. Occurrence(old, j) \in 1..Len(queue)
      <4>1. Occurrence(old, j) \in Nat /\ Occurrence(old, j) >= 1
            /\ Occurrence(old, j) <= Copies(old, t, Len(old))
        BY <3>1, OccurrenceBounds
      <4> QED
        BY <1>1, <1>3, <4>1
    <3>3. PICK i \in 1..Len(new) : new[i] = t /\ Occurrence(new, i) = Occurrence(old, j)
      <4>1. Len(queue) = Copies(old, t, Len(old))
        BY <1>1
      <4>2. Copies(old, t, Len(old)) \in Nat /\ Copies(new, t, Len(new)) \in Nat
        BY <1>3
      <4> DEFINE k == Occurrence(old, j)
      <4>3. k \in 1..Len(queue)
        BY <3>2
      <4> HIDE DEF k
      <4>4. k \in Nat /\ k >= 1 /\ k <= Copies(new, t, Len(new))
        BY ONLY <1>5, <4>1, <4>2, <4>3
      <4>5. \E i \in 1..Len(new) : new[i] = t /\ Occurrence(new, i) = k
        BY <4>4, OccurrenceHit
      <4> QED
        BY <4>5 DEF k
    <3>4. keep[i] = queue[Occurrence(old, j)]
      BY <1>2, <3>2, <3>3
    <3>5. queue[Occurrence(old, j)] = j
      <4>1. /\ queue[Occurrence(old, j)] \in Nat /\ old[queue[Occurrence(old, j)]] = t
            /\ Occurrence(old, queue[Occurrence(old, j)]) = Occurrence(old, j)
        BY <1>1, <3>2
      <4> QED
        BY <3>1, <4>1, OccurrenceTells
    <3>6. i \in keeping
      BY <3>1, <3>3, <3>4, <3>5
    <3> QED
      BY <3>4, <3>5, <3>6
  <2>5. pairing \in Bijection(keeping, olds)
    <3> HIDE DEF pairing, keeping, olds
    <3>1. pairing \in Injection(keeping, olds)
      BY <2>2, <2>3 DEF Injection, IsInjective
    <3>2. pairing \in Surjection(keeping, olds)
      BY <2>2, <2>4 DEF Surjection
    <3> QED
      BY <3>1, <3>2 DEF Bijection
  <2>6. IsFiniteSet(keeping)
    <3>1. IsFiniteSet(1..Len(new))
      BY FS_Interval
    <3>2. keeping \subseteq 1..Len(new)
      OBVIOUS
    <3> QED
      BY <3>1, <3>2, FS_Subset
  <2>7. Cardinality(keeping) = Cardinality(olds)
    <3> HIDE DEF pairing, keeping, olds
    <3> QED
      BY <2>5, <2>6, FS_Bijection DEF ExistsBijection
  <2> QED
    BY <1>3, <2>7 DEF keep
<1> QED
  BY <1>3, <1>4, <1>5

(* Whatever a source is rewritten to, however long, the loops pair its       *)
(* paragraphs as the proofs know them, and no number retires but of a text   *)
(* that got scarcer; of short versions, as a run checks.                     *)
THEOREM PairsWithoutChurn == Spec => [](PairsAsMatch(Seq(Text)) /\ LoopIsMatch)
<1>1. IInv => PairsAsMatch(Seq(Text))
  <2> SUFFICES ASSUME IInv, NEW q \in Path, NEW new \in Seq(Text)
               PROVE  LET old == LiveTexts(disk.units[q])
                          kept == LoopMatch(old, new)
                          copies(s, t) == Cardinality({i \in 1..Len(s) : s[i] = t})
                          keeping(t) == Cardinality({i \in 1..Len(new) : new[i] = t /\ kept[i] # 0})
                      IN /\ kept = Match(old, new)
                         /\ \A t \in Text : keeping(t) \in {copies(old, t), copies(new, t)}
    BY DEF PairsAsMatch
  <2> DEFINE old == LiveTexts(disk.units[q])
  <2>1. old \in Seq(Text)
    BY LiveTextsType DEF IInv, TableInv, UnitInv
  <2> HIDE DEF old
  <2>2. LoopMatch(old, new) = Match(old, new)
    BY <2>1, LoopMatches
  <2>3. \A t \in Text :
          Cardinality({i \in 1..Len(new) : new[i] = t /\ Match(old, new)[i] # 0})
            \in {Copies(old, t, Len(old)), Copies(new, t, Len(new))}
    BY <2>1, NoChurn
  <2> QED
    BY <2>2, <2>3 DEF Copies, old
<1>2. \A new \in Versions : new \in Seq(Text)
  <2> SUFFICES ASSUME NEW n \in 0..4, NEW new \in [1..n -> Text]
               PROVE  new \in Seq(Text)
    BY DEF Versions
  <2> QED
    OBVIOUS
<1>3. PairsAsMatch(Seq(Text)) => LoopIsMatch
  BY <1>2 DEF PairsAsMatch, LoopIsMatch
<1> QED
  BY Invariance, <1>1, <1>3, PTL
=============================================================================
