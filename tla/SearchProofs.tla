------------------------------ MODULE SearchProofs ------------------------------
(***************************************************************************)
(* What a search promises, proved.  A search followed by its               *)
(* continuations, for lists and rows of any number and cost: what the      *)
(* client holds is the head of every list, an end means all of them, and   *)
(* only a row too large for any reply makes the server give up.  The dates *)
(* a search filters by, for any records, ranges and notes: both filters    *)
(* pass what overlaps, and what a digest suppresses has been read.  And    *)
(* the reader assignments, for any index and budget: they partition the    *)
(* evidence, and a reader is given what the row it executes lists.         *)
(***************************************************************************)
EXTENDS Enumeration, Coverage, Assignments, FiniteSetTheorems, FunctionTheorems,
        NaturalsInduction, SequenceTheorems, WellFoundedInduction, TLAPS

\* The first n rows of a list, and the m behind them, as a client holds them.
FirstRows(r, n) == [i \in 1..n |-> <<r, i>>]

Behind(r, n, m) == [i \in 1..m |-> <<r, n + i>>]

\* The client holds the rows of revision r before the offsets off.
Collected(r, off) == \A l \in List : got[l] = FirstRows(r, off[l])

Inside(off) == \A l \in List : off[l] <= Len(content[l])

SearchTypes ==
  /\ content \in Content /\ revision \in Nat
  /\ offset \in [List -> Nat] /\ page \in [List -> Nat]
  /\ status \in {"new", "building", "open", "done", "refused", "failed"}
  /\ status = "open" => cursor \in [rev : 0..revision, off : [List -> Nat]]

\* How far the client is, and that the index still reaches so far while it is
\* the one the client is reading.
FarAsCollected ==
  /\ status \in {"new", "refused"} => Collected(revision, Start)
  /\ status = "building" => Collected(revision, offset) /\ Inside(After(page))
  /\ status = "open" => /\ Collected(cursor.rev, cursor.off)
                        /\ cursor.rev = revision => Inside(cursor.off)
  /\ status = "done" => cursor = Null /\ Collected(revision, After(page))

\* A row after the offsets that no reply can carry.
TooLarge(off) ==
  \E l \in List : \E i \in DOMAIN content[l] :
    i > off[l] /\ Header + content[l][i] + CursorCost > Budget

\* The trimming loop empties a reply only over such a row.
EmptiedForCause ==
  /\ status = "building" /\ page = Start /\ More(offset) => TooLarge(offset)
  /\ status = "failed" => TooLarge(offset)

IInv == SearchTypes /\ FarAsCollected /\ EmptiedForCause
-----------------------------------------------------------------------------
(***************************************************************************)
(* Facts about pages.                                                      *)
(***************************************************************************)
LEMMA HeadLength ==
  ASSUME NEW r, NEW n \in Nat
  PROVE  Len(FirstRows(r, n)) = n
BY DEF FirstRows

LEMMA HeadGrows ==
  ASSUME NEW r, NEW a \in Nat, NEW b \in Nat
  PROVE  /\ FirstRows(r, a) \o Behind(r, a, b) = FirstRows(r, a + b)
         /\ FirstRows(r, 0) = <<>>
<1>1. /\ FirstRows(r, a) \in Seq({<<r, i>> : i \in 1..a + b}) /\ Len(FirstRows(r, a)) = a
      /\ Behind(r, a, b) \in Seq({<<r, i>> : i \in 1..a + b})
      /\ Len(Behind(r, a, b)) = b
  BY DEF FirstRows, Behind
<1>2. FirstRows(r, a) \o Behind(r, a, b) = FirstRows(r, a + b)
  BY <1>1 DEF FirstRows, Behind
<1>3. FirstRows(r, 0) = <<>>
  BY DEF FirstRows
<1> QED
  BY <1>1, <1>2, <1>3

(* Every row of a list has a cost. *)
LEMMA RowIsCost ==
  ASSUME NEW list \in Seq(Nat), NEW i \in DOMAIN list
  PROVE  list[i] \in Nat
OBVIOUS

(* What no row and what one row costs. *)
LEMMA CostOfOne ==
  ASSUME NEW list \in Seq(Nat), NEW from \in Nat
  PROVE  /\ RowsCost(list, from, 0) = 0
         /\ from + 1 \in DOMAIN list
              => RowsCost(list, from, 1) = list[from + 1]
<1>1. RowsCost(list, from, 0) = 0
  <2> DEFINE Is(c) == c = [i \in 0..0 |->
                IF i = 0 THEN 0 ELSE c[i - 1] + list[from + i]]
  <2>1. Is([i \in 0..0 |-> 0])
    OBVIOUS
  <2>2. PICK cost : /\ cost = CHOOSE c : Is(c)
                    /\ Is(cost)
    BY <2>1
  <2>3. cost[0] = 0
    BY <2>2
  <2> QED
    BY <2>2, <2>3 DEF RowsCost
<1>2. ASSUME from + 1 \in DOMAIN list
      PROVE  RowsCost(list, from, 1) = list[from + 1]
  <2> DEFINE Is(c) == c = [i \in 0..1 |->
                IF i = 0 THEN 0 ELSE c[i - 1] + list[from + i]]
             one == [i \in 0..1 |-> IF i = 0 THEN 0 ELSE list[from + 1]]
  <2>1. list[from + 1] \in Nat
    BY <1>2
  <2>2. Is(one)
    <3>1. one[0] = 0
      OBVIOUS
    <3>2. \A i \in 0..1 : one[i] =
            IF i = 0 THEN 0 ELSE one[i - 1] + list[from + i]
      BY <2>1, <3>1
    <3> QED
      BY <3>2
  <2>3. PICK cost : /\ cost = CHOOSE c : Is(c)
                    /\ Is(cost)
    BY <2>2
  <2>4. cost[0] = 0
    BY <2>3
  <2>5. cost[1] = cost[0] + list[from + 1]
    BY <2>3
  <2> QED
    BY <2>1, <2>3, <2>4, <2>5 DEF RowsCost
<1> QED
  BY <1>1, <1>2

LEMMA SumOfOne ==
  ASSUME NEW L \in List, NEW f \in [List -> Nat],
         \A m \in List \ {L} : f[m] = 0
  PROVE  f[1] + f[2] + f[3] + f[4] = f[L]
<1>1. List = {1, 2, 3, 4}
  BY DEF List
<1>2. CASE L = 1
  BY <1>1, <1>2
<1>3. CASE L = 2
  BY <1>1, <1>3
<1>4. CASE L = 3
  BY <1>1, <1>4
<1>5. CASE L = 4
  BY <1>1, <1>5
<1> QED
  BY <1>1, <1>2, <1>3, <1>4, <1>5

(* The trimming loop finds a longest page, and none of them is empty while a
   row is left on any. *)
LEMMA LongestFound ==
  ASSUME NEW size \in [List -> Nat]
  PROVE  /\ Longest(size) \in List
         /\ \A m \in List : size[m] <= size[Longest(size)]
         /\ size # Start => size[Longest(size)] > 0
<1> DEFINE Is(l) == /\ \A m \in List : size[m] <= size[l]
                    /\ \A m \in 1..l-1 : size[m] < size[l]
<1>1. \E l \in List : Is(l)
  <2>1. List = {1, 2, 3, 4}
    BY DEF List
  <2>2. /\ size[1] \in Nat /\ size[2] \in Nat
        /\ size[3] \in Nat /\ size[4] \in Nat
    BY <2>1
  <2>3. /\ 1..1-1 = {} /\ 1..2-1 = {1}
        /\ 1..3-1 = {1, 2} /\ 1..4-1 = {1, 2, 3}
    OBVIOUS
  <2>4. Is(1) \/ Is(2) \/ Is(3) \/ Is(4)
    BY <2>1, <2>2, <2>3
  <2> QED
    BY <2>1, <2>4
<1>2. Longest(size) \in List /\ Is(Longest(size))
  <2> DEFINE found == CHOOSE l \in List : Is(l)
  <2>1. found \in List /\ Is(found)
    BY <1>1
  <2>2. Longest(size) = found
    BY DEF Longest
  <2> QED
    BY <2>1, <2>2
<1>3. ASSUME size # Start
      PROVE  size[Longest(size)] > 0
  <2>1. PICK m \in List : size[m] # 0
    BY <1>3 DEF Start
  <2> QED
    BY <1>2, <2>1
<1> QED
  BY <1>2, <1>3

(* A page is cut inside its list, and empty only at the list's end. *)
LEMMA CappedInside ==
  ASSUME EnumerationAssumption, content \in Content,
         NEW off \in [List -> Nat], Inside(off)
  PROVE  /\ Capped(off) \in [List -> Nat]
         /\ \A l \in List : off[l] + Capped(off)[l] <= Len(content[l])
         /\ Capped(off) = Start => ~More(off)
<1>1. \A l \in List : Len(content[l]) \in Nat /\ off[l] <= Len(content[l])
  BY DEF EnumerationAssumption, Inside
<1>2. /\ HitCap \in Nat /\ HitCap > 0
      /\ ListCap \in Nat /\ ListCap > 0
  BY DEF EnumerationAssumption
<1> DEFINE cap(l) == IF l = Hits THEN HitCap ELSE ListCap
           size(l) == Smaller(Left(l, off), cap(l))
<1>3. \A l \in List : cap(l) \in Nat /\ cap(l) > 0
  BY <1>2
<1>4. Capped(off) = [l \in List |-> size(l)]
  BY DEF Capped
<1>5. ASSUME NEW l \in List
       PROVE  /\ Left(l, off) \in Nat /\ off[l] + Left(l, off) <= Len(content[l])
              /\ off[l] < Len(content[l]) => Left(l, off) > 0
  <2>1. off[l] \in Nat /\ Len(content[l]) \in Nat /\ off[l] <= Len(content[l])
    BY <1>1
  <2> QED
    BY <2>1 DEF Left
<1> HIDE DEF cap
<1>6. ASSUME NEW l \in List
       PROVE  /\ size(l) \in Nat /\ size(l) <= Left(l, off)
              /\ Left(l, off) > 0 => size(l) # 0
  <2>1. Left(l, off) \in Nat /\ cap(l) \in Nat /\ cap(l) > 0
    BY <1>3, <1>5
  <2> QED
    BY <2>1 DEF Smaller
<1> HIDE DEF size
<1>7. \A l \in List : size(l) \in Nat
  BY <1>6
<1>8. \A l \in List : off[l] + size(l) <= Len(content[l])
  <2> TAKE l \in List
  <2>1. off[l] \in Nat /\ Len(content[l]) \in Nat /\ Left(l, off) \in Nat /\ size(l) \in Nat
    BY <1>1, <1>5, <1>6
  <2> QED
    BY <1>5, <1>6, <2>1
<1>9. \A l \in List : off[l] < Len(content[l]) => size(l) # 0
  BY <1>5, <1>6
<1>10. \A l \in List : Capped(off)[l] = size(l)
  BY <1>4
<1>11. Capped(off) \in [List -> Nat]
  BY <1>4, <1>7
<1>12. \A l \in List : off[l] + Capped(off)[l] <= Len(content[l])
  BY <1>8, <1>10
<1>13. ASSUME Capped(off) = Start
       PROVE  ~More(off)
  <2>1. \A l \in List : size(l) = 0
    BY <1>10, <1>13 DEF Start
  <2> QED
    BY <1>9, <2>1 DEF More
<1> QED
  BY <1>11, <1>12, <1>13

(* A reply that does not fit loses a row of its longest page, and its last
   row only when that row fits no reply. *)
LEMMA PopForCause ==
  ASSUME EnumerationAssumption, content \in Content,
         NEW size \in [List -> Nat], offset \in [List -> Nat],
         Inside(After(size)), size # Start, ~Fits(size)
  PROVE  /\ Pop(size) \in [List -> Nat]
         /\ \A l \in List : Pop(size)[l] <= size[l]
         /\ Pop(size) = Start => TooLarge(offset)
<1> DEFINE L == Longest(size)
<1>1. /\ L \in List /\ size[L] > 0
      /\ \A m \in List : size[m] <= size[L]
  BY LongestFound
<1>2. Pop(size) = [size EXCEPT ![L] = @ - 1]
  BY DEF Pop
<1> HIDE DEF L
<1>3. Pop(size) \in [List -> Nat] /\ \A l \in List : Pop(size)[l] <= size[l]
  <2>1. size[L] \in Nat /\ size[L] - 1 \in Nat
    BY <1>1
  <2>2. \A l \in List : Pop(size)[l] = IF l = L THEN size[L] - 1 ELSE size[l]
    BY <1>2
  <2>3. Pop(size) \in [List -> Nat]
    BY <1>2, <2>1
  <2>4. ASSUME NEW l \in List
        PROVE  Pop(size)[l] <= size[l]
    <3>1. CASE l = L
      <4>1. Pop(size)[l] = size[l] - 1
        BY <2>2, <3>1
      <4> QED
        BY <2>1, <3>1, <4>1
    <3>2. CASE l # L
      <4>1. Pop(size)[l] = size[l] /\ size[l] \in Nat
        BY <2>2, <3>2
      <4> QED
        BY <4>1
    <3> QED
      BY <3>1, <3>2
  <2> QED
    BY <2>3, <2>4
<1>4. ASSUME Pop(size) = Start
      PROVE  TooLarge(offset)
  <2> DEFINE paidFor(l) == RowsCost(content[l], offset[l], size[l])
             row == content[L][offset[L] + 1]
  <2>1. size[L] = 1 /\ \A m \in List \ {L} : size[m] = 0
    <3>1. \A m \in List : Pop(size)[m] = 0
      BY <1>4 DEF Start
    <3> QED
      BY <1>1, <1>2, <3>1
  <2>2. /\ content[L] \in Seq(Nat) /\ offset[L] \in Nat
        /\ offset[L] + 1 \in DOMAIN content[L]
    <3>1. offset[L] + 1 <= Len(content[L])
      BY <1>1, <2>1 DEF Inside, After
    <3> QED
      BY <1>1, <3>1 DEF EnumerationAssumption
  <2>3. paidFor(L) = row /\ row \in Nat
    <3>1. RowsCost(content[L], offset[L], 1) = row
      BY <2>2, CostOfOne
    <3>2. row \in Nat
      BY <2>2, RowIsCost
    <3> QED
      BY <2>1, <3>1, <3>2
  <2>4. \A m \in List \ {L} : paidFor(m) = 0
    <3> TAKE m \in List \ {L}
    <3>1. content[m] \in Seq(Nat) /\ offset[m] \in Nat
      BY DEF EnumerationAssumption
    <3>2. RowsCost(content[m], offset[m], 0) = 0
      BY <3>1, CostOfOne
    <3> QED
      BY <2>1, <3>2
  <2>5. PICK paid \in [List -> Nat] : \A l \in List : paid[l] = paidFor(l)
    <3>1. \A l \in List : paidFor(l) \in Nat
      <4>1. paidFor(L) \in Nat
        BY <2>3
      <4> HIDE DEF paidFor, row
      <4>2. ASSUME NEW m \in List
            PROVE  paidFor(m) \in Nat
        <5>1. CASE m = L
          BY <4>1, <5>1
        <5>2. CASE m # L
          BY <2>4, <5>2
        <5> QED
          BY <5>1, <5>2
      <4> QED
        BY <4>2
    <3>2. [l \in List |-> paidFor(l)] \in [List -> Nat]
      BY <3>1
    <3> QED
      BY <3>2
  <2>6. paid[1] + paid[2] + paid[3] + paid[4] = row
    <3> HIDE DEF paidFor, row
    <3>1. paid[L] = row /\ \A m \in List \ {L} : paid[m] = 0
      BY <1>1, <2>3, <2>4, <2>5
    <3> QED
      BY <1>1, <3>1, SumOfOne
  <2>7. PICK ahead \in Nat :
          /\ ahead <= CursorCost
          /\ Cost(size) = Header + paid[1] + paid[2] + paid[3] + paid[4] + ahead
    <3> DEFINE last == IF More(After(size)) THEN CursorCost ELSE 0
    <3>1. last \in Nat /\ last <= CursorCost
      BY DEF EnumerationAssumption
    <3>2. Cost(size) = Header + paidFor(1) + paidFor(2) + paidFor(3) + paidFor(4) + last
      BY DEF Cost
    <3>3. 1 \in List /\ 2 \in List /\ 3 \in List /\ 4 \in List
      BY DEF List
    <3> HIDE DEF paidFor, last
    <3>4. Cost(size) = Header + paid[1] + paid[2] + paid[3] + paid[4] + last
      BY <2>5, <3>2, <3>3
    <3> QED
      BY <3>1, <3>4
  <2>8. Header + row + CursorCost > Budget
    <3>1. /\ Header \in Nat /\ CursorCost \in Nat /\ Budget \in Nat
          /\ ~(Cost(size) <= Budget)
      BY DEF EnumerationAssumption, Fits
    <3>2. /\ paid[1] \in Nat /\ paid[2] \in Nat
          /\ paid[3] \in Nat /\ paid[4] \in Nat
      BY DEF List
    <3>3. row \in Nat
      BY <2>3
    <3> HIDE DEF row
    <3>4. Cost(size) = Header + row + ahead
      <4>1. PICK a \in Nat, b \in Nat, c \in Nat, d \in Nat :
              a = paid[1] /\ b = paid[2] /\ c = paid[3] /\ d = paid[4]
        BY <3>2
      <4>2. a + b + c + d = row
        BY <2>6, <4>1
      <4>3. Cost(size) = Header + a + b + c + d + ahead
        BY <2>7, <4>1
      <4>4. Header + a + b + c + d + ahead = Header + (a + b + c + d) + ahead
        BY <3>1
      <4> QED
        BY <4>2, <4>3, <4>4, Zenon
    <3> QED
      BY <2>7, <3>1, <3>3, <3>4
  <2> QED
    BY <1>1, <2>2, <2>8 DEF TooLarge
<1> QED
  BY <1>3, <1>4
-----------------------------------------------------------------------------
(***************************************************************************)
(* One lemma for the initial states and one for every kind of step.        *)
(***************************************************************************)
LEMMA InitKeeps ==
  ASSUME EnumerationAssumption, Init
  PROVE  IInv
<1> USE DEF Init
<1>1. SearchTypes
  BY DEF SearchTypes, Start
<1>2. Collected(revision, Start)
  <2>1. FirstRows(revision, 0) = <<>>
    BY HeadGrows
  <2> QED
    BY <2>1 DEF Collected, Start
<1>3. FarAsCollected
  BY <1>2 DEF FarAsCollected
<1>4. EmptiedForCause
  BY DEF EmptiedForCause
<1> QED
  BY <1>1, <1>3, <1>4 DEF IInv

(* A reply is begun at offsets the client has reached. *)
LEMMA BeginKeeps ==
  ASSUME EnumerationAssumption, IInv,
         NEW off \in [List -> Nat], Inside(off), Collected(revision, off),
         offset' = off, page' = Capped(off), status' = "building",
         UNCHANGED <<content, revision, cursor, got>>
  PROVE  IInv'
<1> USE DEF IInv
<1>1. content \in Content
  BY DEF SearchTypes
<1>2. /\ Capped(off) \in [List -> Nat]
      /\ \A l \in List : off[l] + Capped(off)[l] <= Len(content[l])
      /\ Capped(off) = Start => ~More(off)
  BY <1>1, CappedInside
<1>3. SearchTypes'
  BY <1>2 DEF SearchTypes
<1>4. Collected(revision, offset)'
  BY DEF Collected
<1>5. Inside(After(page))'
  BY <1>2 DEF Inside, After
<1>6. FarAsCollected'
  BY <1>4, <1>5 DEF FarAsCollected
<1>7. ~(page = Start /\ More(offset))'
  BY <1>2 DEF More, Start
<1>8. EmptiedForCause'
  BY <1>7 DEF EmptiedForCause
<1> QED
  BY <1>3, <1>6, <1>8

LEMMA SearchKeeps ==
  ASSUME EnumerationAssumption, IInv, Search
  PROVE  IInv'
<1>1. Start \in [List -> Nat] /\ Inside(Start)
  BY DEF Start, Inside, IInv, SearchTypes, EnumerationAssumption
<1>2. Collected(revision, Start)
  BY DEF Search, IInv, FarAsCollected
<1> QED
  BY <1>1, <1>2, BeginKeeps DEF Search

LEMMA ResumeKeeps ==
  ASSUME EnumerationAssumption, IInv, Resume
  PROVE  IInv'
<1>1. cursor.off \in [List -> Nat]
  BY DEF Resume, IInv, SearchTypes
<1>2. Inside(cursor.off) /\ Collected(revision, cursor.off)
  BY DEF Resume, IInv, FarAsCollected
<1> QED
  BY <1>1, <1>2, BeginKeeps DEF Resume

LEMMA RefuseKeeps ==
  ASSUME EnumerationAssumption, IInv, Refuse
  PROVE  IInv'
<1> USE DEF IInv, Refuse
<1>1. SearchTypes'
  BY DEF SearchTypes
<1>2. Collected(revision, Start)'
  <2>1. FirstRows(revision', 0) = <<>>
    BY HeadGrows
  <2> QED
    BY <2>1 DEF Collected, Start
<1>3. FarAsCollected'
  BY <1>2 DEF FarAsCollected, Start
<1>4. EmptiedForCause'
  BY DEF EmptiedForCause
<1> QED
  BY <1>1, <1>3, <1>4

LEMMA ShortenKeeps ==
  ASSUME EnumerationAssumption, IInv, Shorten
  PROVE  IInv'
<1> USE DEF IInv, Shorten
<1>1. /\ content \in Content
      /\ page \in [List -> Nat] /\ offset \in [List -> Nat]
      /\ Inside(After(page))
      /\ Collected(revision, offset)
  BY DEF SearchTypes, FarAsCollected
<1>2. /\ Pop(page) \in [List -> Nat]
      /\ \A l \in List : Pop(page)[l] <= page[l]
      /\ Pop(page) = Start => TooLarge(offset)
  BY <1>1, PopForCause
<1>3. SearchTypes'
  BY <1>2 DEF SearchTypes
<1>4. Collected(revision, offset)'
  BY <1>1 DEF Collected
<1>5. Inside(After(page))'
  <2>1. \A l \in List : /\ Len(content[l]) \in Nat
                         /\ offset[l] + page[l] <= Len(content[l])
    BY <1>1 DEF Inside, After, EnumerationAssumption
  <2>2. \A l \in List : offset[l] + Pop(page)[l] <= Len(content[l])
    BY <1>1, <1>2, <2>1
  <2> QED
    BY <2>2 DEF Inside, After
<1>6. FarAsCollected'
  BY <1>4, <1>5 DEF FarAsCollected
<1>7. EmptiedForCause'
  BY <1>2 DEF EmptiedForCause, TooLarge, Start
<1> QED
  BY <1>3, <1>6, <1>7

(* What a sent reply adds to what the client holds. *)
LEMMA SendCollects ==
  ASSUME EnumerationAssumption, IInv, Send
  PROVE  /\ Inside(After(page)) /\ After(page) \in [List -> Nat]
         /\ \A l \in List :
              got'[l] = FirstRows(revision, After(page)[l])
<1> USE DEF IInv, Send
<1>1. /\ page \in [List -> Nat] /\ offset \in [List -> Nat]
      /\ Inside(After(page))
      /\ Collected(revision, offset)
  BY DEF SearchTypes, FarAsCollected
<1>2. After(page) \in [List -> Nat]
  BY <1>1 DEF After
<1>3. ASSUME NEW l \in List
      PROVE  got'[l] = FirstRows(revision, After(page)[l])
  <2>1. got'[l] = got[l] \o Behind(revision, offset[l], page[l])
    BY <1>3 DEF Behind
  <2>2. got[l] = FirstRows(revision, offset[l])
    BY <1>1, <1>3 DEF Collected
  <2>3. After(page)[l] = offset[l] + page[l]
    BY <1>3 DEF After
  <2>4. offset[l] \in Nat /\ page[l] \in Nat
    BY <1>1, <1>3
  <2>5. FirstRows(revision, offset[l]) \o Behind(revision, offset[l], page[l])
          = FirstRows(revision, offset[l] + page[l])
    BY <2>4, HeadGrows
  <2> QED
    BY <2>1, <2>2, <2>3, <2>5
<1> QED
  BY <1>1, <1>2, <1>3

LEMMA SendKeeps ==
  ASSUME EnumerationAssumption, IInv, Send
  PROVE  IInv'
<1> USE DEF IInv
<1>1. /\ Inside(After(page)) /\ After(page) \in [List -> Nat]
      /\ \A l \in List :
           got'[l] = FirstRows(revision, After(page)[l])
  BY SendCollects
<1>2. /\ content' = content /\ revision' = revision
      /\ offset' = offset /\ page' = page
      /\ \/ /\ status' = "open"
            /\ cursor' = [rev |-> revision, off |-> After(page)]
         \/ status' = "done" /\ cursor' = Null
  BY DEF Send
<1>3. SearchTypes'
  <2>1. (content \in Content /\ revision \in Nat
           /\ offset \in [List -> Nat] /\ page \in [List -> Nat])'
    BY <1>2 DEF SearchTypes
  <2>2. (status \in {"new", "building", "open", "done", "refused", "failed"})'
    BY <1>2
  <2>3. (status = "open" =>
           cursor \in [rev : 0..revision, off : [List -> Nat]])'
    <3>1. revision \in 0..revision
      BY DEF SearchTypes
    <3> QED
      BY <1>1, <1>2, <3>1
  <2> QED
    BY <2>1, <2>2, <2>3 DEF SearchTypes
<1>4. CASE status' = "open"
  <2>1. cursor' = [rev |-> revision, off |-> After(page)]
    BY <1>2, <1>4
  <2>2. Collected(cursor.rev, cursor.off)'
    BY <1>1, <2>1 DEF Collected
  <2>3. Inside(cursor.off)'
    BY <1>1, <1>2, <2>1 DEF Inside
  <2>4. FarAsCollected'
    BY <1>4, <2>2, <2>3 DEF FarAsCollected
  <2>5. EmptiedForCause'
    BY <1>4 DEF EmptiedForCause
  <2> QED
    BY <1>3, <2>4, <2>5
<1>5. CASE status' = "done"
  <2>1. cursor' = Null
    BY <1>2, <1>5
  <2>2. Collected(revision, After(page))'
    BY <1>1, <1>2 DEF Collected, After
  <2>3. FarAsCollected'
    BY <1>5, <2>1, <2>2 DEF FarAsCollected
  <2>4. EmptiedForCause'
    BY <1>5 DEF EmptiedForCause
  <2> QED
    BY <1>3, <2>3, <2>4
<1> QED
  BY <1>2, <1>4, <1>5

LEMMA GiveUpKeeps ==
  ASSUME EnumerationAssumption, IInv, GiveUp
  PROVE  IInv'
<1> USE DEF IInv, GiveUp
<1>1. SearchTypes'
  BY DEF SearchTypes
<1>2. FarAsCollected'
  BY DEF FarAsCollected
<1>3. TooLarge(offset)'
  BY DEF EmptiedForCause, TooLarge
<1>4. EmptiedForCause'
  BY <1>3 DEF EmptiedForCause
<1> QED
  BY <1>1, <1>2, <1>4

LEMMA PublishKeeps ==
  ASSUME EnumerationAssumption, IInv, Publish
  PROVE  IInv'
<1> USE DEF IInv, Publish
<1>1. SearchTypes'
  <2>1. content' \in Content
    BY DEF EnumerationAssumption
  <2>2. revision \in Nat /\ revision' = revision + 1
    BY DEF SearchTypes
  <2>3. (status = "open" =>
           cursor \in [rev : 0..revision, off : [List -> Nat]])'
    BY <2>2 DEF SearchTypes
  <2> QED
    BY <2>1, <2>2, <2>3 DEF SearchTypes
<1>2. CASE status \in {"new", "refused"}
  <2>1. \A l \in List : got[l] = <<>>
    <3>1. \A l \in List : got[l] = FirstRows(revision, Start[l])
      BY <1>2 DEF FarAsCollected, Collected
    <3>2. FirstRows(revision, 0) = <<>>
      BY HeadGrows
    <3> QED
      BY <3>1, <3>2 DEF Start
  <2>2. FirstRows(revision', 0) = <<>>
    BY HeadGrows
  <2>3. Collected(revision, Start)'
    BY <2>1, <2>2 DEF Collected, Start
  <2> QED
    BY <1>1, <1>2, <2>3 DEF FarAsCollected, EmptiedForCause, Start
<1>3. CASE status = "open"
  <2>1. cursor.rev <= revision /\ cursor.rev \in Nat /\ revision \in Nat
    BY <1>3 DEF SearchTypes
  <2>2. (cursor.rev # revision)'
    BY <2>1
  <2>3. Collected(cursor.rev, cursor.off)'
    BY <1>3 DEF FarAsCollected, Collected
  <2>4. FarAsCollected'
    BY <1>3, <2>2, <2>3 DEF FarAsCollected
  <2>5. EmptiedForCause'
    BY <1>3 DEF EmptiedForCause
  <2> QED
    BY <1>1, <2>4, <2>5
<1> QED
  BY <1>2, <1>3

LEMMA NextKeeps ==
  ASSUME EnumerationAssumption, IInv, [Next]_vars
  PROVE  IInv'
<1>1. CASE Search
  BY <1>1, SearchKeeps
<1>2. CASE Resume
  BY <1>2, ResumeKeeps
<1>3. CASE Refuse
  BY <1>3, RefuseKeeps
<1>4. CASE Shorten
  BY <1>4, ShortenKeeps
<1>5. CASE Send
  BY <1>5, SendKeeps
<1>6. CASE GiveUp
  BY <1>6, GiveUpKeeps
<1>7. CASE Publish
  BY <1>7, PublishKeeps
<1>8. CASE UNCHANGED vars
  BY <1>8 DEF vars, IInv, SearchTypes, FarAsCollected, EmptiedForCause,
    Collected, Inside, After, TooLarge, More, Start
<1> QED
  BY <1>1, <1>2, <1>3, <1>4, <1>5, <1>6, <1>7, <1>8 DEF Next, Call
-----------------------------------------------------------------------------
(***************************************************************************)
(* The theorems.                                                           *)
(***************************************************************************)
(* Index.search and the continuations: the invariant holds throughout. *)
THEOREM Invariance == Spec => []IInv
<1>1. Init => IInv
  BY EnumerationAssumption, InitKeeps
<1>2. IInv /\ [Next]_vars => IInv'
  BY EnumerationAssumption, NextKeeps
<1> QED
  BY <1>1, <1>2, PTL DEF Spec

(* search: for lists of any length and refreshes at any moment between two
   calls, the client holds every row of the head of each list once, in order
   and all of the revision its cursor names. *)
THEOREM HeadsCollected == Spec => []RowsOnceInOrder
<1>1. IInv => RowsOnceInOrder
  <2> SUFFICES ASSUME IInv
               PROVE  RowsOnceInOrder
    OBVIOUS
  <2> USE DEF IInv
  <2>1. CASE status = "open"
    <3>1. /\ cursor.rev \in 0..revision /\ cursor.off \in [List -> Nat]
          /\ Collected(cursor.rev, cursor.off)
      BY <2>1 DEF SearchTypes, FarAsCollected
    <3>2. \A l \in List :
            /\ got[l] = [i \in 1..Len(got[l]) |-> <<cursor.rev, i>>]
            /\ Len(got[l]) = cursor.off[l]
      <4> TAKE l \in List
      <4>1. got[l] = FirstRows(cursor.rev, cursor.off[l]) /\ cursor.off[l] \in Nat
        BY <3>1 DEF Collected
      <4>2. Len(got[l]) = cursor.off[l]
        BY <4>1, HeadLength
      <4> QED
        BY <4>1, <4>2 DEF FirstRows
    <3> QED
      BY <3>1, <3>2 DEF RowsOnceInOrder
  <2>2. CASE status = "done"
    <3>1. /\ revision \in 0..revision /\ After(page) \in [List -> Nat]
          /\ cursor = Null /\ Collected(revision, After(page))
      BY <2>2 DEF SearchTypes, FarAsCollected, After
    <3>2. \A l \in List : got[l] = [i \in 1..Len(got[l]) |-> <<revision, i>>]
      <4> TAKE l \in List
      <4>1. got[l] = FirstRows(revision, After(page)[l]) /\ After(page)[l] \in Nat
        BY <3>1 DEF Collected
      <4>2. Len(got[l]) = After(page)[l]
        BY <4>1, HeadLength
      <4> QED
        BY <4>1, <4>2 DEF FirstRows
    <3> QED
      BY <3>1, <3>2 DEF RowsOnceInOrder
  <2> QED
    BY <2>1, <2>2 DEF RowsOnceInOrder
<1> QED
  BY <1>1, Invariance, PTL

(* The trimming loop: whatever the rows cost, the server gives up only over
   one that no reply could carry. *)
THEOREM GivesUpForCause == Spec => []FailsOnlyOverOneRow
<1>1. IInv => FailsOnlyOverOneRow
  BY DEF IInv, EmptiedForCause, TooLarge, FailsOnlyOverOneRow
<1> QED
  BY <1>1, Invariance, PTL

(* search: the reply that names no continuation completes every list. *)
THEOREM EndsComplete == Spec => EndMeansAll
<1> DEFINE Complete == status' = "done" /\ status # "done" =>
                         \A l \in List : Len(got'[l]) = Len(content[l])
<1>1. ASSUME IInv, [Next]_vars
      PROVE  [Complete]_vars
  <2> SUFFICES ASSUME status' = "done", status # "done"
               PROVE  \A l \in List : Len(got'[l]) = Len(content[l])
    OBVIOUS
  <2>1. Send
    BY <1>1 DEF Next, Call, Search, Resume, Refuse, Shorten, GiveUp, Publish, vars
  <2>2. /\ Inside(After(page)) /\ After(page) \in [List -> Nat]
        /\ \A l \in List :
             got'[l] = FirstRows(revision, After(page)[l])
    BY <1>1, <2>1, EnumerationAssumption, SendCollects
  <2>3. ~More(After(page))
    BY <2>1 DEF Send
  <2>4. \A l \in List : Len(content[l]) \in Nat
    BY <1>1, EnumerationAssumption DEF IInv, SearchTypes, EnumerationAssumption
  <2>5. \A l \in List : Len(got'[l]) = After(page)[l]
    <3> TAKE l \in List
    <3>1. After(page)[l] \in Nat
      BY <2>2
    <3> QED
      BY <2>2, <3>1, HeadLength
  <2> QED
    BY <2>2, <2>3, <2>4, <2>5 DEF Inside, More
<1> QED
  BY <1>1, Invariance, PTL DEF Spec, EndMeansAll
-----------------------------------------------------------------------------
(***************************************************************************)
(* Days and the texts that name them.                                      *)
(***************************************************************************)
IsDay(p) ==
  /\ p \in Seq(Nat) /\ Len(p) = 3
  /\ p[2] > 0 /\ p[2] <= 12 /\ p[3] > 0 /\ p[3] <= 31 /\ p[1] <= 9999

IsRealDay(p) == IsDay(p) /\ p[1] > 0 /\ p[3] <= DaysIn(p[1], p[2])

Earlier(p, q) ==
  \/ p[1] < q[1]
  \/ p[1] = q[1] /\ p[2] < q[2]
  \/ p[1] = q[1] /\ p[2] = q[2] /\ p[3] <= q[3]

LEMMA ElementType ==
  ASSUME NEW s \in Seq(Nat), NEW i \in Nat, 0 < i, i <= Len(s)
  PROVE  s[i] \in Nat
OBVIOUS

LEMMA ThreeNumbers ==
  ASSUME NEW s \in Seq(Nat), Len(s) = 3
  PROVE  s[1] \in Nat /\ s[2] \in Nat /\ s[3] \in Nat
<1>1. /\ 1 \in Nat /\ 0 < 1 /\ 1 <= Len(s) /\ 2 \in Nat /\ 0 < 2 /\ 2 <= Len(s)
      /\ 3 \in Nat /\ 0 < 3 /\ 3 <= Len(s)
  OBVIOUS
<1> QED
  BY ONLY s \in Seq(Nat), <1>1, ElementType

LEMMA DayParts ==
  ASSUME NEW p, IsDay(p)
  PROVE  /\ p[1] \in Nat /\ p[2] \in Nat /\ p[3] \in Nat
         /\ p[2] > 0 /\ p[2] <= 12 /\ p[3] > 0 /\ p[3] <= 31 /\ p[1] <= 9999
<1>1. p[1] \in Nat /\ p[2] \in Nat /\ p[3] \in Nat
  BY ThreeNumbers DEF IsDay
<1>2. p[2] > 0 /\ p[2] <= 12 /\ p[3] > 0 /\ p[3] <= 31 /\ p[1] <= 9999
  BY DEF IsDay
<1> QED
  BY <1>1, <1>2

LEMMA DayMade ==
  ASSUME NEW y \in Nat, NEW m \in Nat, NEW d \in Nat, y <= 9999, m > 0, m <= 12, d > 0, d <= 31
  PROVE  IsDay(<<y, m, d>>)
BY DEF IsDay

LEMMA Triple ==
  ASSUME NEW s \in Seq(Nat), Len(s) = 3
  PROVE  \A a, b, c : s[1] = a /\ s[2] = b /\ s[3] = c => s = <<a, b, c>>
<1> SUFFICES ASSUME NEW a, NEW b, NEW c, s[1] = a, s[2] = b, s[3] = c
             PROVE  s = <<a, b, c>>
  OBVIOUS
<1>1. a \in Nat /\ b \in Nat /\ c \in Nat
  BY ThreeNumbers
<1>2. <<a, b, c>> \in Seq(Nat) /\ Len(<<a, b, c>>) = 3
  BY <1>1
<1>3. \A i \in {1, 2, 3} : s[i] = <<a, b, c>>[i]
  OBVIOUS
<1>4. 1..Len(s) = {1, 2, 3}
  OBVIOUS
<1>5. \A i \in 1..Len(s) : s[i] = <<a, b, c>>[i]
  BY <1>3, <1>4
<1> QED
  BY ONLY s \in Seq(Nat), Len(s) = 3, <1>2, <1>5, SeqEqual

LEMMA MonthLength ==
  ASSUME NEW y, NEW m
  PROVE  DaysIn(y, m) \in Nat /\ 28 <= DaysIn(y, m) /\ DaysIn(y, m) <= 31
BY DEF DaysIn

(* One text is the beginning of another element by element. *)
LEMMA PrefixByElement ==
  ASSUME NEW s \in Seq(Nat), NEW t \in Seq(Nat)
  PROVE  IsPrefix(s, t) <=> Len(s) <= Len(t) /\ \A i \in 1..Len(s) : s[i] = t[i]
<1>1. CASE Len(s) <= Len(t)
  <2>1. /\ SubSeq(s, 1, Len(s)) = [i \in 1..Len(s) |-> s[i]]
        /\ SubSeq(t, 1, Len(s)) = [i \in 1..Len(s) |-> t[i]]
    BY <1>1
  <2>2. SubSeq(s, 1, Len(s)) = SubSeq(t, 1, Len(s)) => \A i \in 1..Len(s) : s[i] = t[i]
    BY <2>1
  <2>3. (\A i \in 1..Len(s) : s[i] = t[i]) => SubSeq(s, 1, Len(s)) = SubSeq(t, 1, Len(s))
    BY <2>1
  <2> QED
    BY <1>1, <2>2, <2>3 DEF IsPrefix
<1>2. CASE ~(Len(s) <= Len(t))
  BY <1>2 DEF IsPrefix
<1> QED
  BY <1>1, <1>2

LEMMA ShortPrefix ==
  ASSUME NEW s \in Seq(Nat), NEW t \in Seq(Nat), Len(s) \in {1, 2, 3}, Len(t) \in {1, 2, 3}
  PROVE  IsPrefix(s, t) <=>
           /\ Len(s) <= Len(t) /\ s[1] = t[1]
           /\ Len(s) > 1 => s[2] = t[2]
           /\ Len(s) > 2 => s[3] = t[3]
<1>1. CASE Len(s) = 1
  <2>1. 1..Len(s) = {1}
    BY <1>1
  <2> QED
    BY <1>1, <2>1, PrefixByElement
<1>2. CASE Len(s) = 2
  <2>1. 1..Len(s) = {1, 2}
    BY <1>2
  <2>2. (\A i \in 1..Len(s) : s[i] = t[i]) <=> s[1] = t[1] /\ s[2] = t[2]
    BY <2>1
  <2>3. Len(s) <= Len(t) => (IsPrefix(s, t) <=> s[1] = t[1] /\ s[2] = t[2])
    BY <2>2, PrefixByElement
  <2>4. ~(Len(s) <= Len(t)) => ~IsPrefix(s, t)
    BY PrefixByElement
  <2> QED
    BY <1>2, <2>3, <2>4
<1>3. CASE Len(s) = 3
  <2>1. 1..Len(s) = {1, 2, 3}
    BY <1>3
  <2>2. (\A i \in 1..Len(s) : s[i] = t[i]) <=> s[1] = t[1] /\ s[2] = t[2] /\ s[3] = t[3]
    BY <2>1
  <2>3. Len(s) <= Len(t) => (IsPrefix(s, t) <=> s[1] = t[1] /\ s[2] = t[2] /\ s[3] = t[3])
    BY <2>2, PrefixByElement
  <2>4. ~(Len(s) <= Len(t)) => ~IsPrefix(s, t)
    BY PrefixByElement
  <2> QED
    BY <1>3, <2>3, <2>4
<1> QED
  BY <1>1, <1>2, <1>3

(* The order of two texts of at most three elements, the first of length n. *)
LEMMA TextOrder ==
  ASSUME NEW s \in Seq(Nat), NEW t \in Seq(Nat), Len(s) \in {1, 2, 3}, Len(t) \in {1, 2, 3}
  PROVE  TextUpTo(s, t) <=>
           \/ s[1] < t[1]
           \/ /\ s[1] = t[1]
              /\ \/ Len(s) = 1
                 \/ /\ Len(s) > 1 /\ Len(t) > 1
                    /\ \/ s[2] < t[2]
                       \/ /\ s[2] = t[2]
                          /\ \/ Len(s) = 2
                             \/ Len(s) = 3 /\ Len(t) = 3 /\ s[3] <= t[3]
<1>1. /\ \A i \in 1..Len(s) : s[i] \in Nat
      /\ \A i \in 1..Len(t) : t[i] \in Nat
  OBVIOUS
<1>2. \A i : i \in DOMAIN s \cap DOMAIN t <=> i \in {1, 2, 3} /\ i <= Len(s) /\ i <= Len(t)
  OBVIOUS
<1>3. /\ \A j \in 1..1-1 : s[j] = t[j]
      /\ (\A j \in 1..2-1 : s[j] = t[j]) <=> s[1] = t[1]
      /\ (\A j \in 1..3-1 : s[j] = t[j]) <=> s[1] = t[1] /\ s[2] = t[2]
  <2>1. 1..1-1 = {} /\ 1..2-1 = {1} /\ 1..3-1 = {1, 2}
    OBVIOUS
  <2> QED
    BY <2>1
<1>4. (\E i \in DOMAIN s \cap DOMAIN t : s[i] < t[i] /\ \A j \in 1..i-1 : s[j] = t[j])
        <=> \E i \in {1, 2, 3} : /\ i <= Len(s) /\ i <= Len(t) /\ s[i] < t[i]
                                 /\ \A j \in 1..i-1 : s[j] = t[j]
  BY <1>2
<1>5. @ <=> \/ s[1] < t[1]
            \/ Len(s) > 1 /\ Len(t) > 1 /\ s[1] = t[1] /\ s[2] < t[2]
            \/ Len(s) = 3 /\ Len(t) = 3 /\ s[1] = t[1] /\ s[2] = t[2] /\ s[3] < t[3]
  <2> DEFINE At(i) == /\ i <= Len(s) /\ i <= Len(t) /\ s[i] < t[i]
                      /\ \A j \in 1..i-1 : s[j] = t[j]
  <2>1. (\E i \in {1, 2, 3} : At(i)) <=> At(1) \/ At(2) \/ At(3)
    OBVIOUS
  <2>2. At(1) <=> s[1] < t[1]
    BY <1>3
  <2>3. At(2) <=> Len(s) > 1 /\ Len(t) > 1 /\ s[1] = t[1] /\ s[2] < t[2]
    BY <1>3
  <2>4. At(3) <=> Len(s) = 3 /\ Len(t) = 3 /\ s[1] = t[1] /\ s[2] = t[2] /\ s[3] < t[3]
    BY <1>3
  <2> QED
    BY <2>1, <2>2, <2>3, <2>4
<1>6. IsPrefix(s, t) <=>
        /\ Len(s) <= Len(t) /\ s[1] = t[1]
        /\ Len(s) > 1 => s[2] = t[2]
        /\ Len(s) > 2 => s[3] = t[3]
  BY ShortPrefix
<1>7. CASE Len(s) = 1
  BY <1>1, <1>4, <1>5, <1>6, <1>7 DEF TextUpTo
<1>8. CASE Len(s) = 2
  BY <1>1, <1>4, <1>5, <1>6, <1>8 DEF TextUpTo
<1>9. CASE Len(s) = 3
  <2>1. s[1] \in Nat /\ s[2] \in Nat /\ s[3] \in Nat
    BY <1>1, <1>9
  <2>2. CASE Len(t) = 3
    <3>1. t[1] \in Nat /\ t[2] \in Nat /\ t[3] \in Nat
      BY <1>1, <2>2
    <3> QED
      BY <1>4, <1>5, <1>6, <1>9, <2>1, <2>2, <3>1 DEF TextUpTo
  <2>3. CASE Len(t) = 1
    BY <1>4, <1>5, <1>6, <1>9, <2>3 DEF TextUpTo
  <2>4. CASE Len(t) = 2
    BY <1>4, <1>5, <1>6, <1>9, <2>4 DEF TextUpTo
  <2> QED
    BY <2>2, <2>3, <2>4
<1> QED
  BY <1>7, <1>8, <1>9

LEMMA NumbersInOrder ==
  ASSUME NEW a \in Nat, NEW b \in Nat, NEW c \in Nat,
         NEW x \in Nat, NEW y \in Nat, NEW z \in Nat,
         b <= 12, c <= 31, y <= 12, z <= 31
  PROVE  10000 * a + 100 * b + c <= 10000 * x + 100 * y + z
           <=> a < x \/ (a = x /\ b < y) \/ (a = x /\ b = y /\ c <= z)
BY SMT

(* The order of texts is that of days, and so is that of their numbers. *)
LEMMA DaysInOrder ==
  ASSUME NEW p, NEW q, IsDay(p), IsDay(q)
  PROVE  /\ TextUpTo(p, q) <=> Earlier(p, q)
         /\ DayNumber(p) <= DayNumber(q) <=> Earlier(p, q)
<1>1. TextUpTo(p, q) <=> Earlier(p, q)
  <2>1. /\ p \in Seq(Nat) /\ Len(p) = 3
        /\ q \in Seq(Nat) /\ Len(q) = 3
    BY DEF IsDay
  <2>2. Len(p) \in {1, 2, 3} /\ Len(q) \in {1, 2, 3}
    BY <2>1
  <2>3. TextUpTo(p, q) <=>
          \/ p[1] < q[1]
          \/ /\ p[1] = q[1]
             /\ \/ Len(p) = 1
                \/ /\ Len(p) > 1 /\ Len(q) > 1
                   /\ \/ p[2] < q[2]
                      \/ /\ p[2] = q[2]
                         /\ \/ Len(p) = 2
                            \/ Len(p) = 3 /\ Len(q) = 3 /\ p[3] <= q[3]
    BY ONLY <2>1, <2>2, TextOrder
  <2> QED
    BY ONLY <2>1, <2>3 DEF Earlier
<1>2. DayNumber(p) <= DayNumber(q) <=> Earlier(p, q)
  BY DayParts, NumbersInOrder DEF DayNumber, Earlier
<1> QED
  BY <1>1, <1>2

LEMMA NumberBounds ==
  ASSUME NEW p, IsDay(p)
  PROVE  DayNumber(p) \in Nat /\ DayNumber(p) <= 99999999
BY DayParts, SMT DEF DayNumber

(* What a caller names against a day, by the texts. *)
LEMMA NamedAgainstDay ==
  ASSUME NEW spec \in Seq(Nat), Named(spec), NEW day \in Seq(Nat), Len(day) = 3
  PROVE  /\ TextUpTo(spec, day) <=>
              \/ spec[1] < day[1]
              \/ /\ spec[1] = day[1]
                 /\ \/ Len(spec) = 1
                    \/ /\ Len(spec) > 1
                       /\ \/ spec[2] < day[2]
                          \/ /\ spec[2] = day[2]
                             /\ Len(spec) = 2 \/ (Len(spec) = 3 /\ spec[3] <= day[3])
         /\ TextUpTo(day, spec) <=>
              \/ day[1] < spec[1]
              \/ /\ day[1] = spec[1] /\ Len(spec) > 1
                 /\ \/ day[2] < spec[2]
                    \/ day[2] = spec[2] /\ Len(spec) = 3 /\ day[3] <= spec[3]
         /\ IsPrefix(spec, day) <=>
              /\ spec[1] = day[1]
              /\ Len(spec) > 1 => spec[2] = day[2]
              /\ Len(spec) > 2 => spec[3] = day[3]
<1>1. Len(spec) \in {1, 2, 3} /\ Len(day) \in {1, 2, 3}
  BY DEF Named
<1>2. TextUpTo(spec, day) <=>
        \/ spec[1] < day[1]
        \/ /\ spec[1] = day[1]
           /\ \/ Len(spec) = 1
              \/ /\ Len(spec) > 1 /\ Len(day) > 1
                 /\ \/ spec[2] < day[2]
                    \/ /\ spec[2] = day[2]
                       /\ \/ Len(spec) = 2
                          \/ Len(spec) = 3 /\ Len(day) = 3 /\ spec[3] <= day[3]
  BY ONLY spec \in Seq(Nat), day \in Seq(Nat), <1>1, TextOrder
<1>3. TextUpTo(day, spec) <=>
        \/ day[1] < spec[1]
        \/ /\ day[1] = spec[1]
           /\ \/ Len(day) = 1
              \/ /\ Len(day) > 1 /\ Len(spec) > 1
                 /\ \/ day[2] < spec[2]
                    \/ /\ day[2] = spec[2]
                       /\ \/ Len(day) = 2
                          \/ Len(day) = 3 /\ Len(spec) = 3 /\ day[3] <= spec[3]
  BY ONLY spec \in Seq(Nat), day \in Seq(Nat), <1>1, TextOrder
<1>4. IsPrefix(spec, day) <=>
        /\ Len(spec) <= Len(day) /\ spec[1] = day[1]
        /\ Len(spec) > 1 => spec[2] = day[2]
        /\ Len(spec) > 2 => spec[3] = day[3]
  BY ONLY spec \in Seq(Nat), day \in Seq(Nat), <1>1, ShortPrefix
<1>5. CASE Len(spec) = 1
  BY ONLY <1>2, <1>3, <1>4, <1>5, Len(day) = 3
<1>6. CASE Len(spec) = 2
  BY ONLY <1>2, <1>3, <1>4, <1>6, Len(day) = 3
<1>7. CASE Len(spec) = 3
  BY ONLY <1>2, <1>3, <1>4, <1>7, Len(day) = 3
<1> QED
  BY <1>1, <1>5, <1>6, <1>7

LEMMA LastDay ==
  ASSUME NEW y \in Nat, NEW m \in Nat, m > 0, m <= 12
  PROVE  LastDayOfMonth(y, m) = <<y, m, DaysIn(y, m)>>
<1>1. CASE m = 12
  BY <1>1 DEF LastDayOfMonth, DayBefore, DaysIn
<1>2. CASE m # 12
  BY <1>2 DEF LastDayOfMonth, DayBefore
<1> QED
  BY <1>1, <1>2

(* What a caller names begins and ends with a day, and a real day lies in it
   by the texts exactly when it lies between those two. *)
LEMMA SpecAsDays ==
  ASSUME NEW spec \in Seq(Nat), Named(spec), NEW day, IsRealDay(day)
  PROVE  /\ IsRealDay(SpecBounds(spec).from) /\ IsRealDay(SpecBounds(spec).to)
         /\ TextUpTo(spec, day) <=> Earlier(SpecBounds(spec).from, day)
         /\ TextUpTo(day, spec) \/ IsPrefix(spec, day) <=> Earlier(day, SpecBounds(spec).to)
<1>1. /\ day[1] \in Nat /\ day[2] \in Nat /\ day[3] \in Nat
      /\ day[1] > 0 /\ day[1] <= 9999 /\ day[2] > 0 /\ day[2] <= 12 /\ day[3] > 0
      /\ day[3] <= DaysIn(day[1], day[2])
  BY DayParts DEF IsRealDay
<1>2. day \in Seq(Nat) /\ Len(day) = 3
  BY DEF IsRealDay, IsDay
<1>3. TextUpTo(spec, day) <=>
        \/ spec[1] < day[1]
        \/ /\ spec[1] = day[1]
           /\ \/ Len(spec) = 1
              \/ /\ Len(spec) > 1
                 /\ \/ spec[2] < day[2]
                    \/ /\ spec[2] = day[2]
                       /\ Len(spec) = 2 \/ (Len(spec) = 3 /\ spec[3] <= day[3])
  BY <1>2, NamedAgainstDay
<1>4. TextUpTo(day, spec) <=>
        \/ day[1] < spec[1]
        \/ /\ day[1] = spec[1] /\ Len(spec) > 1
           /\ \/ day[2] < spec[2]
              \/ day[2] = spec[2] /\ Len(spec) = 3 /\ day[3] <= spec[3]
  BY <1>2, NamedAgainstDay
<1>5. IsPrefix(spec, day) <=>
        /\ spec[1] = day[1]
        /\ Len(spec) > 1 => spec[2] = day[2]
        /\ Len(spec) > 2 => spec[3] = day[3]
  BY <1>2, NamedAgainstDay
<1>6. spec[1] \in Nat /\ spec[1] > 0 /\ spec[1] <= 9999
  <2>1. spec[1] \in Nat
    BY DEF Named
  <2>2. 0 < spec[1] /\ spec[1] <= 9999
    BY DEF Named, RealDay
  <2> QED
    BY <2>1, <2>2
<1>7. CASE Len(spec) = 1
  <2>1. SpecBounds(spec).from = <<spec[1], 1, 1>> /\ SpecBounds(spec).to = <<spec[1], 12, 31>>
    BY <1>7 DEF SpecBounds
  <2>2. IsRealDay(<<spec[1], 1, 1>>) /\ IsRealDay(<<spec[1], 12, 31>>)
    BY <1>6, DayMade DEF IsRealDay, DaysIn
  <2>3. TextUpTo(spec, day) <=> Earlier(SpecBounds(spec).from, day)
    BY <1>1, <1>3, <1>6, <1>7, <2>1 DEF Earlier
  <2>4. DaysIn(day[1], day[2]) \in Nat /\ DaysIn(day[1], day[2]) <= 31
    BY MonthLength
  <2>5. TextUpTo(day, spec) \/ IsPrefix(spec, day) <=> Earlier(day, SpecBounds(spec).to)
    <3>1. TextUpTo(day, spec) \/ IsPrefix(spec, day) <=> day[1] < spec[1] \/ day[1] = spec[1]
      BY <1>4, <1>5, <1>7
    <3>2. day[2] <= 12 /\ day[3] <= 31
      BY ONLY <1>1, <2>4
    <3>3. Earlier(day, <<spec[1], 12, 31>>) <=> day[1] < spec[1] \/ day[1] = spec[1]
      BY <1>1, <1>6, <3>2 DEF Earlier
    <3> QED
      BY <2>1, <3>1, <3>3
  <2> QED
    BY <2>1, <2>2, <2>3, <2>5
<1>8. CASE Len(spec) = 2
  <2>1. spec[2] \in Nat /\ spec[2] > 0 /\ spec[2] <= 12
    <3>1. spec[2] \in Nat
      BY <1>8, ElementType
    <3> QED
      BY <1>8, <3>1 DEF Named, RealDay
  <2>2. LastDayOfMonth(spec[1], spec[2]) = <<spec[1], spec[2], DaysIn(spec[1], spec[2])>>
    BY <1>6, <2>1, LastDay
  <2>3. /\ SpecBounds(spec).from = <<spec[1], spec[2], 1>>
        /\ SpecBounds(spec).to = <<spec[1], spec[2], DaysIn(spec[1], spec[2])>>
    BY <1>8, <2>2 DEF SpecBounds
  <2>4. IsRealDay(<<spec[1], spec[2], 1>>)
    BY <1>6, <2>1, DayMade, MonthLength DEF IsRealDay
  <2>5. IsRealDay(<<spec[1], spec[2], DaysIn(spec[1], spec[2])>>)
    BY <1>6, <2>1, DayMade, MonthLength DEF IsRealDay
  <2>6. TextUpTo(spec, day) <=> Earlier(SpecBounds(spec).from, day)
    BY <1>1, <1>3, <1>6, <1>8, <2>1, <2>3 DEF Earlier
  <2>7. TextUpTo(day, spec) \/ IsPrefix(spec, day) <=> Earlier(day, SpecBounds(spec).to)
    BY <1>1, <1>4, <1>5, <1>6, <1>8, <2>1, <2>3, MonthLength DEF Earlier
  <2> QED
    BY <2>3, <2>4, <2>5, <2>6, <2>7
<1>9. CASE Len(spec) = 3
  <2>1. /\ spec[2] \in Nat /\ spec[2] > 0 /\ spec[2] <= 12
        /\ spec[3] \in Nat /\ spec[3] > 0 /\ spec[3] <= DaysIn(spec[1], spec[2])
    <3>1. spec[2] \in Nat /\ spec[3] \in Nat
      BY <1>9, ElementType
    <3>2. RealDay(spec[1], spec[2], spec[3])
      BY <1>9 DEF Named
    <3> QED
      BY <3>1, <3>2 DEF RealDay
  <2>2. IsRealDay(spec)
    BY <1>6, <1>9, <2>1, MonthLength DEF IsRealDay, IsDay
  <2>3. SpecBounds(spec).from = spec /\ SpecBounds(spec).to = spec
    BY <1>9 DEF SpecBounds
  <2>4. TextUpTo(spec, day) <=> Earlier(spec, day)
    BY <1>1, <1>3, <1>6, <1>9, <2>1 DEF Earlier
  <2>5. TextUpTo(day, spec) <=> Earlier(day, spec)
    BY <1>1, <1>4, <1>6, <1>9, <2>1 DEF Earlier
  <2>6. IsPrefix(spec, day) => Earlier(day, spec)
    BY <1>1, <1>5, <1>6, <1>9, <2>1 DEF Earlier
  <2> QED
    BY <2>2, <2>3, <2>4, <2>5, <2>6
<1> QED
  BY <1>7, <1>8, <1>9 DEF Named

LEMMA DayIsNamed ==
  ASSUME NEW day \in Seq(Nat), Day(day)
  PROVE  IsRealDay(day)
<1>1. Len(day) = 3 /\ RealDay(day[1], day[2], day[3])
  BY DEF Day, Named
<1>2. /\ day[2] > 0 /\ day[2] <= 12 /\ day[3] > 0 /\ day[1] <= 9999 /\ day[1] > 0
      /\ day[3] <= DaysIn(day[1], day[2]) /\ day[3] \in Nat
  <2>1. day[1] \in Nat /\ day[2] \in Nat /\ day[3] \in Nat
    BY <1>1, ThreeNumbers
  <2> QED
    BY <1>1, <2>1 DEF RealDay
<1>3. day[3] <= 31
  BY <1>2, MonthLength
<1> QED
  BY <1>1, <1>2, <1>3 DEF IsRealDay, IsDay

(* The order of days is a total one. *)
LEMMA DayOrder ==
  ASSUME NEW p, NEW q, NEW r, IsDay(p), IsDay(q), IsDay(r)
  PROVE  /\ Earlier(p, p)
         /\ Earlier(p, q) \/ Earlier(q, p)
         /\ Earlier(p, q) /\ Earlier(q, r) => Earlier(p, r)
BY DayParts DEF Earlier

(* The days of a year, a month or a day are those from its first to its last. *)
LEMMA DaysBetween ==
  ASSUME NEW spec \in Seq(Nat), Named(spec), NEW day
  PROVE  day \in DaysOf(spec) <=>
           /\ IsRealDay(day)
           /\ Earlier(SpecBounds(spec).from, day) /\ Earlier(day, SpecBounds(spec).to)
<1>1. ASSUME day \in DaysOf(spec)
      PROVE  /\ IsRealDay(day) /\ day[1] = spec[1]
             /\ Len(spec) > 1 => day[2] = spec[2]
             /\ Len(spec) > 2 => day[3] = spec[3]
  <2>1. PICK m \in (IF Len(spec) = 1 THEN 1..12 ELSE {spec[2]}),
             d \in (IF Len(spec) < 3 THEN 1..31 ELSE {spec[3]}) :
               day = <<spec[1], m, d>> /\ day[3] <= DaysIn(day[1], day[2])
    BY <1>1 DEF DaysOf
  <2>2. spec[1] \in Nat /\ spec[1] > 0 /\ spec[1] <= 9999
    <3>1. spec[1] \in Nat
      BY DEF Named
    <3> QED
      BY <3>1 DEF Named, RealDay
  <2>3. m \in Nat /\ m > 0 /\ m <= 12
    <3>1. CASE Len(spec) = 1
      BY <3>1
    <3>2. CASE Len(spec) # 1
      <4>1. spec[2] \in Nat
        BY <3>2, ElementType DEF Named
      <4> QED
        BY <3>2, <4>1 DEF Named, RealDay
    <3> QED
      BY <3>1, <3>2
  <2>4. d \in Nat /\ d > 0 /\ d <= DaysIn(spec[1], m)
    <3>1. CASE Len(spec) < 3
      BY <2>1, <3>1
    <3>2. CASE ~(Len(spec) < 3)
      <4>1. Len(spec) = 3 /\ spec[3] \in Nat
        BY <3>2, ElementType DEF Named
      <4> QED
        BY <2>1, <3>2, <4>1 DEF Named, RealDay
    <3> QED
      BY <3>1, <3>2
  <2>5. IsRealDay(day)
    BY <2>1, <2>2, <2>3, <2>4, DayMade, MonthLength DEF IsRealDay
  <2> QED
    BY <2>1, <2>5 DEF Named
<1>2. ASSUME IsRealDay(day), day[1] = spec[1],
             Len(spec) > 1 => day[2] = spec[2], Len(spec) > 2 => day[3] = spec[3]
      PROVE  day \in DaysOf(spec)
  <2>1. /\ day[2] \in Nat /\ day[2] > 0 /\ day[2] <= 12
        /\ day[3] \in Nat /\ day[3] > 0 /\ day[3] <= 31 /\ day[3] <= DaysIn(day[1], day[2])
    BY <1>2, DayParts DEF IsRealDay
  <2>2. PICK m, d : day[2] = m /\ day[3] = d
    OBVIOUS
  <2>3. day = <<spec[1], m, d>>
    <3>1. day \in Seq(Nat) /\ Len(day) = 3
      BY <1>2 DEF IsRealDay, IsDay
    <3>2. day[1] = spec[1] /\ day[2] = m /\ day[3] = d
      BY <1>2, <2>2
    <3>3. day[1] = spec[1] /\ day[2] = m /\ day[3] = d => day = <<spec[1], m, d>>
      BY ONLY <3>1, Triple
    <3> QED
      BY ONLY <3>2, <3>3
  <2>4. m \in (IF Len(spec) = 1 THEN 1..12 ELSE {spec[2]})
    <3>1. CASE Len(spec) = 1
      <4>1. m \in Nat /\ m > 0 /\ m <= 12
        BY <2>1, <2>2
      <4>2. m \in 1..12
        BY ONLY <4>1, SMT
      <4> QED
        BY <3>1, <4>2
    <3>2. CASE Len(spec) # 1
      <4>1. Len(spec) > 1
        BY <3>2 DEF Named
      <4> QED
        BY <1>2, <2>2, <3>2, <4>1
    <3> QED
      BY <3>1, <3>2
  <2>5. d \in (IF Len(spec) < 3 THEN 1..31 ELSE {spec[3]})
    <3>1. CASE Len(spec) < 3
      <4>1. d \in Nat /\ d > 0 /\ d <= 31
        BY <2>1, <2>2
      <4>2. d \in 1..31
        BY ONLY <4>1, SMT
      <4> QED
        BY <3>1, <4>2
    <3>2. CASE ~(Len(spec) < 3)
      BY <1>2, <2>2, <3>2 DEF Named
    <3> QED
      BY <3>1, <3>2
  <2> QED
    BY <2>1, <2>3, <2>4, <2>5 DEF DaysOf
<1>3. ASSUME IsRealDay(day)
      PROVE  /\ Earlier(SpecBounds(spec).from, day) /\ Earlier(day, SpecBounds(spec).to)
               <=> /\ day[1] = spec[1]
                   /\ Len(spec) > 1 => day[2] = spec[2]
                   /\ Len(spec) > 2 => day[3] = spec[3]
  <2>1. /\ IsDay(day) /\ day \in Seq(Nat) /\ Len(day) = 3
        /\ day[1] \in Nat /\ day[2] \in Nat /\ day[3] \in Nat
    <3>1. IsDay(day)
      BY <1>3 DEF IsRealDay
    <3>2. day \in Seq(Nat) /\ Len(day) = 3
      BY <3>1 DEF IsDay
    <3> QED
      BY <3>1, <3>2, DayParts
  <2>2. IsPrefix(spec, day) <=>
          /\ spec[1] = day[1]
          /\ Len(spec) > 1 => spec[2] = day[2]
          /\ Len(spec) > 2 => spec[3] = day[3]
    BY <2>1, NamedAgainstDay
  <2>3. TextUpTo(spec, day) /\ TextUpTo(day, spec) => IsPrefix(spec, day)
    <3>1. /\ spec[1] \in Nat
          /\ Len(spec) > 1 => spec[2] \in Nat
          /\ Len(spec) > 2 => spec[3] \in Nat
      BY ElementType DEF Named
    <3>2. TextUpTo(spec, day) =>
            \/ spec[1] < day[1]
            \/ /\ spec[1] = day[1]
               /\ \/ Len(spec) = 1
                  \/ spec[2] < day[2]
                  \/ spec[2] = day[2] /\ (Len(spec) = 2 \/ spec[3] <= day[3])
      BY <2>1, NamedAgainstDay
    <3>3. TextUpTo(day, spec) =>
            \/ day[1] < spec[1]
            \/ /\ day[1] = spec[1] /\ Len(spec) > 1
               /\ \/ day[2] < spec[2]
                  \/ day[2] = spec[2] /\ Len(spec) = 3 /\ day[3] <= spec[3]
      BY <2>1, NamedAgainstDay
    <3>4. CASE Len(spec) = 1
      BY <2>1, <2>2, <3>1, <3>2, <3>3, <3>4
    <3>5. CASE Len(spec) = 2
      BY <2>1, <2>2, <3>1, <3>2, <3>3, <3>5
    <3>6. CASE Len(spec) = 3
      <4>1. spec[1] \in Nat /\ spec[2] \in Nat /\ spec[3] \in Nat
        BY <3>1, <3>6
      <4>2. TextUpTo(spec, day) => Earlier(spec, day)
        BY <3>2, <3>6 DEF Earlier
      <4>3. TextUpTo(day, spec) => Earlier(day, spec)
        BY <3>3, <3>6 DEF Earlier
      <4>4. Earlier(spec, day) /\ Earlier(day, spec)
              => spec[1] = day[1] /\ spec[2] = day[2] /\ spec[3] = day[3]
        <5>1. day[1] \in Nat /\ day[2] \in Nat /\ day[3] \in Nat
          BY <2>1
        <5> QED
          BY ONLY <4>1, <5>1 DEF Earlier
      <4> QED
        BY <2>2, <4>2, <4>3, <4>4
    <3> QED
      BY <3>4, <3>5, <3>6 DEF Named
  <2> QED
    BY <1>3, <2>2, <2>3, SpecAsDays DEF TextUpTo
<1> QED
  BY <1>1, <1>2, <1>3

LEMMA BoundsInOrder ==
  ASSUME NEW spec \in Seq(Nat), Named(spec)
  PROVE  /\ IsRealDay(SpecBounds(spec).from) /\ IsRealDay(SpecBounds(spec).to)
         /\ Earlier(SpecBounds(spec).from, SpecBounds(spec).to)
<1>1. IsRealDay(<<1, 1, 1>>)
  BY DayMade, MonthLength DEF IsRealDay
<1>2. IsRealDay(SpecBounds(spec).from) /\ IsRealDay(SpecBounds(spec).to)
  BY <1>1, SpecAsDays
<1>3. spec[1] \in Nat
  BY DEF Named
<1>4. CASE Len(spec) = 1
  <2>1. SpecBounds(spec).from = <<spec[1], 1, 1>> /\ SpecBounds(spec).to = <<spec[1], 12, 31>>
    BY <1>4 DEF SpecBounds
  <2> QED
    BY <1>2, <2>1 DEF Earlier
<1>5. CASE Len(spec) = 2
  <2>1. spec[2] \in Nat /\ spec[2] > 0 /\ spec[2] <= 12
    <3>1. 2 \in Nat /\ 0 < 2 /\ 2 <= Len(spec)
      BY <1>5
    <3>2. spec[2] \in Nat
      BY ONLY spec \in Seq(Nat), <3>1, ElementType
    <3> QED
      BY <1>5, <3>2 DEF Named, RealDay
  <2>2. /\ SpecBounds(spec).from = <<spec[1], spec[2], 1>>
        /\ SpecBounds(spec).to = <<spec[1], spec[2], DaysIn(spec[1], spec[2])>>
    BY <1>3, <1>5, <2>1, LastDay DEF SpecBounds
  <2> QED
    BY <1>2, <1>3, <2>1, <2>2, MonthLength DEF Earlier
<1>6. CASE Len(spec) = 3
  <2>1. SpecBounds(spec).from = spec /\ SpecBounds(spec).to = spec
    BY <1>6 DEF SpecBounds
  <2> QED
    BY <1>2, <2>1, DayOrder DEF IsRealDay
<1> QED
  BY <1>2, <1>4, <1>5, <1>6 DEF Named

LEMMA Heads ==
  ASSUME NEW s \in Seq(Nat), Len(s) = 3
  PROVE  /\ SubSeq(s, 1, 1) \in Seq(Nat) /\ Len(SubSeq(s, 1, 1)) = 1
         /\ SubSeq(s, 1, 1)[1] = s[1]
         /\ SubSeq(s, 1, 2) \in Seq(Nat) /\ Len(SubSeq(s, 1, 2)) = 2
         /\ SubSeq(s, 1, 2)[1] = s[1] /\ SubSeq(s, 1, 2)[2] = s[2]
         /\ SubSeq(s, 1, 3) = s
<1>1. /\ SubSeq(s, 1, 1) = [i \in 1..1 |-> s[i]]
      /\ SubSeq(s, 1, 2) = [i \in 1..2 |-> s[i]]
      /\ SubSeq(s, 1, 3) = [i \in 1..3 |-> s[i]]
  OBVIOUS
<1>2. SubSeq(s, 1, 1) \in Seq(Nat) /\ SubSeq(s, 1, 2) \in Seq(Nat)
  <2>1. \A i \in 1..2 : s[i] \in Nat
    BY ThreeNumbers
  <2>2. [i \in 1..1 |-> s[i]] \in Seq(Nat) /\ [i \in 1..2 |-> s[i]] \in Seq(Nat)
    BY <2>1
  <2> QED
    BY <1>1, <2>2
<1>3. Len(SubSeq(s, 1, 1)) = 1 /\ Len(SubSeq(s, 1, 2)) = 2
  OBVIOUS
<1>4. SubSeq(s, 1, 3) = s
  OBVIOUS
<1>5. SubSeq(s, 1, 1)[1] = s[1] /\ SubSeq(s, 1, 2)[1] = s[1] /\ SubSeq(s, 1, 2)[2] = s[2]
  BY <1>1
<1> QED
  BY <1>2, <1>3, <1>4, <1>5

(* The period of a known date is what its prefix of that precision names. *)
Precision(d) == IF d.granularity = "day" THEN 3 ELSE IF d.granularity = "month" THEN 2 ELSE 1

LEMMA PeriodIsNamed ==
  ASSUME NEW d, d.iso \in Seq(Nat), Day(d.iso),
         d.granularity = "month" => Named(SubSeq(d.iso, 1, 2)),
         NEW spec, spec = SubSeq(d.iso, 1, Precision(d))
  PROVE  /\ spec \in Seq(Nat) /\ Named(spec)
         /\ Period(d) = SpecBounds(spec)
         /\ PeriodDays(d) = DaysOf(spec)
<1>1. IsRealDay(d.iso) /\ Len(d.iso) = 3
  BY DayIsNamed DEF Day
<1>2. /\ d.iso[1] \in Nat /\ d.iso[1] > 0 /\ d.iso[1] <= 9999
      /\ d.iso[2] \in Nat /\ d.iso[2] > 0 /\ d.iso[2] <= 12
      /\ d.iso[3] \in Nat
  BY <1>1, DayParts DEF IsRealDay
<1>3. PeriodDays(d) = DaysOf(spec)
  BY DEF PeriodDays, Precision
<1>4. CASE d.granularity = "day"
  <2>1. spec = d.iso
    BY <1>1, <1>4, Heads DEF Precision
  <2>2. Period(d) = [from |-> d.iso, to |-> d.iso]
    BY <1>4 DEF Period
  <2>3. SpecBounds(d.iso) = [from |-> d.iso, to |-> d.iso]
    BY <1>1 DEF SpecBounds
  <2> QED
    BY <1>3, <2>1, <2>2, <2>3 DEF Day
<1>5. CASE d.granularity = "month"
  <2>1. spec = SubSeq(d.iso, 1, 2)
    BY <1>5 DEF Precision
  <2>2. spec \in Seq(Nat) /\ Len(spec) = 2 /\ spec[1] = d.iso[1] /\ spec[2] = d.iso[2]
    <3>1. /\ SubSeq(d.iso, 1, 2) \in Seq(Nat) /\ Len(SubSeq(d.iso, 1, 2)) = 2
          /\ SubSeq(d.iso, 1, 2)[1] = d.iso[1] /\ SubSeq(d.iso, 1, 2)[2] = d.iso[2]
      BY <1>1, Heads
    <3> QED
      BY ONLY <2>1, <3>1
  <2>3. Period(d) = [from |-> <<spec[1], spec[2], 1>>, to |-> LastDayOfMonth(spec[1], spec[2])]
    BY <1>5, <2>2 DEF Period
  <2>4. Period(d) = SpecBounds(spec)
    BY ONLY <2>2, <2>3 DEF SpecBounds
  <2> QED
    BY <1>3, <1>5, <2>1, <2>2, <2>4
<1>6. CASE d.granularity \notin {"day", "month"}
  <2>1. spec = SubSeq(d.iso, 1, 1)
    BY <1>6 DEF Precision
  <2>2. spec \in Seq(Nat) /\ Len(spec) = 1 /\ spec[1] = d.iso[1]
    <3>1. /\ SubSeq(d.iso, 1, 1) \in Seq(Nat) /\ Len(SubSeq(d.iso, 1, 1)) = 1
          /\ SubSeq(d.iso, 1, 1)[1] = d.iso[1]
      BY <1>1, Heads
    <3> QED
      BY ONLY <2>1, <3>1
  <2>3. Period(d) = SpecBounds(spec)
    BY <1>6, <2>2 DEF Period, SpecBounds
  <2>4. spec # <<9999, 12>>
    <3>1. Len(<<9999, 12>>) = 2
      OBVIOUS
    <3> QED
      BY ONLY <2>2, <3>1
  <2>5. RealDay(d.iso[1], 1, 1)
    <3>1. 1 <= DaysIn(d.iso[1], 1)
      BY DEF DaysIn
    <3> QED
      BY <1>2, <3>1 DEF RealDay
  <2> QED
    BY <1>3, <2>2, <2>3, <2>4, <2>5 DEF Named
<1> QED
  BY <1>4, <1>5, <1>6

(* A range is the days from its start to its end, whether its ends are given
   or not. *)
LEMMA RangeEnds ==
  ASSUME CoverageAssumption, NEW from \in Specs, NEW to \in Specs
  PROVE  /\ IsDay(RangeStart(from)) /\ IsDay(RangeEnd(to)) /\ IsRealDay(RangeEnd(to))
         /\ from # Absent => IsRealDay(RangeStart(from))
         /\ from = Absent => RangeStart(from) = <<0, 1, 1>>
         /\ \A day : IsRealDay(day) =>
              (InRange(day, from, to) <=>
                 Earlier(RangeStart(from), day) /\ Earlier(day, RangeEnd(to)))
<1>1. /\ IsDay(<<0, 1, 1>>) /\ IsDay(<<9999, 12, 31>>) /\ IsRealDay(<<9999, 12, 31>>)
  BY DayMade DEF IsRealDay, DaysIn
<1>2. /\ IsDay(RangeStart(from))
      /\ from # Absent => IsRealDay(RangeStart(from))
      /\ from = Absent => RangeStart(from) = <<0, 1, 1>>
  BY <1>1, BoundsInOrder DEF CoverageAssumption, RangeStart, IsRealDay
<1>3. IsRealDay(RangeEnd(to)) /\ IsDay(RangeEnd(to))
  BY <1>1, BoundsInOrder DEF CoverageAssumption, RangeEnd, IsRealDay
<1>4. ASSUME NEW day, IsRealDay(day)
      PROVE  InRange(day, from, to) <=>
               Earlier(RangeStart(from), day) /\ Earlier(day, RangeEnd(to))
  <2>1. from = Absent \/ TextUpTo(from, day) <=> Earlier(RangeStart(from), day)
    <3>1. CASE from = Absent
      <4>1. Earlier(<<0, 1, 1>>, day)
        BY <1>4, DayParts DEF IsRealDay, Earlier
      <4> QED
        BY <3>1, <4>1 DEF RangeStart
    <3>2. CASE from # Absent
      BY <1>4, <3>2, SpecAsDays DEF CoverageAssumption, RangeStart
    <3> QED
      BY <3>1, <3>2
  <2>2. to = Absent \/ TextUpTo(day, to) \/ IsPrefix(to, day) <=> Earlier(day, RangeEnd(to))
    <3>1. CASE to = Absent
      <4>1. /\ day[1] \in Nat /\ day[2] \in Nat /\ day[3] \in Nat
            /\ day[1] <= 9999 /\ day[2] <= 12 /\ day[3] <= 31
        BY <1>4, DayParts DEF IsRealDay
      <4>2. Earlier(day, <<9999, 12, 31>>)
        BY <4>1, SMT DEF Earlier
      <4> QED
        BY <3>1, <4>2 DEF RangeEnd
    <3>2. CASE to # Absent
      BY <1>4, <3>2, SpecAsDays DEF CoverageAssumption, RangeEnd
    <3> QED
      BY <3>1, <3>2
  <2> QED
    BY <2>1, <2>2 DEF InRange
<1> QED
  BY <1>2, <1>3, <1>4

(* Two spans of days have a day in common when neither ends before the other
   begins. *)
LEMMA SpansMeet ==
  ASSUME NEW a, NEW b, NEW c, NEW d, IsRealDay(a), IsRealDay(b), IsDay(c), IsRealDay(d),
         IsRealDay(c) \/ c = <<0, 1, 1>>, Earlier(a, b), Earlier(c, d)
  PROVE  Earlier(a, d) /\ Earlier(c, b) <=>
           \E day : /\ IsRealDay(day) /\ Earlier(a, day) /\ Earlier(day, b)
                    /\ Earlier(c, day) /\ Earlier(day, d)
<1>1. IsDay(a) /\ IsDay(b) /\ IsDay(c) /\ IsDay(d)
  BY DEF IsRealDay
<1>2. ASSUME NEW day, IsRealDay(day), Earlier(a, day), Earlier(day, b),
             Earlier(c, day), Earlier(day, d)
      PROVE  Earlier(a, d) /\ Earlier(c, b)
  BY <1>1, <1>2, DayOrder DEF IsRealDay
<1>3. ASSUME Earlier(a, d), Earlier(c, b)
      PROVE  \E day : /\ IsRealDay(day) /\ Earlier(a, day) /\ Earlier(day, b)
                      /\ Earlier(c, day) /\ Earlier(day, d)
  <2>1. CASE Earlier(c, a)
    BY <1>1, <1>3, <2>1, DayOrder
  <2>2. CASE ~Earlier(c, a)
    <3>1. c # <<0, 1, 1>>
      <4>1. Earlier(<<0, 1, 1>>, a)
        BY <1>1, DayParts DEF IsRealDay, Earlier
      <4> QED
        BY <2>2, <4>1
    <3> QED
      BY <1>1, <1>3, <2>2, <3>1, DayOrder
  <2> QED
    BY <2>1, <2>2
<1> QED
  BY <1>2, <1>3

Answered(from, to) ==
  [lexical |-> PassesRange(date, from, to), semantic |-> PassesVector(date, from, to),
   covered |-> Covered(note, from, to),
   suppressed |-> IsCovered(Row(date), AsNumbers(Covered(note, from, to)))]

(* The lexical and the semantic filter agree on any record and any range. *)
LEMMA FiltersAgree ==
  ASSUME CoverageAssumption, date \in Dates, NEW from \in Specs, NEW to \in Specs
  PROVE  /\ PassesRange(date, from, to) <=> PassesVector(date, from, to)
         /\ TextUpTo(RangeStart(from), RangeEnd(to)) =>
              (PassesRange(date, from, to) <=>
                 \/ date.confidence = "unknown"
                 \/ \E day \in PeriodDays(date) : InRange(day, from, to))
<1> DEFINE start == RangeStart(from)
           end == RangeEnd(to)
           first == Period(date).from
           last == Period(date).to
<1>1. /\ IsDay(start) /\ IsDay(end) /\ IsRealDay(end)
      /\ IsRealDay(start) \/ start = <<0, 1, 1>>
      /\ \A day : IsRealDay(day) =>
           (InRange(day, from, to) <=> Earlier(start, day) /\ Earlier(day, end))
  BY RangeEnds
<1>2. CASE date.confidence = "unknown"
  <2>1. PassesRange(date, from, to)
    BY <1>2 DEF PassesRange
  <2>2. 0 <= DayNumber(end) /\ 99999999 >= DayNumber(start)
    BY <1>1, NumberBounds, SMT
  <2>3. PassesVector(date, from, to)
    <3>1. PeriodInts(date).from = 0 /\ PeriodInts(date).to = 99999999
      BY <1>2, SMT DEF PeriodInts
    <3> QED
      BY <2>2, <3>1, SMT DEF PassesVector
  <2> QED
    BY <1>2, <2>1, <2>3
<1>3. CASE date.confidence # "unknown"
  <2> DEFINE spec == SubSeq(date.iso, 1, Precision(date))
  <2>1. /\ spec \in Seq(Nat) /\ Named(spec)
        /\ Period(date) = SpecBounds(spec)
        /\ PeriodDays(date) = DaysOf(spec)
    BY <1>3, PeriodIsNamed DEF CoverageAssumption
  <2> HIDE DEF spec
  <2>2. /\ IsRealDay(first) /\ IsRealDay(last) /\ Earlier(first, last)
        /\ IsDay(first) /\ IsDay(last)
    BY <2>1, BoundsInOrder DEF IsRealDay
  <2>3. /\ \A day \in PeriodDays(date) : IsRealDay(day)
        /\ \A day : IsRealDay(day) =>
             (day \in PeriodDays(date) <=> Earlier(first, day) /\ Earlier(day, last))
    BY <2>1, DaysBetween
  <2> HIDE DEF start, end, first, last
  <2>4. PassesRange(date, from, to) <=>
          (from = Absent /\ to = Absent) \/ (Earlier(first, end) /\ Earlier(start, last))
    BY <1>1, <1>3, <2>2, DaysInOrder DEF PassesRange, start, end, first, last
  <2>5. PassesVector(date, from, to) <=>
          (from = Absent /\ to = Absent) \/ (Earlier(first, end) /\ Earlier(start, last))
    <3>1. /\ PeriodInts(date).from = DayNumber(first)
          /\ PeriodInts(date).to = DayNumber(last)
      BY <1>3, SMT DEF PeriodInts, first, last
    <3>2. PeriodInts(date).from <= DayNumber(end) <=> Earlier(first, end)
      BY <1>1, <2>2, <3>1, DaysInOrder
    <3>3. DayNumber(start) <= PeriodInts(date).to <=> Earlier(start, last)
      BY <1>1, <2>2, <3>1, DaysInOrder
    <3>4. PeriodInts(date).to >= DayNumber(start) <=> DayNumber(start) <= PeriodInts(date).to
      BY <1>1, <2>2, <3>1, NumberBounds
    <3> QED
      BY <3>2, <3>3, <3>4, Zenon DEF PassesVector, start, end
  <2>6. from = Absent /\ to = Absent => Earlier(first, end) /\ Earlier(start, last)
    <3> SUFFICES ASSUME from = Absent, to = Absent
                 PROVE  Earlier(first, end) /\ Earlier(start, last)
      OBVIOUS
    <3>1. start = <<0, 1, 1>> /\ end = <<9999, 12, 31>>
      BY DEF start, end, RangeStart, RangeEnd
    <3>2. InRange(first, from, to) /\ InRange(last, from, to)
      BY DEF InRange
    <3> QED
      BY <1>1, <2>2, <3>2
  <2>7. ASSUME TextUpTo(RangeStart(from), RangeEnd(to))
        PROVE  PassesRange(date, from, to) <=>
                 \E day \in PeriodDays(date) : InRange(day, from, to)
    <3>1. Earlier(start, end)
      BY <1>1, <2>7, DaysInOrder DEF start, end
    <3>2. Earlier(first, end) /\ Earlier(start, last) <=>
            \E day : /\ IsRealDay(day) /\ Earlier(first, day) /\ Earlier(day, last)
                     /\ Earlier(start, day) /\ Earlier(day, end)
      BY <1>1, <2>2, <3>1, SpansMeet
    <3>3. @ <=> \E day \in PeriodDays(date) : InRange(day, from, to)
      BY <1>1, <2>3
    <3> QED
      BY <2>4, <2>6, <3>2, <3>3
  <2> QED
    BY <1>3, <2>4, <2>5, <2>7
<1> QED
  BY <1>2, <1>3

(* A note is as it was saved, at a revision reached by then, and fresh exactly
   when it carries the current one; a reply is of the corpus as it stands. *)
SavedAsRead ==
  note # Absent =>
    \E front \in Fronts, rev \in (0..token) \cup {Absent, Bad} :
      /\ note = [type |-> front.type, window |-> front.window,
                 complete |-> front.complete, rev |-> rev]
      /\ fresh <=> rev = token

AnsweredAsAsked ==
  query # Absent =>
    \E from \in Specs, to \in Specs :
      query = [from |-> from, to |-> to] /\ reply = Answered(from, to)

CoverageInv == token \in 0..MaxToken /\ date \in Dates /\ SavedAsRead /\ AnsweredAsAsked

LEMMA CoverageInvariance == CoverageSpec => []CoverageInv
<1>1. CoverageInit => CoverageInv
  BY CoverageAssumption
     DEF CoverageAssumption, CoverageInit, CoverageInv, SavedAsRead, AnsweredAsAsked
<1>2. ASSUME CoverageInv, [CoverageNext]_coverageVars
      PROVE  CoverageInv'
  <2>1. token \in Nat /\ token <= MaxToken /\ MaxToken \in Nat
    BY <1>2, CoverageAssumption DEF CoverageInv, CoverageAssumption
  <2>2. CASE SaveNote
    <3>1. SavedAsRead'
      <4>1. PICK front \in Fronts, rev \in (0..token) \cup {Absent, Bad} :
              /\ note' = [type |-> front.type, window |-> front.window,
                          complete |-> front.complete, rev |-> rev]
              /\ fresh' = (rev = token)
        BY <2>2 DEF SaveNote
      <4>2. token' = token
        BY <2>2 DEF SaveNote
      <4> QED
        BY <4>1, <4>2 DEF SavedAsRead
    <3>2. AnsweredAsAsked'
      BY <2>2 DEF SaveNote, AnsweredAsAsked
    <3> QED
      BY <1>2, <2>2, <3>1, <3>2 DEF CoverageInv, SaveNote
  <2>3. CASE ChangeSource
    <3>1. token' = token + 1 /\ note' = note /\ fresh' = FALSE /\ token < MaxToken
      BY <2>3 DEF ChangeSource
    <3>2. SavedAsRead'
      <4> SUFFICES ASSUME note # Absent
                   PROVE  SavedAsRead'
        BY <3>1 DEF SavedAsRead
      <4>1. PICK front \in Fronts, rev \in (0..token) \cup {Absent, Bad} :
              note = [type |-> front.type, window |-> front.window,
                      complete |-> front.complete, rev |-> rev]
        BY <1>2 DEF CoverageInv, SavedAsRead
      <4>2. rev \in (0..token') \cup {Absent, Bad} /\ rev # token'
        <5>1. token + 1 \in 0..MaxToken
          BY <2>1, <3>1
        <5>2. Absent # token + 1 /\ Bad # token + 1
          BY <5>1, CoverageAssumption DEF CoverageAssumption
        <5> QED
          BY <2>1, <3>1, <5>2
      <4> QED
        BY <3>1, <4>1, <4>2 DEF SavedAsRead
    <3>3. AnsweredAsAsked'
      BY <2>3 DEF ChangeSource, AnsweredAsAsked
    <3>4. token' \in 0..MaxToken /\ date' \in Dates
      BY <2>1, <2>3 DEF ChangeSource
    <3> QED
      BY <3>2, <3>3, <3>4 DEF CoverageInv
  <2>4. CASE SearchRange
    <3>1. UNCHANGED <<token, date, note, fresh>>
      BY <2>4 DEF SearchRange
    <3>2. AnsweredAsAsked'
      <4>1. PICK from \in Specs, to \in Specs :
              query' = [from |-> from, to |-> to] /\ reply' = Answered(from, to)
        BY <2>4 DEF SearchRange, Answered
      <4>2. Answered(from, to)' = Answered(from, to)
        BY <3>1 DEF Answered, Covered, Eligible
      <4> QED
        BY <4>1, <4>2 DEF AnsweredAsAsked
    <3> QED
      BY <1>2, <3>1, <3>2 DEF CoverageInv, SavedAsRead
  <2>5. CASE UNCHANGED coverageVars
    <3>1. UNCHANGED <<token, date, note, fresh, query, reply>>
      BY <2>5 DEF coverageVars
    <3>2. SavedAsRead'
      BY <1>2, <3>1 DEF CoverageInv, SavedAsRead
    <3>3. AnsweredAsAsked'
      <4>1. \A from, to : Answered(from, to)' = Answered(from, to)
        BY <3>1 DEF Answered, Covered, Eligible
      <4> QED
        BY <1>2, <3>1, <4>1 DEF CoverageInv, AnsweredAsAsked
    <3> QED
      BY <1>2, <3>1, <3>2, <3>3 DEF CoverageInv
  <2> QED
    BY <1>2, <2>2, <2>3, <2>4, <2>5 DEF CoverageNext
<1> QED
  BY <1>1, <1>2, PTL DEF CoverageSpec

(* passes_range and the vector filter: one predicate, and it is overlap. *)
THEOREM FiltersByDays == CoverageSpec => []RangeIsOverlap
<1>1. CoverageInv => RangeIsOverlap
  <2> SUFFICES ASSUME CoverageInv, query # Absent
               PROVE  /\ reply.lexical = reply.semantic
                      /\ TextUpTo(RangeStart(query.from), RangeEnd(query.to)) =>
                           (reply.lexical <=>
                              \/ date.confidence = "unknown"
                              \/ \E day \in PeriodDays(date) : InRange(day, query.from, query.to))
    BY DEF RangeIsOverlap
  <2>1. PICK from \in Specs, to \in Specs :
          query = [from |-> from, to |-> to] /\ reply = Answered(from, to)
    BY DEF CoverageInv, AnsweredAsAsked
  <2>2. query.from = from /\ query.to = to
    BY <2>1
  <2>3. /\ reply.lexical = PassesRange(date, from, to)
        /\ reply.semantic = PassesVector(date, from, to)
    BY <2>1 DEF Answered
  <2>4. PassesRange(date, from, to) \in BOOLEAN /\ PassesVector(date, from, to) \in BOOLEAN
    BY DEF PassesRange, PassesVector
  <2>5. date \in Dates
    BY DEF CoverageInv
  <2>6. PassesRange(date, from, to) = PassesVector(date, from, to)
    BY <2>4, <2>5, FiltersAgree, CoverageAssumption
  <2> QED
    BY <2>2, <2>3, <2>5, <2>6, FiltersAgree, CoverageAssumption
<1> QED
  BY <1>1, CoverageInvariance, PTL

(* What NoteRecord keeps of a digest, and what _covered credits of it. *)
LEMMA CreditedWindow ==
  ASSUME CoverageInv, NEW from, NEW to, NEW w \in Covered(note, from, to)
  PROVE  /\ note # Absent /\ fresh /\ note.type = "digest" /\ note.complete = "true"
         /\ w = note.window /\ TextUpTo(w.from, w.to) /\ w \notin {Absent, Bad}
<1>1. /\ note # Absent /\ w = NoteRecord(note).window /\ Eligible(NoteRecord(note))
  BY DEF Covered
<1>2. /\ NoteRecord(note).type = note.type
      /\ NoteRecord(note).window = ValidWindow(note.window)
      /\ NoteRecord(note).rev =
           IF note.type = "digest" /\ note.rev # Bad THEN note.rev ELSE Absent
      /\ NoteRecord(note).complete = "true" => note.complete = "true"
  BY DEF NoteRecord
<1>3. note.type = "digest" /\ w # Absent /\ note.complete = "true" /\ NoteRecord(note).rev = token
  BY <1>1, <1>2 DEF Eligible
<1>4. w = note.window /\ TextUpTo(w.from, w.to) /\ w \notin {Absent, Bad}
  BY <1>1, <1>2, <1>3 DEF ValidWindow
<1>5. token # Absent
  BY CoverageAssumption DEF CoverageAssumption, CoverageInv
<1>6. note.rev = token
  BY <1>2, <1>3, <1>5
<1>7. fresh
  BY <1>1, <1>6 DEF CoverageInv, SavedAsRead
<1> QED
  BY <1>1, <1>3, <1>4, <1>7

LEMMA WindowDays ==
  ASSUME CoverageInv, note # Absent, note.window \notin {Absent, Bad}
  PROVE  IsRealDay(note.window.from) /\ IsRealDay(note.window.to)
<1>1. PICK front \in Fronts : note.window = front.window
  BY DEF CoverageInv, SavedAsRead
<1> QED
  BY <1>1, CoverageAssumption, DayIsNamed DEF CoverageAssumption

(* _covered and _plan_candidates: only a day a current digest has read. *)
THEOREM WithheldAsRead == CoverageSpec => []SuppressedIsRead
<1>1. CoverageInv => SuppressedIsRead
  <2> SUFFICES ASSUME CoverageInv, query # Absent, reply.suppressed
               PROVE  /\ fresh
                      /\ date.confidence = "exact"
                      /\ note.type = "digest" /\ note.complete = "true"
                      /\ TextUpTo(note.window.from, date.iso)
                      /\ TextUpTo(date.iso, note.window.to)
    BY DEF SuppressedIsRead
  <2>1. PICK from \in Specs, to \in Specs : reply = Answered(from, to)
    BY DEF CoverageInv, AnsweredAsAsked
  <2>2. IsCovered(Row(date), AsNumbers(Covered(note, from, to)))
    BY <2>1 DEF Answered
  <2>3. /\ date.confidence = "exact"
        /\ \E w \in AsNumbers(Covered(note, from, to)) :
             w.from <= Row(date).iso /\ Row(date).iso <= w.to
    BY <2>2 DEF IsCovered, Row
  <2>4. PICK w \in Covered(note, from, to) :
          DayNumber(w.from) <= DayNumber(date.iso) /\ DayNumber(date.iso) <= DayNumber(w.to)
    BY <2>3 DEF AsNumbers, Row
  <2>5. /\ note # Absent /\ fresh /\ note.type = "digest" /\ note.complete = "true"
        /\ w = note.window /\ w \notin {Absent, Bad}
    BY CreditedWindow
  <2>6. IsDay(w.from) /\ IsDay(w.to)
    BY <2>5, WindowDays DEF IsRealDay
  <2>7. IsDay(date.iso)
    BY <2>3, CoverageAssumption, DayIsNamed DEF CoverageInv, CoverageAssumption, IsRealDay
  <2>8. TextUpTo(w.from, date.iso) /\ TextUpTo(date.iso, w.to)
    BY <2>4, <2>6, <2>7, DaysInOrder
  <2> QED
    BY <2>3, <2>5, <2>8
<1> QED
  BY <1>1, CoverageInvariance, PTL

(* A window that shares a day with a range given to the day overlaps it by the
   texts the caller gave. *)
LEMMA SharedDayOverlaps ==
  ASSUME CoverageAssumption, NEW from \in Specs, NEW to \in Specs, to # Absent, Len(to) = 3,
         NEW w, IsRealDay(w.from), IsRealDay(w.to),
         NEW day, IsRealDay(day), Earlier(w.from, day), Earlier(day, w.to),
         InRange(day, from, to)
  PROVE  WindowsOverlap(w, from, to)
<1>1. /\ IsDay(w.from) /\ IsDay(w.to) /\ IsDay(day)
      /\ IsDay(RangeStart(from)) /\ IsDay(RangeEnd(to))
      /\ Earlier(RangeStart(from), day) /\ Earlier(day, RangeEnd(to))
  BY RangeEnds DEF IsRealDay
<1>2. Earlier(w.from, RangeEnd(to)) /\ Earlier(RangeStart(from), w.to)
  BY <1>1, DayOrder
<1>3. RangeEnd(to) = to
  BY DEF RangeEnd, SpecBounds
<1>4. TextUpTo(w.from, to)
  BY <1>1, <1>2, <1>3, DaysInOrder
<1>5. TextUpTo(IF from = Absent THEN <<0, 1, 1>> ELSE from, w.to)
  <2>1. CASE from = Absent
    <3>1. TextUpTo(<<0, 1, 1>>, w.to)
      BY <1>1, <1>2, <2>1, DaysInOrder DEF RangeStart
    <3> QED
      BY <2>1, <3>1
  <2>2. CASE from # Absent
    <3>1. TextUpTo(from, w.to)
      BY <1>2, <2>2, SpecAsDays DEF CoverageAssumption, RangeStart
    <3> QED
      BY <2>2, <3>1
  <2> QED
    BY <2>1, <2>2
<1> QED
  BY <1>4, <1>5 DEF WindowsOverlap

(* CoversRange, in each of its forms, is a day in the window and in the range. *)
LEMMA SharedDay ==
  ASSUME CoverageInv, query # Absent, CoversRange
  PROVE  \E day : /\ IsRealDay(day) /\ InRange(day, query.from, query.to)
                  /\ Earlier(note.window.from, day) /\ Earlier(day, note.window.to)
<1>1. PICK from \in Specs, to \in Specs : query = [from |-> from, to |-> to]
  BY DEF CoverageInv, AnsweredAsAsked
<1>2. IsRealDay(note.window.from) /\ IsRealDay(note.window.to)
  BY WindowDays DEF CoversRange
<1>3. IsDay(note.window.from) /\ IsDay(note.window.to)
  BY <1>2 DEF IsRealDay
<1>4. Earlier(note.window.from, note.window.to)
  BY <1>3, DaysInOrder DEF CoversRange
<1>5. CASE InRange(note.window.from, query.from, query.to)
  BY <1>2, <1>3, <1>4, <1>5, DayOrder
<1>6. CASE InRange(note.window.to, query.from, query.to)
  BY <1>2, <1>3, <1>4, <1>6, DayOrder
<1>7. ASSUME query.from # Absent, NEW day \in DaysOf(query.from),
             TextUpTo(note.window.from, day), TextUpTo(day, note.window.to),
             InRange(day, query.from, query.to)
      PROVE  /\ IsRealDay(day)
             /\ Earlier(note.window.from, day) /\ Earlier(day, note.window.to)
  <2>1. query.from \in Seq(Nat) /\ Named(query.from)
    BY <1>1, <1>7, CoverageAssumption DEF CoverageAssumption
  <2>2. IsRealDay(day) /\ IsDay(day)
    BY <2>1, DaysBetween DEF IsRealDay
  <2> QED
    BY <1>3, <1>7, <2>2, DaysInOrder
<1> QED
  BY <1>5, <1>6, <1>7 DEF CoversRange

(* _covered: a current, complete digest with a day in the range is reported. *)
THEOREM DigestsReported == CoverageSpec => []CoverageReportedForDays
<1>1. CoverageInv => CoverageReportedForDays
  <2> SUFFICES ASSUME CoverageInv, query # Absent, query.to # Absent, Len(query.to) = 3,
                      CoversRange
               PROVE  reply.covered = {note.window}
    BY DEF CoverageReportedForDays, CoverageReported
  <2>1. PICK from \in Specs, to \in Specs :
          query = [from |-> from, to |-> to] /\ reply = Answered(from, to)
    BY DEF CoverageInv, AnsweredAsAsked
  <2>2. query.from = from /\ query.to = to /\ reply.covered = Covered(note, from, to)
    BY <2>1 DEF Answered
  <2>3. /\ note # Absent /\ fresh /\ note.type = "digest" /\ note.complete = "true"
        /\ note.window \notin {Absent, Bad}
        /\ TextUpTo(note.window.from, note.window.to)
    BY DEF CoversRange
  <2>4. PICK rev \in (0..token) \cup {Absent, Bad} : note.rev = rev /\ (fresh <=> rev = token)
    BY <2>3 DEF CoverageInv, SavedAsRead
  <2>5. note.rev = token /\ token # Absent /\ token # Bad
    BY <2>3, <2>4, CoverageAssumption DEF CoverageAssumption, CoverageInv
  <2>6. /\ NoteRecord(note).type = "digest" /\ NoteRecord(note).window = note.window
        /\ NoteRecord(note).rev = token /\ NoteRecord(note).complete = "true"
    <3>1. ValidWindow(note.window) = note.window
      BY <2>3 DEF ValidWindow
    <3> QED
      BY <2>3, <2>5, <3>1 DEF NoteRecord
  <2>7. Eligible(NoteRecord(note))
    BY <2>3, <2>6 DEF Eligible
  <2>8. WindowsOverlap(note.window, from, to)
    <3>1. PICK day : /\ IsRealDay(day) /\ InRange(day, from, to)
                     /\ Earlier(note.window.from, day) /\ Earlier(day, note.window.to)
      BY <2>2, SharedDay
    <3> QED
      BY <2>2, <2>3, <3>1, SharedDayOverlaps, WindowDays, CoverageAssumption
  <2> QED
    BY <2>2, <2>3, <2>6, <2>7, <2>8 DEF Covered
<1> QED
  BY <1>1, CoverageInvariance, PTL
-----------------------------------------------------------------------------
(***************************************************************************)
(* Reader assignments.                                                     *)
(***************************************************************************)
(* A nonempty set of naturals has a least element. *)
LEMMA LeastNatural ==
  ASSUME NEW S \in SUBSET Nat, S # {}
  PROVE  \E m \in S : \A x \in S : m <= x
<1> DEFINE R == {ss \in Nat \X Nat : ss[1] < ss[2]}
<1>1. IsWellFoundedOn(R, Nat)
  BY NatLessThanWellFounded, Zenon DEF OpToRel
<1>2. PICK m \in S : \A y \in S : ~(<<y, m>> \in R)
  BY <1>1, WFMin
<1>3. \A y \in S : ~(y < m)
  BY <1>2
<1> QED
  BY <1>3

(* What holds before a loop and is kept by its steps holds to its end. *)
LEMMA UpTo ==
  ASSUME NEW n \in Nat, NEW S, 0 \in S, \A i \in 0..n : i + 1 <= n /\ i \in S => i + 1 \in S
  PROVE  \A i \in 0..n : i \in S
<1> DEFINE T == {i \in 0..n : i \notin S}
<1> SUFFICES ASSUME T # {} PROVE FALSE
  OBVIOUS
<1>1. T \in SUBSET Nat
  OBVIOUS
<1>2. PICK m \in T : \A x \in T : m <= x
  BY <1>1, LeastNatural
<1>3. m \in 0..n /\ m \notin S /\ m # 0
  BY <1>2
<1>4. m - 1 \in 0..n /\ m - 1 \notin T
  BY <1>2, <1>3
<1>5. m - 1 \in S /\ (m - 1) + 1 = m
  BY <1>3, <1>4
<1> QED
  BY <1>3, <1>4, <1>5

\* A loop of n steps over the values X: f[i] is its value after step i.
IsRun(f, X, base, n, step) ==
  f \in [0..n -> X] /\ f[0] = base /\ \A i \in 1..n : f[i] = step[<<f[i - 1], i>>]

(* Every loop has a run. *)
LEMMA LoopRuns ==
  ASSUME NEW X, NEW base \in X, NEW n \in Nat, NEW step \in [X \X (1..n) -> X]
  PROVE  \E f : IsRun(f, X, base, n, step)
<1> DEFINE Runs(k) == \E f \in [0..k -> X] :
                        f[0] = base /\ \A i \in 1..k : f[i] = step[<<f[i - 1], i>>]
           S == {k \in 0..n : ~Runs(k)}
<1>1. Runs(0)
  <2> DEFINE f == [i \in 0..0 |-> base]
  <2>1. f \in [0..0 -> X] /\ f[0] = base /\ \A i \in 1..0 : f[i] = step[<<f[i - 1], i>>]
    OBVIOUS
  <2> QED
    BY <2>1
<1>2. ASSUME NEW k \in Nat, k + 1 <= n, Runs(k)
      PROVE  Runs(k + 1)
  <2>1. PICK f \in [0..k -> X] :
          f[0] = base /\ \A i \in 1..k : f[i] = step[<<f[i - 1], i>>]
    BY <1>2
  <2>2. step[<<f[k], k + 1>>] \in X
    BY <1>2, <2>1
  <2> DEFINE g == [i \in 0..(k + 1) |-> IF i = k + 1 THEN step[<<f[k], k + 1>>] ELSE f[i]]
  <2>3. g \in [0..(k + 1) -> X]
    BY <2>1, <2>2
  <2>4. g[0] = base
    BY <2>1
  <2>5. ASSUME NEW i \in 1..(k + 1)
        PROVE  g[i] = step[<<g[i - 1], i>>]
    <3>1. i - 1 \in 0..k /\ i - 1 # k + 1 /\ g[i - 1] = f[i - 1]
      OBVIOUS
    <3>2. CASE i = k + 1
      <4>1. i - 1 = k /\ g[i] = step[<<f[k], k + 1>>]
        BY <3>2
      <4> QED
        BY <3>1, <3>2, <4>1
    <3>3. CASE i # k + 1
      <4>1. i \in 1..k /\ g[i] = f[i]
        BY <3>3
      <4> QED
        BY <2>1, <3>1, <4>1
    <3> QED
      BY <3>2, <3>3
  <2> HIDE DEF g
  <2> QED
    BY <2>3, <2>4, <2>5
<1> HIDE DEF Runs
<1>3. S = {}
  <2> SUFFICES ASSUME S # {} PROVE FALSE
    OBVIOUS
  <2>1. S \in SUBSET Nat
    OBVIOUS
  <2>2. PICK m \in S : \A x \in S : m <= x
    BY <2>1, LeastNatural
  <2>3. m # 0 /\ m \in 0..n /\ ~Runs(m)
    BY <1>1, <2>2
  <2>4. m - 1 \in Nat /\ m - 1 <= n /\ m - 1 \notin S
    BY <2>2, <2>3
  <2>5. Runs(m - 1)
    BY <2>3, <2>4
  <2>6. Runs((m - 1) + 1)
    BY <1>2, <2>3, <2>4, <2>5
  <2> QED
    BY <2>3, <2>6
<1>4. Runs(n)
  BY <1>3
<1> QED
  BY <1>4 DEF Runs, IsRun

-----------------------------------------------------------------------------
\* An index: its refs, and records of theirs.
IsIndex(index) ==
  /\ DOMAIN index \subseteq Nat /\ IsFiniteSet(DOMAIN index)
  /\ \A r \in DOMAIN index : index[r] \in Record

Precedes(index, r, s) == KeyBefore(PlanKey(index, r), PlanKey(index, s))

(* The plan order is an order of the refs, one before the other. *)
LEMMA PlanOrder ==
  ASSUME NEW index, IsIndex(index)
  PROVE  /\ \A r \in DOMAIN index : ~Precedes(index, r, r)
         /\ \A r, s \in DOMAIN index : r # s => Precedes(index, r, s) \/ Precedes(index, s, r)
         /\ \A r, s, t \in DOMAIN index :
              Precedes(index, r, s) /\ Precedes(index, s, t) => Precedes(index, r, t)
<1> DEFINE late(r) == IF index[r].unknown THEN 1 ELSE 0
<1>1. \A r \in DOMAIN index : r \in Nat /\ index[r].iso \in Nat /\ late(r) \in Nat
  BY DEF IsIndex, Record
<1> HIDE DEF late
<1>2. ASSUME NEW r \in DOMAIN index, NEW s \in DOMAIN index
      PROVE  Precedes(index, r, s) <=>
               \/ late(r) < late(s)
               \/ late(r) = late(s) /\ index[r].iso < index[s].iso
               \/ late(r) = late(s) /\ index[r].iso = index[s].iso /\ r < s
  <2> DEFINE k == <<late(r), index[r].iso, r>>
             l == <<late(s), index[s].iso, s>>
  <2>1. Precedes(index, r, s) <=> \E i \in 1..3 : k[i] < l[i] /\ \A j \in 1..i-1 : k[j] = l[j]
    BY DEF Precedes, KeyBefore, PlanKey, late
  <2>2. /\ (\A j \in 1..1-1 : k[j] = l[j])
        /\ ((\A j \in 1..2-1 : k[j] = l[j]) <=> k[1] = l[1])
        /\ ((\A j \in 1..3-1 : k[j] = l[j]) <=> k[1] = l[1] /\ k[2] = l[2])
    OBVIOUS
  <2>3. 1..3 = {1, 2, 3}
    OBVIOUS
  <2> QED
    BY <2>1, <2>2, <2>3
<1> QED
  BY <1>1, <1>2

\* A listing of refs in plan order.
Lists(index, list, refs) ==
  /\ list \in [1..Cardinality(refs) -> refs]
  /\ \A i, j \in DOMAIN list : i < j => Precedes(index, list[i], list[j])

(* Any refs can be put in plan order, and all of them are listed. *)
LEMMA InOrderLists ==
  ASSUME NEW index, IsIndex(index), NEW refs \in SUBSET DOMAIN index
  PROVE  /\ Lists(index, InOrder(index, refs), refs)
         /\ \A r \in refs : \E i \in DOMAIN InOrder(index, refs) : InOrder(index, refs)[i] = r
<1> DEFINE n == Cardinality(refs)
           upTo(r) == {s \in refs : s = r \/ Precedes(index, s, r)}
           rank == [r \in refs |-> Cardinality(upTo(r))]
<1>1. IsFiniteSet(refs) /\ n \in Nat
  BY FS_Subset, FS_CardinalityType DEF IsIndex
<1>2. ASSUME NEW r \in refs
      PROVE  IsFiniteSet(upTo(r)) /\ Cardinality(upTo(r)) \in 1..n
  <2>1. upTo(r) \in SUBSET refs /\ r \in upTo(r)
    OBVIOUS
  <2> HIDE DEF upTo
  <2>2. IsFiniteSet(upTo(r)) /\ Cardinality(upTo(r)) <= n /\ Cardinality(upTo(r)) \in Nat
    BY <1>1, <2>1, FS_Subset, FS_CardinalityType
  <2>3. Cardinality(upTo(r)) # 0
    BY <2>1, <2>2, FS_EmptySet
  <2> QED
    BY <1>1, <2>2, <2>3
<1>3. ASSUME NEW r \in refs, NEW s \in refs, Precedes(index, r, s)
      PROVE  rank[r] < rank[s]
  <2>1. upTo(r) \in SUBSET upTo(s)
    BY <1>3, PlanOrder
  <2>2. s \in upTo(s) /\ s \notin upTo(r)
    <3>1. ~Precedes(index, s, r) /\ s # r
      BY <1>3, PlanOrder
    <3> QED
      BY <3>1
  <2> HIDE DEF upTo
  <2>3. /\ IsFiniteSet(upTo(s)) /\ Cardinality(upTo(r)) <= Cardinality(upTo(s))
        /\ Cardinality(upTo(r)) # Cardinality(upTo(s))
    BY <1>2, <2>1, <2>2, FS_Subset
  <2>4. Cardinality(upTo(r)) \in Nat /\ Cardinality(upTo(s)) \in Nat
    BY <1>2
  <2> QED
    BY <2>3, <2>4
<1>4. rank \in Injection(refs, 1..n)
  <2>1. rank \in [refs -> 1..n]
    BY <1>2
  <2>2. ASSUME NEW r \in refs, NEW s \in refs, r # s PROVE rank[r] # rank[s]
    <3>1. rank[r] \in Nat /\ rank[s] \in Nat
      BY <2>1
    <3> HIDE DEF rank
    <3> QED
      BY <1>3, <2>2, <3>1, PlanOrder
  <2> QED
    BY <2>1, <2>2 DEF Injection, IsInjective
<1>5. rank \in Surjection(refs, 1..n)
  <2>1. IsFiniteSet(1..n) /\ Cardinality(1..n) = n
    BY <1>1, FS_Interval
  <2> HIDE DEF rank
  <2> QED
    BY <1>1, <1>4, <2>1, FS_Injection
<1>6. rank \in [refs -> 1..n] /\ \A i \in 1..n : \E r \in refs : rank[r] = i
  BY <1>4, <1>5 DEF Surjection, Injection
<1> HIDE DEF rank
<1> DEFINE list == [i \in 1..n |-> CHOOSE r \in refs : rank[r] = i]
<1>7. \A i \in 1..n : list[i] \in refs /\ rank[list[i]] = i
  BY <1>6
<1>8. list \in [1..n -> refs] /\ DOMAIN list = 1..n
  BY <1>7
<1>9. Lists(index, list, refs)
  <2>1. ASSUME NEW i \in 1..n, NEW j \in 1..n, i < j
        PROVE  Precedes(index, list[i], list[j])
    <3>1. list[i] # list[j] /\ list[i] \in refs /\ list[j] \in refs
          /\ rank[list[i]] = i /\ rank[list[j]] = j
      BY <1>7, <2>1
    <3>2. ~Precedes(index, list[j], list[i])
      BY <1>3, <2>1, <3>1
    <3> QED
      BY <3>1, <3>2, PlanOrder
  <2> HIDE DEF list
  <2> QED
    BY <1>8, <2>1 DEF Lists
<1> HIDE DEF list
<1>10. Lists(index, InOrder(index, refs), refs)
  BY <1>9 DEF Lists, InOrder, Precedes
<1> DEFINE chosen == InOrder(index, refs)
<1>11. chosen \in Injection(1..n, refs)
  <2>1. chosen \in [1..n -> refs] /\ \A i, j \in 1..n : i < j => Precedes(index, chosen[i], chosen[j])
    BY <1>10 DEF Lists
  <2>2. ASSUME NEW i \in 1..n, NEW j \in 1..n, i # j PROVE chosen[i] # chosen[j]
    <3>1. i < j \/ j < i
      BY <2>2
    <3>2. chosen[i] \in DOMAIN index
      BY <2>1
    <3> HIDE DEF chosen
    <3> QED
      BY <2>1, <3>1, <3>2, PlanOrder
  <2> QED
    BY <2>1, <2>2 DEF Injection, IsInjective
<1>12. chosen \in Surjection(1..n, refs)
  <2>1. IsFiniteSet(1..n) /\ Cardinality(1..n) = n
    BY <1>1, FS_Interval
  <2> HIDE DEF chosen
  <2> QED
    BY <1>1, <1>11, <2>1, FS_Injection
<1> QED
  BY <1>10, <1>12 DEF Surjection

(* There is but one listing of a set. *)
LEMMA ListingsAgree ==
  ASSUME NEW index, IsIndex(index), NEW refs \in SUBSET DOMAIN index, NEW p, NEW q,
         Lists(index, p, refs), \A r \in refs : \E i \in DOMAIN p : p[i] = r,
         Lists(index, q, refs), \A r \in refs : \E i \in DOMAIN q : q[i] = r
  PROVE  p = q
<1> DEFINE n == Cardinality(refs)
           differing == {i \in 1..n : p[i] # q[i]}
<1>1. n \in Nat
  BY FS_Subset, FS_CardinalityType DEF IsIndex
<1>2. /\ p \in [1..n -> refs] /\ q \in [1..n -> refs]
      /\ \A i, j \in 1..n : i < j => Precedes(index, p[i], p[j]) /\ Precedes(index, q[i], q[j])
  BY DEF Lists
<1> HIDE DEF n
<1>3. ASSUME NEW f, NEW g, f \in [1..n -> refs], g \in [1..n -> refs],
             \A i, j \in 1..n : i < j => Precedes(index, f[i], f[j]) /\ Precedes(index, g[i], g[j]),
             \A r \in refs : \E i \in 1..n : f[i] = r,
             NEW m \in 1..n, \A i \in 1..n : i < m => f[i] = g[i], f[m] # g[m]
      PROVE  Precedes(index, f[m], g[m])
  <2>1. PICK j \in 1..n : f[j] = g[m]
    BY <1>3
  <2>2. j # m
    BY <1>3, <2>1
  <2>3. ~(j < m)
    <3>1. SUFFICES ASSUME j < m PROVE FALSE
      OBVIOUS
    <3>2. g[j] = g[m] /\ Precedes(index, g[j], g[m]) /\ g[m] \in DOMAIN index
      BY <1>3, <2>1, <3>1
    <3> QED
      BY <3>2, PlanOrder
  <2>4. m < j
    BY <2>2, <2>3
  <2> QED
    BY <1>3, <2>1, <2>4
<1>4. differing = {}
  <2>1. SUFFICES ASSUME differing # {} PROVE FALSE
    OBVIOUS
  <2>2. PICK m \in differing : \A i \in differing : m <= i
    <3>1. differing \in SUBSET Nat
      OBVIOUS
    <3> HIDE DEF differing
    <3> QED
      BY <2>1, <3>1, LeastNatural
  <2>3. m \in 1..n /\ p[m] # q[m] /\ \A i \in 1..n : i < m => p[i] = q[i]
    BY <1>1, <2>2
  <2>4. DOMAIN p = 1..n /\ DOMAIN q = 1..n
    BY <1>2
  <2>5. Precedes(index, p[m], q[m])
    BY <1>2, <1>3, <2>3, <2>4
  <2>6. Precedes(index, q[m], p[m])
    BY <1>2, <1>3, <2>3, <2>4
  <2>7. p[m] \in DOMAIN index /\ q[m] \in DOMAIN index
    BY <1>2, <2>3
  <2> QED
    BY <2>5, <2>6, <2>7, PlanOrder
<1>5. \A i \in 1..n : p[i] = q[i]
  BY <1>4
<1>6. p = [i \in 1..n |-> p[i]] /\ q = [i \in 1..n |-> q[i]]
  BY <1>2
<1> QED
  BY <1>5, <1>6

LEMMA CandidatesListed ==
  ASSUME NEW index, IsIndex(index), NEW covered
  PROVE  LET all == Candidates(index, covered)
         IN /\ all \in Seq(DOMAIN index)
            /\ \A i \in DOMAIN all : all[i] \in Uncovered(index, covered)
            /\ \A i, j \in DOMAIN all : i < j => Precedes(index, all[i], all[j])
            /\ \A r \in Uncovered(index, covered) : \E i \in DOMAIN all : all[i] = r
<1> DEFINE refs == Uncovered(index, covered)
           all == Candidates(index, covered)
           n == Cardinality(refs)
<1>1. refs \in SUBSET DOMAIN index
  BY DEF Uncovered
<1>2. n \in Nat
  BY <1>1, FS_Subset, FS_CardinalityType DEF IsIndex
<1>3. Lists(index, all, refs) /\ \A r \in refs : \E i \in DOMAIN all : all[i] = r
  BY <1>1, InOrderLists DEF Candidates
<1> HIDE DEF all, refs
<1>4. all \in [1..n -> refs] /\ \A i, j \in DOMAIN all : i < j => Precedes(index, all[i], all[j])
  BY <1>3 DEF Lists
<1>5. all \in Seq(DOMAIN index)
  <2>1. all \in [1..n -> DOMAIN index]
    BY <1>1, <1>4
  <2> HIDE DEF n
  <2> QED
    BY <1>2, <2>1
<1> QED
  BY <1>3, <1>4, <1>5 DEF all, refs

(* The refs between the first and the last key of a stretch are the stretch. *)
LEMMA SliceIsStretch ==
  ASSUME NEW index, IsIndex(index), NEW covered,
         NEW from \in DOMAIN Candidates(index, covered),
         NEW upTo \in from..Len(Candidates(index, covered))
  PROVE  LET all == Candidates(index, covered)
         IN Slice(index, covered, <<PlanKey(index, all[from]), PlanKey(index, all[upTo])>>)
              = SubSeq(all, from, upTo)
<1> DEFINE all == Candidates(index, covered)
           stretch == SubSeq(all, from, upTo)
           m == upTo - from + 1
           within(r) == /\ KeyUpTo(PlanKey(index, all[from]), PlanKey(index, r))
                        /\ KeyUpTo(PlanKey(index, r), PlanKey(index, all[upTo]))
           refs == {r \in Uncovered(index, covered) : within(r)}
<1>1. /\ all \in Seq(DOMAIN index)
      /\ \A i \in DOMAIN all : all[i] \in Uncovered(index, covered)
      /\ \A i, j \in DOMAIN all : i < j => Precedes(index, all[i], all[j])
      /\ \A r \in Uncovered(index, covered) : \E i \in DOMAIN all : all[i] = r
  BY CandidatesListed
<1>2. Slice(index, covered, <<PlanKey(index, all[from]), PlanKey(index, all[upTo])>>)
        = InOrder(index, refs)
  BY DEF Slice
<1>3. from \in 1..Len(all) /\ upTo \in 1..Len(all) /\ from <= upTo /\ m \in Nat \ {0}
      /\ DOMAIN all = 1..Len(all) /\ Len(all) \in Nat
  BY <1>1
<1>4. ASSUME NEW r \in DOMAIN index, NEW s \in DOMAIN index
      PROVE  KeyUpTo(PlanKey(index, r), PlanKey(index, s)) <=> r = s \/ Precedes(index, r, s)
  BY DEF KeyUpTo, PlanKey, Precedes
<1>5. ASSUME NEW i \in 1..Len(all)
      PROVE  within(all[i]) <=> i \in from..upTo
  <2> HIDE DEF all
  <2>1. all[i] \in DOMAIN index /\ all[from] \in DOMAIN index /\ all[upTo] \in DOMAIN index
    BY <1>1, <1>3
  <2>2. ASSUME i < from PROVE ~within(all[i])
    <3>1. Precedes(index, all[i], all[from])
      BY <1>1, <1>3, <2>2
    <3> QED
      BY <1>4, <2>1, <3>1, PlanOrder
  <2>3. ASSUME upTo < i PROVE ~within(all[i])
    <3>1. Precedes(index, all[upTo], all[i])
      BY <1>1, <1>3, <2>3
    <3> QED
      BY <1>4, <2>1, <3>1, PlanOrder
  <2>4. ASSUME i \in from..upTo PROVE within(all[i])
    <3>3. (i = from \/ from < i) /\ (i = upTo \/ i < upTo)
      BY <1>3, <2>4
    <3>1. i = from \/ Precedes(index, all[from], all[i])
      BY <1>1, <1>3, <3>3
    <3>2. i = upTo \/ Precedes(index, all[i], all[upTo])
      BY <1>1, <1>3, <3>3
    <3> QED
      BY <1>4, <2>1, <3>1, <3>2
  <2> QED
    BY <1>3, <2>2, <2>3, <2>4
<1> HIDE DEF within
<1>6. /\ stretch \in Seq(DOMAIN index) /\ Len(stretch) = m
      /\ \A k \in 1..m : stretch[k] = all[from + k - 1]
  <2>1. \A i \in from..upTo : all[i] \in DOMAIN index
    BY <1>1, <1>3
  <2> HIDE DEF all
  <2> QED
    BY <1>3, <2>1, SubSeqProperties
<1>7. \A r \in refs : \E i \in from..upTo : all[i] = r
  <2>1. TAKE r \in refs
  <2>2. PICK i \in 1..Len(all) : all[i] = r
    BY <1>1, <1>3
  <2> QED
    BY <1>5, <2>2
<1>8. \A i \in from..upTo : all[i] \in refs
  <2>1. TAKE i \in from..upTo
  <2>2. i \in 1..Len(all)
    BY <1>3
  <2> QED
    BY <1>1, <1>3, <1>5, <2>2
<1> HIDE DEF refs, all, stretch
<1>9. \A k \in 1..m : from + k - 1 \in from..upTo /\ from + k - 1 \in 1..Len(all)
  BY <1>3
<1>10. \A i \in from..upTo : i - from + 1 \in 1..m /\ from + (i - from + 1) - 1 = i
  BY <1>3
<1>11. stretch \in [1..m -> refs] /\ DOMAIN stretch = 1..m
  <2>1. DOMAIN stretch = 1..m /\ stretch = [k \in 1..m |-> stretch[k]]
    BY <1>6
  <2>2. \A k \in 1..m : stretch[k] \in refs
    BY <1>6, <1>8, <1>9
  <2> QED
    BY <2>1, <2>2
<1>12. \A i, j \in 1..m : i < j => Precedes(index, stretch[i], stretch[j])
  <2>1. TAKE i, j \in 1..m
  <2>2. HAVE i < j
  <2>3. from + i - 1 < from + j - 1
    BY <1>3, <2>2
  <2> QED
    BY <1>1, <1>3, <1>6, <1>9, <2>3
<1>13. \A r \in refs : \E k \in 1..m : stretch[k] = r
  <2>1. TAKE r \in refs
  <2>2. PICK i \in from..upTo : all[i] = r
    BY <1>7
  <2> QED
    BY <1>6, <1>10, <2>2
<1>14. refs \in SUBSET DOMAIN index
  BY DEF refs, Uncovered
<1>15. Cardinality(refs) = m
  <2>1. ASSUME NEW i \in 1..m, NEW j \in 1..m, i # j PROVE stretch[i] # stretch[j]
    <3>1. i < j \/ j < i
      BY <1>3, <2>1
    <3>2. stretch[i] \in DOMAIN index
      BY <1>11, <1>14
    <3> QED
      BY <1>12, <3>1, <3>2, PlanOrder
  <2>2. stretch \in Injection(1..m, refs) /\ stretch \in Surjection(1..m, refs)
    BY <1>11, <1>13, <2>1 DEF Injection, IsInjective, Surjection
  <2>3. IsFiniteSet(1..m) /\ Cardinality(1..m) = m
    <3>1. m \in Int /\ 1 \in Int /\ ~(1 > m) /\ m - 1 + 1 = m
      BY <1>3
    <3> HIDE DEF m
    <3> QED
      BY <3>1, FS_Interval
  <2>4. Cardinality(refs) = Cardinality(1..m)
    BY <2>2, <2>3, FS_Surjection
  <2> QED
    BY <2>3, <2>4
<1>16. Lists(index, stretch, refs)
  BY <1>11, <1>12, <1>15 DEF Lists
<1>17. InOrder(index, refs) = stretch
  <2>1. \A r \in refs : \E k \in DOMAIN stretch : stretch[k] = r
    BY <1>11, <1>13
  <2>2. Lists(index, InOrder(index, refs), refs)
        /\ \A r \in refs : \E i \in DOMAIN InOrder(index, refs) : InOrder(index, refs)[i] = r
    BY <1>14, InOrderLists
  <2> QED
    BY <1>14, <1>16, <2>1, <2>2, ListingsAgree
<1> QED
  BY <1>2, <1>17 DEF stretch, all
-----------------------------------------------------------------------------
(* The loops of the plan, step by step. *)
LEMMA TokensAddUp ==
  ASSUME NEW index, IsIndex(index), NEW refs \in Seq(DOMAIN index)
  PROVE  \E sum : /\ sum \in [0..Len(refs) -> Nat] /\ sum[0] = 0
                  /\ \A k \in 1..Len(refs) : sum[k] = sum[k - 1] + index[refs[k]].tokens
                  /\ Tokens(index, refs) = sum[Len(refs)]
<1> DEFINE n == Len(refs)
           cost(k) == index[refs[k]].tokens
           step == [p \in Nat \X (1..n) |-> p[1] + cost(p[2])]
           Sums(f) == f = [k \in 0..n |-> IF k = 0 THEN 0 ELSE f[k - 1] + cost(k)]
<1>1. n \in Nat /\ \A k \in 1..n : cost(k) \in Nat
  <2>1. \A k \in 1..n : refs[k] \in DOMAIN index
    OBVIOUS
  <2> QED
    BY <2>1 DEF IsIndex, Record
<1> DEFINE sum == CHOOSE f : Sums(f)
<1>2. Tokens(index, refs) = sum[n]
  BY DEF Tokens
<1> HIDE DEF n, cost
<1>3. step \in [Nat \X (1..n) -> Nat]
  BY <1>1
<1>4. PICK f : IsRun(f, Nat, 0, n, step)
  <2> HIDE DEF step
  <2> QED
    BY <1>1, <1>3, LoopRuns
<1>5. f \in [0..n -> Nat] /\ f[0] = 0 /\ \A k \in 1..n : f[k] = f[k - 1] + cost(k)
  <2>1. \A k \in 1..n : <<f[k - 1], k>> \in Nat \X (1..n)
    BY <1>1, <1>4 DEF IsRun
  <2> QED
    BY <1>4, <2>1 DEF IsRun
<1>6. (\A k \in 0..n : k # 0 => k \in 1..n) /\ (\A k \in 1..n : k # 0 /\ k \in 0..n) /\ 0 \in 0..n
  BY <1>1
<1>7. Sums(f)
  <2> DEFINE g == [k \in 0..n |-> IF k = 0 THEN 0 ELSE f[k - 1] + cost(k)]
  <2>1. \A k \in 0..n : f[k] = g[k]
    BY <1>5, <1>6
  <2>2. f = [k \in 0..n |-> f[k]] /\ g = [k \in 0..n |-> g[k]]
    BY <1>5
  <2> QED
    BY <2>1, <2>2
<1>8. Sums(sum)
  BY <1>7
<1> HIDE DEF sum
<1>9. sum[0] = 0 /\ \A k \in 1..n : sum[k] = sum[k - 1] + cost(k)
  BY <1>6, <1>8
<1>10. \A k \in 0..n : sum[k] \in Nat
  <2> DEFINE S == {k \in 0..n : sum[k] \in Nat}
  <2>1. 0 \in S
    BY <1>6, <1>9
  <2>2. ASSUME NEW k \in 0..n, k + 1 <= n, k \in S PROVE k + 1 \in S
    <3>1. k + 1 \in 1..n /\ (k + 1) - 1 = k
      BY <1>1, <2>2
    <3>2. sum[k + 1] = sum[k] + cost(k + 1) /\ cost(k + 1) \in Nat
      BY <1>1, <1>9, <3>1
    <3> QED
      BY <1>6, <2>2, <3>1, <3>2
  <2> HIDE DEF S
  <2>3. \A k \in 0..n : k \in S
    BY <1>1, <2>1, <2>2, UpTo
  <2> QED
    BY <2>3 DEF S
<1>11. sum \in [0..n -> Nat]
  BY <1>8, <1>10
<1> QED
  BY <1>2, <1>9, <1>11 DEF n, cost

(* The tokens of a stretch, from sums over the whole. *)
LEMMA StretchTokens ==
  ASSUME NEW index, IsIndex(index), NEW all \in Seq(DOMAIN index)
  PROVE  \E total \in [0..Len(all) -> Nat] :
           /\ \A k \in 1..Len(all) : total[k] = total[k - 1] + index[all[k]].tokens
           /\ \A i \in 1..Len(all) + 1 : \A j \in i - 1..Len(all) :
                Tokens(index, SubSeq(all, i, j)) = total[j] - total[i - 1]
<1>1. PICK total : /\ total \in [0..Len(all) -> Nat] /\ total[0] = 0
                   /\ \A k \in 1..Len(all) : total[k] = total[k - 1] + index[all[k]].tokens
  BY TokensAddUp
<1>2. ASSUME NEW i \in 1..Len(all) + 1, NEW j \in i - 1..Len(all)
      PROVE  Tokens(index, SubSeq(all, i, j)) = total[j] - total[i - 1]
  <2> DEFINE s == SubSeq(all, i, j)
             m == j - i + 1
  <2>1. m \in Nat /\ Len(all) \in Nat /\ i - 1 \in 0..Len(all) /\ i - 1 \in Nat
    OBVIOUS
  <2>2. s \in Seq(DOMAIN index) /\ Len(s) = m /\ \A k \in 1..m : s[k] = all[(i - 1) + k]
    <3>1. \A k \in i..j : all[k] \in DOMAIN index
      OBVIOUS
    <3>2. /\ s \in Seq(DOMAIN index) /\ Len(s) = IF i <= j THEN j - i + 1 ELSE 0
          /\ \A k \in 1..j - i + 1 : s[k] = all[i + k - 1]
      BY <3>1, SubSeqProperties
    <3>3. \A k \in 1..m : i + k - 1 = (i - 1) + k
      OBVIOUS
    <3> QED
      BY <3>2, <3>3
  <2> HIDE DEF s
  <2>3. PICK sum : /\ sum \in [0..m -> Nat] /\ sum[0] = 0
                   /\ \A k \in 1..m : sum[k] = sum[k - 1] + index[s[k]].tokens
                   /\ Tokens(index, s) = sum[m]
    <3>1. \E sum : /\ sum \in [0..Len(s) -> Nat] /\ sum[0] = 0
                   /\ \A k \in 1..Len(s) : sum[k] = sum[k - 1] + index[s[k]].tokens
                   /\ Tokens(index, s) = sum[Len(s)]
      BY <2>2, TokensAddUp
    <3> HIDE DEF m
    <3> QED
      BY <2>2, <3>1
  <2>4. j = (i - 1) + m /\ \A k \in 0..m : (i - 1) + k \in 0..Len(all)
    OBVIOUS
  <2> HIDE DEF m
  <2> DEFINE S == {k \in 0..m : sum[k] = total[(i - 1) + k] - total[i - 1]}
  <2>5. 0 \in S
    <3>1. (i - 1) + 0 = i - 1 /\ total[i - 1] \in Nat /\ 0 \in 0..m
      <4>1. (i - 1) + 0 = i - 1 /\ 0 \in 0..m
        BY <2>1
      <4>2. total[i - 1] \in Nat
        BY <1>1, <2>1
      <4> QED
        BY <4>1, <4>2
    <3>2. sum[0] = total[(i - 1) + 0] - total[i - 1]
      BY <2>3, <3>1
    <3> QED
      BY <3>1, <3>2
  <2>6. ASSUME NEW k \in 0..m, k + 1 <= m, k \in S PROVE k + 1 \in S
    <3>1. /\ k + 1 \in 1..m /\ (k + 1) - 1 = k /\ (i - 1) + (k + 1) \in 1..Len(all)
          /\ ((i - 1) + (k + 1)) - 1 = (i - 1) + k
      BY <2>1, <2>4, <2>6
    <3>2. sum[k + 1] = sum[k] + index[all[(i - 1) + (k + 1)]].tokens
      BY <2>2, <2>3, <3>1
    <3>3. total[(i - 1) + (k + 1)] = total[(i - 1) + k] + index[all[(i - 1) + (k + 1)]].tokens
      BY <1>1, <3>1
    <3>4. /\ total[i - 1] \in Nat /\ total[(i - 1) + k] \in Nat
          /\ index[all[(i - 1) + (k + 1)]].tokens \in Nat
      <4>1. all[(i - 1) + (k + 1)] \in DOMAIN index
        BY <3>1
      <4> QED
        BY <1>1, <2>1, <2>4, <4>1 DEF IsIndex, Record
    <3> DEFINE t == index[all[(i - 1) + (k + 1)]].tokens
               T0 == total[i - 1]
               T1 == total[(i - 1) + k]
    <3>5. sum[k] = T1 - T0
      BY <2>6
    <3> HIDE DEF t, T0, T1
    <3>6. sum[k] + t = (T1 + t) - T0
      BY <3>4, <3>5 DEF t, T0, T1
    <3> QED
      BY <2>6, <3>1, <3>2, <3>3, <3>6 DEF t, T0, T1
  <2> HIDE DEF S
  <2>7. \A k \in 0..m : k \in S
    BY <2>1, <2>5, <2>6, UpTo
  <2>8. sum[m] = total[(i - 1) + m] - total[i - 1]
    BY <2>1, <2>7 DEF S
  <2> QED
    BY <2>3, <2>4, <2>8 DEF s
<1> QED
  BY <1>1, <1>2

\* A listing of buckets: stretches of a sequence side by side, ending at the cuts.
CutsAt(buckets, all, cut, m) ==
  /\ buckets \in Seq(Seq(Nat)) /\ cut \in [0..Len(buckets) -> Nat]
  /\ cut[0] = 0 /\ cut[Len(buckets)] = m
  /\ \A k \in 1..Len(buckets) :
       cut[k - 1] < cut[k] /\ buckets[k] = SubSeq(all, cut[k - 1] + 1, cut[k])

Bucketed(buckets, all, m) == \E cut : CutsAt(buckets, all, cut, m)

(* The next ref lengthens the last bucket or opens one. *)
LEMMA PutInBucketKeeps ==
  ASSUME NEW index, NEW all \in Seq(Nat), NEW buckets, NEW m \in Nat, m + 1 <= Len(all),
         Bucketed(buckets, all, m)
  PROVE  Bucketed(PutInBucket(index, buckets, all[m + 1]), all, m + 1)
<1> DEFINE r == all[m + 1]
           n == Len(buckets)
<1>1. PICK cut : CutsAt(buckets, all, cut, m)
  BY DEF Bucketed
<1>2. /\ buckets \in Seq(Seq(Nat)) /\ cut \in [0..n -> Nat] /\ cut[0] = 0 /\ cut[n] = m /\ n \in Nat
      /\ \A k \in 1..n :
           cut[k - 1] < cut[k] /\ buckets[k] = SubSeq(all, cut[k - 1] + 1, cut[k])
  BY <1>1 DEF CutsAt
<1>3. r \in Nat
  BY ElementOfSeq
<1>4. CASE buckets # <<>> /\ SameDay(index, Last(buckets)[1], r)
  <2> DEFINE longer == Append(Last(buckets), r)
             next == Append(Front(buckets), longer)
             later == [cut EXCEPT ![n] = m + 1]
  <2>1. n >= 1 /\ n - 1 \in 0..n /\ Last(buckets) = buckets[n] /\ buckets[n] \in Seq(Nat)
    BY <1>2, <1>4 DEF Last
  <2>2. Last(buckets) = SubSeq(all, cut[n - 1] + 1, m) /\ cut[n - 1] < m /\ cut[n - 1] \in Nat
    <3>1. n \in 1..n
      BY <1>2, <2>1
    <3>2. cut[n - 1] < cut[n] /\ buckets[n] = SubSeq(all, cut[n - 1] + 1, cut[n])
      BY <1>2, <3>1
    <3> QED
      BY <1>2, <2>1, <3>2
  <2>3. longer = SubSeq(all, cut[n - 1] + 1, m + 1)
    <3> DEFINE c == cut[n - 1]
    <3>4. c \in Nat /\ c < m
      BY <2>2
    <3> HIDE DEF c
    <3>1. /\ c + 1 \in 1..Len(all) /\ m + 1 \in c + 1..Len(all) /\ (m + 1) - 1 = m
          /\ \A i \in c + 1..m : all[i] \in Nat
      <4> DEFINE l == Len(all)
      <4>1. l \in Nat /\ m + 1 <= l /\ \A i \in 1..l : all[i] \in Nat
        OBVIOUS
      <4> HIDE DEF l
      <4>2. /\ c + 1 \in 1..l /\ m + 1 \in c + 1..l /\ (m + 1) - 1 = m
            /\ \A i \in c + 1..m : i \in 1..l
        BY <3>4, <4>1
      <4> QED
        BY <4>1, <4>2 DEF l
    <3>2. SubSeq(all, c + 1, m + 1) = SubSeq(all, c + 1, m) \o <<r>>
      BY <3>1, SubSeqRecursiveSecond
    <3>3. SubSeq(all, c + 1, m) \in Seq(Nat)
      BY <3>1, SubSeqProperties
    <3> QED
      BY <1>3, <2>2, <3>2, <3>3, AppendIsConcat DEF c
  <2>4. longer \in Seq(Nat)
    BY <1>3, <2>1
  <2>5. /\ Front(buckets) \in Seq(Seq(Nat)) /\ Len(Front(buckets)) = n - 1
        /\ \A k \in 1..n - 1 : Front(buckets)[k] = buckets[k]
    <3>1. \A k \in 1..n - 1 : buckets[k] \in Seq(Nat)
      BY <1>2, <2>1
    <3> DEFINE front == SubSeq(buckets, 1, n - 1)
    <3>2. /\ front \in Seq(Seq(Nat)) /\ Len(front) = IF 1 <= n - 1 THEN n - 1 - 1 + 1 ELSE 0
          /\ \A k \in 1..n - 1 - 1 + 1 : front[k] = buckets[1 + k - 1]
      BY <1>2, <2>1, <3>1, SubSeqProperties
    <3>3. n - 1 - 1 + 1 = n - 1 /\ (~(1 <= n - 1) => n - 1 = 0)
          /\ \A k \in 1..n - 1 : 1 + k - 1 = k
      <4>1. n \in Nat /\ n >= 1
        BY <1>2, <2>1
      <4> HIDE DEF n
      <4> QED
        BY ONLY <4>1
    <3> HIDE DEF front
    <3>4. Len(front) = n - 1 /\ \A k \in 1..n - 1 : front[k] = buckets[k]
      BY <3>2, <3>3
    <3> QED
      BY <3>2, <3>4 DEF Front, front
  <2> HIDE DEF longer
  <2>6. /\ next \in Seq(Seq(Nat)) /\ Len(next) = n /\ next[n] = longer
        /\ \A k \in 1..n - 1 : next[k] = buckets[k]
    <3>1. /\ next \in Seq(Seq(Nat)) /\ Len(next) = Len(Front(buckets)) + 1
          /\ \A k \in 1..Len(Front(buckets)) : next[k] = Front(buckets)[k]
          /\ next[Len(Front(buckets)) + 1] = longer
      BY <2>4, <2>5, AppendProperties
    <3> HIDE DEF next
    <3>2. Len(Front(buckets)) + 1 = n
      BY <1>2, <2>5
    <3> QED
      BY <2>5, <3>1, <3>2
  <2>7. PutInBucket(index, buckets, r) = next
    BY <1>4 DEF PutInBucket, longer
  <2>8. /\ later \in [0..n -> Nat] /\ later[n] = m + 1
        /\ \A k \in 0..n : k # n => later[k] = cut[k]
    BY <1>2
  <2> HIDE DEF next, later
  <2>9. ASSUME NEW k \in 1..n
        PROVE  later[k - 1] < later[k] /\ next[k] = SubSeq(all, later[k - 1] + 1, later[k])
    <3>1. k - 1 \in 0..n /\ k - 1 # n /\ later[k - 1] = cut[k - 1]
      BY <1>2, <2>8
    <3>2. CASE k = n
      <4>1. later[k - 1] = cut[n - 1] /\ later[k] = m + 1 /\ next[k] = longer
        BY <2>6, <2>8, <3>1, <3>2
      <4> QED
        BY <2>2, <2>3, <4>1
    <3>3. CASE k # n
      <4>1. k \in 1..n - 1 /\ k \in 0..n
        BY <1>2, <3>3
      <4> QED
        BY <1>2, <2>6, <2>8, <3>1, <3>3, <4>1
    <3> QED
      BY <3>2, <3>3
  <2>10. later[0] = 0
    BY <1>2, <2>1, <2>8
  <2>11. CutsAt(next, all, later, m + 1)
    BY <2>6, <2>8, <2>9, <2>10 DEF CutsAt
  <2> QED
    BY <2>7, <2>11 DEF Bucketed
<1>5. CASE ~(buckets # <<>> /\ SameDay(index, Last(buckets)[1], r))
  <2> DEFINE next == Append(buckets, <<r>>)
             later == [k \in 0..n + 1 |-> IF k = n + 1 THEN m + 1 ELSE cut[k]]
  <2>1. PutInBucket(index, buckets, r) = next
    BY <1>5 DEF PutInBucket
  <2>2. <<r>> \in Seq(Nat) /\ SubSeq(all, m + 1, m + 1) = <<r>>
    <3>1. m + 1 \in 1..Len(all) /\ m + 1 \in m + 1..Len(all) /\ m + 1 + 1 \in Int /\ m + 1 < m + 1 + 1
      OBVIOUS
    <3>2. SubSeq(all, m + 1, m + 1) = <<all[m + 1]>> \o SubSeq(all, m + 1 + 1, m + 1)
      BY <3>1, SubSeqRecursiveFirst
    <3>3. SubSeq(all, m + 1 + 1, m + 1) = <<>>
      BY <3>1, SubSeqEmpty
    <3> HIDE DEF r
    <3>4. <<r>> \in Seq(Nat) /\ <<r>> \o <<>> = <<r>>
      BY <1>3, ConcatEmptySeq
    <3> QED
      BY <3>2, <3>3, <3>4 DEF r
  <2>3. /\ next \in Seq(Seq(Nat)) /\ Len(next) = n + 1 /\ next[n + 1] = <<r>>
        /\ \A k \in 1..n : next[k] = buckets[k]
    BY <1>2, <2>2, AppendProperties
  <2>4. /\ later \in [0..n + 1 -> Nat] /\ later[n + 1] = m + 1
        /\ \A k \in 0..n : later[k] = cut[k]
    BY <1>2
  <2> HIDE DEF next, later, r
  <2>5. ASSUME NEW k \in 1..n + 1
        PROVE  later[k - 1] < later[k] /\ next[k] = SubSeq(all, later[k - 1] + 1, later[k])
    <3>1. k - 1 \in 0..n
      BY <1>2
    <3>2. CASE k = n + 1
      <4>1. later[k - 1] = m
        BY <1>2, <2>4, <3>2
      <4>2. later[k] = m + 1 /\ next[k] = <<r>>
        BY <2>3, <2>4, <3>2
      <4>3. later[k - 1] < later[k]
        BY <4>1, <4>2
      <4>4. next[k] = SubSeq(all, m + 1, m + 1)
        BY <2>2, <4>2
      <4> QED
        BY <4>1, <4>2, <4>3, <4>4
    <3>3. CASE k # n + 1
      <4>1. k \in 1..n /\ k \in 0..n
        BY <1>2, <3>3
      <4> QED
        BY <1>2, <2>3, <2>4, <3>1, <4>1
    <3> QED
      BY <3>2, <3>3
  <2>6. CutsAt(next, all, later, m + 1)
    <3>1. later[0] = 0
      BY <1>2, <2>4
    <3> QED
      BY <2>3, <2>4, <2>5, <3>1 DEF CutsAt
  <2> QED
    BY <2>1, <2>6 DEF Bucketed, r
<1> QED
  BY <1>4, <1>5

LEMMA PutInBucketTypes ==
  ASSUME NEW index, NEW buckets \in Seq(Seq(Nat)), NEW r \in Nat
  PROVE  PutInBucket(index, buckets, r) \in Seq(Seq(Nat))
<1>1. CASE buckets # <<>>
  <2>1. Len(buckets) \in Nat /\ Len(buckets) >= 1
    BY <1>1
  <2>2. Last(buckets) \in Seq(Nat)
    BY <2>1, ElementOfSeq DEF Last
  <2>3. Append(Last(buckets), r) \in Seq(Nat)
    BY <2>2
  <2>4. Front(buckets) \in Seq(Seq(Nat))
    <3>1. \A k \in 1..Len(buckets) - 1 : buckets[k] \in Seq(Nat)
      BY <2>1, ElementOfSeq
    <3> QED
      BY <2>1, <3>1, SubSeqProperties DEF Front
  <2>5. Append(Front(buckets), Append(Last(buckets), r)) \in Seq(Seq(Nat))
    BY <2>3, <2>4, AppendProperties
  <2>6. Append(buckets, <<r>>) \in Seq(Seq(Nat))
    OBVIOUS
  <2> QED
    BY <2>5, <2>6 DEF PutInBucket
<1>2. CASE buckets = <<>>
  BY <1>2 DEF PutInBucket
<1> QED
  BY <1>1, <1>2

(* The buckets are the refs, cut. *)
LEMMA BucketsCut ==
  ASSUME NEW index, NEW all \in Seq(Nat)
  PROVE  Bucketed(Buckets(index, all), all, Len(all))
<1> DEFINE n == Len(all)
           X == Seq(Seq(Nat))
           step == [p \in X \X (1..n) |-> PutInBucket(index, p[1], all[p[2]])]
           Fills(f) == f = [k \in 0..n |-> IF k = 0 THEN <<>>
                                          ELSE PutInBucket(index, f[k - 1], all[k])]
           filled == CHOOSE f : Fills(f)
<1>1. n \in Nat /\ \A k \in 1..n : all[k] \in Nat
  OBVIOUS
<1>2. Buckets(index, all) = filled[n]
  BY DEF Buckets
<1> HIDE DEF n
<1>3. step \in [X \X (1..n) -> X]
  BY <1>1, PutInBucketTypes
<1> HIDE DEF X
<1>4. PICK f : IsRun(f, X, <<>>, n, step)
  <2>1. <<>> \in X
    BY DEF X
  <2> HIDE DEF step
  <2> QED
    BY <1>1, <1>3, <2>1, LoopRuns
<1>5. f \in [0..n -> X] /\ f[0] = <<>>
      /\ \A k \in 1..n : f[k] = PutInBucket(index, f[k - 1], all[k])
  <2>1. \A k \in 1..n : k - 1 \in 0..n
    BY <1>1
  <2>2. \A k \in 1..n : <<f[k - 1], k>> \in X \X (1..n)
    BY <1>4, <2>1 DEF IsRun
  <2> QED
    BY <1>4, <2>2 DEF IsRun
<1>6. (\A k \in 0..n : k # 0 => k \in 1..n) /\ (\A k \in 1..n : k # 0 /\ k \in 0..n) /\ 0 \in 0..n
  BY <1>1
<1>7. Fills(f)
  <2> DEFINE g == [k \in 0..n |-> IF k = 0 THEN <<>> ELSE PutInBucket(index, f[k - 1], all[k])]
  <2>1. \A k \in 0..n : f[k] = g[k]
    BY <1>5, <1>6
  <2>2. f = [k \in 0..n |-> f[k]] /\ g = [k \in 0..n |-> g[k]]
    BY <1>5
  <2> QED
    BY <2>1, <2>2
<1>8. Fills(filled)
  BY <1>7
<1> HIDE DEF filled
<1>9. filled[0] = <<>> /\ \A k \in 1..n : filled[k] = PutInBucket(index, filled[k - 1], all[k])
  BY <1>6, <1>8
<1> DEFINE S == {k \in 0..n : Bucketed(filled[k], all, k)}
<1>10. 0 \in S
  <2> DEFINE cut == [k \in 0..0 |-> 0]
  <2>1. CutsAt(<<>>, all, cut, 0)
    BY DEF CutsAt
  <2>2. Bucketed(<<>>, all, 0)
    BY <2>1 DEF Bucketed
  <2> QED
    BY <1>6, <1>9, <2>2
<1>11. ASSUME NEW k \in 0..n, k + 1 <= n, k \in S PROVE k + 1 \in S
  <2>1. k \in Nat /\ k + 1 \in 1..n /\ (k + 1) - 1 = k
    BY <1>1, <1>11
  <2>2. Bucketed(PutInBucket(index, filled[k], all[k + 1]), all, k + 1)
    BY <1>11, <2>1, PutInBucketKeeps DEF n
  <2>3. filled[k + 1] = PutInBucket(index, filled[k], all[k + 1])
    BY <1>9, <2>1
  <2> QED
    BY <1>6, <2>1, <2>2, <2>3
<1> HIDE DEF S
<1>12. \A k \in 0..n : k \in S
  BY <1>1, <1>10, <1>11, UpTo
<1>13. Bucketed(filled[n], all, n)
  BY <1>1, <1>12 DEF S
<1> QED
  BY <1>2, <1>13 DEF n
-----------------------------------------------------------------------------
\* The rows of a plan, and the state its loops fill.
PlanRow == [refs : Seq(Nat), tokens : Nat, segment : Seq(Nat)]
Filling == [plan : Seq(PlanRow), refs : Seq(Nat), tokens : Nat]

\* The plan assigns the first a records, each row at the cost of executing it.
Covers(index, plan, all, a, most) ==
  /\ plan \in Seq(PlanRow)
  /\ plan = <<>> <=> a = 0
  /\ plan # <<>> => Closes(Last(plan)) /\ Last(Last(plan).refs) = all[a]
  /\ \A i \in DOMAIN plan :
       /\ Follows(plan, i, all)
       /\ plan[i] = ScopedAssignment(index, plan[i].refs, plan[i].segment, most)

\* After m records: those not in the plan are held for the next row.
Filled(index, s, all, m, most) ==
  /\ s \in Filling
  /\ \E a \in 0..m : /\ Covers(index, s.plan, all, a, most)
                     /\ s.refs = SubSeq(all, a + 1, m)
                     /\ s.tokens = Tokens(index, s.refs)

\* What is together in a state stays together in a later one.
Held(s, refs) ==
  refs \subseteq ToSet(s.refs) \/ \E i \in DOMAIN s.plan : refs \subseteq ToSet(s.plan[i].refs)

Grows(s, t) == \A refs \in SUBSET Nat : Held(s, refs) => Held(t, refs)

(* A row follows the row before it, whatever comes behind. *)
LEMMA FollowsKept ==
  ASSUME NEW plan, NEW longer, NEW i \in Nat \ {0}, NEW all, Follows(plan, i, all),
         longer[i] = plan[i], i > 1 => longer[i - 1] = plan[i - 1]
  PROVE  Follows(longer, i, all)
<1>1. PICK from \in DOMAIN all : \E upTo \in from..Len(all) :
        /\ plan[i].refs = SubSeq(all, from, upTo)
        /\ IF Opens(plan[i])
           THEN IF i = 1 THEN from = 1
                ELSE /\ from > 1 /\ Last(plan[i - 1].refs) = all[from - 1]
                     /\ Closes(plan[i - 1])
           ELSE /\ i > 1 /\ from = upTo /\ plan[i - 1].refs = plan[i].refs
                /\ plan[i - 1].segment = <<plan[i].segment[1] - 1, plan[i].segment[2]>>
  BY DEF Follows
<1>4. PICK upTo \in from..Len(all) :
        /\ plan[i].refs = SubSeq(all, from, upTo)
        /\ IF Opens(plan[i])
           THEN IF i = 1 THEN from = 1
                ELSE /\ from > 1 /\ Last(plan[i - 1].refs) = all[from - 1]
                     /\ Closes(plan[i - 1])
           ELSE /\ i > 1 /\ from = upTo /\ plan[i - 1].refs = plan[i].refs
                /\ plan[i - 1].segment = <<plan[i].segment[1] - 1, plan[i].segment[2]>>
  BY <1>1
<1>2. i = 1 \/ longer[i - 1] = plan[i - 1]
  OBVIOUS
<1>3. /\ longer[i].refs = SubSeq(all, from, upTo)
      /\ IF Opens(longer[i])
         THEN IF i = 1 THEN from = 1
              ELSE /\ from > 1 /\ Last(longer[i - 1].refs) = all[from - 1]
                   /\ Closes(longer[i - 1])
         ELSE /\ i > 1 /\ from = upTo /\ longer[i - 1].refs = longer[i].refs
              /\ longer[i - 1].segment = <<longer[i].segment[1] - 1, longer[i].segment[2]>>
  BY <1>2, <1>4
<1> QED
  BY <1>3 DEF Follows

(* The tokens of refs are a number; of one ref, its own. *)
LEMMA TokensOfStretch ==
  ASSUME NEW index, IsIndex(index), NEW all \in Seq(DOMAIN index),
         NEW i \in 1..Len(all) + 1, NEW j \in i - 1..Len(all)
  PROVE  /\ SubSeq(all, i, j) \in Seq(DOMAIN index) /\ SubSeq(all, i, j) \in Seq(Nat)
         /\ Len(SubSeq(all, i, j)) = j - i + 1
         /\ \A k \in 1..j - i + 1 : SubSeq(all, i, j)[k] = all[i + k - 1]
         /\ Tokens(index, SubSeq(all, i, j)) \in Nat
<1>1. \A k \in i..j : all[k] \in DOMAIN index
  OBVIOUS
<1>2. /\ SubSeq(all, i, j) \in Seq(DOMAIN index)
      /\ Len(SubSeq(all, i, j)) = IF i <= j THEN j - i + 1 ELSE 0
      /\ \A k \in 1..j - i + 1 : SubSeq(all, i, j)[k] = all[i + k - 1]
  BY <1>1, SubSeqProperties
<1>3. (IF i <= j THEN j - i + 1 ELSE 0) = j - i + 1
  OBVIOUS
<1> DEFINE refs == SubSeq(all, i, j)
<1>4. refs \in Seq(Nat)
  <2>1. DOMAIN index \subseteq Nat
    BY DEF IsIndex
  <2> HIDE DEF refs
  <2> QED
    BY <1>2, <2>1, SeqMonotonic DEF refs
<1>5. Tokens(index, refs) \in Nat
  <2> HIDE DEF refs
  <2>1. PICK sum : sum \in [0..Len(refs) -> Nat] /\ Tokens(index, refs) = sum[Len(refs)]
    BY <1>2, TokensAddUp DEF refs
  <2>2. Len(refs) \in 0..Len(refs)
    BY <1>4
  <2> QED
    BY <2>1, <2>2
<1> QED
  BY <1>2, <1>3, <1>4, <1>5

(* A stretch of records that lengthens a plan. *)
LEMMA RowAppended ==
  ASSUME NEW index, IsIndex(index), NEW all \in Seq(DOMAIN index), NEW most \in Nat \ {0},
         NEW a \in 0..Len(all), NEW m \in 0..Len(all), a < m,
         NEW plan, Covers(index, plan, all, a, most)
  PROVE  LET refs == SubSeq(all, a + 1, m)
         IN Covers(index, Append(plan, Assignment(refs, Tokens(index, refs), <<>>)), all, m, most)
<1> DEFINE refs == SubSeq(all, a + 1, m)
           row == Assignment(refs, Tokens(index, refs), <<>>)
           longer == Append(plan, row)
           n == Len(plan)
<1>1. /\ refs \in Seq(Nat) /\ Len(refs) = m - a /\ refs[m - a] = all[m]
      /\ Tokens(index, refs) \in Nat
  <2>1. a + 1 \in 1..Len(all) + 1 /\ m \in (a + 1) - 1..Len(all) /\ m - (a + 1) + 1 = m - a
        /\ m - a \in 1..m - a /\ a + 1 + (m - a) - 1 = m
    OBVIOUS
  <2>2. /\ refs \in Seq(DOMAIN index) /\ refs \in Seq(Nat)
        /\ Len(refs) = m - (a + 1) + 1
        /\ \A k \in 1..m - (a + 1) + 1 : refs[k] = all[a + 1 + k - 1]
        /\ Tokens(index, refs) \in Nat
    <3>1. a + 1 \in 1..Len(all) + 1 /\ m \in (a + 1) - 1..Len(all)
      BY <2>1
    <3> QED
      BY ONLY IsIndex(index), <3>1, all \in Seq(DOMAIN index), TokensOfStretch
  <2> HIDE DEF refs
  <2>3. refs[m - a] = all[a + 1 + (m - a) - 1]
    BY <2>1, <2>2
  <2> QED
    BY <2>1, <2>2, <2>3
<1> HIDE DEF refs
<1>2. row \in PlanRow /\ row.refs = refs /\ row.segment = <<>>
  BY <1>1 DEF PlanRow, Assignment
<1>3. row = ScopedAssignment(index, row.refs, row.segment, most)
  BY DEF ScopedAssignment, Assignment
<1> HIDE DEF row
<1>4. plan \in Seq(PlanRow) /\ n \in Nat /\ DOMAIN plan = 1..n
  BY DEF Covers
<1>5. /\ longer \in Seq(PlanRow) /\ longer # <<>> /\ Len(longer) = n + 1
      /\ \A i \in 1..n : longer[i] = plan[i]
      /\ longer[n + 1] = row
  BY <1>2, <1>4, AppendProperties
<1> HIDE DEF longer
<1>6. DOMAIN longer = 1..n + 1 /\ Last(longer) = row
  BY <1>5 DEF Last
<1>7. Follows(longer, n + 1, all)
  <2>1. a + 1 \in DOMAIN all /\ m \in a + 1..Len(all) /\ longer[n + 1].refs = SubSeq(all, a + 1, m)
    BY <1>2, <1>5 DEF refs
  <2>2. Opens(longer[n + 1])
    BY <1>2, <1>5 DEF Opens
  <2>3. CASE n = 0
    <3>1. plan = <<>>
      BY <1>4, <2>3
    <3>2. a = 0
      BY <3>1 DEF Covers
    <3>3. n + 1 = 1 /\ a + 1 = 1
      BY <2>3, <3>2
    <3> QED
      BY <2>1, <2>2, <3>3 DEF Follows
  <2>4. CASE n # 0
    <3>1. plan # <<>> /\ n \in 1..n
      BY <1>4, <2>4
    <3>2. Closes(plan[n]) /\ Last(plan[n].refs) = all[a] /\ a # 0
      BY <3>1 DEF Covers, Last
    <3>3. n + 1 # 1 /\ (n + 1) - 1 = n /\ a + 1 > 1 /\ (a + 1) - 1 = a /\ longer[n] = plan[n]
      BY <1>4, <1>5, <3>1, <3>2
    <3> QED
      BY <2>1, <2>2, <3>2, <3>3 DEF Follows
  <2> QED
    BY <2>3, <2>4
<1>8. ASSUME NEW i \in 1..n + 1
      PROVE  /\ Follows(longer, i, all)
             /\ longer[i] = ScopedAssignment(index, longer[i].refs, longer[i].segment, most)
  <2>1. CASE i = n + 1
    BY <1>3, <1>5, <1>7, <2>1
  <2>2. CASE i # n + 1
    <3>1. i \in 1..n /\ (i > 1 => i - 1 \in 1..n) /\ i \in Nat \ {0}
      BY <1>4, <2>2
    <3>2. Follows(plan, i, all)
          /\ plan[i] = ScopedAssignment(index, plan[i].refs, plan[i].segment, most)
      BY <1>4, <3>1 DEF Covers
    <3>3. longer[i] = plan[i] /\ (i > 1 => longer[i - 1] = plan[i - 1])
      BY <1>5, <3>1
    <3>4. Follows(longer, i, all)
      BY <3>1, <3>2, <3>3, FollowsKept
    <3> QED
      BY <3>2, <3>3, <3>4
  <2> QED
    BY <2>1, <2>2
<1>9. Closes(Last(longer)) /\ Last(Last(longer).refs) = all[m] /\ m # 0
  BY <1>1, <1>2, <1>6 DEF Closes, Last
<1>10. Covers(index, longer, all, m, most)
  BY <1>5, <1>6, <1>8, <1>9 DEF Covers
<1> QED
  BY <1>10 DEF longer, row, refs

LEMMA OneRecord ==
  ASSUME NEW S, NEW all \in Seq(S), NEW m \in 1..Len(all)
  PROVE  SubSeq(all, m, m) = <<all[m]>> /\ <<all[m]>> \in Seq(S)
<1>1. /\ \A i \in m..m : all[i] \in S
      /\ m \in Int /\ m <= m /\ m - m + 1 = 1 /\ m + 1 - 1 = m /\ 1 \in 1..1
  OBVIOUS
<1>2. /\ SubSeq(all, m, m) \in Seq(S) /\ Len(SubSeq(all, m, m)) = 1
      /\ SubSeq(all, m, m)[1] = all[m]
  BY <1>1, SubSeqProperties
<1> DEFINE r == all[m]
           one == SubSeq(all, m, m)
<1>3. r \in S /\ one \in Seq(S) /\ Len(one) = 1 /\ one[1] = r
  BY <1>2
<1> HIDE DEF r, one
<1>4. <<r>> \in Seq(S) /\ Len(<<r>>) = 1 /\ <<r>>[1] = r
  BY <1>3
<1>5. one = <<r>>
  <2>1. Len(one) = Len(<<r>>) /\ \A i \in 1..Len(one) : one[i] = <<r>>[i]
    BY <1>3, <1>4
  <2> QED
    BY <1>3, <1>4, <2>1, SeqEqual
<1> QED
  BY <1>4, <1>5 DEF one, r

(* A record cut in segments has at least one. *)
LEMMA SomeSegment ==
  ASSUME NEW tokens \in Nat, NEW most \in Nat \ {0}, tokens > most
  PROVE  (tokens + most - 1) \div most \in Nat \ {0}
<1>1. tokens + most - 1 \in Nat /\ tokens + most - 1 >= most
  OBVIOUS
<1> DEFINE x == tokens + most - 1
<1> HIDE DEF x
<1>2. x \in Nat /\ x >= most
  BY <1>1 DEF x
<1>3. x \div most \in Nat \ {0}
  BY <1>2, SMTT(30)
<1> QED
  BY <1>3 DEF x

LEMMA SegmentIsRow ==
  ASSUME NEW index, NEW refs \in Seq(Nat), Tokens(index, refs) \in Nat, NEW most \in Nat \ {0},
         NEW k \in Nat \ {0}, NEW n \in Nat
  PROVE  ScopedAssignment(index, refs, <<k, n>>, most) \in PlanRow
<1> DEFINE full == Tokens(index, refs)
           before == (k - 1) * most
           left == IF full > before THEN full - before ELSE 0
           cost == IF left > most THEN most ELSE left
<1>1. before \in Nat
  <2>1. k - 1 \in Nat /\ most \in Nat
    OBVIOUS
  <2> DEFINE j == k - 1
  <2> HIDE DEF j
  <2>2. j * most \in Nat
    BY <2>1 DEF j
  <2> QED
    BY <2>2 DEF j
<1> HIDE DEF before, full
<1>2. cost \in Nat
  BY <1>1 DEF full
<1>3. <<k, n>> \in Seq(Nat) /\ <<k, n>> # <<>>
  OBVIOUS
<1> HIDE DEF cost
<1>4. [refs |-> refs, tokens |-> cost, segment |-> <<k, n>>] \in PlanRow
  BY <1>2, <1>3 DEF PlanRow
<1> QED
  BY <1>3, <1>4 DEF ScopedAssignment, Assignment, cost, before, full

(* A record that fits in no row is cut in segments, one behind the other. *)
LEMMA SegmentsAppended ==
  ASSUME NEW index, IsIndex(index), NEW all \in Seq(DOMAIN index), NEW most \in Nat \ {0},
         NEW a \in Nat, a + 1 <= Len(all), index[all[a + 1]].tokens > most,
         NEW plan, Covers(index, plan, all, a, most)
  PROVE  /\ Segments(index, all[a + 1], most) \in Seq(PlanRow)
         /\ Covers(index, plan \o Segments(index, all[a + 1], most), all, a + 1, most)
<1> DEFINE r == all[a + 1]
           n == (index[r].tokens + most - 1) \div most
           cut(k) == ScopedAssignment(index, <<r>>, <<k, n>>, most)
           segments == Segments(index, r, most)
           longer == plan \o segments
           p == Len(plan)
<1>1. a + 1 \in 1..Len(all) /\ r \in DOMAIN index /\ index[r].tokens \in Nat
  <2>1. a + 1 \in 1..Len(all) /\ r \in DOMAIN index
    OBVIOUS
  <2> QED
    BY <2>1 DEF IsIndex, Record
<1>2. /\ <<r>> \in Seq(Nat) /\ Tokens(index, <<r>>) \in Nat
      /\ <<r>> = SubSeq(all, a + 1, a + 1) /\ Last(<<r>>) = r
  <2>1. <<r>> = SubSeq(all, a + 1, a + 1)
    BY <1>1, OneRecord
  <2>2. a + 1 \in 1..Len(all) + 1 /\ a + 1 \in (a + 1) - 1..Len(all)
    BY <1>1
  <2>3. /\ SubSeq(all, a + 1, a + 1) \in Seq(Nat)
        /\ Tokens(index, SubSeq(all, a + 1, a + 1)) \in Nat
    BY <2>2, TokensOfStretch
  <2> HIDE DEF r
  <2>4. Last(<<r>>) = r
    BY DEF Last
  <2> QED
    BY <2>1, <2>3, <2>4
<1>3. n \in Nat \ {0}
  BY <1>1, SomeSegment
<1>4. segments = [k \in 1..n |-> cut(k)]
  BY DEF Segments
<1> HIDE DEF n, r
<1>5. ASSUME NEW k \in 1..n
      PROVE  /\ cut(k) \in PlanRow /\ cut(k).refs = <<r>> /\ cut(k).segment = <<k, n>>
             /\ cut(k) = ScopedAssignment(index, cut(k).refs, cut(k).segment, most)
  <2>1. cut(k).refs = <<r>> /\ cut(k).segment = <<k, n>>
    BY DEF ScopedAssignment, Assignment
  <2>2. k \in Nat \ {0} /\ n \in Nat
    BY <1>3
  <2>3. cut(k) \in PlanRow
    BY <1>2, <2>2, SegmentIsRow
  <2> HIDE DEF r
  <2>4. cut(k) = ScopedAssignment(index, cut(k).refs, cut(k).segment, most)
    BY <2>1
  <2> QED
    BY <2>1, <2>3, <2>4
<1> HIDE DEF cut
<1>6. segments \in Seq(PlanRow) /\ Len(segments) = n /\ \A k \in 1..n : segments[k] = cut(k)
  <2>1. segments \in [1..n -> PlanRow]
    BY <1>4, <1>5
  <2> HIDE DEF segments
  <2>2. segments \in Seq(PlanRow) /\ Len(segments) = n
    BY <1>3, <2>1
  <2> QED
    BY <1>4, <2>2
<1> HIDE DEF segments
<1>7. plan \in Seq(PlanRow) /\ p \in Nat /\ DOMAIN plan = 1..p
  BY DEF Covers
<1>8. /\ longer \in Seq(PlanRow) /\ Len(longer) = p + n /\ DOMAIN longer = 1..p + n
      /\ \A i \in 1..p : longer[i] = plan[i]
      /\ \A k \in 1..n : longer[p + k] = cut(k)
  <2>1. /\ longer \in Seq(PlanRow) /\ Len(longer) = p + n
        /\ \A i \in 1..p + n : longer[i] = IF i <= p THEN plan[i] ELSE segments[i - p]
    BY <1>6, <1>7, ConcatProperties
  <2> HIDE DEF longer, p
  <2>2. DOMAIN longer = 1..p + n
    BY <2>1
  <2>3. \A i \in 1..p : i \in 1..p + n /\ i <= p
    BY <1>3, <1>7
  <2>4. \A k \in 1..n : p + k \in 1..p + n /\ ~(p + k <= p) /\ (p + k) - p = k
    BY <1>3, <1>7
  <2> QED
    BY <1>6, <2>1, <2>2, <2>3, <2>4
<1> HIDE DEF longer
<1>9. a + 1 \in DOMAIN all /\ a + 1 \in a + 1..Len(all)
  BY <1>1
<1>10. ASSUME NEW k \in 1..n
       PROVE  Follows(longer, p + k, all)
  <2>1. /\ longer[p + k].refs = SubSeq(all, a + 1, a + 1)
        /\ longer[p + k].segment = <<k, n>>
    BY <1>2, <1>5, <1>8
  <2>2. Opens(longer[p + k]) <=> k = 1
    <3>1. <<k, n>> # <<>> /\ <<k, n>>[1] = k
      OBVIOUS
    <3> QED
      BY <2>1, <3>1 DEF Opens
  <2>3. CASE k = 1 /\ p = 0
    <3>1. plan = <<>>
      BY <1>7, <2>3
    <3>2. a = 0
      BY <3>1 DEF Covers
    <3>3. p + k = 1 /\ a + 1 = 1
      BY <2>3, <3>2
    <3> QED
      BY <1>9, <2>1, <2>2, <2>3, <3>3 DEF Follows
  <2>4. CASE k = 1 /\ p # 0
    <3>1. plan # <<>> /\ p \in 1..p
      BY <1>7, <2>4
    <3>2. Closes(plan[p]) /\ Last(plan[p].refs) = all[a] /\ a # 0
      BY <3>1 DEF Covers, Last
    <3>3. p + k # 1 /\ (p + k) - 1 = p /\ a + 1 > 1 /\ (a + 1) - 1 = a /\ longer[p] = plan[p]
      BY <1>7, <1>8, <2>4, <3>1, <3>2
    <3> QED
      BY <1>9, <2>1, <2>2, <2>4, <3>2, <3>3 DEF Follows
  <2>5. CASE k # 1
    <3>1. k - 1 \in 1..n /\ (p + k) - 1 = p + (k - 1) /\ p + k > 1
      BY <1>3, <1>7, <2>5
    <3>2. longer[(p + k) - 1].refs = <<r>> /\ longer[(p + k) - 1].segment = <<k - 1, n>>
      BY <1>5, <1>8, <3>1
    <3>3. longer[p + k].refs = <<r>> /\ <<k, n>>[1] = k /\ <<k, n>>[2] = n
      BY <1>2, <2>1
    <3>4. longer[(p + k) - 1].segment
            = <<longer[p + k].segment[1] - 1, longer[p + k].segment[2]>>
      BY <2>1, <3>2, <3>3
    <3> QED
      BY <1>9, <2>1, <2>2, <2>5, <3>1, <3>2, <3>3, <3>4 DEF Follows
  <2> QED
    BY <2>3, <2>4, <2>5
<1>11. ASSUME NEW i \in 1..p + n
       PROVE  /\ Follows(longer, i, all)
              /\ longer[i] = ScopedAssignment(index, longer[i].refs, longer[i].segment, most)
  <2>1. CASE i <= p
    <3>1. i \in 1..p /\ (i > 1 => i - 1 \in 1..p) /\ i \in Nat \ {0}
      BY <1>7, <2>1
    <3>2. Follows(plan, i, all)
          /\ plan[i] = ScopedAssignment(index, plan[i].refs, plan[i].segment, most)
      BY <1>7, <3>1 DEF Covers
    <3>3. longer[i] = plan[i] /\ (i > 1 => longer[i - 1] = plan[i - 1])
      BY <1>8, <3>1
    <3>4. Follows(longer, i, all)
      BY <3>1, <3>2, <3>3, FollowsKept
    <3> QED
      BY <3>2, <3>3, <3>4
  <2>2. CASE ~(i <= p)
    <3>1. i - p \in 1..n /\ p + (i - p) = i
      BY <1>3, <1>7, <2>2
    <3>2. Follows(longer, p + (i - p), all)
      BY <1>10, <3>1
    <3>3. longer[p + (i - p)] = cut(i - p)
      BY <1>8, <3>1
    <3> QED
      BY <1>5, <3>1, <3>2, <3>3
  <2> QED
    BY <2>1, <2>2
<1>12. longer # <<>> /\ Closes(Last(longer)) /\ Last(Last(longer).refs) = all[a + 1] /\ a + 1 # 0
  <2>1. n \in 1..n /\ p + n # 0
    BY <1>3, <1>7
  <2>2. Last(longer) = cut(n) /\ longer # <<>>
    BY <1>8, <2>1 DEF Last
  <2>3. Last(longer).refs = <<r>> /\ Last(longer).segment = <<n, n>>
    BY <1>5, <2>1, <2>2
  <2>4. Closes(Last(longer))
    BY <2>3 DEF Closes
  <2> QED
    BY <1>2, <2>2, <2>3, <2>4 DEF r
<1>13. Covers(index, longer, all, a + 1, most)
  BY <1>8, <1>11, <1>12 DEF Covers
<1> QED
  BY <1>6, <1>13 DEF longer, segments, r

(* Flushing puts the records held into a row of their own. *)
LEMMA FlushKeeps ==
  ASSUME NEW index, IsIndex(index), NEW all \in Seq(DOMAIN index), NEW most \in Nat \ {0},
         NEW m \in 0..Len(all), NEW s, Filled(index, s, all, m, most)
  PROVE  /\ Filled(index, Flush(s), all, m, most) /\ Grows(s, Flush(s))
         /\ Flush(s).refs = <<>> /\ Covers(index, Flush(s).plan, all, m, most)
<1>1. /\ s \in Filling /\ s.plan \in Seq(PlanRow) /\ s.refs \in Seq(Nat) /\ s.tokens \in Nat
      /\ s = [plan |-> s.plan, refs |-> s.refs, tokens |-> s.tokens]
  BY DEF Filled, Filling
<1>2. PICK a \in 0..m : /\ Covers(index, s.plan, all, a, most)
                        /\ s.refs = SubSeq(all, a + 1, m)
                        /\ s.tokens = Tokens(index, s.refs)
  BY DEF Filled
<1> DEFINE t == Flush(s)
           row == Assignment(s.refs, s.tokens, <<>>)
<1>3. t.refs = <<>> /\ t.tokens = 0 /\ t = [plan |-> t.plan, refs |-> <<>>, tokens |-> 0]
      /\ t.plan = IF s.refs = <<>> THEN s.plan ELSE Append(s.plan, row)
  BY DEF Flush
<1>4. row \in PlanRow /\ row.refs = s.refs
  BY <1>1 DEF PlanRow, Assignment
<1> HIDE DEF t, row
<1>5. m \in Nat /\ a \in 0..Len(all) /\ (a = m \/ a < m)
      /\ a + 1 \in 1..Len(all) + 1 /\ m \in (a + 1) - 1..Len(all)
  OBVIOUS
<1>6. Len(s.refs) = m - a
  BY <1>2, <1>5, TokensOfStretch
<1>7. Covers(index, t.plan, all, m, most)
  <2>1. CASE s.refs = <<>>
    <3>1. a = m
      BY <1>5, <1>6, <2>1
    <3> QED
      BY <1>2, <1>3, <2>1, <3>1
  <2>2. CASE s.refs # <<>>
    <3>1. Len(s.refs) # 0
      BY <1>1, <2>2
    <3>2. a < m
      BY <1>5, <1>6, <3>1
    <3> QED
      BY <1>2, <1>3, <1>5, <2>2, <3>2, RowAppended DEF row
  <2> QED
    BY <2>1, <2>2
<1>8. Filled(index, t, all, m, most)
  <2>1. SubSeq(all, m + 1, m) = <<>>
    <3>1. m + 1 \in Int /\ m \in Int /\ m < m + 1
      BY <1>5
    <3> QED
      BY <3>1, SubSeqEmpty
  <2>2. Tokens(index, <<>>) = 0
    <3>1. <<>> \in Seq(DOMAIN index) /\ Len(<<>>) = 0
      OBVIOUS
    <3> QED
      BY <3>1, TokensAddUp
  <2>3. t.plan \in Seq(PlanRow)
    BY <1>7 DEF Covers
  <2>4. t \in Filling
    <3> DEFINE plan == t.plan
    <3>1. t = [plan |-> plan, refs |-> <<>>, tokens |-> 0]
      BY <1>3
    <3>2. plan \in Seq(PlanRow) /\ <<>> \in Seq(Nat) /\ 0 \in Nat
      BY <2>3
    <3> HIDE DEF plan
    <3>3. [plan |-> plan, refs |-> <<>>, tokens |-> 0] \in Filling
      BY <3>2 DEF Filling
    <3> QED
      BY <3>1, <3>3
  <2>5. m \in 0..m
    BY <1>5
  <2> QED
    BY <1>3, <1>7, <2>1, <2>2, <2>4, <2>5 DEF Filled
<1>9. Grows(s, t)
  <2> SUFFICES ASSUME NEW refs \in SUBSET Nat, Held(s, refs) PROVE Held(t, refs)
    BY DEF Grows
  <2>1. CASE s.refs = <<>>
    BY <1>3, <2>1 DEF Held
  <2>2. CASE s.refs # <<>>
    <3> DEFINE n == Len(s.plan)
    <3>1. /\ DOMAIN s.plan = 1..n /\ n \in Nat /\ DOMAIN t.plan = 1..n + 1
          /\ t.plan[n + 1] = row /\ \A i \in 1..n : t.plan[i] = s.plan[i]
      <4>1. t.plan = Append(s.plan, row)
        BY <1>3, <2>2
      <4> DEFINE plan == s.plan
      <4>2. plan \in Seq(PlanRow)
        BY <1>1
      <4> HIDE DEF plan
      <4>3. /\ Append(plan, row) \in Seq(PlanRow) /\ Len(Append(plan, row)) = Len(plan) + 1
            /\ \A i \in 1..Len(plan) : Append(plan, row)[i] = plan[i]
            /\ Append(plan, row)[Len(plan) + 1] = row
        BY <1>4, <4>2, AppendProperties
      <4>4. DOMAIN Append(plan, row) = 1..Len(plan) + 1 /\ DOMAIN plan = 1..Len(plan)
            /\ Len(plan) \in Nat
        BY <4>2, <4>3
      <4> QED
        BY <4>1, <4>3, <4>4 DEF plan
    <3>2. n + 1 \in 1..n + 1 /\ \A i \in 1..n : i \in 1..n + 1
      BY <3>1
    <3> HIDE DEF n
    <3>3. CASE refs \subseteq ToSet(s.refs)
      <4>1. refs \subseteq ToSet(t.plan[n + 1].refs)
        BY <1>4, <3>1, <3>3
      <4> QED
        BY <3>1, <3>2, <4>1 DEF Held
    <3>4. CASE \E i \in DOMAIN s.plan : refs \subseteq ToSet(s.plan[i].refs)
      <4>1. PICK i \in 1..n : refs \subseteq ToSet(s.plan[i].refs)
        BY <3>1, <3>4
      <4>2. refs \subseteq ToSet(t.plan[i].refs) /\ i \in DOMAIN t.plan
        BY <3>1, <3>2, <4>1
      <4> QED
        BY <4>2 DEF Held
    <3> QED
      BY <3>3, <3>4 DEF Held
  <2> QED
    BY <2>1, <2>2
<1> QED
  BY <1>3, <1>7, <1>8, <1>9 DEF t

LEMMA MakeRoomKeeps ==
  ASSUME NEW index, IsIndex(index), NEW all \in Seq(DOMAIN index), NEW most \in Nat \ {0},
         NEW m \in 0..Len(all), NEW s, Filled(index, s, all, m, most), NEW more
  PROVE  Filled(index, MakeRoom(s, more, most), all, m, most) /\ Grows(s, MakeRoom(s, more, most))
<1>1. MakeRoom(s, more, most) = s \/ MakeRoom(s, more, most) = Flush(s)
  BY DEF MakeRoom
<1>2. Grows(s, s)
  BY DEF Grows
<1> QED
  BY <1>1, <1>2, FlushKeeps

(* A stretch that goes on behind the records held joins them. *)
LEMMA ExtendKeeps ==
  ASSUME NEW index, IsIndex(index), NEW all \in Seq(DOMAIN index), NEW most \in Nat \ {0},
         NEW m \in 0..Len(all), NEW s, Filled(index, s, all, m, most),
         NEW b \in m..Len(all)
  PROVE  LET more == SubSeq(all, m + 1, b)
             t == Extend(s, more, Tokens(index, more))
         IN /\ Filled(index, t, all, b, most) /\ Grows(s, t)
            /\ Held(t, ToSet(more))
<1> DEFINE more == SubSeq(all, m + 1, b)
           t == Extend(s, more, Tokens(index, more))
<1>1. /\ s \in Filling /\ s.plan \in Seq(PlanRow) /\ s.refs \in Seq(Nat) /\ s.tokens \in Nat
  BY DEF Filled, Filling
<1>2. PICK a \in 0..m : /\ Covers(index, s.plan, all, a, most)
                        /\ s.refs = SubSeq(all, a + 1, m)
                        /\ s.tokens = Tokens(index, s.refs)
  BY DEF Filled
<1>3. /\ m + 1 \in 1..Len(all) + 1 /\ b \in (m + 1) - 1..Len(all)
      /\ a + 1 \in 1..Len(all) + 1 /\ m \in (a + 1) - 1..Len(all) /\ b \in m..Len(all)
      /\ b \in (a + 1) - 1..Len(all) /\ (a + 1) - 1 = a /\ (m + 1) - 1 = m
      /\ a \in 0..Len(all) /\ b \in 0..Len(all) /\ a \in 0..b
  OBVIOUS
<1>4. more \in Seq(Nat) /\ Tokens(index, more) \in Nat
  BY <1>3, TokensOfStretch
<1>5. s.refs \o more = SubSeq(all, a + 1, b)
  BY <1>2, <1>3, ConcatAdjacentSubSeq
<1>6. s.tokens + Tokens(index, more) = Tokens(index, SubSeq(all, a + 1, b))
  <2>1. PICK total \in [0..Len(all) -> Nat] :
          \A i \in 1..Len(all) + 1 : \A j \in i - 1..Len(all) :
            Tokens(index, SubSeq(all, i, j)) = total[j] - total[i - 1]
    BY StretchTokens
  <2>2. /\ Tokens(index, SubSeq(all, a + 1, m)) = total[m] - total[a]
        /\ Tokens(index, more) = total[b] - total[m]
        /\ Tokens(index, SubSeq(all, a + 1, b)) = total[b] - total[a]
    BY <1>3, <2>1
  <2>3. total[a] \in Nat /\ total[m] \in Nat /\ total[b] \in Nat
    BY <1>3, <2>1
  <2> HIDE DEF more
  <2> QED
    BY <1>2, <2>2, <2>3
<1> HIDE DEF more
<1>7. t = [plan |-> s.plan, refs |-> s.refs \o more, tokens |-> s.tokens + Tokens(index, more)]
  BY DEF Extend
<1>8. s.refs \o more \in Seq(Nat) /\ s.tokens + Tokens(index, more) \in Nat
  BY <1>1, <1>4
<1> HIDE DEF t
<1>9. t \in Filling
  BY <1>1, <1>7, <1>8 DEF Filling
<1>10. Filled(index, t, all, b, most)
  <2>1. t.plan = s.plan /\ t.refs = SubSeq(all, a + 1, b) /\ t.tokens = Tokens(index, t.refs)
    BY <1>5, <1>6, <1>7
  <2> QED
    BY <1>2, <1>3, <1>9, <2>1 DEF Filled
<1>11. ToSet(s.refs) \subseteq ToSet(t.refs) /\ ToSet(more) \subseteq ToSet(t.refs)
  <2> DEFINE held == s.refs
  <2>1. held \in Seq(Nat)
    BY <1>1
  <2>2. t.refs = held \o more
    BY <1>7
  <2> HIDE DEF held
  <2>3. /\ held \o more \in Seq(Nat) /\ Len(held \o more) = Len(held) + Len(more)
        /\ \A i \in 1..Len(held) + Len(more) : (held \o more)[i] =
             IF i <= Len(held) THEN held[i] ELSE more[i - Len(held)]
    BY <1>4, <2>1, ConcatProperties
  <2> DEFINE both == held \o more
             p == Len(held)
             q == Len(more)
  <2>4. /\ p \in Nat /\ q \in Nat /\ DOMAIN held = 1..p /\ DOMAIN more = 1..q
        /\ DOMAIN both = 1..p + q
        /\ \A i \in 1..p + q : both[i] = IF i <= p THEN held[i] ELSE more[i - p]
    BY <1>4, <2>1, <2>3
  <2> HIDE DEF both, p, q
  <2>5. ASSUME NEW i \in 1..p PROVE i \in 1..p + q /\ both[i] = held[i]
    BY <2>4
  <2>6. ASSUME NEW i \in 1..q PROVE p + i \in 1..p + q /\ both[p + i] = more[i]
    <3>1. p + i \in 1..p + q /\ ~(p + i <= p) /\ (p + i) - p = i
      BY <2>4
    <3> QED
      BY <2>4, <3>1
  <2> QED
    BY <2>2, <2>4, <2>5, <2>6 DEF ToSet, both, held
<1>12. Grows(s, t) /\ Held(t, ToSet(more))
  <2>1. t.plan = s.plan
    BY <1>7
  <2> QED
    BY <1>11, <2>1 DEF Grows, Held
<1> QED
  BY <1>10, <1>12 DEF t, more

LEMMA TokensOfOne ==
  ASSUME NEW index, IsIndex(index), NEW r \in DOMAIN index
  PROVE  /\ <<r>> \in Seq(DOMAIN index) /\ index[r].tokens \in Nat
         /\ Tokens(index, <<r>>) = index[r].tokens
<1>1. <<r>> \in Seq(DOMAIN index) /\ Len(<<r>>) = 1 /\ <<r>>[1] = r /\ index[r].tokens \in Nat
  BY DEF IsIndex, Record
<1>2. PICK sum : /\ sum[0] = 0 /\ \A k \in 1..1 : sum[k] = sum[k - 1] + index[<<r>>[k]].tokens
                 /\ Tokens(index, <<r>>) = sum[1]
  BY <1>1, TokensAddUp
<1>3. sum[1] = sum[1 - 1] + index[<<r>>[1]].tokens
  <2>1. 1 \in 1..1
    OBVIOUS
  <2> QED
    BY <1>2, <2>1
<1>4. 1 - 1 = 0
  OBVIOUS
<1> QED
  BY <1>1, <1>2, <1>3, <1>4

LEMMA TokensOfNone ==
  ASSUME NEW index, IsIndex(index)
  PROVE  Tokens(index, <<>>) = 0
<1>1. <<>> \in Seq(DOMAIN index) /\ Len(<<>>) = 0
  OBVIOUS
<1> QED
  BY <1>1, TokensAddUp

(* The next record joins the records held, or is cut in segments. *)
LEMMA AddRecordKeeps ==
  ASSUME NEW index, IsIndex(index), NEW all \in Seq(DOMAIN index), NEW most \in Nat \ {0},
         NEW m \in Nat, m + 1 <= Len(all), NEW s, Filled(index, s, all, m, most)
  PROVE  LET t == AddRecord(index, s, all[m + 1], most)
         IN Filled(index, t, all, m + 1, most) /\ Grows(s, t)
<1> DEFINE r == all[m + 1]
           t == AddRecord(index, s, r, most)
<1>1. m \in 0..Len(all) /\ m + 1 \in 1..Len(all) /\ m + 1 \in m..Len(all) /\ m + 1 \in 0..m + 1
      /\ r \in DOMAIN index
  OBVIOUS
<1>2. /\ SubSeq(all, m + 1, m + 1) = <<r>>
      /\ Tokens(index, <<r>>) = index[r].tokens /\ index[r].tokens \in Nat
  BY <1>1, OneRecord, TokensOfOne
<1>3. CASE index[r].tokens > most
  <2> DEFINE u == Flush(s)
             segments == Segments(index, r, most)
             longer == u.plan \o segments
  <2>1. /\ Filled(index, u, all, m, most) /\ Grows(s, u) /\ u.refs = <<>>
        /\ Covers(index, u.plan, all, m, most)
    BY <1>1, FlushKeeps
  <2>2. u.tokens = 0 /\ u = [plan |-> u.plan, refs |-> <<>>, tokens |-> 0]
    BY DEF Flush
  <2>3. t = [u EXCEPT !.plan = longer]
    BY <1>3 DEF AddRecord
  <2>4. segments \in Seq(PlanRow) /\ Covers(index, longer, all, m + 1, most)
    BY <1>1, <1>3, <2>1, SegmentsAppended
  <2>5. u.plan \in Seq(PlanRow)
    BY <2>1 DEF Covers
  <2> DEFINE plan == u.plan
  <2>6. t = [plan |-> longer, refs |-> <<>>, tokens |-> 0]
    <3> HIDE DEF u, longer, t
    <3> QED
      BY <2>2, <2>3
  <2>7. longer \in Seq(PlanRow)
    BY <2>4 DEF Covers
  <2>8. Filled(index, t, all, m + 1, most)
    <3>1. t \in Filling
      <4> HIDE DEF longer, t
      <4>1. [plan |-> longer, refs |-> <<>>, tokens |-> 0] \in Filling
        BY <2>7 DEF Filling
      <4> QED
        BY <2>6, <4>1
    <3>2. SubSeq(all, m + 1 + 1, m + 1) = <<>>
      <4>1. m + 1 + 1 \in Int /\ m + 1 \in Int /\ m + 1 < m + 1 + 1
        OBVIOUS
      <4> QED
        BY <4>1, SubSeqEmpty
    <3> HIDE DEF t
    <3>3. t.plan = longer /\ t.refs = <<>> /\ t.tokens = 0
      BY <2>6
    <3> QED
      BY <1>1, <2>4, <3>1, <3>2, <3>3, TokensOfNone DEF Filled
  <2>9. Grows(u, t)
    <3> SUFFICES ASSUME NEW refs \in SUBSET Nat, Held(u, refs) PROVE Held(t, refs)
      BY DEF Grows
    <3> HIDE DEF t
    <3>1. t.plan = longer /\ t.refs = u.refs
      BY <2>2, <2>6
    <3>2. /\ DOMAIN plan = 1..Len(plan) /\ Len(plan) \in Nat
          /\ DOMAIN longer = 1..Len(plan) + Len(segments) /\ Len(segments) \in Nat
          /\ \A i \in 1..Len(plan) : longer[i] = plan[i]
      <4> HIDE DEF segments, u, plan
      <4>1. /\ plan \o segments \in Seq(PlanRow)
            /\ Len(plan \o segments) = Len(plan) + Len(segments)
            /\ \A i \in 1..Len(plan) + Len(segments) :
                 (plan \o segments)[i] = IF i <= Len(plan) THEN plan[i] ELSE segments[i - Len(plan)]
        BY <2>4, <2>5, ConcatProperties DEF plan
      <4>2. Len(plan) \in Nat /\ Len(segments) \in Nat /\ DOMAIN plan = 1..Len(plan)
        BY <2>4, <2>5 DEF plan
      <4>3. \A i \in 1..Len(plan) : i \in 1..Len(plan) + Len(segments) /\ i <= Len(plan)
        BY <4>2
      <4>4. DOMAIN (plan \o segments) = 1..Len(plan) + Len(segments)
        BY <4>1
      <4>5. longer = plan \o segments
        BY DEF plan
      <4> QED
        BY <4>1, <4>2, <4>3, <4>4, <4>5
    <3>3. CASE refs \subseteq ToSet(u.refs)
      BY <3>1, <3>3 DEF Held
    <3>4. CASE \E i \in DOMAIN u.plan : refs \subseteq ToSet(u.plan[i].refs)
      <4> HIDE DEF longer, u
      <4>1. PICK i \in DOMAIN plan : refs \subseteq ToSet(plan[i].refs)
        BY <3>4
      <4> HIDE DEF plan, segments
      <4>2. i \in DOMAIN longer /\ longer[i] = plan[i]
        <5>1. i \in 1..Len(plan)
          BY <3>2
        <5>2. i \in 1..Len(plan) + Len(segments)
          BY <3>2, <5>1
        <5> QED
          BY <3>2, <5>1, <5>2
      <4> QED
        BY <3>1, <4>1, <4>2 DEF Held
    <3> QED
      BY <3>3, <3>4 DEF Held
  <2>10. Grows(s, t)
    BY <2>1, <2>9 DEF Grows
  <2> QED
    BY <2>8, <2>10
<1>4. CASE ~(index[r].tokens > most)
  <2> DEFINE u == MakeRoom(s, index[r].tokens, most)
  <2>1. Filled(index, u, all, m, most) /\ Grows(s, u)
    BY <1>1, MakeRoomKeeps
  <2>2. t = Extend(u, SubSeq(all, m + 1, m + 1), Tokens(index, SubSeq(all, m + 1, m + 1)))
    BY <1>2, <1>4 DEF AddRecord
  <2> HIDE DEF u, t
  <2>3. Filled(index, t, all, m + 1, most) /\ Grows(u, t)
    BY <1>1, <2>1, <2>2, ExtendKeeps
  <2>4. Grows(s, t)
    BY <2>1, <2>3 DEF Grows
  <2> QED
    BY <2>3, <2>4 DEF t
<1> QED
  BY <1>3, <1>4

-----------------------------------------------------------------------------
(* What the loops fill has its type. *)
LEMMA FlushTypes ==
  ASSUME NEW s \in Filling
  PROVE  Flush(s) \in Filling
<1>1. s.plan \in Seq(PlanRow) /\ s.refs \in Seq(Nat) /\ s.tokens \in Nat
  BY DEF Filling
<1>2. Assignment(s.refs, s.tokens, <<>>) \in PlanRow
  BY <1>1 DEF PlanRow, Assignment
<1> DEFINE plan == Append(s.plan, Assignment(s.refs, s.tokens, <<>>))
<1>3. plan \in Seq(PlanRow)
  BY <1>1, <1>2, AppendProperties
<1> HIDE DEF plan
<1>4. <<>> \in Seq(Nat) /\ 0 \in Nat
  OBVIOUS
<1>5. /\ [plan |-> s.plan, refs |-> <<>>, tokens |-> 0] \in Filling
      /\ [plan |-> plan, refs |-> <<>>, tokens |-> 0] \in Filling
  BY <1>1, <1>3, <1>4 DEF Filling
<1> QED
  BY <1>5 DEF Flush, plan

LEMMA ExtendTypes ==
  ASSUME NEW s \in Filling, NEW refs \in Seq(Nat), NEW more \in Nat
  PROVE  Extend(s, refs, more) \in Filling
<1>1. s.plan \in Seq(PlanRow) /\ s.refs \in Seq(Nat) /\ s.tokens \in Nat
  BY DEF Filling
<1>2. s.refs \o refs \in Seq(Nat) /\ s.tokens + more \in Nat
  BY <1>1
<1> DEFINE joined == s.refs \o refs
           sum == s.tokens + more
<1> HIDE DEF joined, sum
<1>3. [plan |-> s.plan, refs |-> joined, tokens |-> sum] \in Filling
  BY <1>1, <1>2 DEF Filling, joined, sum
<1> QED
  BY <1>3 DEF Extend, joined, sum

LEMMA MakeRoomTypes ==
  ASSUME NEW s \in Filling, NEW more, NEW most
  PROVE  MakeRoom(s, more, most) \in Filling
BY FlushTypes DEF MakeRoom

LEMMA AddRecordTypes ==
  ASSUME NEW index, IsIndex(index), NEW most \in Nat \ {0}, NEW r \in DOMAIN index,
         NEW s \in Filling
  PROVE  AddRecord(index, s, r, most) \in Filling
<1>1. r \in Nat /\ <<r>> \in Seq(DOMAIN index) /\ <<r>> \in Seq(Nat) /\ index[r].tokens \in Nat
  <2>1. <<r>> \in Seq(DOMAIN index) /\ index[r].tokens \in Nat
    BY TokensOfOne
  <2>2. r \in Nat
    BY DEF IsIndex
  <2>3. <<r>> \in Seq(Nat)
    BY <2>2
  <2> QED
    BY <2>1, <2>2, <2>3
<1>2. CASE index[r].tokens > most
  <2> DEFINE u == Flush(s)
             segments == Segments(index, r, most)
  <2>1. u \in Filling
    BY FlushTypes
  <2>2. Covers(index, <<>>, <<r>>, 0, most)
    BY DEF Covers
  <2>3. 0 + 1 <= Len(<<r>>) /\ <<r>>[0 + 1] = r
    OBVIOUS
  <2>4. segments \in Seq(PlanRow)
    BY <1>1, <1>2, <2>2, <2>3, SegmentsAppended
  <2>5. AddRecord(index, s, r, most) = [u EXCEPT !.plan = u.plan \o segments]
    BY <1>2 DEF AddRecord
  <2> HIDE DEF u, segments
  <2>6. u.plan \in Seq(PlanRow)
    BY <2>1 DEF Filling
  <2>7. u.plan \o segments \in Seq(PlanRow)
    BY <2>4, <2>6, ConcatProperties
  <2>8. [u EXCEPT !.plan = u.plan \o segments] \in Filling
    <3> DEFINE longer == u.plan \o segments
    <3> HIDE DEF longer
    <3>1. [u EXCEPT !.plan = longer] \in Filling
      BY <2>1, <2>7 DEF Filling, longer
    <3> QED
      BY <3>1 DEF longer
  <2> QED
    BY <2>5, <2>8
<1>3. CASE ~(index[r].tokens > most)
  <2>1. AddRecord(index, s, r, most)
          = Extend(MakeRoom(s, index[r].tokens, most), <<r>>, index[r].tokens)
    BY <1>3 DEF AddRecord
  <2> QED
    BY <1>1, <2>1, MakeRoomTypes, ExtendTypes
<1> QED
  BY <1>2, <1>3

\* The states of AddRecords, after each of n refs.
AddsOneByOne(added, index, s, refs, most, n) ==
  /\ added \in [0..n -> Filling]
  /\ added[0] = s /\ AddRecords(index, s, refs, most) = added[n]
  /\ \A k \in 1..n : added[k] = AddRecord(index, added[k - 1], refs[k], most)

(* The records of a bucket are added one by one. *)
LEMMA AddRecordsRuns ==
  ASSUME NEW index, IsIndex(index), NEW most \in Nat \ {0}, NEW s \in Filling,
         NEW refs \in Seq(DOMAIN index)
  PROVE  \E added : AddsOneByOne(added, index, s, refs, most, Len(refs))
<1> DEFINE n == Len(refs)
           step == [p \in Filling \X (1..n) |-> AddRecord(index, p[1], refs[p[2]], most)]
           Fills(f) == f = [k \in 0..n |-> IF k = 0 THEN s
                                          ELSE AddRecord(index, f[k - 1], refs[k], most)]
           added == CHOOSE f : Fills(f)
<1>1. n \in Nat /\ \A k \in 1..n : refs[k] \in DOMAIN index
  OBVIOUS
<1>2. AddRecords(index, s, refs, most) = added[n]
  BY DEF AddRecords
<1> HIDE DEF n
<1>3. step \in [Filling \X (1..n) -> Filling]
  BY <1>1, AddRecordTypes
<1>4. PICK f : IsRun(f, Filling, s, n, step)
  <2> HIDE DEF step
  <2> QED
    BY <1>1, <1>3, LoopRuns
<1>5. f \in [0..n -> Filling] /\ f[0] = s
      /\ \A k \in 1..n : f[k] = AddRecord(index, f[k - 1], refs[k], most)
  <2>1. \A k \in 1..n : k - 1 \in 0..n
    BY <1>1
  <2>2. \A k \in 1..n : <<f[k - 1], k>> \in Filling \X (1..n)
    BY <1>4, <2>1 DEF IsRun
  <2> QED
    BY <1>4, <2>2 DEF IsRun
<1>6. (\A k \in 0..n : k # 0 => k \in 1..n) /\ (\A k \in 1..n : k # 0 /\ k \in 0..n) /\ 0 \in 0..n
  BY <1>1
<1>7. Fills(f)
  <2> DEFINE g == [k \in 0..n |-> IF k = 0 THEN s ELSE AddRecord(index, f[k - 1], refs[k], most)]
  <2>1. \A k \in 0..n : f[k] = g[k]
    BY <1>5, <1>6
  <2>2. f = [k \in 0..n |-> f[k]] /\ g = [k \in 0..n |-> g[k]]
    BY <1>5
  <2> QED
    BY <2>1, <2>2
<1>8. Fills(added)
  BY <1>7
<1> HIDE DEF added
<1>9. added[0] = s /\ \A k \in 1..n : added[k] = AddRecord(index, added[k - 1], refs[k], most)
  BY <1>6, <1>8
<1> DEFINE S == {k \in 0..n : added[k] \in Filling}
<1>10. 0 \in S
  BY <1>6, <1>9
<1>11. ASSUME NEW k \in 0..n, k + 1 <= n, k \in S PROVE k + 1 \in S
  <2>1. k + 1 \in 1..n /\ (k + 1) - 1 = k
    BY <1>1, <1>11
  <2>2. added[k + 1] = AddRecord(index, added[k], refs[k + 1], most) /\ refs[k + 1] \in DOMAIN index
    BY <1>1, <1>9, <2>1
  <2>3. added[k + 1] \in Filling
    BY <1>11, <2>2, AddRecordTypes
  <2> QED
    BY <1>6, <2>1, <2>3
<1> HIDE DEF S
<1>12. \A k \in 0..n : k \in S
  BY <1>1, <1>10, <1>11, UpTo
<1>13. added \in [0..n -> Filling]
  <2>1. added = [k \in 0..n |-> added[k]]
    <3>1. DOMAIN added = 0..n
      BY <1>8
    <3>2. added = [k \in DOMAIN added |-> added[k]]
      BY <1>8
    <3> QED
      BY <3>1, <3>2
  <2> QED
    BY <1>12, <2>1 DEF S
<1> QED
  BY <1>2, <1>9, <1>13 DEF n, AddsOneByOne

LEMMA AddRecordsKeeps ==
  ASSUME NEW index, IsIndex(index), NEW all \in Seq(DOMAIN index), NEW most \in Nat \ {0},
         NEW m \in 0..Len(all), NEW b \in m..Len(all), NEW s, Filled(index, s, all, m, most)
  PROVE  LET t == AddRecords(index, s, SubSeq(all, m + 1, b), most)
         IN Filled(index, t, all, b, most) /\ Grows(s, t)
<1> DEFINE refs == SubSeq(all, m + 1, b)
           n == b - m
<1>1. s \in Filling
  BY DEF Filled
<1>2. /\ refs \in Seq(DOMAIN index) /\ Len(refs) = n /\ n \in Nat /\ m \in Nat /\ b = m + n
      /\ \A k \in 1..n : refs[k] = all[m + k]
  <2>1. m + 1 \in 1..Len(all) + 1 /\ b \in (m + 1) - 1..Len(all) /\ b - (m + 1) + 1 = n
        /\ \A k \in 1..n : m + 1 + k - 1 = m + k
    OBVIOUS
  <2>2. /\ refs \in Seq(DOMAIN index) /\ Len(refs) = b - (m + 1) + 1
        /\ \A k \in 1..b - (m + 1) + 1 : refs[k] = all[m + 1 + k - 1]
    BY <2>1, TokensOfStretch
  <2>3. n \in Nat /\ m \in Nat /\ b = m + n
    OBVIOUS
  <2> HIDE DEF refs, n
  <2>4. Len(refs) = n /\ \A k \in 1..n : refs[k] = all[m + k]
    BY <2>1, <2>2
  <2> QED
    BY <2>2, <2>3, <2>4
<1> HIDE DEF refs
<1>3. PICK added : AddsOneByOne(added, index, s, refs, most, n)
  <2>1. refs \in Seq(DOMAIN index)
    BY <1>2
  <2>2. \E added : AddsOneByOne(added, index, s, refs, most, Len(refs))
    BY <1>1, <2>1, AddRecordsRuns
  <2>3. Len(refs) = n
    BY <1>2
  <2> QED
    BY <2>2, <2>3
<1>4. \A k \in 0..n : k + 1 <= n => m + k \in Nat /\ m + (k + 1) = (m + k) + 1 /\ (m + k) + 1 <= Len(all)
  OBVIOUS
<1> HIDE DEF n
<1>9. /\ added[0] = s /\ AddRecords(index, s, refs, most) = added[n]
      /\ \A k \in 1..n : added[k] = AddRecord(index, added[k - 1], refs[k], most)
  BY <1>3 DEF AddsOneByOne
<1> DEFINE S == {k \in 0..n : Filled(index, added[k], all, m + k, most) /\ Grows(s, added[k])}
<1>5. 0 \in S
  <2>1. m + 0 = m /\ 0 \in 0..n
    BY <1>2
  <2>2. Grows(s, s)
    BY DEF Grows
  <2> QED
    BY <1>9, <2>1, <2>2
<1>6. ASSUME NEW k \in 0..n, k + 1 <= n, k \in S PROVE k + 1 \in S
  <2>1. k + 1 \in 1..n /\ (k + 1) - 1 = k /\ k + 1 \in 0..n
    <3>1. n \in Nat /\ k \in 0..n /\ k + 1 <= n
      BY <1>2, <1>6
    <3> HIDE DEF S
    <3> QED
      BY ONLY <3>1
  <2>2. added[k + 1] = AddRecord(index, added[k], all[m + (k + 1)], most)
    BY <1>2, <1>9, <2>1
  <2>3. Filled(index, added[k], all, m + k, most) /\ Grows(s, added[k])
    BY <1>6
  <2>4. m + k \in Nat /\ m + (k + 1) = (m + k) + 1 /\ (m + k) + 1 <= Len(all)
    BY <1>4, <1>6
  <2>5. added[k + 1] = AddRecord(index, added[k], all[(m + k) + 1], most)
    BY <2>2, <2>4
  <2>6. Filled(index, added[k + 1], all, (m + k) + 1, most) /\ Grows(added[k], added[k + 1])
    BY <2>3, <2>4, <2>5, AddRecordKeeps
  <2>7. Grows(s, added[k + 1])
    BY <2>3, <2>6 DEF Grows
  <2> QED
    BY <2>1, <2>4, <2>6, <2>7
<1> HIDE DEF S
<1>7. \A k \in 0..n : k \in S
  BY <1>2, <1>5, <1>6, UpTo
<1>8. Filled(index, added[n], all, m + n, most) /\ Grows(s, added[n])
  <2>1. n \in S
    BY <1>2, <1>7
  <2> QED
    BY <2>1 DEF S
<1> QED
  BY <1>2, <1>8, <1>9 DEF refs

(* A bucket that fits in a row is not divided. *)
LEMMA AddBucketKeeps ==
  ASSUME NEW index, IsIndex(index), NEW all \in Seq(DOMAIN index), NEW most \in Nat \ {0},
         NEW m \in 0..Len(all), NEW b \in m..Len(all), NEW s, Filled(index, s, all, m, most)
  PROVE  LET bucket == SubSeq(all, m + 1, b)
             t == AddBucket(index, s, bucket, most)
         IN /\ Filled(index, t, all, b, most) /\ Grows(s, t)
            /\ Tokens(index, bucket) <= most => Held(t, ToSet(bucket))
<1> DEFINE bucket == SubSeq(all, m + 1, b)
           more == Tokens(index, bucket)
           room == MakeRoom(s, more, most)
           t == AddBucket(index, s, bucket, most)
<1>1. Filled(index, room, all, m, most) /\ Grows(s, room)
  BY MakeRoomKeeps
<1>2. t = IF more <= most THEN Extend(room, bucket, more) ELSE AddRecords(index, room, bucket, most)
  BY DEF AddBucket
<1> HIDE DEF t, room
<1>3. CASE more <= most
  <2>1. t = Extend(room, bucket, more)
    BY <1>2, <1>3
  <2>2. Filled(index, t, all, b, most) /\ Grows(room, t) /\ Held(t, ToSet(bucket))
    BY <1>1, <2>1, ExtendKeeps
  <2>3. Grows(s, t)
    BY <1>1, <2>2 DEF Grows
  <2> QED
    BY <2>2, <2>3 DEF t
<1>4. CASE ~(more <= most)
  <2>1. t = AddRecords(index, room, bucket, most)
    BY <1>2, <1>4
  <2>2. Filled(index, t, all, b, most) /\ Grows(room, t)
    BY <1>1, <2>1, AddRecordsKeeps
  <2>3. Grows(s, t)
    BY <1>1, <2>2 DEF Grows
  <2> QED
    BY <1>4, <2>2, <2>3 DEF t
<1> QED
  BY <1>3, <1>4

LEMMA AddBucketTypes ==
  ASSUME NEW index, IsIndex(index), NEW most \in Nat \ {0}, NEW bucket \in Seq(DOMAIN index),
         NEW s \in Filling
  PROVE  AddBucket(index, s, bucket, most) \in Filling
<1> DEFINE more == Tokens(index, bucket)
           room == MakeRoom(s, more, most)
<1>1. room \in Filling
  BY MakeRoomTypes
<1>2. more \in Nat
  <2>1. PICK sum : sum \in [0..Len(bucket) -> Nat] /\ more = sum[Len(bucket)]
    BY TokensAddUp
  <2>2. Len(bucket) \in 0..Len(bucket)
    OBVIOUS
  <2> QED
    BY <2>1, <2>2
<1>3. bucket \in Seq(Nat)
  BY SeqMonotonic DEF IsIndex
<1> HIDE DEF room
<1>4. Extend(room, bucket, more) \in Filling
  BY <1>1, <1>2, <1>3, ExtendTypes
<1>5. AddRecords(index, room, bucket, most) \in Filling
  <2>1. PICK added : AddsOneByOne(added, index, room, bucket, most, Len(bucket))
    BY <1>1, AddRecordsRuns
  <2>2. Len(bucket) \in 0..Len(bucket)
    OBVIOUS
  <2> QED
    BY <2>1, <2>2 DEF AddsOneByOne
<1> QED
  BY <1>4, <1>5 DEF AddBucket, room

(* The buckets are added one by one. *)
LEMMA PlanRuns ==
  ASSUME NEW index, IsIndex(index), NEW covered, NEW most \in Nat \ {0},
         NEW buckets \in Seq(Seq(DOMAIN index)),
         buckets = Buckets(index, Candidates(index, covered))
  PROVE  \E added :
           /\ added[0] = [plan |-> <<>>, refs |-> <<>>, tokens |-> 0]
           /\ Plan(index, covered, most) = Flush(added[Len(buckets)]).plan
           /\ \A k \in 1..Len(buckets) :
                added[k] = AddBucket(index, added[k - 1], buckets[k], most)
<1> DEFINE n == Len(buckets)
           start == [plan |-> <<>>, refs |-> <<>>, tokens |-> 0]
           step == [p \in Filling \X (1..n) |-> AddBucket(index, p[1], buckets[p[2]], most)]
           Fills(f) == f = [k \in 0..n |-> IF k = 0 THEN start
                                          ELSE AddBucket(index, f[k - 1], buckets[k], most)]
           added == CHOOSE f : Fills(f)
<1>1. n \in Nat /\ \A k \in 1..n : buckets[k] \in Seq(DOMAIN index)
  <2>1. n \in Nat
    OBVIOUS
  <2> QED
    BY <2>1, ElementOfSeq
<1>2. Plan(index, covered, most) = Flush(added[n]).plan
  BY DEF Plan
<1>3. start \in Filling
  BY DEF Filling
<1> HIDE DEF n, start
<1>4. step \in [Filling \X (1..n) -> Filling]
  BY <1>1, AddBucketTypes
<1>5. PICK f : IsRun(f, Filling, start, n, step)
  <2> HIDE DEF step
  <2> QED
    BY <1>1, <1>3, <1>4, LoopRuns
<1>6. f \in [0..n -> Filling] /\ f[0] = start
      /\ \A k \in 1..n : f[k] = AddBucket(index, f[k - 1], buckets[k], most)
  <2>1. \A k \in 1..n : k - 1 \in 0..n
    BY <1>1
  <2>2. \A k \in 1..n : <<f[k - 1], k>> \in Filling \X (1..n)
    BY <1>5, <2>1 DEF IsRun
  <2> QED
    BY <1>5, <2>2 DEF IsRun
<1>7. (\A k \in 0..n : k # 0 => k \in 1..n) /\ (\A k \in 1..n : k # 0 /\ k \in 0..n) /\ 0 \in 0..n
  BY <1>1
<1>8. Fills(f)
  <2> DEFINE g == [k \in 0..n |-> IF k = 0 THEN start ELSE AddBucket(index, f[k - 1], buckets[k], most)]
  <2>1. \A k \in 0..n : f[k] = g[k]
    BY <1>6, <1>7
  <2>2. f = [k \in 0..n |-> f[k]] /\ g = [k \in 0..n |-> g[k]]
    BY <1>6
  <2> QED
    BY <2>1, <2>2
<1>9. Fills(added)
  BY <1>8
<1> HIDE DEF added
<1>10. added[0] = start /\ \A k \in 1..n : added[k] = AddBucket(index, added[k - 1], buckets[k], most)
  BY <1>7, <1>9
<1> QED
  BY <1>2, <1>10 DEF n, start

(* No cut is behind the last. *)
LEMMA CutsInOrder ==
  ASSUME NEW buckets, NEW all, NEW cut, NEW m \in Nat, CutsAt(buckets, all, cut, m)
  PROVE  \A k \in 0..Len(buckets) : cut[k] \in 0..m
<1> DEFINE n == Len(buckets)
           S == {i \in 0..n : cut[n - i] <= m}
<1>1. /\ n \in Nat /\ cut \in [0..n -> Nat] /\ cut[n] = m
      /\ \A k \in 1..n : cut[k - 1] < cut[k]
  BY DEF CutsAt
<1> HIDE DEF n
<1>2. 0 \in S
  <2>1. n - 0 = n /\ 0 \in 0..n
    BY <1>1
  <2> QED
    BY <1>1, <2>1
<1>3. ASSUME NEW i \in 0..n, i + 1 <= n, i \in S PROVE i + 1 \in S
  <2>1. n - i \in 1..n /\ (n - i) - 1 = n - (i + 1) /\ n - (i + 1) \in 0..n /\ i + 1 \in 0..n
        /\ n - i \in 0..n
    BY <1>1, <1>3
  <2>2. cut[n - (i + 1)] < cut[n - i] /\ cut[n - i] <= m
    BY <1>1, <1>3, <2>1
  <2>3. cut[n - (i + 1)] \in Nat /\ cut[n - i] \in Nat
    BY <1>1, <2>1
  <2>4. cut[n - (i + 1)] <= m
    BY <2>2, <2>3
  <2> QED
    BY <2>1, <2>4
<1> HIDE DEF S
<1>4. \A i \in 0..n : i \in S
  BY <1>1, <1>2, <1>3, UpTo
<1>5. ASSUME NEW k \in 0..n PROVE cut[k] \in 0..m
  <2>1. n - k \in 0..n /\ n - (n - k) = k
    BY <1>1
  <2>2. cut[k] <= m
    BY <1>4, <2>1 DEF S
  <2> QED
    BY <1>1, <2>2
<1> QED
  BY <1>5 DEF n

(* What _chunk_plan makes: the records to assign, each assigned once and in
   order, and a day that fits in a row in one row.                         *)
LEMMA PlanCovers ==
  ASSUME NEW index, IsIndex(index), NEW covered, NEW most \in Nat \ {0}
  PROVE  LET all == Candidates(index, covered)
             plan == Plan(index, covered, most)
             buckets == Buckets(index, all)
         IN /\ Covers(index, plan, all, Len(all), most)
            /\ \A k \in DOMAIN buckets :
                 Tokens(index, buckets[k]) <= most =>
                   \E i \in DOMAIN plan : ToSet(buckets[k]) \subseteq ToSet(plan[i].refs)
<1> DEFINE all == Candidates(index, covered)
           plan == Plan(index, covered, most)
           buckets == Buckets(index, all)
           n == Len(buckets)
           total == Len(all)
<1>1. all \in Seq(DOMAIN index) /\ all \in Seq(Nat)
  <2>1. all \in Seq(DOMAIN index)
    BY CandidatesListed
  <2>2. DOMAIN index \subseteq Nat
    BY DEF IsIndex
  <2> QED
    BY <2>1, <2>2, SeqMonotonic
<1>2. PICK cut : CutsAt(buckets, all, cut, total)
  BY <1>1, BucketsCut DEF Bucketed
<1> HIDE DEF total, buckets
<1>3. /\ buckets \in Seq(Seq(Nat)) /\ n \in Nat /\ cut[0] = 0 /\ cut[n] = total
      /\ DOMAIN buckets = 1..n
      /\ \A k \in 1..n : cut[k - 1] < cut[k] /\ buckets[k] = SubSeq(all, cut[k - 1] + 1, cut[k])
  BY <1>2 DEF CutsAt
<1>4. total \in Nat /\ total = Len(all)
  BY <1>1 DEF total
<1>5. \A k \in 0..n : cut[k] \in 0..total
  BY <1>2, <1>4, CutsInOrder
<1> HIDE DEF n, all
<1>6. ASSUME NEW k \in 1..n
      PROVE  /\ cut[k - 1] \in 0..Len(all) /\ cut[k] \in cut[k - 1]..Len(all)
             /\ buckets[k] = SubSeq(all, cut[k - 1] + 1, cut[k])
             /\ buckets[k] \in Seq(DOMAIN index) /\ ToSet(buckets[k]) \in SUBSET Nat
             /\ ToSet(buckets[k]) # {}
  <2>1. k - 1 \in 0..n /\ k \in 0..n
    BY <1>3
  <2>2. cut[k - 1] \in 0..total /\ cut[k] \in 0..total /\ cut[k - 1] < cut[k]
        /\ buckets[k] = SubSeq(all, cut[k - 1] + 1, cut[k])
    BY <1>3, <1>5, <2>1
  <2> DEFINE c == cut[k - 1]
             d == cut[k]
             bucket == buckets[k]
  <2> HIDE DEF c, d, bucket
  <2>3. c \in 0..total /\ d \in c..total /\ c + 1 \in 1..total + 1 /\ d \in (c + 1) - 1..total
        /\ 1 \in 1..d - (c + 1) + 1 /\ d - (c + 1) + 1 \in Nat
    <3>1. total \in Nat /\ c \in 0..total /\ d \in 0..total /\ c < d
      BY <1>4, <2>2 DEF c, d
    <3>2. d - (c + 1) + 1 = d - c /\ (c + 1) - 1 = c
      BY ONLY <3>1
    <3>3. d - c \in Nat /\ 1 <= d - c
      BY ONLY <3>1
    <3>4. c \in 0..total /\ d \in c..total /\ c + 1 \in 1..total + 1
      BY ONLY <3>1
    <3> QED
      BY <3>2, <3>3, <3>4
  <2>4. bucket \in Seq(DOMAIN index) /\ bucket \in Seq(Nat) /\ Len(bucket) = d - (c + 1) + 1
    <3>1. bucket = SubSeq(all, c + 1, d)
      BY <2>2 DEF c, d, bucket
    <3>2. c + 1 \in 1..Len(all) + 1 /\ d \in (c + 1) - 1..Len(all)
      BY <1>4, <2>3
    <3>3. /\ SubSeq(all, c + 1, d) \in Seq(DOMAIN index) /\ SubSeq(all, c + 1, d) \in Seq(Nat)
          /\ Len(SubSeq(all, c + 1, d)) = d - (c + 1) + 1
      BY <1>1, <3>2, TokensOfStretch
    <3> QED
      BY <3>1, <3>3
  <2>5. 1 \in DOMAIN bucket /\ \A i \in DOMAIN bucket : bucket[i] \in Nat
    BY <2>3, <2>4
  <2>6. ToSet(bucket) \in SUBSET Nat /\ ToSet(bucket) # {}
    BY <2>5 DEF ToSet
  <2> QED
    BY <1>4, <2>2, <2>3, <2>4, <2>6 DEF c, d, bucket
<1>7. PICK added :
        /\ added[0] = [plan |-> <<>>, refs |-> <<>>, tokens |-> 0]
        /\ plan = Flush(added[n]).plan
        /\ \A k \in 1..n : added[k] = AddBucket(index, added[k - 1], buckets[k], most)
  <2>1. buckets \in Seq(Seq(DOMAIN index))
    <3>1. buckets \in [1..n -> Seq(DOMAIN index)]
      <4>1. buckets = [k \in 1..n |-> buckets[k]]
        BY <1>3
      <4> QED
        BY <1>6, <4>1
    <3> QED
      BY <1>3, <3>1
  <2> QED
    BY <2>1, PlanRuns DEF buckets, all, n
<1> HIDE DEF plan
<1> DEFINE S == {k \in 0..n :
                  /\ Filled(index, added[k], all, cut[k], most)
                  /\ \A j \in 1..k : Tokens(index, buckets[j]) <= most =>
                                       Held(added[k], ToSet(buckets[j]))}
<1>8. 0 \in S
  <2> DEFINE start == [plan |-> <<>>, refs |-> <<>>, tokens |-> 0]
  <2>1. start \in Filling /\ start.plan = <<>> /\ start.refs = <<>> /\ start.tokens = 0
    BY DEF Filling
  <2> HIDE DEF start
  <2>2. SubSeq(all, 0 + 1, 0) = <<>>
    BY SubSeqEmpty
  <2>3. Covers(index, <<>>, all, 0, most)
    BY DEF Covers
  <2>4. 0 \in 0..0 /\ 0 \in 0..n
    BY <1>3
  <2>5. Filled(index, start, all, 0, most)
    BY <2>1, <2>2, <2>3, <2>4, TokensOfNone DEF Filled
  <2> QED
    BY <1>3, <1>7, <2>4, <2>5 DEF start
<1>9. ASSUME NEW k \in 0..n, k + 1 <= n, k \in S PROVE k + 1 \in S
  <2>1. k + 1 \in 1..n /\ (k + 1) - 1 = k /\ k + 1 \in 0..n
        /\ \A j \in 1..k + 1 : j = k + 1 \/ j \in 1..k
    BY <1>3, <1>9
  <2>2. /\ cut[k] \in 0..Len(all) /\ cut[k + 1] \in cut[k]..Len(all)
        /\ buckets[k + 1] = SubSeq(all, cut[k] + 1, cut[k + 1])
    BY <1>6, <2>1
  <2>3. added[k + 1] = AddBucket(index, added[k], buckets[k + 1], most)
    BY <1>7, <2>1
  <2>4. Filled(index, added[k], all, cut[k], most)
    BY <1>9
  <2>5. /\ Filled(index, added[k + 1], all, cut[k + 1], most) /\ Grows(added[k], added[k + 1])
        /\ Tokens(index, buckets[k + 1]) <= most => Held(added[k + 1], ToSet(buckets[k + 1]))
    BY <1>1, <2>2, <2>3, <2>4, AddBucketKeeps
  <2>6. ASSUME NEW j \in 1..k + 1, Tokens(index, buckets[j]) <= most
        PROVE  Held(added[k + 1], ToSet(buckets[j]))
    <3>1. CASE j = k + 1
      BY <2>5, <2>6, <3>1
    <3>2. CASE j # k + 1
      <4>1. j \in 1..k /\ j \in 1..n
        BY <1>3, <2>1, <3>2
      <4>2. Held(added[k], ToSet(buckets[j])) /\ ToSet(buckets[j]) \in SUBSET Nat
        BY <1>6, <1>9, <2>6, <4>1
      <4> QED
        BY <2>5, <4>2 DEF Grows
    <3> QED
      BY <3>1, <3>2
  <2> QED
    BY <2>1, <2>5, <2>6
<1> HIDE DEF S
<1>10. \A k \in 0..n : k \in S
  BY <1>3, <1>8, <1>9, UpTo
<1>11. /\ Filled(index, added[n], all, Len(all), most)
       /\ \A j \in 1..n : Tokens(index, buckets[j]) <= most => Held(added[n], ToSet(buckets[j]))
  <2>1. n \in S
    BY <1>3, <1>10
  <2> QED
    BY <1>3, <1>4, <2>1 DEF S
<1>12. /\ Covers(index, plan, all, Len(all), most)
       /\ Grows(added[n], Flush(added[n])) /\ Flush(added[n]).refs = <<>>
  <2>1. Len(all) \in 0..Len(all)
    BY <1>4
  <2> QED
    BY <1>1, <1>7, <1>11, <2>1, FlushKeeps
<1>13. ASSUME NEW k \in 1..n, Tokens(index, buckets[k]) <= most
       PROVE  \E i \in DOMAIN plan : ToSet(buckets[k]) \subseteq ToSet(plan[i].refs)
  <2>1. Held(Flush(added[n]), ToSet(buckets[k]))
    BY <1>6, <1>11, <1>12, <1>13 DEF Grows
  <2>2. ToSet(<<>>) = {}
    BY DEF ToSet
  <2>3. ~(ToSet(buckets[k]) \subseteq ToSet(Flush(added[n]).refs))
    BY <1>6, <1>12, <2>2
  <2> QED
    BY <1>7, <2>1, <2>3 DEF Held
<1>14. \A k \in DOMAIN buckets :
         Tokens(index, buckets[k]) <= most =>
           \E i \in DOMAIN plan : ToSet(buckets[k]) \subseteq ToSet(plan[i].refs)
  BY <1>3, <1>13
<1> QED
  BY <1>12, <1>14 DEF plan, buckets, all

-----------------------------------------------------------------------------
(***************************************************************************)
(* The client's listing and its readers.  What is listed comes from the    *)
(* plans of the budgets used, and is the plan's beginning while there was  *)
(* but one; a reader is given what the row it executes names.              *)
(***************************************************************************)
PlanOf(b) == Plan(rows, windows, b)

\* What a reader can be given.
Replies ==
  {ScopedAssignment(rows, refs, segment, b) : refs \in Seq(Nat), segment \in Seq(Nat), b \in Limits}

AssignmentsTypes ==
  /\ rows \in AllRows /\ limit \in Limits /\ edits \in Nat /\ whole \in BOOLEAN
  /\ listed \in Seq(PlanRow) /\ executed \in Seq(Replies)
  /\ budgets \subseteq Limits /\ IsFiniteSet(budgets)

Listing ==
  /\ budgets = {} => listed = <<>> /\ ~whole
  /\ \A b \in Limits : budgets = {b} =>
       /\ Len(listed) <= Len(PlanOf(b)) /\ listed = SubSeq(PlanOf(b), 1, Len(listed))
       /\ whole => Len(listed) = Len(PlanOf(b))
  /\ \A i \in DOMAIN listed : \E b \in budgets : \E j \in DOMAIN PlanOf(b) : listed[i] = PlanOf(b)[j]
  /\ edits = 0 => budgets \subseteq {limit}

Reading ==
  /\ executed # <<>> => whole
  /\ Len(executed) <= Len(listed)
  /\ ExecutedAsListed

AssignmentsInv == AssignmentsTypes /\ Listing /\ Reading

LEMMA PlanShape ==
  ASSUME AssignmentsTypes, NEW b \in Limits
  PROVE  /\ IsIndex(rows) /\ b \in Nat \ {0}
         /\ Covers(rows, PlanOf(b), Candidates(rows, windows), Len(Candidates(rows, windows)), b)
         /\ PlanOf(b) \in Seq(PlanRow)
<1>1. IsIndex(rows) /\ b \in Nat \ {0}
  BY AssignmentsAssumption DEF AssignmentsTypes, IsIndex
<1>2. Covers(rows, PlanOf(b), Candidates(rows, windows), Len(Candidates(rows, windows)), b)
  BY <1>1, PlanCovers DEF PlanOf
<1> QED
  BY <1>1, <1>2 DEF Covers

LEMMA AssignmentsStart == AssignmentsInit => AssignmentsInv
<1> SUFFICES ASSUME AssignmentsInit PROVE AssignmentsInv
  OBVIOUS
<1>1. AssignmentsTypes
  <2>1. <<>> \in Seq(PlanRow) /\ <<>> \in Seq(Replies) /\ IsFiniteSet({})
    BY FS_EmptySet
  <2> QED
    BY <2>1 DEF AssignmentsInit, AssignmentsTypes
<1>2. Listing
  BY DEF AssignmentsInit, Listing
<1>3. Reading
  BY DEF AssignmentsInit, Reading, ExecutedAsListed
<1> QED
  BY <1>1, <1>2, <1>3 DEF AssignmentsInv

LEMMA PageKeeps == AssignmentsInv /\ Page => AssignmentsInv'
<1> SUFFICES ASSUME AssignmentsInv, Page PROVE AssignmentsInv'
  OBVIOUS
<1> DEFINE plan == PlanOf(limit)
           have == Len(listed)
<1>1. AssignmentsTypes /\ Listing /\ Reading
  BY DEF AssignmentsInv
<1>2. /\ ~whole /\ budgets' = budgets \cup {limit}
      /\ rows' = rows /\ windows' = windows /\ limit' = limit /\ edits' = edits
      /\ executed' = executed
  BY DEF Page
<1>3. \/ have >= Len(plan) /\ whole' = TRUE /\ listed' = listed
      \/ \E upTo \in have + 1..Len(plan) :
           listed' = listed \o SubSeq(plan, have + 1, upTo) /\ whole' = (upTo = Len(plan))
  BY DEF Page, PlanOf
<1>4. /\ plan \in Seq(PlanRow) /\ listed \in Seq(PlanRow) /\ have \in Nat /\ Len(plan) \in Nat
      /\ DOMAIN plan = 1..Len(plan) /\ DOMAIN listed = 1..have /\ limit \in Limits
  BY <1>1, PlanShape DEF AssignmentsTypes
<1>5. \A b : PlanOf(b)' = Plan(rows, windows, b)
  BY <1>2 DEF PlanOf
<1>6. executed = <<>>
  BY <1>1, <1>2 DEF Reading
<1> HIDE DEF plan, have
<1>7. ASSUME NEW upTo \in have + 1..Len(plan), listed' = listed \o SubSeq(plan, have + 1, upTo)
      PROVE  /\ listed' \in Seq(PlanRow) /\ Len(listed') = upTo
             /\ \A i \in 1..have : listed'[i] = listed[i]
             /\ \A i \in have + 1..upTo : listed'[i] = plan[i]
             /\ listed = SubSeq(plan, 1, have) => listed' = SubSeq(plan, 1, upTo)
  <2> DEFINE more == SubSeq(plan, have + 1, upTo)
             n == upTo - have
  <2>1. /\ have + 1 \in Int /\ upTo \in Int /\ have + 1 <= upTo
        /\ upTo - (have + 1) + 1 = n /\ n \in Nat /\ upTo = have + n
        /\ \A i \in have + 1..upTo : i \in 1..Len(plan)
        /\ \A k \in 1..n : have + 1 + k - 1 = have + k
    BY <1>4
  <2>2. \A i \in have + 1..upTo : plan[i] \in PlanRow
    BY <1>4, <2>1
  <2>3. /\ more \in Seq(PlanRow) /\ Len(more) = n /\ \A k \in 1..n : more[k] = plan[have + k]
    <3>1. /\ more \in Seq(PlanRow)
          /\ Len(more) = IF have + 1 <= upTo THEN upTo - (have + 1) + 1 ELSE 0
          /\ \A k \in 1..upTo - (have + 1) + 1 : more[k] = plan[have + 1 + k - 1]
      BY <2>1, <2>2, SubSeqProperties
    <3> HIDE DEF more, n
    <3> QED
      BY <2>1, <3>1
  <2> HIDE DEF more
  <2>4. /\ listed' \in Seq(PlanRow) /\ Len(listed') = have + n
        /\ \A i \in 1..have + n : listed'[i] = IF i <= have THEN listed[i] ELSE more[i - have]
    <3>1. listed' = listed \o more
      BY <1>7 DEF more
    <3> HIDE DEF n
    <3> QED
      BY <1>4, <2>3, <3>1, ConcatProperties DEF have
  <2>5. \A i \in have + 1..upTo : ~(i <= have) /\ i - have \in 1..n /\ have + (i - have) = i
                                    /\ i \in 1..have + n
    BY <1>4, <2>1
  <2>6. \A i \in 1..have : i <= have /\ i \in 1..have + n
    BY <1>4, <2>1
  <2>7. ASSUME listed = SubSeq(plan, 1, have) PROVE listed' = SubSeq(plan, 1, upTo)
    <3>1. 1 \in 1..Len(plan) + 1 /\ have \in 1 - 1..Len(plan) /\ upTo \in have..Len(plan)
      BY <1>4
    <3> QED
      BY <1>4, <1>7, <2>7, <3>1, ConcatAdjacentSubSeq
  <2> HIDE DEF n
  <2>8. \A i \in have + 1..upTo : listed'[i] = plan[i]
    BY <2>3, <2>4, <2>5
  <2>9. \A i \in 1..have : listed'[i] = listed[i]
    BY <2>4, <2>6
  <2> QED
    BY <2>1, <2>4, <2>7, <2>8, <2>9
<1>8. AssignmentsTypes'
  <2>1. Replies' = Replies
    BY <1>2 DEF Replies
  <2>2. budgets' \subseteq Limits /\ IsFiniteSet(budgets')
    BY <1>1, <1>2, <1>4, FS_AddElement DEF AssignmentsTypes
  <2>3. listed' \in Seq(PlanRow) /\ whole' \in BOOLEAN
    BY <1>3, <1>4, <1>7
  <2> QED
    BY <1>1, <1>2, <2>1, <2>2, <2>3 DEF AssignmentsTypes
<1>9. Reading'
  <2>1. Len(executed') = 0 /\ DOMAIN executed' = {} /\ executed' = <<>>
    BY <1>2, <1>6
  <2>2. Len(listed') \in Nat
    BY <1>8 DEF AssignmentsTypes
  <2> QED
    BY <2>1, <2>2 DEF Reading, ExecutedAsListed
<1>10. Listing'
  <2>1. budgets' # {} /\ limit \in budgets'
    BY <1>2
  <2>2. ASSUME NEW b \in Limits, budgets' = {b}
        PROVE  /\ Len(listed') <= Len(PlanOf(b)') /\ listed' = SubSeq(PlanOf(b)', 1, Len(listed'))
               /\ whole' => Len(listed') = Len(PlanOf(b)')
    <3>1. b = limit /\ PlanOf(b)' = plan
      BY <1>2, <1>5, <2>2 DEF plan, PlanOf
    <3>2. budgets = {} \/ budgets = {limit}
      BY <1>2, <2>2
    <3>3. have <= Len(plan) /\ listed = SubSeq(plan, 1, have)
      <4>1. CASE budgets = {}
        <5>1. listed = <<>>
          BY <1>1, <4>1 DEF Listing
        <5>2. have = 0
          BY <5>1 DEF have
        <5>3. SubSeq(plan, 1, 0) = <<>>
          BY SubSeqEmpty
        <5> QED
          BY <1>4, <5>1, <5>2, <5>3
      <4>2. CASE budgets = {limit}
        BY <1>1, <1>4, <4>2 DEF Listing, plan, have
      <4> QED
        BY <3>2, <4>1, <4>2
    <3>4. CASE have >= Len(plan) /\ whole' = TRUE /\ listed' = listed
      <4>1. have = Len(plan)
        <5>1. have \in Nat /\ Len(plan) \in Nat /\ have <= Len(plan) /\ have >= Len(plan)
          BY <1>4, <3>3, <3>4
        <5> QED
          BY ONLY <5>1
      <4> QED
        BY <3>1, <3>3, <3>4, <4>1 DEF have
    <3>5. CASE \E upTo \in have + 1..Len(plan) :
                 listed' = listed \o SubSeq(plan, have + 1, upTo) /\ whole' = (upTo = Len(plan))
      <4>1. PICK upTo \in have + 1..Len(plan) :
              listed' = listed \o SubSeq(plan, have + 1, upTo) /\ whole' = (upTo = Len(plan))
        BY <3>5
      <4>2. Len(listed') = upTo /\ listed' = SubSeq(plan, 1, upTo)
        BY <1>7, <3>3, <4>1
      <4>3. upTo <= Len(plan)
        OBVIOUS
      <4> QED
        BY <3>1, <4>1, <4>2, <4>3
    <3> QED
      BY <1>3, <3>4, <3>5
  <2>3. ASSUME NEW i \in DOMAIN listed'
        PROVE  \E b \in budgets' : \E j \in DOMAIN PlanOf(b)' : listed'[i] = PlanOf(b)'[j]
    <3>1. ASSUME i \in 1..have, listed'[i] = listed[i]
          PROVE  \E b \in budgets' : \E j \in DOMAIN PlanOf(b)' : listed'[i] = PlanOf(b)'[j]
      <4>1. PICK b \in budgets : \E j \in DOMAIN PlanOf(b) : listed[i] = PlanOf(b)[j]
        BY <1>1, <1>4, <3>1 DEF Listing
      <4>2. b \in budgets' /\ PlanOf(b)' = PlanOf(b)
        BY <1>2, <1>5 DEF PlanOf
      <4> QED
        BY <3>1, <4>1, <4>2
    <3>2. CASE listed' = listed
      BY <1>4, <3>1, <3>2
    <3>3. CASE \E upTo \in have + 1..Len(plan) : listed' = listed \o SubSeq(plan, have + 1, upTo)
      <4>1. PICK upTo \in have + 1..Len(plan) : listed' = listed \o SubSeq(plan, have + 1, upTo)
        BY <3>3
      <4>2. /\ listed' \in Seq(PlanRow) /\ Len(listed') = upTo
            /\ \A k \in 1..have : listed'[k] = listed[k]
            /\ \A k \in have + 1..upTo : listed'[k] = plan[k]
        BY <1>7, <4>1
      <4>3. i \in 1..upTo /\ (i \in 1..have \/ i \in have + 1..upTo) /\ upTo \in Nat
        BY <1>4, <4>2
      <4>4. CASE i \in 1..have
        BY <3>1, <4>2, <4>4
      <4>5. CASE i \in have + 1..upTo
        <5>1. i \in 1..Len(plan)
          BY <1>4, <4>3, <4>5
        <5>2. listed'[i] = plan[i] /\ i \in DOMAIN plan
          BY <1>4, <4>2, <4>5, <5>1
        <5>3. Plan(rows', windows', limit) = plan
          BY <1>2 DEF plan, PlanOf
        <5>4. \E j \in DOMAIN Plan(rows', windows', limit) : listed'[i] = Plan(rows', windows', limit)[j]
          BY <5>2, <5>3
        <5> QED
          BY <2>1, <5>4 DEF PlanOf
      <4> QED
        BY <4>3, <4>4, <4>5
    <3> QED
      BY <1>3, <3>2, <3>3
  <2>4. edits' = 0 => budgets' \subseteq {limit'}
    BY <1>1, <1>2 DEF Listing
  <2> QED
    BY <2>1, <2>2, <2>3, <2>4 DEF Listing
<1> QED
  BY <1>8, <1>9, <1>10 DEF AssignmentsInv

LEMMA ExecuteKeeps == AssignmentsInv /\ Execute => AssignmentsInv'
<1> SUFFICES ASSUME AssignmentsInv, Execute PROVE AssignmentsInv'
  OBVIOUS
<1> DEFINE n == Len(executed)
           assignment == listed[n + 1]
           refs == Slice(rows, windows, Scope(rows, assignment))
           given == ScopedAssignment(rows, refs, assignment.segment, limit)
           all == Candidates(rows, windows)
<1>1. AssignmentsTypes /\ Listing /\ Reading
  BY DEF AssignmentsInv
<1>2. /\ whole /\ n < Len(listed) /\ executed' = Append(executed, given)
      /\ rows' = rows /\ windows' = windows /\ limit' = limit /\ edits' = edits
      /\ listed' = listed /\ budgets' = budgets /\ whole' = whole
  BY DEF Execute
<1>3. /\ n \in Nat /\ executed \in Seq(Replies) /\ listed \in Seq(PlanRow) /\ Len(listed) \in Nat
      /\ n + 1 \in 1..Len(listed) /\ n + 1 \in DOMAIN listed /\ DOMAIN executed = 1..n
      /\ limit \in Limits /\ budgets \subseteq Limits
  BY <1>1, <1>2 DEF AssignmentsTypes
<1>4. assignment \in PlanRow /\ assignment.refs \in Seq(Nat) /\ assignment.segment \in Seq(Nat)
  <2>1. assignment \in PlanRow
    <3> HIDE DEF n
    <3> QED
      BY <1>3, ElementOfSeq
  <2> HIDE DEF assignment
  <2> QED
    BY <2>1 DEF PlanRow
<1> HIDE DEF n, assignment
<1>5. PICK b \in budgets : \E j \in DOMAIN PlanOf(b) : assignment = PlanOf(b)[j]
  BY <1>1, <1>3 DEF Listing, assignment
<1>6. PICK j \in DOMAIN PlanOf(b) : assignment = PlanOf(b)[j]
  BY <1>5
<1>7. /\ IsIndex(rows) /\ Covers(rows, PlanOf(b), all, Len(all), b)
  BY <1>1, <1>3, PlanShape
<1>8. /\ Follows(PlanOf(b), j, all)
      /\ assignment = ScopedAssignment(rows, assignment.refs, assignment.segment, b)
  BY <1>6, <1>7 DEF Covers
<1>9. PICK from \in DOMAIN all : \E upTo \in from..Len(all) : assignment.refs = SubSeq(all, from, upTo)
  BY <1>6, <1>8 DEF Follows
<1>10. PICK upTo \in from..Len(all) : assignment.refs = SubSeq(all, from, upTo)
  BY <1>9
<1>11. refs = assignment.refs
  <2>1. all \in Seq(DOMAIN rows)
    BY <1>7, CandidatesListed
  <2> HIDE DEF all
  <2> DEFINE m == upTo - from + 1
             stretch == SubSeq(all, from, upTo)
  <2>2. /\ from \in 1..Len(all) + 1 /\ upTo \in from - 1..Len(all) /\ Len(all) \in Nat
        /\ 1 \in 1..m /\ m \in 1..m /\ from + 1 - 1 = from /\ from + m - 1 = upTo
    BY <2>1
  <2>3. /\ Len(stretch) = m /\ \A k \in 1..m : stretch[k] = all[from + k - 1]
    BY <1>7, <2>1, <2>2, TokensOfStretch
  <2> HIDE DEF stretch, m
  <2>4. stretch[1] = all[from] /\ Last(stretch) = all[upTo]
    BY <2>2, <2>3 DEF Last
  <2>5. Scope(rows, assignment) = <<PlanKey(rows, all[from]), PlanKey(rows, all[upTo])>>
    BY <1>10, <2>4 DEF Scope, stretch
  <2> QED
    BY <1>7, <1>10, <2>5, SliceIsStretch DEF all
<1> HIDE DEF refs, all
<1>12. given.refs = assignment.refs /\ given.segment = assignment.segment
  BY <1>11 DEF ScopedAssignment, Assignment
<1>13. edits = 0 => given = assignment
  <2> SUFFICES ASSUME edits = 0 PROVE given = assignment
    OBVIOUS
  <2>1. b = limit
    BY <1>1 DEF Listing
  <2> QED
    BY <1>8, <1>11, <2>1
<1>14. given \in Replies
  BY <1>3, <1>4, <1>11 DEF Replies
<1> HIDE DEF given
<1>15. /\ executed' \in Seq(Replies) /\ Len(executed') = n + 1 /\ DOMAIN executed' = 1..n + 1
       /\ \A i \in 1..n : executed'[i] = executed[i]
       /\ executed'[n + 1] = given
  <2>1. /\ executed' \in Seq(Replies) /\ Len(executed') = n + 1
        /\ \A i \in 1..n : executed'[i] = executed[i]
        /\ executed'[n + 1] = given
    BY <1>2, <1>3, <1>14, AppendProperties DEF n
  <2> QED
    BY <1>3, <2>1
<1>16. AssignmentsTypes'
  <2>1. Replies' = Replies
    BY <1>2 DEF Replies
  <2> QED
    BY <1>1, <1>2, <1>15, <2>1 DEF AssignmentsTypes
<1>17. Listing'
  BY <1>1, <1>2 DEF Listing, PlanOf
<1>18. ExecutedAsListed'
  <2> SUFFICES ASSUME NEW i \in DOMAIN executed'
               PROVE  /\ executed'[i].refs = listed'[i].refs
                      /\ executed'[i].segment = listed'[i].segment
                      /\ edits' = 0 => executed'[i].tokens = listed'[i].tokens
    BY DEF ExecutedAsListed
  <2>1. CASE i = n + 1
    BY <1>2, <1>12, <1>13, <1>15, <2>1 DEF assignment
  <2>2. CASE i # n + 1
    <3>1. i \in 1..n
      BY <1>3, <1>15, <2>2
    <3> QED
      BY <1>1, <1>2, <1>3, <1>15, <3>1 DEF Reading, ExecutedAsListed
  <2> QED
    BY <2>1, <2>2
<1>19. Reading'
  <2>1. Len(executed') <= Len(listed')
    BY <1>2, <1>3, <1>15
  <2> QED
    BY <1>2, <1>18, <2>1 DEF Reading
<1> QED
  BY <1>16, <1>17, <1>19 DEF AssignmentsInv

LEMMA EditKeeps == AssignmentsInv /\ EditChunkTokens => AssignmentsInv'
<1> SUFFICES ASSUME AssignmentsInv, EditChunkTokens PROVE AssignmentsInv'
  OBVIOUS
<1>1. AssignmentsTypes /\ Listing /\ Reading
  BY DEF AssignmentsInv
<1>2. /\ edits' = edits + 1 /\ limit' \in Limits
      /\ rows' = rows /\ windows' = windows /\ listed' = listed /\ budgets' = budgets
      /\ whole' = whole /\ executed' = executed
  BY DEF EditChunkTokens
<1>3. edits' \in Nat /\ edits' # 0
  BY <1>1, <1>2 DEF AssignmentsTypes
<1>4. AssignmentsTypes'
  <2>1. Replies' = Replies
    BY <1>2 DEF Replies
  <2> QED
    BY <1>1, <1>2, <1>3, <2>1 DEF AssignmentsTypes
<1>5. Listing'
  BY <1>1, <1>2, <1>3 DEF Listing, PlanOf
<1>6. Reading'
  BY <1>1, <1>2, <1>3 DEF Reading, ExecutedAsListed
<1> QED
  BY <1>4, <1>5, <1>6 DEF AssignmentsInv

LEMMA AssignmentsInvariant == AssignmentsSpec => []AssignmentsInv
<1>1. AssignmentsInv /\ [AssignmentsNext]_assignmentsVars => AssignmentsInv'
  <2> SUFFICES ASSUME AssignmentsInv, [AssignmentsNext]_assignmentsVars PROVE AssignmentsInv'
    OBVIOUS
  <2>1. CASE Page
    BY <2>1, PageKeeps
  <2>2. CASE Execute
    BY <2>2, ExecuteKeeps
  <2>3. CASE EditChunkTokens
    BY <2>3, EditKeeps
  <2>4. CASE UNCHANGED assignmentsVars
    BY <2>4 DEF AssignmentsInv, AssignmentsTypes, Replies, Listing, PlanOf, Reading,
                ExecutedAsListed, assignmentsVars
  <2> QED
    BY <2>1, <2>2, <2>3, <2>4 DEF AssignmentsNext
<1> QED
  BY <1>1, AssignmentsStart, PTL DEF AssignmentsSpec

(* _chunk_plan and search: for every index, coverage and budget, the rows a
   client has listed to the end at one chunk_tokens, over however many pages,
   assign each uncovered record once and in order, and no calendar day that
   fits in a row is divided.                                               *)
THEOREM EvidencePartitioned == AssignmentsSpec => []PlanPartitions
<1>1. ASSUME AssignmentsInv PROVE PlanPartitions
  <2> SUFFICES ASSUME whole, Cardinality(budgets) = 1 PROVE Partition /\ DaysKeptTogether
    BY DEF PlanPartitions
  <2> DEFINE all == Candidates(rows, windows)
  <2>1. AssignmentsTypes /\ Listing
    BY <1>1 DEF AssignmentsInv
  <2>2. PICK b : budgets = {b}
    BY <2>1, FS_Singleton DEF AssignmentsTypes
  <2>3. b \in Limits
    BY <2>1, <2>2 DEF AssignmentsTypes
  <2> DEFINE plan == PlanOf(b)
  <2>4. /\ IsIndex(rows) /\ b \in Nat \ {0} /\ plan \in Seq(PlanRow)
        /\ Covers(rows, plan, all, Len(all), b)
    BY <2>1, <2>3, PlanShape
  <2>5. listed = plan
    <3>1. listed = SubSeq(plan, 1, Len(listed)) /\ Len(listed) = Len(plan)
      BY <2>1, <2>2, <2>3 DEF Listing
    <3> HIDE DEF plan
    <3> QED
      BY <2>4, <3>1, SubSeqFull
  <2>6. Partition
    <3>1. all \in Seq(DOMAIN rows)
      BY <2>4, CandidatesListed
    <3> HIDE DEF all
    <3>2. all = <<>> <=> Len(all) = 0
      BY <3>1
    <3> HIDE DEF plan
    <3>3. Partitions(plan, all)
      BY <2>4, <3>2 DEF Covers, Partitions, Last
    <3> QED
      BY <2>5, <3>3 DEF Partition, all
  <2>7. DaysKeptTogether
    <3> SUFFICES DaysTogether(listed, all, b)
      BY <2>2 DEF DaysKeptTogether
    <3>1. \A k \in DOMAIN Buckets(rows, all) :
            Tokens(rows, Buckets(rows, all)[k]) <= b =>
              \E i \in DOMAIN plan : ToSet(Buckets(rows, all)[k]) \subseteq ToSet(plan[i].refs)
      BY <2>4, PlanCovers DEF PlanOf
    <3> HIDE DEF all, plan
    <3> QED
      BY <2>5, <3>1 DEF DaysTogether
  <2> QED
    BY <2>6, <2>7
<1> QED
  BY <1>1, AssignmentsInvariant, PTL

(* _chunk_row and search: a reader that executes a row's cursor is given the
   records and the segment the row listed, whatever chunk_tokens has become,
   and at the cost listed while it is the same.                            *)
THEOREM ExecutesWhatWasListed == AssignmentsSpec => []ExecutedAsListed
<1>1. AssignmentsInv => ExecutedAsListed
  BY DEF AssignmentsInv, Reading
<1> QED
  BY <1>1, AssignmentsInvariant, PTL
=============================================================================
