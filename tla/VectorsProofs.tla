--------------------------- MODULE VectorsProofs ---------------------------
(***************************************************************************)
(* The vectors, for any records, texts, models and batch size.  What is    *)
(* committed holds one model's vectors, because the open transaction does  *)
(* so but for the paragraphs of the embedding job under way, and the job   *)
(* has or still asks for a vector of each of those.  The program always    *)
(* opens an index with search by meaning, and the theorems that depend on  *)
(* it say so.                                                              *)
(***************************************************************************)
EXTENDS Vectors, TLAPS

VectorSet == [model : Model, text : Text]

IsIndex(w) ==
  /\ w = [model |-> w.model, table |-> w.table, records |-> w.records,
          rows |-> w.rows, vec |-> w.vec, cache |-> w.cache, next |-> w.next]
  /\ w.model \in Model \cup {Null}
  /\ w.table \in BOOLEAN
  /\ w.records \in [Record -> Content \cup {Null}]
  /\ w.rows \in [DOMAIN w.rows -> [record : Record, text : Text]]
  /\ w.cache \subseteq VectorSet
  /\ w.next \in Nat
  /\ \A id \in DOMAIN w.rows : id \in Nat /\ id < w.next

VectorTypes ==
  /\ corpus \in [Record -> Content \cup {Null}]
  /\ incoming \in [Record -> Content \cup {Null}]
  /\ store \subseteq VectorSet /\ paid \subseteq VectorSet
  /\ IsIndex(disk) /\ IsIndex(work)
  /\ pc \in {"closed", "reembed", "open", "sync", "serving"}
  /\ pc # "closed" => session \in [model : Model, semantic : Semantic]
  /\ pc \in {"closed", "open", "serving"} => job = NoJob
  /\ job = [ids |-> job.ids, need |-> job.need, fresh |-> job.fresh, got |-> job.got]
  /\ job.need \subseteq Text /\ job.fresh \subseteq VectorSet /\ job.got \subseteq VectorSet
  /\ todo \subseteq {r \in Record : incoming[r] # Null}

\* What was paid for is in the store, about to be, or lost, and a job asks
\* again for the last only.
PaidIsAccounted ==
  /\ paid \subseteq store \cup job.fresh \cup lost
  /\ \A t \in job.need : Vector(session.model, t) \in paid => Vector(session.model, t) \in lost
-----------------------------------------------------------------------------
OwnCache(w) == \A v \in w.cache : v.model = w.model

\* w has the vectors of all its paragraphs except those in ids.
VectorsBut(ids, w) ==
  /\ DOMAIN w.vec \cup ids = DOMAIN w.rows
  /\ \A id \in DOMAIN w.rows \ ids :
       /\ w.vec[id].vector = Vector(w.model, TextOf(w, id))
       /\ w.vec[id].date = w.records[w.rows[id].record].date

\* A committed index is new, or belongs to a model.
DiskWhole ==
  disk.model # Null => disk.table /\ OwnCache(disk) /\ VectorsOf(disk.model, disk)

\* The open transaction is as good, but for the job.
WorkWhole ==
  pc \in {"reembed", "open", "sync"} =>
    /\ session.semantic /\ work.model = session.model
    /\ work.table /\ OwnCache(work) /\ VectorsBut(job.ids, work)
    /\ \A v \in job.fresh \cup job.got : v.model = work.model
    /\ \A id \in job.ids :
         \/ TextOf(work, id) \in job.need
         \/ \E v \in work.cache \cup job.fresh \cup job.got : v.text = TextOf(work, id)

\* The records of a sync that are not to do are done.
DoneIsIncoming ==
  /\ pc = "sync" => \A r \in Record \ todo : work.records[r] = incoming[r]
  /\ pc = "serving" =>
       /\ disk.model = session.model
       /\ \A r \in Record : disk.records[r] = incoming[r]

MeaningInv == DiskWhole /\ WorkWhole /\ DoneIsIncoming
-----------------------------------------------------------------------------
(* A text's vector is a record of its model and its text. *)
LEMMA VectorType ==
  /\ \A m \in Model, t \in Text : Vector(m, t) \in VectorSet
  /\ \A m, t : Vector(m, t).model = m /\ Vector(m, t).text = t
  /\ \A v \in VectorSet : v = Vector(v.model, v.text)
BY DEF Vector, VectorSet

\* What deleting the records R from w leaves.
IsRest(w, semantic, R, d) ==
  /\ IsIndex(d) /\ d.model = w.model /\ d.table = w.table /\ d.cache = w.cache
  /\ DOMAIN d.rows = {id \in DOMAIN w.rows : w.rows[id].record \notin R}
  /\ \A id \in DOMAIN d.rows : d.rows[id].record \notin R
  /\ \A r \in Record : d.records[r] = IF r \in R THEN Null ELSE w.records[r]
  /\ semantic /\ w.table /\ VectorsBut({}, w) => VectorsBut({}, d)

(* _delete_record takes a record's rows and vectors, and nothing else. *)
LEMMA DeletedKeeps ==
  ASSUME NEW w, IsIndex(w), NEW R \in SUBSET Record, NEW semantic,
         NEW d, d = Deleted(w, semantic, R)
  PROVE  IsRest(w, semantic, R, d)
<1> DEFINE ids == UNION {ParagraphsOf(w, r) : r \in R}
           rows == Without(w.rows, ids)
           vec == IF semantic /\ w.table THEN Without(w.vec, ids) ELSE w.vec
           records == [r \in Record |-> IF r \in R THEN Null ELSE w.records[r]]
<1>1. d = [model |-> w.model, table |-> w.table, records |-> records,
           rows |-> rows, vec |-> vec, cache |-> w.cache, next |-> w.next]
  BY DEF Deleted, IsIndex
<1>2. /\ d.model = w.model /\ d.table = w.table /\ d.cache = w.cache
      /\ d.next = w.next /\ d.rows = rows /\ d.vec = vec /\ d.records = records
  BY <1>1
<1>3. DOMAIN rows = DOMAIN w.rows \ ids /\ \A id \in DOMAIN rows : rows[id] = w.rows[id]
  BY DEF Without
<1>4. ids = {id \in DOMAIN w.rows : w.rows[id].record \in R}
  BY DEF ParagraphsOf
<1>5. records \in [Record -> Content \cup {Null}]
      /\ \A r \in Record : records[r] = IF r \in R THEN Null ELSE w.records[r]
  BY DEF IsIndex
<1>6. semantic /\ w.table => /\ DOMAIN vec = DOMAIN w.vec \ ids
                             /\ \A id \in DOMAIN vec : vec[id] = w.vec[id]
  BY DEF Without
<1>7. rows \in [DOMAIN rows -> [record : Record, text : Text]]
  <2>1. rows = [id \in DOMAIN rows |-> w.rows[id]]
    BY DEF Without
  <2> HIDE DEF rows
  <2> QED
    BY <1>3, <2>1 DEF IsIndex
<1> HIDE DEF rows, vec, records, ids
<1>8. IsIndex(d)
  BY <1>1, <1>2, <1>3, <1>5, <1>7 DEF IsIndex
<1>9. ASSUME semantic, w.table, VectorsBut({}, w)
      PROVE  VectorsBut({}, d)
  <2>1. DOMAIN w.vec = DOMAIN w.rows
    BY <1>9 DEF VectorsBut
  <2>2. DOMAIN vec = DOMAIN rows
    BY <1>3, <1>6, <1>9, <2>1
  <2>3. ASSUME NEW id \in DOMAIN rows
        PROVE  /\ vec[id] = w.vec[id] /\ rows[id] = w.rows[id]
               /\ records[rows[id].record] = w.records[w.rows[id].record]
    <3>1. id \in DOMAIN w.rows /\ w.rows[id].record \in Record \ R
      BY <1>3, <1>4, <2>3 DEF IsIndex
    <3> QED
      BY <1>3, <1>5, <1>6, <1>9, <2>2, <2>3, <3>1
  <2>4. \A id \in DOMAIN w.rows : w.vec[id].vector = Vector(w.model, w.rows[id].text)
                            /\ w.vec[id].date = w.records[w.rows[id].record].date
    BY <1>9 DEF VectorsBut, TextOf
  <2> QED
    BY <1>2, <1>3, <2>2, <2>3, <2>4 DEF VectorsBut, TextOf
<1>10. \A id \in DOMAIN d.rows : d.rows[id].record \notin R
  BY <1>2, <1>3, <1>4
<1> QED
  BY <1>2, <1>3, <1>4, <1>5, <1>8, <1>9, <1>10 DEF IsRest

(* _insert_record gives a record new rows, and owes their vectors. *)
LEMMA InsertedKeeps ==
  ASSUME NEW w, IsIndex(w), NEW r \in Record, NEW c \in Content,
         \A id \in DOMAIN w.rows : w.rows[id].record # r,
         NEW x, x = Inserted(w, r, c)
  PROVE  /\ IsIndex(x) /\ x.model = w.model /\ x.table = w.table /\ x.cache = w.cache
         /\ x.records[r] = c
         /\ \A q \in Record \ {r} : x.records[q] = w.records[q]
         /\ ParagraphsOf(x, r) \subseteq DOMAIN x.rows
         /\ VectorsBut({}, w) => VectorsBut(ParagraphsOf(x, r), x)
<1> DEFINE n == Len(c.paragraphs)
           new == w.next .. (w.next + n - 1)
           row(id) == [record |-> r, text |-> c.paragraphs[id - w.next + 1]]
           rows == [id \in DOMAIN w.rows \cup new |-> IF id \in new THEN row(id) ELSE w.rows[id]]
           records == [w.records EXCEPT ![r] = c]
<1>1. x = [model |-> w.model, table |-> w.table, records |-> records,
           rows |-> rows, vec |-> w.vec, cache |-> w.cache, next |-> w.next + n]
  BY DEF Inserted, IsIndex
<1>2. /\ x.model = w.model /\ x.table = w.table /\ x.cache = w.cache
      /\ x.next = w.next + n /\ x.rows = rows /\ x.vec = w.vec /\ x.records = records
  BY <1>1
<1>3. n \in Nat /\ \A i \in 1..n : c.paragraphs[i] \in Text
  BY VectorsAssumption
<1>4. w.next \in Nat /\ new \subseteq Nat /\ \A id \in new : id >= w.next /\ id < w.next + n
  BY <1>3 DEF IsIndex
<1>5. \A id \in new : row(id).record = r /\ row(id) \in [record : Record, text : Text]
  <2>1. \A id \in new : id - w.next + 1 \in 1..n
    BY <1>3, <1>4
  <2> QED
    BY <1>3, <2>1
<1>6. \A id \in DOMAIN w.rows : id \notin new
  BY <1>4 DEF IsIndex
<1>7. /\ DOMAIN rows = DOMAIN w.rows \cup new
      /\ \A id \in new : rows[id] = row(id)
      /\ \A id \in DOMAIN w.rows : rows[id] = w.rows[id]
  BY <1>6
<1> HIDE DEF row
<1>8. rows \in [DOMAIN rows -> [record : Record, text : Text]]
  <2>1. \A id \in DOMAIN rows : rows[id] \in [record : Record, text : Text]
    BY <1>5, <1>7 DEF IsIndex
  <2> QED
    BY <2>1
<1>9. /\ records \in [Record -> Content \cup {Null}] /\ records[r] = c
      /\ \A q \in Record \ {r} : records[q] = w.records[q]
  BY DEF IsIndex
<1> HIDE DEF rows, records, n
<1>10. IsIndex(x)
  <2>1. \A id \in DOMAIN rows : id \in Nat /\ id < w.next + n
    BY <1>3, <1>4, <1>7 DEF IsIndex
  <2> QED
    BY <1>1, <1>2, <1>3, <1>4, <1>8, <1>9, <2>1 DEF IsIndex
<1> HIDE DEF new
<1>11. ParagraphsOf(x, r) = new
  BY <1>2, <1>5, <1>7 DEF ParagraphsOf
<1>12. ASSUME VectorsBut({}, w)
       PROVE  VectorsBut(new, x)
  <2>1. DOMAIN w.vec = DOMAIN w.rows
    BY <1>12 DEF VectorsBut
  <2>2. \A id \in DOMAIN w.rows : w.rows[id].record \in Record \ {r}
    BY DEF IsIndex
  <2>3. \A id \in DOMAIN w.rows : w.vec[id].vector = Vector(w.model, w.rows[id].text)
                            /\ w.vec[id].date = w.records[w.rows[id].record].date
    BY <1>12 DEF VectorsBut, TextOf
  <2>4. DOMAIN rows \ new = DOMAIN w.rows
    BY <1>6, <1>7
  <2> QED
    BY <1>2, <1>7, <1>9, <2>1, <2>2, <2>3, <2>4 DEF VectorsBut, TextOf
<1> QED
  BY <1>2, <1>7, <1>9, <1>10, <1>11, <1>12

\* What a job for the paragraphs ids of w knows and asks for.
Asks(m, semantic, w, ids, j) ==
  /\ j = [ids |-> j.ids, need |-> j.need, fresh |-> {}, got |-> j.got] /\ j.fresh = {}
  /\ j.need \subseteq Text /\ j.got \subseteq VectorSet
  /\ \A t \in j.need : Vector(m, t) \notin store
  /\ \A v \in j.got : v.model = m
  /\ semantic => j.ids = ids
  /\ semantic => \A id \in ids :
       \/ TextOf(w, id) \in j.need
       \/ \E v \in w.cache \cup j.got : v.text = TextOf(w, id)

(* Asking index.db, then the store, then the model, answers for every text. *)
LEMMA JobAsks ==
  ASSUME NEW m \in Model, NEW semantic \in BOOLEAN, NEW w, IsIndex(w),
         NEW ids \in SUBSET DOMAIN w.rows, store \subseteq VectorSet,
         NEW j, j = Job(m, semantic, w, ids)
  PROVE  Asks(m, semantic, w, ids, j)
<1> DEFINE known == {t \in Text : \E v \in w.cache : v.text = t}
           ask == {TextOf(w, id) : id \in ids} \ known
           need == {t \in ask : Stored(m, t) = {}}
           got == UNION {Stored(m, t) : t \in ask}
<1>1. CASE ~semantic
  BY <1>1 DEF Job, NoJob, Asks
<1>2. CASE semantic
  <2>1. j = [ids |-> ids, need |-> need, fresh |-> {}, got |-> got]
    BY <1>2 DEF Job
  <2>2. \A id \in ids : TextOf(w, id) \in Text
    BY DEF IsIndex, TextOf
  <2>3. need \subseteq Text /\ got \subseteq VectorSet /\ \A v \in got : v.model = m
    BY <2>2 DEF Stored
  <2>4. \A t \in need : Vector(m, t) \notin store
    BY VectorType DEF Stored
  <2>5. ASSUME NEW id \in ids
        PROVE  \/ TextOf(w, id) \in need
               \/ \E v \in w.cache \cup got : v.text = TextOf(w, id)
    <3> DEFINE t == TextOf(w, id)
    <3>1. CASE t \in known
      BY <3>1
    <3>2. CASE t \notin known /\ Stored(m, t) = {}
      BY <3>2
    <3>3. CASE t \notin known /\ Stored(m, t) # {}
      <4>1. t \in ask
        BY <3>3
      <4>2. PICK v \in Stored(m, t) : TRUE
        BY <3>3
      <4>3. v \in got /\ v.text = t
        BY <4>1, <4>2 DEF Stored
      <4> QED
        BY <4>3
    <3> QED
      BY <3>1, <3>2, <3>3
  <2> HIDE DEF need, got
  <2>6. j.ids = ids /\ j.need = need /\ j.fresh = {} /\ j.got = got
    BY <2>1
  <2> QED
    BY <2>1, <2>3, <2>4, <2>5, <2>6 DEF Asks
<1> QED
  BY <1>1, <1>2

(* The answers of a job go into the rows of the index it was for. *)
LEMMA FilledKeeps ==
  ASSUME IsIndex(work), job.got \subseteq VectorSet, NEW f, f = Filled(work)
  PROVE  /\ IsIndex(f) /\ f.model = work.model /\ f.table = work.table
         /\ f.records = work.records
         /\ /\ Answered /\ work.table /\ OwnCache(work) /\ VectorsBut(job.ids, work)
            /\ \A v \in job.fresh \cup job.got : v.model = work.model
            /\ \A id \in job.ids :
                 \/ TextOf(work, id) \in job.need
                 \/ \E v \in work.cache \cup job.fresh \cup job.got : v.text = TextOf(work, id)
            => OwnCache(f) /\ VectorsBut({}, f)
<1> DEFINE cache == work.cache \cup job.got
           row(id) == [vector |-> CHOOSE v \in cache : v.text = TextOf(work, id),
                       date |-> work.records[work.rows[id].record].date]
           all == [id \in DOMAIN work.vec \cup job.ids |->
                     IF id \in job.ids THEN row(id) ELSE work.vec[id]]
           vec == IF work.table THEN all ELSE work.vec
<1>1. f = [model |-> work.model, table |-> work.table, records |-> work.records,
           rows |-> work.rows, vec |-> vec, cache |-> cache, next |-> work.next]
  BY DEF Filled, IsIndex
<1>2. /\ f.model = work.model /\ f.table = work.table /\ f.records = work.records
      /\ f.rows = work.rows /\ f.vec = vec /\ f.cache = cache /\ f.next = work.next
  BY <1>1
<1>3. cache \subseteq VectorSet
  BY DEF IsIndex
<1>4. IsIndex(f)
  <2> HIDE DEF vec, cache
  <2> QED
    BY <1>1, <1>2, <1>3 DEF IsIndex
<1>5. ASSUME Answered, work.table, OwnCache(work), VectorsBut(job.ids, work),
             \A v \in job.fresh \cup job.got : v.model = work.model,
             \A id \in job.ids :
               \/ TextOf(work, id) \in job.need
               \/ \E v \in work.cache \cup job.fresh \cup job.got : v.text = TextOf(work, id)
      PROVE  OwnCache(f) /\ VectorsBut({}, f)
  <2>1. \A v \in cache : v.model = work.model
    BY <1>5 DEF OwnCache
  <2>2. ASSUME NEW id \in job.ids
        PROVE  row(id).vector = Vector(work.model, TextOf(work, id))
    <3> DEFINE v == CHOOSE v \in cache : v.text = TextOf(work, id)
    <3>1. \E u \in cache : u.text = TextOf(work, id)
      BY <1>5 DEF Answered
    <3>2. v \in cache /\ v.text = TextOf(work, id)
      BY <3>1, Zenon
    <3> HIDE DEF cache
    <3>3. v = Vector(work.model, TextOf(work, id))
      BY <1>3, <2>1, <3>2, VectorType
    <3> QED
      BY <3>3
  <2>3. \A id \in job.ids : row(id).date = work.records[work.rows[id].record].date
    OBVIOUS
  <2>4. vec = all /\ DOMAIN all = DOMAIN work.rows
    BY <1>5 DEF VectorsBut
  <2> HIDE DEF row, vec, cache
  <2>5. \A id \in DOMAIN work.rows :
          all[id] = IF id \in job.ids THEN row(id) ELSE work.vec[id]
    BY <2>4
  <2> HIDE DEF all
  <2>6. \A id \in DOMAIN work.rows \ job.ids :
          /\ work.vec[id].vector = Vector(work.model, TextOf(work, id))
          /\ work.vec[id].date = work.records[work.rows[id].record].date
    BY <1>5 DEF VectorsBut
  <2>7. VectorsBut({}, f)
    BY <1>2, <2>2, <2>3, <2>4, <2>5, <2>6 DEF VectorsBut, TextOf
  <2> QED
    BY <1>2, <2>1, <2>7 DEF OwnCache
<1> QED
  BY <1>2, <1>4, <1>5

(* No vectors owed means the vectors of the model. *)
LEMMA NothingOwed ==
  ASSUME NEW w
  PROVE  VectorsBut({}, w) <=> VectorsOf(w.model, w)
BY DEF VectorsBut, VectorsOf
-----------------------------------------------------------------------------
(* Types. *)
LEMMA InitTypes == Init => VectorTypes /\ PaidIsAccounted
<1> SUFFICES ASSUME Init PROVE VectorTypes /\ PaidIsAccounted
  OBVIOUS
<1>1. IsIndex(NewIndex)
  BY DEF IsIndex, NewIndex
<1> QED
  BY <1>1 DEF Init, VectorTypes, PaidIsAccounted, NoJob

\* The record of a job.
IsJob(j) ==
  /\ j = [ids |-> j.ids, need |-> j.need, fresh |-> j.fresh, got |-> j.got]
  /\ j.need \subseteq Text /\ j.fresh \subseteq VectorSet /\ j.got \subseteq VectorSet

LEMMA NoJobType ==
  IsJob(NoJob) /\ NoJob.ids = {} /\ NoJob.need = {} /\ NoJob.fresh = {} /\ NoJob.got = {}
BY DEF IsJob, NoJob

\* What embedding and committing leave alone.
JobOnly ==
  /\ session' = session /\ work' = work /\ pc' = pc /\ disk' = disk /\ todo' = todo
  /\ incoming' = incoming /\ corpus' = corpus

(* The model's answers to a batch. *)
LEMMA BatchStep ==
  ASSUME VectorTypes, PaidIsAccounted, EmbedBatch
  PROVE  /\ VectorTypes' /\ PaidIsAccounted' /\ JobOnly
         /\ job'.ids = job.ids /\ job'.got = job.got
         /\ \E batch \in SUBSET job.need :
              /\ job'.need = job.need \ batch
              /\ job'.fresh = {Vector(session.model, t) : t \in batch}
<1>1. PICK batch \in SUBSET job.need :
        LET fresh == {Vector(session.model, t) : t \in batch}
        IN /\ paid' = paid \cup fresh /\ lost' = lost \ fresh
           /\ job' = [job EXCEPT !.need = @ \ batch, !.fresh = fresh]
  BY DEF EmbedBatch
<1>2. JobOnly /\ store' = store /\ job.need # {} /\ job.fresh = {}
  BY DEF EmbedBatch, world, JobOnly
<1> DEFINE fresh == {Vector(session.model, t) : t \in batch}
<1>3. job' = [ids |-> job.ids, need |-> job.need \ batch, fresh |-> fresh, got |-> job.got]
  BY <1>1 DEF VectorTypes
<1>4. pc \in {"reembed", "sync"} /\ session \in [model : Model, semantic : Semantic]
  BY <1>2, NoJobType DEF VectorTypes
<1>5. fresh \subseteq VectorSet
  BY <1>4, VectorType DEF VectorTypes
<1>6. paid' = paid \cup fresh /\ lost' = lost \ fresh
  BY <1>1
<1>7. \A t \in job.need \ batch : Vector(session.model, t) \notin fresh
  BY VectorType
<1> HIDE DEF fresh
<1>8. /\ job'.ids = job.ids /\ job'.need = job.need \ batch
      /\ job'.fresh = fresh /\ job'.got = job.got
      /\ job' = [ids |-> job'.ids, need |-> job'.need, fresh |-> job'.fresh, got |-> job'.got]
  BY <1>3
<1>9. VectorTypes'
  BY <1>2, <1>4, <1>5, <1>6, <1>8 DEF VectorTypes, IsIndex, JobOnly
<1>10. PaidIsAccounted'
  BY <1>2, <1>6, <1>7, <1>8 DEF PaidIsAccounted, JobOnly
<1> QED
  BY <1>2, <1>8, <1>9, <1>10 DEF fresh

(* The store commits what the model has answered. *)
LEMMA CommitStep ==
  ASSUME VectorTypes, PaidIsAccounted, CommitBatch
  PROVE  /\ VectorTypes' /\ PaidIsAccounted' /\ JobOnly
         /\ job'.ids = job.ids /\ job'.need = job.need
         /\ job'.fresh = {} /\ job'.got = job.got \cup job.fresh
<1>1. /\ JobOnly /\ store' = store \cup job.fresh /\ paid' = paid /\ lost' = lost
      /\ job.fresh # {}
  BY DEF CommitBatch, world, JobOnly
<1>2. /\ job'.ids = job.ids /\ job'.need = job.need
      /\ job'.fresh = {} /\ job'.got = job.got \cup job.fresh
      /\ job' = [ids |-> job'.ids, need |-> job'.need, fresh |-> job'.fresh, got |-> job'.got]
  BY DEF CommitBatch, VectorTypes
<1>3. pc \in {"reembed", "sync"}
  BY <1>1, NoJobType DEF VectorTypes
<1>4. VectorTypes'
  BY <1>1, <1>2, <1>3 DEF VectorTypes, IsIndex, JobOnly
<1>5. PaidIsAccounted'
  BY <1>1, <1>2 DEF PaidIsAccounted, JobOnly
<1> QED
  BY <1>1, <1>2, <1>4, <1>5

(* Opening an index, with the model it belongs to or another. *)
LEMMA OpenStep ==
  ASSUME VectorTypes, PaidIsAccounted, NEW m \in Model, NEW semantic \in Semantic,
         Open(m, semantic)
  PROVE  /\ VectorTypes' /\ PaidIsAccounted'
         /\ session'.model = m /\ session'.semantic = semantic
         /\ work'.model = m
         /\ DiskWhole /\ semantic => WorkWhole'
<1> DEFINE new == [disk EXCEPT !.model = m, !.table = semantic, !.vec = <<>>, !.cache = {}]
<1>1. /\ session' = [model |-> m, semantic |-> semantic]
      /\ store' = store /\ paid' = paid /\ lost' = lost /\ disk' = disk
      /\ incoming' = incoming /\ todo' = todo /\ corpus' = corpus /\ semantic \in BOOLEAN
      /\ job.fresh = {}
  BY VectorsAssumption, NoJobType DEF Open, world, VectorTypes
<1>2. CASE disk.model = m
  <2>1. work' = disk /\ pc' = "open" /\ job' = NoJob
    BY <1>2 DEF Open
  <2>2. VectorTypes' /\ PaidIsAccounted'
    BY <1>1, <2>1, NoJobType DEF VectorTypes, PaidIsAccounted, IsIndex, IsJob
  <2>3. DiskWhole /\ semantic => WorkWhole'
    BY <1>1, <1>2, <2>1, NoJobType, NothingOwed, VectorsAssumption
    DEF DiskWhole, WorkWhole, OwnCache, VectorsBut, TextOf
  <2> QED
    BY <1>1, <1>2, <2>1, <2>2, <2>3
<1>3. CASE disk.model # m
  <2>1. work' = new /\ pc' = "reembed" /\ job' = Job(m, semantic, work', DOMAIN disk.rows)
    BY <1>3 DEF Open
  <2>2. work' = [model |-> m, table |-> semantic, records |-> disk.records,
                 rows |-> disk.rows, vec |-> <<>>, cache |-> {}, next |-> disk.next]
    BY <2>1 DEF VectorTypes, IsIndex
  <2>3. /\ work'.model = m /\ work'.table = semantic /\ work'.records = disk.records
        /\ work'.rows = disk.rows /\ work'.vec = <<>> /\ work'.cache = {}
        /\ work'.next = disk.next
    BY <2>2
  <2>4. IsIndex(work')
    BY <1>1, <2>2, <2>3 DEF VectorTypes, IsIndex
  <2>5. store \subseteq VectorSet /\ DOMAIN disk.rows \in SUBSET DOMAIN work'.rows
    BY <2>3 DEF VectorTypes
  <2>6. Asks(m, semantic, work', DOMAIN disk.rows, job')
    BY <1>1, <2>1, <2>4, <2>5, JobAsks, Zenon
  <2>7. VectorTypes'
    BY <1>1, <2>1, <2>4, <2>6 DEF VectorTypes, IsIndex, Asks
  <2>8. PaidIsAccounted'
    BY <1>1, <2>6 DEF PaidIsAccounted, Asks
  <2>9. ASSUME semantic
        PROVE  WorkWhole'
    <3>1. OwnCache(work') /\ VectorsBut(job'.ids, work')
      BY <2>3, <2>6, <2>9 DEF OwnCache, VectorsBut, Asks
    <3> QED
      BY <1>1, <2>3, <2>6, <2>9, <3>1 DEF WorkWhole, OwnCache, VectorsBut, TextOf, Asks
  <2> QED
    BY <1>1, <2>3, <2>7, <2>8, <2>9
<1> QED
  BY <1>2, <1>3

(* The vectors of a new model are committed with its name. *)
LEMMA ReembeddedStep ==
  ASSUME VectorTypes, PaidIsAccounted, Reembedded
  PROVE  /\ VectorTypes' /\ PaidIsAccounted' /\ pc' = "open"
         /\ WorkWhole => WorkWhole' /\ DiskWhole'
<1>1. /\ pc = "reembed" /\ Answered /\ disk' = Filled(work) /\ work' = Filled(work)
      /\ job' = NoJob /\ pc' = "open" /\ corpus' = corpus /\ store' = store
      /\ paid' = paid /\ lost' = lost
      /\ session' = session /\ incoming' = incoming /\ todo' = todo
  BY DEF Reembedded, world
<1>2. IsIndex(work) /\ job.got \subseteq VectorSet
  BY DEF VectorTypes
<1>3. /\ IsIndex(work') /\ work'.model = work.model /\ work'.table = work.table
      /\ WorkWhole => OwnCache(work') /\ VectorsBut({}, work')
  BY <1>1, <1>2, FilledKeeps DEF WorkWhole
<1>4. VectorTypes'
  BY <1>1, <1>3, NoJobType DEF VectorTypes, IsIndex, IsJob
<1>5. PaidIsAccounted'
  BY <1>1, NoJobType DEF PaidIsAccounted, Answered
<1>6. ASSUME WorkWhole
      PROVE  WorkWhole' /\ DiskWhole'
  <2>1. VectorsOf(work'.model, work')
    BY <1>3, <1>6, NothingOwed
  <2>2. WorkWhole'
    BY <1>1, <1>3, <1>6, NoJobType DEF WorkWhole, OwnCache, VectorsBut, TextOf
  <2>3. DiskWhole'
    BY <1>1, <1>3, <1>6, <2>1 DEF WorkWhole, DiskWhole, OwnCache, VectorsOf, TextOf
  <2> QED
    BY <2>2, <2>3
<1> QED
  BY <1>1, <1>4, <1>5, <1>6

(* A sync starts by deleting what has vanished. *)
LEMMA BeginSyncStep ==
  ASSUME VectorTypes, PaidIsAccounted, BeginSync
  PROVE  /\ VectorTypes' /\ PaidIsAccounted' /\ pc' = "sync"
         /\ WorkWhole => WorkWhole'
         /\ \A r \in Record \ todo' : work'.records[r] = incoming'[r]
<1> DEFINE gone == {r \in Record : corpus[r] = Null}
<1>1. /\ pc = "open" /\ pc' = "sync" /\ incoming' = corpus
      /\ work' = Deleted(work, session.semantic, gone)
      /\ todo' = {r \in Record : corpus[r] # Null /\ corpus[r] # work.records[r]}
      /\ corpus' = corpus /\ store' = store /\ paid' = paid /\ lost' = lost
      /\ disk' = disk /\ session' = session /\ job' = job
  BY DEF BeginSync, world
<1>2. IsIndex(work) /\ gone \in SUBSET Record /\ job = NoJob
  BY <1>1 DEF VectorTypes
<1>0. work' = Deleted(work, session.semantic, gone)
  BY <1>1
<1> HIDE DEF gone
<1>3. IsRest(work, session.semantic, gone, work')
  BY <1>0, <1>2, DeletedKeeps, Zenon
<1>4. VectorTypes'
  BY <1>1, <1>2, <1>3, NoJobType DEF VectorTypes, IsIndex, IsJob, IsRest
<1>5. PaidIsAccounted'
  BY <1>1 DEF PaidIsAccounted
<1>6. \A r \in Record \ todo' : work'.records[r] = incoming'[r]
  BY <1>1, <1>3 DEF gone, IsRest
<1>7. ASSUME WorkWhole
      PROVE  WorkWhole'
  <2>1. /\ VectorsBut({}, work) /\ session.semantic /\ work.table /\ OwnCache(work)
        /\ work.model = session.model
    BY <1>1, <1>2, <1>7, NoJobType DEF WorkWhole
  <2>2. VectorsBut({}, work')
    BY <1>3, <2>1 DEF IsRest
  <2>3. OwnCache(work') /\ work'.table /\ work'.model = session.model
    BY <1>3, <2>1 DEF IsRest, OwnCache
  <2>4. job' = NoJob /\ job'.ids = {} /\ job'.fresh = {} /\ job'.got = {}
    BY <1>1, <1>2, NoJobType
  <2> QED
    BY <1>1, <2>1, <2>2, <2>3, <2>4 DEF WorkWhole
<1> QED
  BY <1>1, <1>4, <1>5, <1>6, <1>7

(* A record that differs is deleted, inserted, and its vectors asked for. *)
LEMMA ReplaceStep ==
  ASSUME VectorTypes, PaidIsAccounted, NEW r \in Record, Replace(r)
  PROVE  /\ VectorTypes' /\ PaidIsAccounted' /\ pc' = "sync"
         /\ WorkWhole => WorkWhole'
         /\ DoneIsIncoming => \A q \in Record \ todo' : work'.records[q] = incoming'[q]
<1> DEFINE d == Deleted(work, session.semantic, {r})
<1>1. /\ pc = "sync" /\ pc' = "sync" /\ job = NoJob
      /\ r \in todo /\ todo' = todo \ {r} /\ incoming' = incoming
      /\ work' = Inserted(d, r, incoming[r])
      /\ job' = Job(session.model, session.semantic, work', ParagraphsOf(work', r))
      /\ corpus' = corpus /\ store' = store /\ paid' = paid /\ lost' = lost
      /\ disk' = disk /\ session' = session
  BY DEF Replace, world
<1>2. /\ IsIndex(work) /\ {r} \in SUBSET Record /\ store \subseteq VectorSet
      /\ incoming[r] \in Content /\ job.fresh = {}
      /\ session.model \in Model /\ session.semantic \in BOOLEAN
  BY <1>1, VectorsAssumption, NoJobType DEF VectorTypes
<1>0. d = Deleted(work, session.semantic, {r})
  OBVIOUS
<1> HIDE DEF d
<1>3. IsRest(work, session.semantic, {r}, d)
  BY <1>0, <1>2, DeletedKeeps, Zenon
<1>4. \A id \in DOMAIN d.rows : d.rows[id].record # r
  BY <1>3 DEF IsRest
<1>5. /\ IsIndex(work') /\ work'.model = d.model /\ work'.table = d.table
      /\ work'.cache = d.cache
      /\ work'.records[r] = incoming[r]
      /\ \A q \in Record \ {r} : work'.records[q] = d.records[q]
      /\ ParagraphsOf(work', r) \subseteq DOMAIN work'.rows
      /\ VectorsBut({}, d) => VectorsBut(ParagraphsOf(work', r), work')
  BY <1>1, <1>2, <1>3, <1>4, InsertedKeeps DEF IsRest
<1>6. Asks(session.model, session.semantic, work', ParagraphsOf(work', r), job')
  BY <1>1, <1>2, <1>5, JobAsks, Zenon
<1>7. VectorTypes'
  BY <1>1, <1>5, <1>6 DEF VectorTypes, IsIndex, Asks
<1>8. PaidIsAccounted'
  BY <1>1, <1>2, <1>6 DEF PaidIsAccounted, Asks
<1>9. ASSUME DoneIsIncoming
      PROVE  \A q \in Record \ todo' : work'.records[q] = incoming'[q]
  BY <1>1, <1>3, <1>5, <1>9 DEF DoneIsIncoming, IsRest
<1>10. ASSUME WorkWhole
       PROVE  WorkWhole'
  <2>1. VectorsBut({}, work) /\ session.semantic /\ work.table /\ OwnCache(work)
        /\ work.model = session.model
    BY <1>1, <1>10, NoJobType DEF WorkWhole
  <2>2. VectorsBut(job'.ids, work') /\ OwnCache(work')
    BY <1>3, <1>5, <1>6, <2>1 DEF OwnCache, Asks, IsRest
  <2>3. work'.model = session'.model /\ work'.table /\ session'.semantic
    BY <1>1, <1>3, <1>5, <2>1 DEF IsRest
  <2>4. /\ \A v \in job'.fresh \cup job'.got : v.model = work'.model
        /\ \A id \in job'.ids :
             \/ TextOf(work', id) \in job'.need
             \/ \E v \in work'.cache \cup job'.fresh \cup job'.got : v.text = TextOf(work', id)
    <3>1. job'.fresh = {} /\ job'.fresh \cup job'.got = job'.got
      BY <1>6 DEF Asks
    <3>2. work'.cache \cup job'.fresh \cup job'.got = work'.cache \cup job'.got
      BY <3>1
    <3>3. /\ \A v \in job'.got : v.model = session.model
          /\ \A id \in job'.ids :
               \/ TextOf(work', id) \in job'.need
               \/ \E v \in work'.cache \cup job'.got : v.text = TextOf(work', id)
      BY <1>6, <2>1 DEF Asks
    <3>4. work'.model = session.model
      BY <1>1, <2>3
    <3> QED
      BY <3>1, <3>2, <3>3, <3>4
  <2> QED
    BY <2>2, <2>3, <2>4 DEF WorkWhole
<1> QED
  BY <1>1, <1>7, <1>8, <1>9, <1>10

(* The vectors of a record are there, and the sync goes on. *)
LEMMA EmbeddedStep ==
  ASSUME VectorTypes, PaidIsAccounted, Embedded
  PROVE  /\ VectorTypes' /\ PaidIsAccounted' /\ pc' = "sync" /\ pc = "sync"
         /\ todo' = todo /\ incoming' = incoming /\ work'.records = work.records
         /\ disk' = disk
         /\ WorkWhole => WorkWhole'
<1>1. /\ pc = "sync" /\ pc' = "sync" /\ Answered /\ work' = Filled(work)
      /\ job' = NoJob /\ corpus' = corpus /\ store' = store /\ paid' = paid /\ lost' = lost
      /\ disk' = disk /\ session' = session /\ incoming' = incoming /\ todo' = todo
  BY DEF Embedded, world
<1>2. IsIndex(work) /\ job.got \subseteq VectorSet
  BY DEF VectorTypes
<1>3. /\ IsIndex(work') /\ work'.model = work.model /\ work'.table = work.table
      /\ work'.records = work.records
      /\ WorkWhole => OwnCache(work') /\ VectorsBut({}, work')
  BY <1>1, <1>2, FilledKeeps DEF WorkWhole
<1>4. VectorTypes'
  BY <1>1, <1>3, NoJobType DEF VectorTypes, IsIndex, IsJob
<1>5. PaidIsAccounted'
  BY <1>1, NoJobType DEF PaidIsAccounted, Answered
<1>6. WorkWhole => WorkWhole'
  BY <1>1, <1>3, NoJobType DEF WorkWhole, OwnCache, VectorsBut, TextOf
<1> QED
  BY <1>1, <1>3, <1>4, <1>5, <1>6

(* The sync commits: the index as it then is gets served. *)
LEMMA PublishStep ==
  ASSUME VectorTypes, PaidIsAccounted, Publish
  PROVE  /\ VectorTypes' /\ PaidIsAccounted'
         /\ MeaningInv => MeaningInv'
<1>1. /\ pc = "sync" /\ pc' = "serving" /\ todo = {} /\ job = NoJob /\ disk' = work
      /\ job' = job /\ work' = work /\ corpus' = corpus /\ store' = store
      /\ paid' = paid /\ lost' = lost
      /\ session' = session /\ incoming' = incoming /\ todo' = todo
  BY DEF Publish, world
<1>2. VectorTypes'
  BY <1>1 DEF VectorTypes, IsIndex
<1>3. PaidIsAccounted'
  BY <1>1 DEF PaidIsAccounted
<1>4. ASSUME MeaningInv
      PROVE  MeaningInv'
  <2>1. /\ work.model = session.model /\ work.table /\ OwnCache(work)
        /\ VectorsBut({}, work)
    BY <1>1, <1>4, NoJobType DEF MeaningInv, WorkWhole
  <2>2. VectorsOf(work.model, work)
    BY <2>1, NothingOwed
  <2>3. DiskWhole'
    BY <1>1, <2>1, <2>2 DEF DiskWhole, OwnCache, VectorsOf, TextOf
  <2>4. WorkWhole'
    BY <1>1 DEF WorkWhole
  <2>5. DoneIsIncoming'
    BY <1>1, <1>4, <2>1 DEF MeaningInv, DoneIsIncoming
  <2> QED
    BY <2>3, <2>4, <2>5 DEF MeaningInv
<1> QED
  BY <1>2, <1>3, <1>4

(* The process ends, in order or not: the open transaction and a batch in hand
   are lost, what the store has committed is kept. *)
LEMMA LeaveStep ==
  ASSUME VectorTypes, PaidIsAccounted, Leave
  PROVE  /\ VectorTypes' /\ PaidIsAccounted'
         /\ MeaningInv => MeaningInv'
<1>1. /\ pc' = "closed" /\ work' = disk /\ todo' = {} /\ job' = NoJob /\ disk' = disk
      /\ incoming' = [r \in Record |-> Null]
      /\ corpus' = corpus /\ store' = store /\ paid' = paid /\ lost' = lost \cup job.fresh
  BY DEF Leave, world
<1>2. VectorTypes'
  BY <1>1, NoJobType DEF VectorTypes, IsIndex, IsJob
<1>3. PaidIsAccounted'
  BY <1>1, NoJobType DEF PaidIsAccounted
<1>4. MeaningInv => MeaningInv'
  BY <1>1 DEF MeaningInv, DiskWhole, WorkWhole, DoneIsIncoming, OwnCache, VectorsOf, TextOf
<1> QED
  BY <1>2, <1>3, <1>4

(* The corpus and the other projects leave the project's index alone. *)
LEMMA WorldStep ==
  ASSUME VectorTypes, PaidIsAccounted, Edit \/ Elsewhere \/ UNCHANGED vars
  PROVE  /\ VectorTypes' /\ PaidIsAccounted'
         /\ MeaningInv => MeaningInv'
<1>1. /\ pc' = pc /\ work' = work /\ todo' = todo /\ job' = job /\ disk' = disk
      /\ incoming' = incoming /\ paid' = paid /\ lost' = lost /\ session' = session
  BY DEF Edit, Elsewhere, vars, world
<1>2. corpus' \in [Record -> Content \cup {Null}]
  BY DEF Edit, Elsewhere, vars, world, VectorTypes
<1>3. store' \subseteq VectorSet /\ store \subseteq store'
  BY VectorType, VectorsAssumption DEF Edit, Elsewhere, vars, world, VectorTypes
<1>4. VectorTypes'
  BY <1>1, <1>2, <1>3 DEF VectorTypes, IsIndex
<1>5. PaidIsAccounted'
  BY <1>1, <1>3 DEF PaidIsAccounted
<1>6. MeaningInv => MeaningInv'
  BY <1>1 DEF MeaningInv, DiskWhole, WorkWhole, DoneIsIncoming, OwnCache, VectorsOf,
              VectorsBut, TextOf
<1> QED
  BY <1>4, <1>5, <1>6
-----------------------------------------------------------------------------
LEMMA TypeStep == VectorTypes /\ PaidIsAccounted /\ [Next]_vars => VectorTypes' /\ PaidIsAccounted'
<1> SUFFICES ASSUME VectorTypes, PaidIsAccounted, [Next]_vars
             PROVE  VectorTypes' /\ PaidIsAccounted'
  OBVIOUS
<1>1. CASE Edit \/ Elsewhere \/ UNCHANGED vars
  BY <1>1, WorldStep
<1>2. CASE Interrupt \/ EmbedderFails \/ Die \/ Close
  BY <1>2, LeaveStep DEF Interrupt, EmbedderFails, Die, Close
<1>3. ASSUME NEW m \in Model, NEW semantic \in Semantic, Open(m, semantic)
      PROVE  VectorTypes' /\ PaidIsAccounted'
  BY <1>3, OpenStep
<1>4. CASE EmbedBatch
  BY <1>4, BatchStep
<1>10. CASE CommitBatch
  BY <1>10, CommitStep
<1>5. CASE Reembedded
  BY <1>5, ReembeddedStep
<1>6. CASE BeginSync
  BY <1>6, BeginSyncStep
<1>7. ASSUME NEW r \in Record, Replace(r)
      PROVE  VectorTypes' /\ PaidIsAccounted'
  BY <1>7, ReplaceStep
<1>8. CASE Embedded
  BY <1>8, EmbeddedStep
<1>9. CASE Publish
  BY <1>9, PublishStep
<1> QED
  BY <1>1, <1>2, <1>3, <1>4, <1>5, <1>6, <1>7, <1>8, <1>9, <1>10 DEF Next, Refresh

(* A batch turns texts asked for into vectors of the same model. *)
LEMMA BatchIsMeant ==
  ASSUME VectorTypes, PaidIsAccounted, MeaningInv, EmbedBatch
  PROVE  MeaningInv'
<1>1. JobOnly /\ job'.ids = job.ids /\ job'.got = job.got /\ job.fresh = {}
  BY BatchStep DEF EmbedBatch
<1>2. PICK batch \in SUBSET job.need :
        /\ job'.need = job.need \ batch
        /\ job'.fresh = {Vector(session.model, t) : t \in batch}
  BY BatchStep
<1>3. /\ \A t \in batch : \E v \in job'.fresh : v.text = t
      /\ \A v \in job'.fresh : v.model = session.model
  BY <1>2, VectorType
<1>4. ASSUME pc \in {"reembed", "open", "sync"}, NEW id \in job.ids
      PROVE  \/ TextOf(work, id) \in job'.need
             \/ \E v \in work.cache \cup job'.fresh \cup job'.got : v.text = TextOf(work, id)
  BY <1>1, <1>2, <1>3, <1>4 DEF MeaningInv, WorkWhole
<1>5. ASSUME pc \in {"reembed", "open", "sync"}
      PROVE  /\ session.semantic /\ work.model = session.model
             /\ work.table /\ OwnCache(work) /\ VectorsBut(job.ids, work)
             /\ \A v \in job'.fresh \cup job'.got : v.model = work.model
  BY <1>1, <1>3, <1>5 DEF MeaningInv, WorkWhole
<1>6. WorkWhole'
  BY <1>1, <1>4, <1>5 DEF WorkWhole, OwnCache, VectorsBut, TextOf, JobOnly
<1>7. DiskWhole' /\ DoneIsIncoming'
  BY <1>1 DEF MeaningInv, DiskWhole, DoneIsIncoming, OwnCache, VectorsOf, TextOf, JobOnly
<1> QED
  BY <1>6, <1>7 DEF MeaningInv

(* Committing them changes whose they are as little. *)
LEMMA CommitIsMeant ==
  ASSUME VectorTypes, PaidIsAccounted, MeaningInv, CommitBatch
  PROVE  MeaningInv'
<1>1. /\ JobOnly /\ job'.ids = job.ids /\ job'.need = job.need
      /\ job'.fresh = {} /\ job'.got = job.got \cup job.fresh
  BY CommitStep
<1>2. job'.fresh \cup job'.got = job.fresh \cup job.got
  BY <1>1
<1>3. work.cache \cup job'.fresh \cup job'.got = work.cache \cup job.fresh \cup job.got
  BY <1>1
<1>4. WorkWhole'
  BY <1>1, <1>2, <1>3 DEF MeaningInv, WorkWhole, OwnCache, VectorsBut, TextOf, JobOnly
<1>5. DiskWhole' /\ DoneIsIncoming'
  BY <1>1 DEF MeaningInv, DiskWhole, DoneIsIncoming, OwnCache, VectorsOf, TextOf, JobOnly
<1> QED
  BY <1>4, <1>5 DEF MeaningInv

(* Every step of a program that always asks for search by meaning. *)
LEMMA MeaningStep ==
  ASSUME Semantic = {TRUE}, VectorTypes, PaidIsAccounted, MeaningInv, [Next]_vars
  PROVE  MeaningInv'
<1>0. DiskWhole /\ WorkWhole /\ DoneIsIncoming
  BY DEF MeaningInv
<1>1. CASE Edit \/ Elsewhere \/ UNCHANGED vars
  BY <1>1, WorldStep
<1>2. CASE Interrupt \/ EmbedderFails \/ Die \/ Close
  BY <1>2, LeaveStep DEF Interrupt, EmbedderFails, Die, Close
<1>3. ASSUME NEW m \in Model, NEW semantic \in Semantic, Open(m, semantic)
      PROVE  MeaningInv'
  <2>1. semantic = TRUE
    OBVIOUS
  <2>2. WorkWhole'
    BY <1>0, <1>3, <2>1, OpenStep
  <2>3. disk' = disk /\ pc' \in {"open", "reembed"}
    BY <1>3 DEF Open
  <2> QED
    BY <1>0, <2>2, <2>3 DEF MeaningInv, DiskWhole, DoneIsIncoming, OwnCache, VectorsOf, TextOf
<1>4. CASE EmbedBatch
  BY <1>4, BatchIsMeant
<1>10. CASE CommitBatch
  BY <1>10, CommitIsMeant
<1>5. CASE Reembedded
  <2>1. WorkWhole' /\ DiskWhole' /\ pc' = "open"
    BY <1>0, <1>5, ReembeddedStep
  <2> QED
    BY <2>1 DEF MeaningInv, DoneIsIncoming
<1>6. CASE BeginSync
  <2>1. /\ WorkWhole' /\ pc' = "sync"
        /\ \A r \in Record \ todo' : work'.records[r] = incoming'[r]
    BY <1>0, <1>6, BeginSyncStep
  <2>2. disk' = disk
    BY <1>6 DEF BeginSync
  <2> QED
    BY <1>0, <2>1, <2>2 DEF MeaningInv, DiskWhole, DoneIsIncoming, OwnCache, VectorsOf, TextOf
<1>7. ASSUME NEW r \in Record, Replace(r)
      PROVE  MeaningInv'
  <2>1. /\ WorkWhole' /\ pc' = "sync"
        /\ \A q \in Record \ todo' : work'.records[q] = incoming'[q]
    BY <1>0, <1>7, ReplaceStep
  <2>2. disk' = disk
    BY <1>7 DEF Replace
  <2> QED
    BY <1>0, <2>1, <2>2 DEF MeaningInv, DiskWhole, DoneIsIncoming, OwnCache, VectorsOf, TextOf
<1>8. CASE Embedded
  <2>1. /\ WorkWhole' /\ pc' = "sync" /\ pc = "sync" /\ todo' = todo
        /\ incoming' = incoming /\ work'.records = work.records /\ disk' = disk
    BY <1>0, <1>8, EmbeddedStep
  <2> QED
    BY <1>0, <2>1 DEF MeaningInv, DiskWhole, DoneIsIncoming, OwnCache, VectorsOf, TextOf
<1>9. CASE Publish
  BY <1>9, PublishStep
<1> QED
  BY <1>1, <1>2, <1>3, <1>4, <1>5, <1>6, <1>7, <1>8, <1>9, <1>10 DEF Next, Refresh

(* Types, and what the store owes, hold whatever an index is opened for. *)
THEOREM Invariance == Spec => [](VectorTypes /\ PaidIsAccounted)
BY InitTypes, TypeStep, PTL DEF Spec

(* With search by meaning, index and transaction stay whole too. *)
THEOREM MeaningInvariance ==
  ASSUME Semantic = {TRUE}
  PROVE  Spec => []MeaningInv
<1>1. Init => MeaningInv
  BY DEF Init, NewIndex, MeaningInv, DiskWhole, WorkWhole, DoneIsIncoming
<1>2. VectorTypes /\ PaidIsAccounted /\ MeaningInv /\ [Next]_vars => MeaningInv'
  BY MeaningStep
<1> QED
  BY Invariance, <1>1, <1>2, PTL DEF Spec
-----------------------------------------------------------------------------
(* The committed index has exactly the vectors of the model it names,
   whatever failed and whichever releases took turns. *)
THEOREM DiskIsOfOneModel ==
  ASSUME Semantic = {TRUE}
  PROVE  Spec => []OneModelOnDisk
<1>1. MeaningInv => OneModelOnDisk
  BY DEF MeaningInv, DiskWhole, OneModelOnDisk
<1> QED
  BY MeaningInvariance, <1>1, PTL

(* What is served can be found by the model that the queries use. *)
THEOREM MeaningIsServed ==
  ASSUME Semantic = {TRUE}
  PROVE  Spec => []ServedByMeaning
<1>1. VectorTypes /\ MeaningInv => ServedByMeaning
  <2> SUFFICES ASSUME VectorTypes, MeaningInv, pc = "serving"
               PROVE  /\ VectorsOf(session.model, disk)
                      /\ \A r \in Record : disk.records[r] = incoming[r]
    BY DEF ServedByMeaning
  <2>1. session.model \in Model /\ disk.model = session.model
    BY DEF VectorTypes, MeaningInv, DoneIsIncoming
  <2>2. disk.model # Null
    BY <2>1, VectorsAssumption
  <2> QED
    BY <2>1, <2>2 DEF MeaningInv, DiskWhole, DoneIsIncoming
<1> QED
  BY Invariance, MeaningInvariance, <1>1, PTL

(* The model computes a vector that this project had computed before only if
   it was lost before its batch was committed. *)
THEOREM VectorsPaidAgainIfLost == Spec => PaidAgainIfLost
<1>1. VectorTypes /\ PaidIsAccounted /\ [Next]_vars =>
        [EmbedBatch => job'.fresh \cap paid \subseteq lost]_vars
  <2> SUFFICES ASSUME VectorTypes, PaidIsAccounted, EmbedBatch, NEW v \in job'.fresh, v \in paid
               PROVE  v \in lost
    OBVIOUS
  <2>1. PICK t \in job.need : v = Vector(session.model, t)
    BY BatchStep
  <2> QED
    BY <2>1 DEF PaidIsAccounted
<1> QED
  BY Invariance, <1>1, PTL DEF Spec, PaidAgainIfLost
=============================================================================
