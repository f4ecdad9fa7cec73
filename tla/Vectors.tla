-------------------------------- MODULE Vectors --------------------------------
(***************************************************************************)
(* The vectors behind search by meaning (src/strata/index.py, opening an   *)
(* index and syncing it; src/strata/embeddings.py, CachedEmbedder).  An    *)
(* index belongs to one embedding model: opened with another, it embeds    *)
(* everything anew before it is used.  Vectors of texts are kept twice: in *)
(* index.db for its model, and in store.db, which the user's projects      *)
(* share and which commits batch by batch, whatever becomes of the refresh *)
(* that asked; a batch that was computed and not committed is lost.        *)
(* Releases with different models may take turns.                          *)
(***************************************************************************)
EXTENDS Naturals, Sequences, FiniteSets

CONSTANTS
  Record,     \* numbered in the order a refresh hands them over
  Content,    \* what a record may be: [paragraphs, date]
  Model,      \* identities of embedders: model, dimension, table layout
  Semantic,   \* the values of semantic an index is opened with
  Batch,      \* texts embedded before store.db commits, 64 in the code
  Foreign,    \* texts that other projects of the user have, too
  MaxEdits,   \* bound: changes to the records
  Null

Text == UNION {{c.paragraphs[i] : i \in DOMAIN c.paragraphs} : c \in Content}

ASSUME VectorsAssumption ==
  /\ Record \subseteq Nat /\ IsFiniteSet(Record)
  /\ \A c \in Content : c.paragraphs \in Seq(Text)
  /\ Null \notin Content \cup Model
  /\ Semantic \subseteq BOOLEAN /\ Foreign \subseteq Text
  /\ Batch \in Nat \ {0} /\ MaxEdits \in Nat

VARIABLES
  corpus,    \* corpus[r]: what an adapter would read now, Null when absent
  edits,
  store,     \* store.db, table embeddings: vectors, as [model, text]
  paid,      \* history: vectors this project has had computed
  lost,      \* history: those last lost before they were committed
  disk,      \* committed rows of index.db
  session,   \* [model, semantic] of the refresh under way
  pc,
  work,      \* index.db as its open transaction has it
  incoming,  \* the records the sync was handed
  todo,      \* records still to be replaced
  job        \* _embed_new under way: [ids, need, fresh, got]

vars == <<corpus, edits, store, paid, lost, disk, session, pc, work, incoming, todo, job>>
world == <<corpus, edits>>

\* A vector, abstractly: whose it is and what it is of.
Vector(m, t) == [model |-> m, text |-> t]

\* need is to be embedded, fresh is computed, got is committed or was found.
NoJob == [ids |-> {}, need |-> {}, fresh |-> {}, got |-> {}]

\* rows[id] is a paragraph and its record; vec[id] its row in paragraph_vec.
NewIndex ==
  [model |-> Null, table |-> FALSE, records |-> [r \in Record |-> Null],
   rows |-> <<>>, vec |-> <<>>, cache |-> {}, next |-> 1]

Init ==
  /\ corpus \in [Record -> Content] /\ edits = 0
  /\ store = {} /\ paid = {} /\ lost = {}
  /\ disk = NewIndex /\ work = NewIndex
  /\ session = Null /\ pc = "closed"
  /\ incoming = [r \in Record |-> Null] /\ todo = {}
  /\ job = NoJob
-----------------------------------------------------------------------------
\* A source, note or chapter changes, goes or comes back.
Edit ==
  /\ edits < MaxEdits /\ edits' = edits + 1
  /\ \E r \in Record, c \in Content \cup {Null} :
       c # corpus[r] /\ corpus' = [corpus EXCEPT ![r] = c]
  /\ UNCHANGED <<store, paid, lost, disk, session, pc, work, incoming, todo, job>>

\* Another project of the user commits a batch.
Elsewhere ==
  /\ \E m \in Model, t \in Foreign :
       Vector(m, t) \notin store /\ store' = store \cup {Vector(m, t)}
  /\ UNCHANGED <<world, paid, lost, disk, session, pc, work, incoming, todo, job>>
-----------------------------------------------------------------------------
(***************************************************************************)
(* _embed_new and CachedEmbedder.embed_passages.                           *)
(***************************************************************************)
TextOf(w, id) == w.rows[id].text

\* Mutation: the store is asked for a text, whoever embedded it.
StoredOfAny(m, t) == {v \in store : v.text = t}

Stored(m, t) == {v \in store : v.model = m /\ v.text = t}

\* Look the texts of the paragraphs up in index.db, then in the store.
Job(m, semantic, w, ids) ==
  LET known == {t \in Text : \E v \in w.cache : v.text = t}
      ask == {TextOf(w, id) : id \in ids} \ known
  IN IF ~semantic THEN NoJob
     ELSE [ids |-> ids,
           need |-> {t \in ask : Stored(m, t) = {}},
           fresh |-> {},
           got |-> UNION {Stored(m, t) : t \in ask}]

\* The model embeds the next batch.
EmbedBatch ==
  /\ job.need # {} /\ job.fresh = {}
  /\ \E batch \in SUBSET job.need :
       LET fresh == {Vector(session.model, t) : t \in batch}
       IN /\ Cardinality(batch) = Batch \/ batch = job.need
          /\ Cardinality(batch) <= Batch
          /\ paid' = paid \cup fresh /\ lost' = lost \ fresh
          /\ job' = [job EXCEPT !.need = @ \ batch, !.fresh = fresh]
  /\ UNCHANGED <<world, store, disk, session, pc, work, incoming, todo>>

\* Mutation: one commit, when all the batches are there.
CommitLate ==
  /\ job.fresh # {}
  /\ store' = IF job.need = {} THEN store \cup job.fresh \cup job.got ELSE store
  /\ job' = [job EXCEPT !.fresh = {}, !.got = @ \cup job.fresh]
  /\ UNCHANGED <<world, paid, lost, disk, session, pc, work, incoming, todo>>

\* It is as long as the batch, each vector has the dimension, and store.db
\* commits it.
CommitBatch ==
  /\ job.fresh # {}
  /\ store' = store \cup job.fresh
  /\ job' = [job EXCEPT !.fresh = {}, !.got = @ \cup job.fresh]
  /\ UNCHANGED <<world, paid, lost, disk, session, pc, work, incoming, todo>>

Answered == job.need = {} /\ job.fresh = {}

\* Every text has its vector: fill embedding_cache, and the table if there is
\* one.
Filled(w) ==
  LET cache == w.cache \cup job.got
      row(id) == [vector |-> CHOOSE v \in cache : v.text = TextOf(w, id),
                  date |-> w.records[w.rows[id].record].date]
  IN [w EXCEPT
        !.cache = cache,
        !.vec = IF w.table
                THEN [id \in DOMAIN w.vec \cup job.ids |->
                        IF id \in job.ids THEN row(id) ELSE w.vec[id]]
                ELSE w.vec]
-----------------------------------------------------------------------------
(***************************************************************************)
(* Opening the index: _ensure_embedder_identity.                           *)
(***************************************************************************)
\* Mutation: the vectors of another model are left for a sync to replace.
OpenKeepingVectors(m, semantic) ==
  /\ pc = "closed"
  /\ session' = [model |-> m, semantic |-> semantic]
  /\ work' = [disk EXCEPT !.model = m, !.table = semantic]
  /\ pc' = "reembed" /\ job' = NoJob
  /\ UNCHANGED <<world, store, paid, lost, disk, incoming, todo>>

\* A table that needs an extension which is not loaded cannot be dropped: the
\* constructor raises, and nothing has changed.
Open(m, semantic) ==
  /\ pc = "closed"
  /\ disk.model = m \/ ~disk.table \/ semantic
  /\ session' = [model |-> m, semantic |-> semantic]
  /\ IF disk.model = m
     THEN work' = disk /\ pc' = "open" /\ job' = NoJob
     ELSE /\ work' = [disk EXCEPT !.model = m, !.table = semantic,
                                  !.vec = <<>>, !.cache = {}]
          /\ pc' = "reembed"
          /\ job' = Job(m, semantic, work', DOMAIN disk.rows)
  /\ UNCHANGED <<world, store, paid, lost, disk, incoming, todo>>

\* Identity, table, cache and vectors are committed together.
Reembedded ==
  /\ pc = "reembed" /\ Answered
  /\ disk' = Filled(work) /\ work' = Filled(work)
  /\ job' = NoJob
  /\ pc' = "open"
  /\ UNCHANGED <<world, store, paid, lost, session, incoming, todo>>
-----------------------------------------------------------------------------
(***************************************************************************)
(* Index.sync, one transaction.                                            *)
(***************************************************************************)
ParagraphsOf(w, r) == {id \in DOMAIN w.rows : w.rows[id].record = r}

Without(f, ids) == [id \in DOMAIN f \ ids |-> f[id]]

\* _delete_record: the table is touched only where it can be.
Deleted(w, semantic, R) ==
  LET ids == UNION {ParagraphsOf(w, r) : r \in R}
  IN [w EXCEPT !.rows = Without(@, ids),
               !.vec = IF semantic /\ w.table THEN Without(@, ids) ELSE @,
               !.records = [r \in Record |-> IF r \in R THEN Null ELSE @[r]]]

\* The adapters have read the corpus; vanished records are deleted.
BeginSync ==
  /\ pc = "open"
  /\ incoming' = corpus
  /\ work' = Deleted(work, session.semantic, {r \in Record : corpus[r] = Null})
  /\ todo' = {r \in Record : corpus[r] # Null /\ corpus[r] # work.records[r]}
  /\ pc' = "sync"
  /\ UNCHANGED <<world, store, paid, lost, disk, session, job>>

\* _insert_record up to _embed_new; ids are never used again.
Inserted(w, r, c) ==
  LET n == Len(c.paragraphs)
      new == w.next .. (w.next + n - 1)
  IN [w EXCEPT
        !.records[r] = c,
        !.rows = [id \in DOMAIN @ \cup new |->
                    IF id \in new THEN [record |-> r, text |-> c.paragraphs[id - w.next + 1]]
                                  ELSE @[id]],
        !.next = @ + n]

Replace(r) ==
  /\ pc = "sync" /\ job = NoJob
  /\ r \in todo /\ \A q \in todo : r <= q
  /\ todo' = todo \ {r}
  /\ work' = Inserted(Deleted(work, session.semantic, {r}), r, incoming[r])
  /\ job' = Job(session.model, session.semantic, work', ParagraphsOf(work', r))
  /\ UNCHANGED <<world, store, paid, lost, disk, session, pc, incoming>>

Embedded ==
  /\ pc = "sync" /\ job # NoJob /\ Answered
  /\ work' = Filled(work)
  /\ job' = NoJob
  /\ UNCHANGED <<world, store, paid, lost, disk, session, pc, incoming, todo>>

Publish ==
  /\ pc = "sync" /\ todo = {} /\ job = NoJob
  /\ disk' = work
  /\ pc' = "serving"
  /\ UNCHANGED <<world, store, paid, lost, session, work, incoming, todo, job>>
-----------------------------------------------------------------------------
Leave ==
  /\ pc' = "closed" /\ session' = Null
  /\ work' = disk /\ todo' = {} /\ job' = NoJob
  /\ incoming' = [r \in Record |-> Null]
  /\ lost' = lost \cup job.fresh
  /\ UNCHANGED <<world, store, paid, disk>>

Close == pc = "serving" /\ Leave

\* An adapter fails, the process dies.
Interrupt == pc = "open" /\ Leave

\* The embedder raises, answers short or with another dimension, the commit
\* of store.db fails, or the process dies: the transaction on index.db is
\* rolled back, batches in store.db stay.
EmbedderFails == ~Answered /\ Leave

\* A statement or the commit of index.db fails, or the process dies, between
\* the records of a sync or with every vector there.
Die == pc \in {"reembed", "sync"} /\ Answered /\ Leave

Refresh ==
  \/ EmbedBatch \/ CommitBatch \/ Reembedded \/ BeginSync \/ Embedded \/ Publish \/ Close
  \/ \E r \in Record : Replace(r)

Next ==
  \/ Edit \/ Elsewhere \/ Interrupt \/ EmbedderFails \/ Die
  \/ \E m \in Model, semantic \in Semantic : Open(m, semantic)
  \/ Refresh

Spec == Init /\ [][Next]_vars

\* The user retries, steps of the code are taken, and an embedder that is
\* asked for ever answers now and then and is heard; adapters do not fail for
\* ever, and outside of embedding a refresh does not die for ever.
FairSpec ==
  /\ Spec
  /\ WF_vars(\E m \in Model, semantic \in Semantic : Open(m, semantic))
  /\ WF_vars(Refresh)
  /\ SF_vars(EmbedBatch)
  /\ SF_vars(CommitBatch)
  /\ SF_vars(BeginSync)
  /\ <>[][~Die]_vars
-----------------------------------------------------------------------------
(***************************************************************************)
(* Properties.                                                             *)
(***************************************************************************)
\* Row by row: the vector a model computed of this paragraph's very text, with
\* the date its record is filtered by; no paragraph without, no row beyond.
VectorsOf(m, w) ==
  /\ DOMAIN w.vec = DOMAIN w.rows
  /\ \A id \in DOMAIN w.rows :
       /\ w.vec[id].vector = Vector(m, TextOf(w, id))
       /\ w.vec[id].date = w.records[w.rows[id].record].date

\* Whatever failed and whichever releases took turns, the committed index
\* holds exactly the vectors of one model, the one it names.
\* (_ensure_embedder_identity: "a model change invalidates every cached
\* vector")
OneModelOnDisk == disk.model # Null => VectorsOf(disk.model, disk)

\* A refresh that was asked for search by meaning serves an index whose
\* paragraphs can all be found by the model the query is embedded with.
\* (Index.__init__: semantic=True never degrades "silently")
ServedByMeaning ==
  pc = "serving" /\ session.semantic =>
    /\ VectorsOf(session.model, disk)
    /\ \A r \in Record : disk.records[r] = incoming[r]

\* This project has a text embedded again with a model only if it was lost
\* between being computed and the commit of its batch: of all that a refresh
\* paid for before it failed, at most its last batch is paid for again.
\* (CachedEmbedder.embed_passages, batches)
PaidAgainIfLost ==
  [][EmbedBatch => job'.fresh \cap paid \subseteq lost]_vars

\* An embedder that fails in every single refresh does not keep the project
\* from being served, as long as it embeds a batch now and then.
EventuallyServed == []<>(pc = "serving")
=============================================================================
