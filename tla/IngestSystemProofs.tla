------------------------- MODULE IngestSystemProofs -------------------------
(***************************************************************************)
(* Theorems about IngestSystem: crawls, repairs, the embed worker, the     *)
(* backfills and the sweep together, for every number of each, every       *)
(* company and every number of failures.                                   *)
(***************************************************************************)
EXTENDS IngestSystem, CrawlSyncProofs

(***************************************************************************)
(* The inductive invariant adds to the one of the crawls what the readers  *)
(* of the embedding side hold between two statements: a repair and an      *)
(* embedder hold ids of rows that exist, an embedder that is not inserting *)
(* holds no text, the worker's texts are of its entry's ids, and an entry  *)
(* that may still run has an attempt left.                                 *)
(***************************************************************************)
RepairsRows == \A r \in Repairers : \A e \in ToWrite(r) : Exists(e)

HoldsTexts(m) ==
    /\ emb[m].pc # "insert" => emb[m].texts = NoTexts
    /\ \A e \in Pending(m) : Exists(e)
    /\ emb[m].entry # None => emb[m].entry.attempts < EmbedAttempts
    /\ (m \in EmbedWorkers /\ emb[m].pc # "idle") =>
           emb[m].entry \in Entry /\ Pending(m) \subseteq emb[m].entry.ids

EmbedCoherent ==
    /\ RepairsRows
    /\ \A m \in Embedders : HoldsTexts(m)
    /\ \A n \in embedQueue : n.attempts < EmbedAttempts
    /\ \A e \in ExtIds : vector[e] # None => Exists(e)

SystemInv ==
    /\ Inv
    /\ EmbedTypeOK
    /\ raced \in SUBSET ExtIds
    /\ EmbedCoherent

-----------------------------------------------------------------------------
LEMMA IngestIsNext ==
    ASSUME NEW h \in Handlers, Ingest(h)
    PROVE  Next /\ UNCHANGED embedVars /\ TrackRaces
BY DEF Ingest, Next

\* A step beside the requests that keeps the shared tables in shape keeps Inv.
LEMMA BesideRequests ==
    ASSUME Inv, UNCHANGED <<req, run>>, faults' \in 0 .. MaxFaults,
           StoreTypeOK', RemovedOnlyByOwnSource',
           \A e \in ExtIds : Exists(e) => Exists(e)'
    PROVE  Inv'
<1>1. TypeOK'
  BY DEF Inv, TypeOK
<1>2. Coherent'
  <2> SUFFICES ASSUME NEW h \in Handlers
               PROVE  (SourceKnown(req[h]) /\ RefreshesRows(req[h]) /\ OnePerRow(req[h]))'
    BY DEF Coherent
  <2>1. SourceKnown(req[h]) /\ RefreshesRows(req[h]) /\ OnePerRow(req[h])
    BY DEF Inv, Coherent
  <2>2. req[h].refresh \subseteq ExtIds
    BY DEF Inv, TypeOK, Request
  <2> QED
    BY <2>1, <2>2 DEF SourceKnown, RefreshesRows, OnePerRow
<1> QED
  BY <1>1, <1>2 DEF Inv

\* The same when the rows themselves stay as they are.
LEMMA RowsStay ==
    ASSUME Inv, UNCHANGED <<jobs, req, run>>, faults' \in 0 .. MaxFaults,
           vector' \in [ExtIds -> Text \cup {None}], embedQueue' \in SUBSET Entry
    PROVE  Inv' /\ \A e \in ExtIds : Exists(e)' = Exists(e) /\ TextOf(e)' = TextOf(e)
<1>1. /\ StoreTypeOK' /\ RemovedOnlyByOwnSource'
      /\ \A e \in ExtIds : Exists(e)' = Exists(e) /\ TextOf(e)' = TextOf(e)
  BY DEF Inv, TypeOK, StoreTypeOK, RemovedOnlyByOwnSource, Exists, TextOf
<1> QED
  BY <1>1, BesideRequests

LEMMA RacedType ==
    ASSUME raced \in SUBSET ExtIds, TrackRaces
    PROVE  raced' \in SUBSET ExtIds
BY DEF TrackRaces, RacedNow

\* The text of a row that exists is one the provider can be sent.
LEMMA TextType ==
    ASSUME Inv, NEW e \in ExtIds, Exists(e)
    PROVE  TextOf(e) \in Text /\ TextOf(e) # None
BY JobStoreAssumption DEF Inv, TypeOK, StoreTypeOK, TextOf, Text

LEMMA SystemInitInv == SystemInit => SystemInv
<1> SUFFICES ASSUME SystemInit PROVE SystemInv
  OBVIOUS
<1>1. Inv
  BY InitInv DEF SystemInit, Init
<1>2. EmbedTypeOK
  BY DEF SystemInit, EmbedInit, EmbedTypeOK, Repair, IdleRepair, NoBodies, Embedding,
       IdleEmbedding, NoTexts
<1>3. EmbedCoherent
  BY DEF SystemInit, StoreInit, EmbedInit, EmbedCoherent, RepairsRows, HoldsTexts, ToWrite,
       Pending, IdleRepair, NoBodies, IdleEmbedding, NoTexts
<1> QED
  BY <1>1, <1>2, <1>3 DEF SystemInv, SystemInit

-----------------------------------------------------------------------------
(***************************************************************************)
(* Every step keeps the invariant: those of the requests first, then those *)
(* of the repairs, of the embedders and of the sweep.                      *)
(***************************************************************************)
LEMMA IngestKeeps ==
    ASSUME SystemInv, NEW h \in Handlers, Ingest(h)
    PROVE  SystemInv'
<1>1. Next /\ UNCHANGED embedVars /\ TrackRaces
  BY IngestIsNext
<1>2. Inv'
  BY <1>1, NextKeepsInv DEF SystemInv
<1>3. EmbedTypeOK'
  BY <1>1 DEF SystemInv, EmbedTypeOK, embedVars
<1>4. /\ \A e \in ExtIds : Exists(e) => Exists(e)'
      /\ \A e \in ExtIds : vector'[e] \in {None, vector[e]}
      /\ \A n \in embedQueue' : n \in embedQueue \/ n.attempts = 0
  BY <1>1, RequestsAndStore DEF SystemInv
<1>5. EmbedCoherent'
  <2>1. RepairsRows'
    BY <1>1, <1>4 DEF SystemInv, EmbedCoherent, RepairsRows, ToWrite, embedVars
  <2>2. \A m \in Embedders : HoldsTexts(m)'
    BY <1>1, <1>4 DEF SystemInv, EmbedCoherent, HoldsTexts, Pending, embedVars
  <2>3. \A n \in embedQueue' : n.attempts < EmbedAttempts
    BY <1>4, JobStoreAssumption DEF SystemInv, EmbedCoherent
  <2>4. \A e \in ExtIds : vector'[e] # None => Exists(e)'
    BY <1>4 DEF SystemInv, EmbedCoherent
  <2> QED
    BY <2>1, <2>2, <2>3, <2>4 DEF EmbedCoherent
<1> QED
  BY <1>1, <1>2, <1>3, <1>5, RacedType DEF SystemInv

\* An entry made of ids of this company's rows is a fresh one.
LEMMA EnqueueKeeps ==
    ASSUME Inv, NEW ids \in SUBSET ExtIds, enqueueEmbeddings(ids)
    PROVE  /\ embedQueue' \in SUBSET Entry
           /\ embedQueue \subseteq embedQueue'
           /\ \A e \in ids : \E n \in embedQueue' : e \in n.ids
           /\ \A n \in embedQueue' : n \in embedQueue \/ n.attempts = 0
<1>1. embedQueue \in SUBSET Entry
  BY DEF Inv, TypeOK, StoreTypeOK
<1>2. [ids |-> ids, attempts |-> 0] \in Entry
  BY JobStoreAssumption DEF Entry
<1> QED
  BY <1>1, <1>2 DEF enqueueEmbeddings

LEMMA RepairReadKeeps ==
    ASSUME SystemInv, NEW r \in Repairers, NEW s \in Sources, NEW U \in Updates,
           Alone(RepairRead(r, s, U))
    PROVE  SystemInv'
<1> DEFINE new == [e \in ExtIds |-> IF jobs[e].source = s /\ U[e] # jobs[e].body
                                    THEN U[e] ELSE None]
<1>1. /\ repair' = [repair EXCEPT ![r] = [pc |-> "clear", new |-> new]]
      /\ UNCHANGED <<jobs, vector, embedQueue, req, run, faults, emb, dead, aged, matchQueue>>
      /\ TrackRaces
  BY DEF Alone, RepairRead, storeVars, syncVars
<1>2. new \in [ExtIds -> Bodies \cup {None}]
  BY DEF Updates
<1>3. \A e \in ExtIds : new[e] # None => Exists(e)
  BY JobStoreAssumption DEF SystemInv, Inv, TypeOK, StoreTypeOK, NoRow
<1> HIDE DEF new
<1>4. Inv' /\ \A e \in ExtIds : Exists(e)' = Exists(e)
  BY <1>1, RowsStay DEF SystemInv, Inv, TypeOK, StoreTypeOK
<1>5. EmbedTypeOK'
  BY <1>1, <1>2 DEF SystemInv, EmbedTypeOK, Repair
<1>6. RepairsRows'
  <2> SUFFICES ASSUME NEW q \in Repairers, NEW e \in ExtIds, repair'[q].new[e] # None
               PROVE  Exists(e)'
    BY DEF RepairsRows, ToWrite
  <2>1. repair'[q].new = IF q = r THEN new ELSE repair[q].new
    BY <1>1 DEF SystemInv, EmbedTypeOK
  <2> QED
    BY <2>1, <1>3, <1>4 DEF SystemInv, EmbedCoherent, RepairsRows, ToWrite
<1>7. EmbedCoherent'
  BY <1>1, <1>4, <1>6 DEF SystemInv, EmbedCoherent, HoldsTexts, Pending
<1> QED
  BY <1>1, <1>4, <1>5, <1>7, RacedType DEF SystemInv

LEMMA RepairClearKeeps ==
    ASSUME SystemInv, NEW r \in Repairers, Alone(RepairClear(r))
    PROVE  SystemInv'
<1>1. /\ repair' = [repair EXCEPT ![r].pc = "write"]
      /\ vector' = [e \in ExtIds |-> IF e \in ToWrite(r) THEN None ELSE vector[e]]
      /\ UNCHANGED <<jobs, embedQueue, req, run, faults, emb, dead, aged, matchQueue>>
      /\ TrackRaces
  BY DEF Alone, RepairClear, ClearVectors, syncVars
<1>2. Inv' /\ \A e \in ExtIds : Exists(e)' = Exists(e)
  BY <1>1, RowsStay DEF SystemInv, Inv, TypeOK, StoreTypeOK
<1>3. EmbedTypeOK'
  BY <1>1 DEF SystemInv, EmbedTypeOK, Repair
<1>4. \A q \in Repairers : repair'[q].new = repair[q].new
  BY <1>1 DEF SystemInv, EmbedTypeOK, Repair
<1>5. EmbedCoherent'
  <2>1. RepairsRows'
    BY <1>2, <1>4 DEF SystemInv, EmbedCoherent, RepairsRows, ToWrite
  <2> QED
    BY <1>1, <1>2, <2>1 DEF SystemInv, EmbedCoherent, HoldsTexts, Pending
<1> QED
  BY <1>1, <1>2, <1>3, <1>5, RacedType DEF SystemInv

\* The rows a repair writes: other bodies, and nothing else.
LEMMA RepairWritten ==
    ASSUME SystemInv, NEW r \in Repairers, RepairWrite(r)
    PROVE  /\ StoreTypeOK' /\ RemovedOnlyByOwnSource'
           /\ \A e \in ExtIds : Exists(e)' = Exists(e)
           /\ \A e \in ExtIds \ ToWrite(r) : jobs'[e] = jobs[e]
           /\ History!Next
<1>1. /\ jobs' = [e \in ExtIds |-> IF e \in ToWrite(r)
                                   THEN [jobs[e] EXCEPT !.body = repair[r].new[e]]
                                   ELSE jobs[e]]
      /\ UNCHANGED <<vector, embedQueue>>
  BY DEF RepairWrite
<1>2. \A e \in ToWrite(r) : repair[r].new[e] \in Bodies /\ Exists(e)
  BY DEF SystemInv, EmbedTypeOK, Repair, ToWrite, EmbedCoherent, RepairsRows
<1>3. \A e \in ExtIds : /\ jobs[e] \in Row /\ jobs'[e] \in Row
                        /\ jobs'[e].status = jobs[e].status
                        /\ jobs'[e].source = jobs[e].source
                        /\ jobs'[e].title = jobs[e].title
                        /\ jobs'[e].body = IF e \in ToWrite(r) THEN repair[r].new[e]
                                           ELSE jobs[e].body
                        /\ e \notin ToWrite(r) => jobs'[e] = jobs[e]
  BY <1>1, <1>2 DEF SystemInv, Inv, TypeOK, StoreTypeOK, Row
<1>4. \A e \in ExtIds : Exists(e)' = Exists(e)
  BY <1>3 DEF Exists
<1>5. StoreTypeOK'
  <2>1. jobs' \in [ExtIds -> Row]
    BY <1>1, <1>3
  <2>2. \A e \in ExtIds : ~Exists(e)' => (jobs[e] = NoRow)'
    BY <1>2, <1>3, <1>4 DEF SystemInv, Inv, TypeOK, StoreTypeOK
  <2>3. \A e \in ExtIds : Exists(e)' => /\ jobs'[e].source \in Sources
                                        /\ jobs'[e].title \in Titles
                                        /\ jobs'[e].body \in Bodies
    BY <1>2, <1>3, <1>4 DEF SystemInv, Inv, TypeOK, StoreTypeOK
  <2> QED
    BY <1>1, <2>1, <2>2, <2>3 DEF SystemInv, Inv, TypeOK, StoreTypeOK
<1>6. RemovedOnlyByOwnSource'
  BY <1>3 DEF SystemInv, Inv, RemovedOnlyByOwnSource
<1>7. History!Next
  <2> DEFINE R == ToWrite(r)
             new == [e \in R |-> repair[r].new[e]]
  <2>1. R \in SUBSET History!Listed /\ new \in [R -> Bodies]
    BY <1>2 DEF ToWrite, Exists, History!Listed
  <2>2. History!Rewrite(new)
    BY <1>1 DEF History!Rewrite
  <2> QED
    BY <2>1, <2>2 DEF History!Next
<1> QED
  BY <1>3, <1>4, <1>5, <1>6, <1>7

LEMMA RepairWriteKeeps ==
    ASSUME SystemInv, NEW r \in Repairers, Alone(RepairWrite(r))
    PROVE  SystemInv'
<1>1. /\ RepairWrite(r)
      /\ repair' = [repair EXCEPT ![r].pc = "enqueue"]
      /\ UNCHANGED <<vector, embedQueue, req, run, faults, emb, dead, aged, matchQueue>>
      /\ TrackRaces
  BY DEF Alone, RepairWrite, syncVars
<1>2. Inv' /\ \A e \in ExtIds : Exists(e)' = Exists(e)
  BY <1>1, RepairWritten, BesideRequests DEF SystemInv, Inv, TypeOK
<1>3. EmbedTypeOK'
  BY <1>1 DEF SystemInv, EmbedTypeOK, Repair
<1>4. \A q \in Repairers : repair'[q].new = repair[q].new
  BY <1>1 DEF SystemInv, EmbedTypeOK, Repair
<1>5. EmbedCoherent'
  <2>1. RepairsRows'
    BY <1>2, <1>4 DEF SystemInv, EmbedCoherent, RepairsRows, ToWrite
  <2> QED
    BY <1>1, <1>2, <2>1 DEF SystemInv, EmbedCoherent, HoldsTexts, Pending
<1> QED
  BY <1>1, <1>2, <1>3, <1>5, RacedType DEF SystemInv

\* A repair that ends, with its answer or with an error.
LEMMA RepairEnds ==
    ASSUME SystemInv, NEW r \in Repairers, faults' \in 0 .. MaxFaults,
           repair' = [repair EXCEPT ![r] = IdleRepair],
           UNCHANGED <<jobs, vector, req, run, emb, dead, aged, matchQueue>>,
           enqueueEmbeddings(ToWrite(r)) \/ embedQueue' = embedQueue,
           TrackRaces
    PROVE  SystemInv'
<1>1. ToWrite(r) \in SUBSET ExtIds
  BY DEF ToWrite
<1>2. /\ embedQueue' \in SUBSET Entry
      /\ \A n \in embedQueue' : n \in embedQueue \/ n.attempts = 0
  BY <1>1, EnqueueKeeps DEF SystemInv, Inv, TypeOK, StoreTypeOK
<1>3. Inv' /\ \A e \in ExtIds : Exists(e)' = Exists(e)
  BY <1>2, RowsStay DEF SystemInv, Inv, TypeOK, StoreTypeOK
<1>4. EmbedTypeOK'
  BY DEF SystemInv, EmbedTypeOK, Repair, IdleRepair, NoBodies
<1>5. \A q \in Repairers : repair'[q].new = IF q = r THEN NoBodies ELSE repair[q].new
  BY DEF SystemInv, EmbedTypeOK, IdleRepair
<1>6. EmbedCoherent'
  <2>1. RepairsRows'
    BY <1>3, <1>5 DEF SystemInv, EmbedCoherent, RepairsRows, ToWrite, NoBodies
  <2>2. \A n \in embedQueue' : n.attempts < EmbedAttempts
    BY <1>2, JobStoreAssumption DEF SystemInv, EmbedCoherent
  <2> QED
    BY <1>3, <2>1, <2>2 DEF SystemInv, EmbedCoherent, HoldsTexts, Pending
<1> QED
  BY <1>3, <1>4, <1>6, RacedType DEF SystemInv

(***************************************************************************)
(* A step that moves one embedder to d, the rows and the repairs staying.  *)
(***************************************************************************)
LEMMA EmbedderMoves ==
    ASSUME SystemInv, NEW m \in Embedders, NEW d \in Embedding,
           emb' = [emb EXCEPT ![m] = d],
           UNCHANGED <<jobs, req, run, repair, aged>>, faults' \in 0 .. MaxFaults,
           vector' \in [ExtIds -> Text \cup {None}], embedQueue' \in SUBSET Entry,
           dead' \in SUBSET Entry, matchQueue' \in SUBSET ExtIds,
           \A n \in embedQueue' : n.attempts < EmbedAttempts,
           \A e \in ExtIds : vector'[e] # None => Exists(e),
           d.pc # "insert" => d.texts = NoTexts,
           \A e \in ExtIds : d.texts[e] # None => Exists(e),
           d.entry # None => d.entry.attempts < EmbedAttempts,
           (m \in EmbedWorkers /\ d.pc # "idle") =>
               /\ d.entry \in Entry
               /\ \A e \in ExtIds : d.texts[e] # None => e \in d.entry.ids,
           TrackRaces
    PROVE  SystemInv'
<1>1. Inv' /\ \A e \in ExtIds : Exists(e)' = Exists(e)
  BY RowsStay DEF SystemInv
<1>2. EmbedTypeOK'
  BY DEF SystemInv, EmbedTypeOK
<1>3. \A k \in Embedders : emb'[k] = IF k = m THEN d ELSE emb[k]
  BY DEF SystemInv, EmbedTypeOK
<1>4. \A k \in Embedders : HoldsTexts(k)'
  <2> SUFFICES ASSUME NEW k \in Embedders PROVE HoldsTexts(k)'
    OBVIOUS
  <2>1. CASE k = m
    <3>1. emb'[m] = d
      BY <1>3
    <3>2. Pending(m)' = {e \in ExtIds : d.texts[e] # None}
      BY <3>1 DEF Pending
    <3> QED
      BY <1>1, <2>1, <3>1, <3>2 DEF HoldsTexts
  <2>2. CASE k # m
    <3>1. emb'[k] = emb[k] /\ HoldsTexts(k)
      BY <1>3, <2>2 DEF SystemInv, EmbedCoherent
    <3> QED
      BY <1>1, <3>1 DEF HoldsTexts, Pending
  <2> QED
    BY <2>1, <2>2
<1>5. EmbedCoherent'
  BY <1>1, <1>4 DEF SystemInv, EmbedCoherent, RepairsRows, ToWrite
<1> QED
  BY <1>1, <1>2, <1>5, RacedType DEF SystemInv

LEMMA TakeEntryKeeps ==
    ASSUME SystemInv, NEW w \in EmbedWorkers, NEW n \in embedQueue, Alone(TakeEntry(w, n))
    PROVE  SystemInv'
<1> DEFINE missing == n.ids \cap Unembedded
           texts == [e \in ExtIds |-> IF e \in missing THEN TextOf(e) ELSE None]
           d == [pc |-> "insert", entry |-> n, texts |-> texts]
<1>1. /\ embedQueue' = embedQueue \ {n}
      /\ emb' = IF missing = {} THEN emb ELSE [emb EXCEPT ![w] = d]
      /\ UNCHANGED <<jobs, vector, req, run, faults, repair, dead, aged, matchQueue>>
      /\ TrackRaces
  BY DEF Alone, TakeEntry, syncVars
<1>2. w \in Embedders /\ n \in Entry /\ n.attempts < EmbedAttempts
  BY DEF SystemInv, Inv, TypeOK, StoreTypeOK, EmbedCoherent, Embedders
<1>3. \A e \in missing : e \in ExtIds /\ Exists(e) /\ e \in n.ids
  BY DEF Unembedded
<1>4. texts \in [ExtIds -> Text \cup {None}]
  BY <1>3, TextType DEF SystemInv
<1>5. \A e \in ExtIds : texts[e] # None => Exists(e) /\ e \in n.ids
  BY <1>3
<1> HIDE DEF texts, missing
<1>6. d \in Embedding
  BY <1>2, <1>4 DEF Embedding
<1>7. emb \in [Embedders -> Embedding] /\ HoldsTexts(w)
  BY <1>2 DEF SystemInv, EmbedTypeOK, EmbedCoherent
<1>8. CASE emb' = [emb EXCEPT ![w] = d]
  BY <1>1, <1>2, <1>5, <1>6, <1>8, EmbedderMoves
     DEF SystemInv, EmbedTypeOK, EmbedCoherent, Inv, TypeOK, StoreTypeOK
<1>9. CASE emb' = emb
  <2>1. emb' = [emb EXCEPT ![w] = emb[w]] /\ emb[w] \in Embedding
    BY <1>2, <1>7, <1>9
  <2>2. \A e \in ExtIds : emb[w].texts[e] # None => e \in Pending(w)
    BY DEF Pending
  <2> QED
    BY <1>1, <1>2, <1>7, <2>1, <2>2, EmbedderMoves
       DEF SystemInv, EmbedTypeOK, EmbedCoherent, HoldsTexts, Inv, TypeOK, StoreTypeOK
<1> QED
  BY <1>1, <1>8, <1>9

LEMMA IdleEmbedder ==
    /\ IdleEmbedding \in Embedding
    /\ IdleEmbedding.pc = "idle" /\ IdleEmbedding.entry = None
    /\ IdleEmbedding.texts = NoTexts
    /\ \A e \in ExtIds : IdleEmbedding.texts[e] = None
BY DEF IdleEmbedding, Embedding, NoTexts

LEMMA StartBackfillKeeps ==
    ASSUME SystemInv, NEW b \in Backfillers, Alone(StartBackfill(b))
    PROVE  SystemInv'
<1> DEFINE texts == [e \in ExtIds |-> IF e \in Unembedded \cap Active THEN TextOf(e) ELSE None]
           d == [pc |-> "insert", entry |-> None, texts |-> texts]
<1>1. /\ emb' = [emb EXCEPT ![b] = d]
      /\ UNCHANGED <<jobs, vector, embedQueue, req, run, faults, repair, dead, aged, matchQueue>>
      /\ TrackRaces
  BY DEF Alone, StartBackfill, syncVars, storeVars
<1>2. b \in Embedders /\ b \notin EmbedWorkers
  BY EmbedPipelineAssumption DEF Embedders
<1>3. texts \in [ExtIds -> Text \cup {None}]
  BY TextType DEF SystemInv, Unembedded
<1>4. \A e \in ExtIds : texts[e] # None => Exists(e)
  BY DEF Unembedded
<1> HIDE DEF texts
<1>5. d \in Embedding
  BY <1>3 DEF Embedding
<1> QED
  BY <1>1, <1>2, <1>4, <1>5, EmbedderMoves
     DEF SystemInv, EmbedTypeOK, EmbedCoherent, Inv, TypeOK, StoreTypeOK

\* What the insertion of one vector leaves: the vector of a row that had none,
\* and an embedder without the text.
LEMMA VectorInserted ==
    ASSUME SystemInv, NEW m \in Embedders, InsertVector(m)
    PROVE  \E e \in Pending(m), d \in Embedding :
              /\ emb' = [emb EXCEPT ![m] = d]
              /\ vector' = [vector EXCEPT ![e] = IF @ = None THEN emb[m].texts[e] ELSE @]
              /\ d.texts = [emb[m].texts EXCEPT ![e] = None]
              /\ d.pc # "insert" => d.texts = NoTexts
              /\ d.entry \in {emb[m].entry, None}
              /\ m \in EmbedWorkers => d.pc # "idle" /\ d.entry = emb[m].entry
<1>1. emb[m] \in Embedding /\ emb[m].pc = "insert"
  BY DEF SystemInv, EmbedTypeOK, InsertVector
<1>2. PICK e \in Pending(m) :
        /\ vector' = [vector EXCEPT ![e] = IF @ = None THEN emb[m].texts[e] ELSE @]
        /\ emb' = [emb EXCEPT ![m] =
             IF Pending(m) # {e} THEN [@ EXCEPT !.texts[e] = None]
             ELSE IF m \in EmbedWorkers
                  THEN [pc |-> "handoff", entry |-> @.entry, texts |-> NoTexts]
                  ELSE IdleEmbedding]
  BY DEF InsertVector
<1>3. e \in ExtIds
  BY DEF Pending
<1>4. CASE Pending(m) # {e}
  <2> DEFINE d == [emb[m] EXCEPT !.texts[e] = None]
  <2>1. /\ d \in Embedding /\ d.texts = [emb[m].texts EXCEPT ![e] = None]
        /\ d.pc = "insert" /\ d.entry = emb[m].entry
    BY <1>1 DEF Embedding
  <2>2. emb' = [emb EXCEPT ![m] = d]
    BY <1>2, <1>4
  <2> QED
    BY <1>1, <1>2, <2>1, <2>2
<1>5. CASE Pending(m) = {e}
  <2> DEFINE d == IF m \in EmbedWorkers
                  THEN [pc |-> "handoff", entry |-> emb[m].entry, texts |-> NoTexts]
                  ELSE IdleEmbedding
  <2>1. NoTexts = [emb[m].texts EXCEPT ![e] = None]
    <3>1. \A f \in ExtIds : f # e => emb[m].texts[f] = None
      BY <1>5 DEF Pending
    <3> QED
      BY <1>1, <1>3, <3>1 DEF NoTexts, Embedding
  <2>2. /\ d \in Embedding /\ d.texts = NoTexts /\ d.pc # "insert"
        /\ d.entry \in {emb[m].entry, None}
        /\ m \in EmbedWorkers => d.pc # "idle" /\ d.entry = emb[m].entry
    BY <1>1, IdleEmbedder DEF Embedding, NoTexts
  <2>3. emb' = [emb EXCEPT ![m] = d]
    BY <1>2, <1>5
  <2> QED
    BY <1>2, <2>1, <2>2, <2>3
<1> QED
  BY <1>4, <1>5

LEMMA InsertVectorKeeps ==
    ASSUME SystemInv, NEW m \in Embedders, Alone(InsertVector(m))
    PROVE  SystemInv'
<1>1. /\ InsertVector(m)
      /\ UNCHANGED <<jobs, embedQueue, req, run, faults, repair, dead, aged, matchQueue>>
      /\ TrackRaces
  BY DEF Alone, InsertVector, syncVars
<1>2. PICK e \in Pending(m), d \in Embedding :
        /\ emb' = [emb EXCEPT ![m] = d]
        /\ vector' = [vector EXCEPT ![e] = IF @ = None THEN emb[m].texts[e] ELSE @]
        /\ d.texts = [emb[m].texts EXCEPT ![e] = None]
        /\ d.pc # "insert" => d.texts = NoTexts
        /\ d.entry \in {emb[m].entry, None}
        /\ m \in EmbedWorkers => d.pc # "idle" /\ d.entry = emb[m].entry
  BY <1>1, VectorInserted
<1>3. /\ emb[m] \in Embedding /\ emb[m].pc = "insert" /\ HoldsTexts(m)
      /\ vector \in [ExtIds -> Text \cup {None}] /\ e \in ExtIds /\ Exists(e)
  BY <1>1 DEF InsertVector, SystemInv, EmbedTypeOK, EmbedCoherent, HoldsTexts, Pending,
       Inv, TypeOK, StoreTypeOK
<1>4. vector' \in [ExtIds -> Text \cup {None}]
  BY <1>2, <1>3 DEF Embedding
<1>5. \A f \in ExtIds : vector'[f] # None => Exists(f)
  BY <1>2, <1>3 DEF SystemInv, EmbedCoherent
<1>6. \A f \in ExtIds : d.texts[f] # None => f \in Pending(m)
  BY <1>2, <1>3 DEF Embedding, Pending
<1> QED
  BY <1>1, <1>2, <1>3, <1>4, <1>5, <1>6, EmbedderMoves
     DEF SystemInv, EmbedTypeOK, EmbedCoherent, HoldsTexts, Inv, TypeOK, StoreTypeOK

LEMMA HandOffKeeps ==
    ASSUME SystemInv, NEW w \in EmbedWorkers, Alone(HandOff(w))
    PROVE  SystemInv'
<1>1. /\ emb' = [emb EXCEPT ![w] = IdleEmbedding]
      /\ matchQueue' = matchQueue \cup emb[w].entry.ids
      /\ UNCHANGED <<jobs, vector, embedQueue, req, run, faults, repair, dead, aged>>
      /\ TrackRaces
  BY DEF Alone, HandOff, syncVars, storeVars
<1>2. w \in Embedders /\ emb[w].entry \in Entry
  BY DEF Alone, HandOff, SystemInv, EmbedCoherent, HoldsTexts, Embedders
<1>3. matchQueue' \in SUBSET ExtIds
  BY <1>1, <1>2 DEF SystemInv, EmbedTypeOK, Entry
<1> QED
  BY <1>1, <1>2, <1>3, IdleEmbedder, EmbedderMoves
     DEF SystemInv, EmbedTypeOK, EmbedCoherent, Inv, TypeOK, StoreTypeOK

LEMMA EmbedFailsKeeps ==
    ASSUME SystemInv, NEW m \in Embedders, EmbedFails(m), UNCHANGED <<req, run>>,
           faults' \in 0 .. MaxFaults, TrackRaces
    PROVE  SystemInv'
<1> DEFINE n == emb[m].entry
           again == [n EXCEPT !.attempts = @ + 1]
<1>1. /\ emb' = [emb EXCEPT ![m] = IdleEmbedding]
      /\ UNCHANGED <<jobs, vector, repair, aged, matchQueue>>
  BY DEF EmbedFails
<1>2. /\ embedQueue' \in SUBSET Entry /\ dead' \in SUBSET Entry
      /\ \A q \in embedQueue' : q.attempts < EmbedAttempts
  <2>1. /\ embedQueue \in SUBSET Entry /\ dead \in SUBSET Entry
        /\ \A q \in embedQueue : q.attempts < EmbedAttempts
    BY DEF SystemInv, EmbedTypeOK, EmbedCoherent, Inv, TypeOK, StoreTypeOK
  <2>2. CASE n = None
    BY <2>1, <2>2 DEF EmbedFails
  <2>3. CASE n # None
    <3>1. n \in Entry /\ n.attempts < EmbedAttempts
      BY <2>3 DEF SystemInv, EmbedTypeOK, Embedding, EmbedCoherent, HoldsTexts
    <3>2. again \in Entry /\ again.attempts = n.attempts + 1
      BY <3>1, JobStoreAssumption DEF Entry
    <3>3. IF again.attempts < EmbedAttempts
          THEN embedQueue' = embedQueue \cup {again} /\ UNCHANGED dead
          ELSE dead' = dead \cup {again} /\ UNCHANGED embedQueue
      BY <2>3 DEF EmbedFails
    <3> HIDE DEF again
    <3> QED
      BY <2>1, <3>2, <3>3
  <2> QED
    BY <2>2, <2>3
<1> QED
  BY <1>1, <1>2, IdleEmbedder, EmbedderMoves
     DEF SystemInv, EmbedTypeOK, EmbedCoherent, Inv, TypeOK, StoreTypeOK

LEMMA AgeKeeps ==
    ASSUME SystemInv, NEW e \in ExtIds, Alone(Age(e))
    PROVE  SystemInv'
<1>1. /\ aged' = aged \cup {e}
      /\ UNCHANGED <<jobs, vector, embedQueue, req, run, faults, repair, emb, dead, matchQueue>>
      /\ TrackRaces
  BY DEF Alone, Age, syncVars, storeVars
<1>2. Inv' /\ \A f \in ExtIds : Exists(f)' = Exists(f)
  BY <1>1, RowsStay DEF SystemInv, Inv, TypeOK, StoreTypeOK
<1>3. EmbedTypeOK'
  BY <1>1 DEF SystemInv, EmbedTypeOK
<1>4. EmbedCoherent'
  BY <1>1, <1>2 DEF SystemInv, EmbedCoherent, RepairsRows, ToWrite, HoldsTexts, Pending
<1> QED
  BY <1>1, <1>2, <1>3, <1>4, RacedType DEF SystemInv

LEMMA SweepKeeps ==
    ASSUME SystemInv, Alone(Sweep)
    PROVE  SystemInv'
<1>1. PICK S \in SUBSET Stranded : enqueueEmbeddings(S)
  BY DEF Alone, Sweep
<1>2. /\ UNCHANGED <<jobs, vector, req, run, faults, repair, emb, dead, aged, matchQueue>>
      /\ TrackRaces
  BY DEF Alone, Sweep, syncVars, embedVars
<1>3. S \in SUBSET ExtIds
  BY DEF Stranded, Active
<1>4. /\ embedQueue' \in SUBSET Entry
      /\ \A n \in embedQueue' : n \in embedQueue \/ n.attempts = 0
  BY <1>1, <1>3, EnqueueKeeps DEF SystemInv
<1>5. Inv' /\ \A f \in ExtIds : Exists(f)' = Exists(f)
  BY <1>2, <1>4, RowsStay DEF SystemInv, Inv, TypeOK, StoreTypeOK
<1>6. EmbedTypeOK'
  BY <1>2 DEF SystemInv, EmbedTypeOK
<1>7. EmbedCoherent'
  <2>1. \A n \in embedQueue' : n.attempts < EmbedAttempts
    BY <1>4, JobStoreAssumption DEF SystemInv, EmbedCoherent
  <2> QED
    BY <1>2, <1>5, <2>1 DEF SystemInv, EmbedCoherent, RepairsRows, ToWrite, HoldsTexts, Pending
<1> QED
  BY <1>2, <1>5, <1>6, <1>7, RacedType DEF SystemInv

LEMMA SystemCrashKeeps ==
    ASSUME SystemInv, SystemCrash
    PROVE  SystemInv'
<1>1. /\ req' = [h \in Handlers |-> IdleRequest]
      /\ emb' = [m \in Embedders |-> IdleEmbedding]
      /\ embedQueue' = embedQueue \cup ({emb[m].entry : m \in Embedders} \ {None})
      /\ repair' = [r \in Repairers |-> IdleRepair]
      /\ UNCHANGED <<jobs, vector, run, dead, aged, matchQueue>>
      /\ faults' \in 0 .. MaxFaults
      /\ TrackRaces
  BY CrawlSyncAssumption DEF SystemCrash, CrashRequests, CrashEmbedding, SystemInv, Inv, TypeOK
<1>2. embedQueue' \in SUBSET Entry /\ \A n \in embedQueue' : n.attempts < EmbedAttempts
  BY <1>1 DEF SystemInv, EmbedTypeOK, Embedding, EmbedCoherent, HoldsTexts, Inv, TypeOK, StoreTypeOK
<1>3. /\ StoreTypeOK' /\ RemovedOnlyByOwnSource'
      /\ \A e \in ExtIds : Exists(e)' = Exists(e)
  BY <1>1, <1>2 DEF SystemInv, Inv, TypeOK, StoreTypeOK, RemovedOnlyByOwnSource, Exists
<1>4. Coherent'
  BY <1>1 DEF Coherent, SourceKnown, OnePerRow, RefreshesRows, IdleRequest
<1>5. Inv'
  BY <1>1, <1>3, <1>4, IdleRequestType DEF SystemInv, Inv, TypeOK
<1>6. EmbedTypeOK'
  BY <1>1, IdleEmbedder DEF SystemInv, EmbedTypeOK, Repair, IdleRepair, NoBodies
<1>7. EmbedCoherent'
  <2>1. RepairsRows'
    BY <1>1 DEF RepairsRows, ToWrite, IdleRepair, NoBodies
  <2>2. \A m \in Embedders : HoldsTexts(m)'
    BY <1>1, IdleEmbedder DEF HoldsTexts, Pending
  <2> QED
    BY <1>1, <1>2, <1>3, <2>1, <2>2 DEF SystemInv, EmbedCoherent
<1> QED
  BY <1>1, <1>5, <1>6, <1>7, RacedType DEF SystemInv

LEMMA SystemStutterKeeps ==
    ASSUME SystemInv, UNCHANGED systemVars
    PROVE  SystemInv'
<1>1. UNCHANGED vars /\ UNCHANGED embedVars /\ UNCHANGED raced
  BY DEF systemVars
<1>2. Inv' /\ \A e \in ExtIds : Exists(e)' = Exists(e)
  BY <1>1, StutterInv DEF SystemInv, vars, Exists
<1>3. EmbedTypeOK' /\ EmbedCoherent'
  BY <1>1, <1>2 DEF vars, embedVars, SystemInv, EmbedTypeOK, EmbedCoherent, RepairsRows,
       ToWrite, HoldsTexts, Pending
<1> QED
  BY <1>1, <1>2, <1>3 DEF SystemInv

LEMMA SystemNextKeeps ==
    ASSUME SystemInv, [SystemNext]_systemVars
    PROVE  SystemInv'
<1>1. ASSUME NEW r \in Repairers, Alone(RepairStep(r)) PROVE SystemInv'
  <2>1. CASE Alone(RepairEnqueue(r))
    BY <2>1, RepairEnds DEF Alone, RepairEnqueue, syncVars, SystemInv, Inv, TypeOK
  <2> QED
    BY <1>1, <2>1, RepairReadKeeps, RepairClearKeeps, RepairWriteKeeps DEF Alone, RepairStep
<1>2. ASSUME NEW w \in EmbedWorkers, Alone(WorkerStep(w)) PROVE SystemInv'
  BY <1>2, TakeEntryKeeps, InsertVectorKeeps, HandOffKeeps DEF Alone, WorkerStep, Embedders
<1>3. ASSUME NEW b \in Backfillers, Alone(BackfillStep(b)) PROVE SystemInv'
  BY <1>3, StartBackfillKeeps, InsertVectorKeeps DEF Alone, BackfillStep, Embedders
<1>4. ASSUME EmbedFault PROVE SystemInv'
  <2>1. faults' \in 0 .. MaxFaults
    BY <1>4, CrawlSyncAssumption DEF EmbedFault, SystemInv, Inv, TypeOK
  <2>2. ASSUME NEW r \in Repairers, RepairFails(r) PROVE SystemInv'
    BY <1>4, <2>1, <2>2, RepairEnds DEF EmbedFault, RepairFails, storeVars
  <2> QED
    BY <1>4, <2>1, <2>2, EmbedFailsKeeps DEF EmbedFault
<1> QED
  BY <1>1, <1>2, <1>3, <1>4, IngestKeeps, AgeKeeps, SweepKeeps, SystemCrashKeeps,
     SystemStutterKeeps DEF SystemNext

THEOREM SystemInvariance == SystemSpec => []SystemInv
BY SystemInitInv, SystemNextKeeps, PTL DEF SystemSpec

\* Every reachable state of crawls, repairs and embedders together is well formed:
\* a repair never gives a body to a row that is not there, an embedder never sends
\* a text no row had, no entry runs more often than its attempts allow.
THEOREM SystemTypeCorrect == SystemSpec => []SystemTypeOK
BY SystemInvariance, PTL DEF SystemInv, SystemTypeOK, Inv

-----------------------------------------------------------------------------
(***************************************************************************)
(* Refinement.  A repair rewrites; no other step beside the requests        *)
(* touches the rows.                                                       *)
(***************************************************************************)
LEMMA SystemNextIsHistory ==
    ASSUME SystemInv, [SystemNext]_systemVars
    PROVE  [History!Next]_jobs
<1>1. ASSUME NEW h \in Handlers, Ingest(h) PROVE [History!Next]_jobs
  BY <1>1, IngestIsNext, NextIsHistory DEF SystemInv
<1>2. ASSUME NEW r \in Repairers, RepairStep(r) PROVE [History!Next]_jobs
  BY <1>2, RepairWritten DEF RepairStep, RepairRead, RepairClear, RepairEnqueue, storeVars
<1>3. ASSUME NEW w \in EmbedWorkers, WorkerStep(w) PROVE jobs' = jobs
  BY <1>3 DEF WorkerStep, TakeEntry, InsertVector, HandOff, storeVars
<1>4. ASSUME NEW b \in Backfillers, BackfillStep(b) PROVE jobs' = jobs
  BY <1>4 DEF BackfillStep, StartBackfill, InsertVector, storeVars
<1>5. CASE EmbedFault
  BY <1>5 DEF EmbedFault, RepairFails, EmbedFails, storeVars
<1>6. CASE SystemCrash \/ Sweep \/ \E e \in ExtIds : Age(e)
  BY <1>6 DEF SystemCrash, CrashEmbedding, Sweep, Age, storeVars
<1>7. CASE UNCHANGED systemVars
  BY <1>7 DEF systemVars, vars
<1> QED
  BY <1>1, <1>2, <1>3, <1>4, <1>5, <1>6, <1>7 DEF SystemNext, Alone

\* Crawls, repairs and embedders together implement JobHistory: no interleaving,
\* failure or crash gives a row a history the atomic steps would not.
THEOREM SystemImplementsJobHistory == SystemSpec => ImplementsJobHistory
<1>1. SystemInit => History!Init
  BY InitIsHistory DEF SystemInit, Init
<1> QED
  BY SystemInvariance, <1>1, SystemNextIsHistory, PTL
     DEF SystemSpec, ImplementsJobHistory, History!Spec

-----------------------------------------------------------------------------
(***************************************************************************)
(* The embedding invariant.  A row that met none of the races of RacedNow  *)
(* Follows: an embedder holds the text the row has, and its vector is of   *)
(* that text or in the hands of a request that will clear it.              *)
(***************************************************************************)
Follows(e) ==
    /\ \A m \in Embedders : emb[m].texts[e] \in {None, TextOf(e)}
    /\ ~Stale(e)

FreshInv == \A e \in ExtIds \ raced : Follows(e)

\* The text of a row changes only where an upsert or a repair writes it.
LEMMA TextChanges ==
    ASSUME SystemInv, [SystemNext]_systemVars, NEW e \in ExtIds, TextOf(e)' # TextOf(e)
    PROVE  \/ \E h \in Handlers : UpsertRows(h) /\ e \in ExtsOf(req[h].chunk)
           \/ \E r \in Repairers : RepairWrite(r) /\ e \in ToWrite(r)
<1>1. jobs[e] \in Row /\ jobs'[e] # jobs[e]
  BY DEF SystemInv, Inv, TypeOK, StoreTypeOK, TextOf
<1>2. ASSUME NEW h \in Handlers, Ingest(h)
      PROVE  UpsertRows(h) /\ e \in ExtsOf(req[h].chunk)
  <2>1. RefreshOwners(h) \/ UpsertRows(h) \/ Retire(h)
    BY <1>1, <1>2 DEF Ingest, Start, HandlerStep, HandlerFault, StartSync, StartBoard,
         FindOwners, ReadBodies, ClearStale, FinishSync, Settle, FinishBoard, Enqueue,
         SyncFails, BoardCompanyFails, BoardFails, WorkerAbandons, storeVars
  <2>2. ~RefreshOwners(h)
    BY <1>1 DEF RefreshOwners, Row, TextOf
  <2>3. ~Retire(h)
    BY <1>1 DEF Retire, Row, TextOf
  <2>4. UpsertRows(h)
    BY <2>1, <2>2, <2>3
  <2> QED
    BY <1>1, <2>4 DEF UpsertRows
<1>3. ASSUME NEW r \in Repairers, RepairStep(r)
      PROVE  RepairWrite(r) /\ e \in ToWrite(r)
  BY <1>1, <1>3 DEF RepairStep, RepairRead, RepairClear, RepairWrite, RepairEnqueue, storeVars
<1>4. ~ \E w \in EmbedWorkers : WorkerStep(w)
  BY <1>1 DEF WorkerStep, TakeEntry, InsertVector, HandOff, storeVars
<1>5. ~ \E b \in Backfillers : BackfillStep(b)
  BY <1>1 DEF BackfillStep, StartBackfill, InsertVector, storeVars
<1>6. ~EmbedFault
  BY <1>1 DEF EmbedFault, RepairFails, EmbedFails, storeVars
<1>7. ~(SystemCrash \/ Sweep \/ \E f \in ExtIds : Age(f)) /\ ~UNCHANGED systemVars
  BY <1>1 DEF SystemCrash, CrashEmbedding, Sweep, Age, storeVars, systemVars, vars
<1> QED
  BY <1>2, <1>3, <1>4, <1>5, <1>6, <1>7 DEF SystemNext, Alone

\* A vector appears only where an embedder inserts the text it holds.
LEMMA VectorAppears ==
    ASSUME SystemInv, [SystemNext]_systemVars, NEW e \in ExtIds
    PROVE  \/ vector'[e] \in {None, vector[e]}
           \/ /\ \E m \in Embedders : e \in Pending(m) /\ vector'[e] = emb[m].texts[e]
              /\ jobs' = jobs
<1>1. ASSUME NEW h \in Handlers, Ingest(h) PROVE vector'[e] \in {None, vector[e]}
  BY <1>1, IngestIsNext, RequestsAndStore DEF SystemInv
<1>2. ASSUME NEW r \in Repairers, RepairStep(r) PROVE vector'[e] \in {None, vector[e]}
  BY <1>2 DEF RepairStep, RepairRead, RepairClear, RepairWrite, RepairEnqueue, ClearVectors, storeVars
<1>3. ASSUME NEW m \in Embedders, InsertVector(m)
      PROVE  \/ vector'[e] \in {None, vector[e]}
             \/ e \in Pending(m) /\ vector'[e] = emb[m].texts[e] /\ jobs' = jobs
  BY <1>3, VectorInserted DEF InsertVector, SystemInv, Inv, TypeOK, StoreTypeOK
<1>4. ASSUME NEW w \in EmbedWorkers, WorkerStep(w), ~InsertVector(w) PROVE vector' = vector
  BY <1>4 DEF WorkerStep, TakeEntry, HandOff, storeVars
<1>5. ASSUME NEW b \in Backfillers, BackfillStep(b), ~InsertVector(b) PROVE vector' = vector
  BY <1>5 DEF BackfillStep, StartBackfill, storeVars
<1>6. CASE EmbedFault
  BY <1>6 DEF EmbedFault, RepairFails, EmbedFails, storeVars
<1>7. CASE SystemCrash \/ Sweep \/ \E f \in ExtIds : Age(f)
  BY <1>7 DEF SystemCrash, CrashEmbedding, Sweep, Age, storeVars
<1>8. CASE UNCHANGED systemVars
  BY <1>8 DEF systemVars, vars
<1> QED
  BY <1>1, <1>2, <1>3, <1>4, <1>5, <1>6, <1>7, <1>8 DEF SystemNext, Alone, Embedders

\* An embedder comes to hold a text only by reading it from the row.
LEMMA TextHeld ==
    ASSUME SystemInv, [SystemNext]_systemVars, NEW e \in ExtIds, NEW m \in Embedders
    PROVE  \/ emb'[m].texts[e] \in {None, emb[m].texts[e]}
           \/ emb'[m].texts[e] = TextOf(e) /\ jobs' = jobs
<1>1. emb \in [Embedders -> Embedding]
  BY DEF SystemInv, EmbedTypeOK
<1>2. ASSUME NEW h \in Handlers, Ingest(h) PROVE emb' = emb
  BY <1>2 DEF Ingest, embedVars
<1>3. ASSUME NEW r \in Repairers, RepairStep(r) PROVE emb' = emb
  BY <1>3 DEF RepairStep, RepairRead, RepairClear, RepairWrite, RepairEnqueue
<1>4. ASSUME NEW k \in Embedders, InsertVector(k)
      PROVE  emb'[m].texts[e] \in {None, emb[m].texts[e]}
  <2>1. PICK f \in Pending(k), d \in Embedding :
           /\ emb' = [emb EXCEPT ![k] = d] /\ d.texts = [emb[k].texts EXCEPT ![f] = None]
    BY <1>4, VectorInserted
  <2>2. emb[k].texts \in [ExtIds -> Text \cup {None}]
    BY <1>1 DEF Embedding
  <2> QED
    BY <1>1, <2>1, <2>2
<1>5. ASSUME NEW w \in EmbedWorkers, NEW n \in embedQueue, TakeEntry(w, n)
      PROVE  \/ emb'[m].texts[e] \in {None, emb[m].texts[e]}
             \/ emb'[m].texts[e] = TextOf(e) /\ jobs' = jobs
  <2> DEFINE missing == n.ids \cap Unembedded
             texts == [f \in ExtIds |-> IF f \in missing THEN TextOf(f) ELSE None]
  <2>1. /\ emb' = IF missing = {} THEN emb
                  ELSE [emb EXCEPT ![w] = [pc |-> "insert", entry |-> n, texts |-> texts]]
        /\ jobs' = jobs
    BY <1>5 DEF TakeEntry
  <2>2. texts[e] \in {None, TextOf(e)}
    OBVIOUS
  <2> HIDE DEF texts, missing
  <2> QED
    BY <1>1, <2>1, <2>2
<1>6. ASSUME NEW b \in Backfillers, StartBackfill(b)
      PROVE  \/ emb'[m].texts[e] \in {None, emb[m].texts[e]}
             \/ emb'[m].texts[e] = TextOf(e) /\ jobs' = jobs
  <2> DEFINE texts == [f \in ExtIds |-> IF f \in Unembedded \cap Active THEN TextOf(f) ELSE None]
  <2>1. /\ emb' = [emb EXCEPT ![b] = [pc |-> "insert", entry |-> None, texts |-> texts]]
        /\ jobs' = jobs
    BY <1>6 DEF StartBackfill, storeVars
  <2>2. texts[e] \in {None, TextOf(e)}
    OBVIOUS
  <2> HIDE DEF texts
  <2> QED
    BY <1>1, <2>1, <2>2
<1>7. ASSUME NEW k \in Embedders, emb' = [emb EXCEPT ![k] = IdleEmbedding]
      PROVE  emb'[m].texts[e] \in {None, emb[m].texts[e]}
  BY <1>1, <1>7, IdleEmbedder
<1>8. CASE EmbedFault
  BY <1>7, <1>8 DEF EmbedFault, RepairFails, EmbedFails
<1>9. CASE SystemCrash
  BY <1>9, IdleEmbedder DEF SystemCrash, CrashEmbedding
<1>10. CASE Sweep \/ (\E f \in ExtIds : Age(f)) \/ UNCHANGED systemVars
  BY <1>10 DEF Sweep, Age, embedVars, systemVars
<1>11. ASSUME NEW w \in EmbedWorkers, HandOff(w)
       PROVE  emb'[m].texts[e] \in {None, emb[m].texts[e]}
  BY <1>7, <1>11 DEF HandOff, Embedders
<1> QED
  BY <1>2, <1>3, <1>4, <1>5, <1>6, <1>8, <1>9, <1>10, <1>11
     DEF SystemNext, Alone, Embedders, WorkerStep, BackfillStep

\* What a step did not do to a row that met no race.
LEMMA NotRaced ==
    ASSUME SystemInv, [SystemNext]_systemVars, NEW e \in ExtIds \ raced'
    PROVE  /\ e \notin raced
           /\ TextOf(e)' # TextOf(e) => \A m \in Embedders : emb[m].texts[e] = None
           /\ jobs'[e].title # jobs[e].title => jobs'[e].body # jobs[e].body
           /\ \A r \in Repairers :
                 (/\ repair[r].pc = "write" /\ repair'[r].pc = "enqueue"
                  /\ e \in ToWrite(r)) => vector[e] = None
           /\ \A h \in Handlers :
                 (/\ req[h].pc = "upsert" /\ req'[h].pc \in {"read", "clear"}
                  /\ e \in ExtsOf(req[h].chunk)) => req[h].before[e] = jobs[e].body
           /\ \A h \in Handlers :
                 (e \in req[h].stale /\ vector'[e] # None) => e \in req'[h].stale
<1>1. CASE UNCHANGED systemVars
  BY <1>1 DEF systemVars, vars, embedVars, TextOf
<1>2. CASE SystemNext
  <2>1. TrackRaces
    BY <1>2 DEF SystemNext, Ingest, Alone, EmbedFault, SystemCrash
  <2>2. e \notin raced /\ e \notin RacedNow
    BY <2>1 DEF TrackRaces
  <2> QED
    BY <2>2 DEF RacedNow
<1> QED
  BY <1>1, <1>2

\* The upsert that gives a row another text lists it among the vectors to clear.
LEMMA UpsertRestales ==
    ASSUME SystemInv, NEW h \in Handlers, UpsertRows(h), NEW e \in ExtIds, Exists(e),
           e \in ExtsOf(req[h].chunk),
           req[h].before[e] = jobs[e].body, jobs'[e].body # jobs[e].body
    PROVE  e \in req'[h].stale
<1> DEFINE C == req[h].chunk
           p == CHOOSE q \in C : q.ext = e
<1>1. p \in C /\ p.ext = e
  BY DEF ExtsOf
<1>2. jobs'[e] = Written(req[h].source, p)
  BY DEF UpsertRows
<1> HIDE DEF p
<1>3. p.body # req[h].before[e]
  BY <1>2 DEF Written
<1>4. req[h].before[e] # None
  BY JobStoreAssumption DEF SystemInv, Inv, TypeOK, StoreTypeOK
<1>5. e \notin Inserted(req[h])
  BY DEF Inserted
<1>6. e \in Restale(req[h])
  BY <1>1, <1>3, <1>4, <1>5 DEF Restale
<1>7. req'[h].stale = Restale(req[h])
  BY DEF UpsertRows, SystemInv, Inv, TypeOK, Request
<1> QED
  BY <1>6, <1>7

LEMMA FreshKept ==
    ASSUME SystemInv, FreshInv, [SystemNext]_systemVars
    PROVE  FreshInv'
<1> SUFFICES ASSUME NEW e \in ExtIds \ raced'
             PROVE  Follows(e)'
  BY DEF FreshInv
<1>1. Follows(e)
  BY NotRaced DEF FreshInv
<1>2. ASSUME NEW m \in Embedders PROVE emb'[m].texts[e] \in {None, TextOf(e)'}
  <2>1. CASE TextOf(e)' = TextOf(e)
    BY <1>1, <2>1, TextHeld DEF Follows
  <2>2. CASE TextOf(e)' # TextOf(e)
    <3>1. emb[m].texts[e] = None
      BY <2>2, NotRaced
    <3>2. jobs' # jobs
      BY <2>2 DEF TextOf
    <3> QED
      BY <3>1, <3>2, TextHeld
  <2> QED
    BY <2>1, <2>2
<1>3. ASSUME Exists(e)', vector'[e] # None, vector'[e] # TextOf(e)'
      PROVE  \E h \in Handlers : e \in req'[h].stale
  <2>1. vector'[e] = vector[e]
    <3>1. ASSUME NEW m \in Embedders, e \in Pending(m), vector'[e] = emb[m].texts[e], jobs' = jobs
          PROVE  FALSE
      <4>1. emb[m].texts[e] = TextOf(e)
        BY <1>1, <3>1 DEF Follows, Pending
      <4>2. TextOf(e)' = TextOf(e)
        BY <3>1 DEF TextOf
      <4> QED
        BY <1>3, <3>1, <4>1, <4>2
    <3> QED
      BY <1>3, <3>1, VectorAppears
  <2>2. Exists(e)
    BY <1>3, <2>1 DEF SystemInv, EmbedCoherent
  <2>3. CASE vector[e] # TextOf(e)
    <3>1. PICK h \in Handlers : e \in req[h].stale
      BY <1>1, <1>3, <2>1, <2>2, <2>3 DEF Follows, Stale
    <3> QED
      BY <1>3, <3>1, NotRaced
  <2>4. CASE vector[e] = TextOf(e)
    <3>1. TextOf(e)' # TextOf(e)
      BY <1>3, <2>1, <2>4
    <3>2. ASSUME NEW r \in Repairers, RepairWrite(r), e \in ToWrite(r) PROVE FALSE
      <4>1. repair[r].pc = "write" /\ repair'[r].pc = "enqueue"
        BY <3>2 DEF RepairWrite, SystemInv, EmbedTypeOK, Repair
      <4> QED
        BY <1>3, <2>1, <3>2, <4>1, NotRaced
    <3>3. PICK h \in Handlers : UpsertRows(h) /\ e \in ExtsOf(req[h].chunk)
      BY <3>1, <3>2, TextChanges
    <3>4. req[h].pc = "upsert" /\ req'[h].pc \in {"read", "clear"}
      <4>1. PICK pc \in {"read", "clear"} : \E todo, stale, fresh :
               req' = [req EXCEPT ![h].pc = pc, ![h].todo = todo, ![h].chunk = {},
                         ![h].before = NothingRead, ![h].stale = stale, ![h].fresh = fresh]
        BY <3>3 DEF UpsertRows
      <4>2. req \in [Handlers -> Request] /\ req[h].pc = "upsert"
        BY <3>3 DEF UpsertRows, SystemInv, Inv, TypeOK
      <4>3. req'[h].pc = pc
        BY <4>1, <4>2 DEF Request
      <4> QED
        BY <4>1, <4>2, <4>3
    <3>5. req[h].before[e] = jobs[e].body
      BY <3>3, <3>4, NotRaced
    <3>6. jobs'[e].body # jobs[e].body
      BY <3>1, NotRaced DEF TextOf
    <3> QED
      BY <2>2, <3>3, <3>5, <3>6, UpsertRestales
  <2> QED
    BY <2>3, <2>4
<1> QED
  BY <1>2, <1>3 DEF Follows, Stale

\* THE EMBEDDING INVARIANT (ingest.service.ts:595-611): whatever interleaves, fails
\* or crashes, a vector that does not match its row is about to be cleared, or the
\* row met one of the five races of RacedNow.
THEOREM StaleOnlyByRaces == SystemSpec => []StaleOnlyAfterRace
<1>1. SystemInit => FreshInv
  <2> SUFFICES ASSUME SystemInit PROVE FreshInv
    OBVIOUS
  <2>1. \A e \in ExtIds : vector[e] = None /\ \A m \in Embedders : emb[m].texts[e] = None
    BY IdleEmbedder DEF SystemInit, StoreInit, EmbedInit
  <2> QED
    BY <2>1 DEF FreshInv, Follows, Stale
<1>2. FreshInv => StaleOnlyAfterRace
  BY DEF FreshInv, Follows, StaleOnlyAfterRace
<1> QED
  BY SystemInvariance, <1>1, FreshKept, <1>2, PTL DEF SystemSpec

-----------------------------------------------------------------------------
(***************************************************************************)
(* Nothing is stranded without a failure.  Waits(e) names who will see to  *)
(* the vector of e; a step hands e from one of them to the next.           *)
(***************************************************************************)
Waits(e) ==
    \/ \E n \in embedQueue : e \in n.ids
    \/ \E h \in Handlers : e \in req[h].fresh
    \/ \E r \in Repairers : repair[r].pc \in {"write", "enqueue"} /\ e \in ToWrite(r)
    \/ \E m \in Embedders : e \in Pending(m)

LEMMA SystemIdleKeepsNothing ==
    ASSUME SystemInv, NothingHeldIdle, [SystemNext]_systemVars
    PROVE  NothingHeldIdle'
<1>1. ASSUME NEW h \in Handlers, Ingest(h) PROVE NothingHeldIdle'
  BY <1>1, IngestIsNext, IdleKeepsNothing DEF SystemInv
<1>2. CASE SystemCrash
  BY <1>2 DEF NothingHeldIdle, SystemCrash, CrashRequests, IdleRequest
<1>3. CASE req' = req
  BY <1>3 DEF NothingHeldIdle
<1> QED
  BY <1>1, <1>2, <1>3 DEF SystemNext, Alone, syncVars, EmbedFault, systemVars, vars

\* The steps that leave the count of failures at 0.
LEMMA NoFailure ==
    ASSUME SystemInv, [SystemNext]_systemVars, faults' = 0
    PROVE  faults = 0 /\ ~EmbedFault /\ ~SystemCrash
<1>1. faults \in Nat
  BY CrawlSyncAssumption DEF SystemInv, Inv, TypeOK
<1>2. ~EmbedFault /\ ~SystemCrash
  BY <1>1 DEF EmbedFault, SystemCrash, CrashRequests
<1>3. ASSUME NEW h \in Handlers, Ingest(h) PROVE faults = 0
  BY <1>3, IngestIsNext, FaultsOnlyGrow DEF SystemInv
<1> QED
  BY <1>2, <1>3 DEF SystemNext, Alone, syncVars, systemVars, vars

LEMMA IngestWaits ==
    ASSUME SystemInv, NothingHeldIdle, NEW h \in Handlers, Ingest(h), faults' = 0,
           NEW e \in ExtIds, Exists(e)', vector'[e] = None,
           (Exists(e) /\ vector[e] = None) => Waits(e)
    PROVE  Waits(e)'
<1>1. [Next]_vars /\ UNCHANGED embedVars /\ embedQueue \subseteq embedQueue'
  BY IngestIsNext, RequestsAndStore DEF SystemInv
<1>2. CASE \/ ~Exists(e) \/ vector[e] # None
           \/ \E g \in Handlers : e \in req[g].fresh
  BY <1>1, <1>2, FreshReachesQueue DEF SystemInv, Waits
<1>3. CASE \/ \E n \in embedQueue : e \in n.ids
           \/ \E r \in Repairers : repair[r].pc \in {"write", "enqueue"} /\ e \in ToWrite(r)
           \/ \E m \in Embedders : e \in Pending(m)
  BY <1>1, <1>3 DEF Waits, embedVars, ToWrite, Pending
<1> QED
  BY <1>2, <1>3 DEF Waits

LEMMA RepairWaits ==
    ASSUME SystemInv, NEW r \in Repairers, Alone(RepairStep(r)),
           NEW e \in ExtIds, Exists(e)', vector'[e] = None,
           (Exists(e) /\ vector[e] = None) => Waits(e)
    PROVE  Waits(e)'
<1>1. UNCHANGED <<req, emb>> /\ repair \in [Repairers -> Repair]
  BY DEF Alone, RepairStep, RepairRead, RepairClear, RepairWrite, RepairEnqueue, syncVars,
       SystemInv, EmbedTypeOK
<1>2. ASSUME NEW s \in Sources, NEW U \in Updates, RepairRead(r, s, U) PROVE Waits(e)'
  <2>1. /\ UNCHANGED storeVars /\ repair[r].pc = "idle"
        /\ \A q \in Repairers : q # r => repair'[q] = repair[q]
    BY <1>1, <1>2 DEF RepairRead
  <2>2. Waits(e)
    BY <2>1 DEF storeVars, Exists
  <2> QED
    BY <1>1, <2>1, <2>2 DEF Waits, ToWrite, Pending, storeVars
<1>3. CASE RepairClear(r)
  <2>1. /\ UNCHANGED <<jobs, embedQueue>> /\ repair[r].pc = "clear" /\ repair'[r].pc = "write"
        /\ \A q \in Repairers : repair'[q].new = repair[q].new
        /\ \A q \in Repairers : q # r => repair'[q] = repair[q]
        /\ e \in ToWrite(r) \/ vector[e] = None
    BY <1>1, <1>3 DEF RepairClear, ClearVectors, Repair
  <2>2. CASE e \in ToWrite(r)
    BY <2>1, <2>2 DEF Waits, ToWrite
  <2>3. CASE e \notin ToWrite(r)
    <3>1. Waits(e)
      BY <2>1, <2>3 DEF Exists
    <3> QED
      BY <1>1, <2>1, <3>1 DEF Waits, ToWrite, Pending
  <2> QED
    BY <2>2, <2>3
<1>4. CASE RepairWrite(r)
  <2>1. /\ UNCHANGED <<vector, embedQueue>> /\ repair'[r].pc = "enqueue"
        /\ \A q \in Repairers : repair'[q].new = repair[q].new
        /\ \A q \in Repairers : q # r => repair'[q] = repair[q]
    BY <1>1, <1>4 DEF RepairWrite, Repair
  <2>2. Waits(e)
    BY <1>4, <2>1, RepairWritten
  <2> QED
    BY <1>1, <2>1, <2>2 DEF Waits, ToWrite, Pending
<1>5. CASE RepairEnqueue(r)
  <2>1. /\ UNCHANGED <<jobs, vector>> /\ enqueueEmbeddings(ToWrite(r))
        /\ \A q \in Repairers : q # r => repair'[q] = repair[q]
    BY <1>1, <1>5 DEF RepairEnqueue
  <2>2. ToWrite(r) \in SUBSET ExtIds
    BY DEF ToWrite
  <2>3. /\ embedQueue \subseteq embedQueue'
        /\ \A f \in ToWrite(r) : \E n \in embedQueue' : f \in n.ids
    BY <2>1, <2>2, EnqueueKeeps DEF SystemInv
  <2>4. Waits(e)
    BY <2>1 DEF Exists
  <2> QED
    BY <1>1, <2>1, <2>3, <2>4 DEF Waits, ToWrite, Pending
<1> QED
  BY <1>2, <1>3, <1>4, <1>5 DEF Alone, RepairStep

\* An embedder that is not inserting holds nothing that waits.
LEMMA PendingInserts ==
    ASSUME SystemInv, NEW m \in Embedders, NEW e \in Pending(m)
    PROVE  emb[m].pc = "insert"
BY DEF SystemInv, EmbedCoherent, HoldsTexts, Pending, NoTexts

LEMMA EmbedderWaits ==
    ASSUME SystemInv, UNCHANGED syncVars, NEW e \in ExtIds, Exists(e)', vector'[e] = None,
           (Exists(e) /\ vector[e] = None) => Waits(e),
           \/ \E w \in EmbedWorkers : WorkerStep(w)
           \/ \E b \in Backfillers : BackfillStep(b)
    PROVE  Waits(e)'
<1>1. emb \in [Embedders -> Embedding] /\ vector \in [ExtIds -> Text \cup {None}] /\ req' = req
  BY DEF SystemInv, EmbedTypeOK, Inv, TypeOK, StoreTypeOK, syncVars
<1>2. ASSUME NEW w \in EmbedWorkers, NEW n \in embedQueue, TakeEntry(w, n) PROVE Waits(e)'
  <2> DEFINE missing == n.ids \cap Unembedded
             texts == [f \in ExtIds |-> IF f \in missing THEN TextOf(f) ELSE None]
  <2>1. /\ emb' = IF missing = {} THEN emb
                  ELSE [emb EXCEPT ![w] = [pc |-> "insert", entry |-> n, texts |-> texts]]
        /\ embedQueue' = embedQueue \ {n}
        /\ UNCHANGED <<jobs, vector, repair>> /\ emb[w].pc = "idle" /\ w \in Embedders
    BY <1>2 DEF TakeEntry, Embedders
  <2>2. Exists(e) /\ vector[e] = None /\ Waits(e)
    BY <2>1 DEF Exists
  <2>3. CASE e \in n.ids
    <3>1. e \in missing
      BY <2>2, <2>3 DEF Unembedded
    <3>2. emb'[w].texts[e] # None
      BY <1>1, <2>1, <2>2, <3>1, TextType DEF SystemInv
    <3> QED
      BY <2>1, <3>2 DEF Waits, Pending
  <2>4. ASSUME NEW m \in Embedders, e \in Pending(m) PROVE e \in Pending(m)'
    <3>1. m # w
      BY <2>1, <2>4, PendingInserts
    <3>2. emb'[m] = emb[m]
      BY <1>1, <2>1, <3>1
    <3> QED
      BY <2>4, <3>2 DEF Pending
  <2>5. CASE e \notin n.ids
    BY <1>1, <2>1, <2>2, <2>4, <2>5 DEF Waits, ToWrite
  <2> QED
    BY <2>3, <2>5
<1>3. ASSUME NEW b \in Backfillers, StartBackfill(b) PROVE Waits(e)'
  <2>1. /\ UNCHANGED <<jobs, vector, embedQueue, repair>> /\ emb[b].pc = "idle"
        /\ \A m \in Embedders : m # b => emb'[m] = emb[m]
    BY <1>1, <1>3 DEF StartBackfill, storeVars
  <2>2. Waits(e)
    BY <2>1 DEF Exists
  <2>3. ASSUME NEW m \in Embedders, e \in Pending(m) PROVE e \in Pending(m)'
    <3>1. m # b
      BY <2>1, <2>3, PendingInserts
    <3> QED
      BY <2>1, <2>3, <3>1 DEF Pending
  <2> QED
    BY <1>1, <2>1, <2>2, <2>3 DEF Waits, ToWrite
<1>4. ASSUME NEW m \in Embedders, InsertVector(m) PROVE Waits(e)'
  <2>1. PICK f \in Pending(m), d \in Embedding :
           /\ emb' = [emb EXCEPT ![m] = d]
           /\ vector' = [vector EXCEPT ![f] = IF @ = None THEN emb[m].texts[f] ELSE @]
           /\ d.texts = [emb[m].texts EXCEPT ![f] = None]
           /\ d.pc # "insert" => d.texts = NoTexts
           /\ d.entry \in {emb[m].entry, None}
           /\ m \in EmbedWorkers => d.pc # "idle" /\ d.entry = emb[m].entry
    BY <1>4, VectorInserted
  <2>2. e # f /\ vector[e] = None
    BY <1>1, <2>1 DEF Pending
  <2>3. UNCHANGED <<jobs, embedQueue, repair>>
    BY <1>4 DEF InsertVector
  <2>4. Waits(e)
    BY <2>2, <2>3 DEF Exists
  <2>5. ASSUME NEW k \in Embedders, e \in Pending(k) PROVE e \in Pending(k)'
    <3>1. emb[m].texts \in [ExtIds -> Text \cup {None}]
      BY <1>1 DEF Embedding
    <3>2. emb'[k].texts[e] = emb[k].texts[e]
      BY <1>1, <2>1, <2>2, <3>1
    <3> QED
      BY <2>5, <3>2 DEF Pending
  <2> QED
    BY <1>1, <2>3, <2>4, <2>5 DEF Waits, ToWrite
<1>5. ASSUME NEW w \in EmbedWorkers, HandOff(w) PROVE Waits(e)'
  <2>1. /\ UNCHANGED <<jobs, vector, embedQueue, repair>> /\ emb[w].pc = "handoff"
        /\ \A m \in Embedders : m # w => emb'[m] = emb[m]
    BY <1>1, <1>5 DEF HandOff, storeVars
  <2>2. Waits(e)
    BY <2>1 DEF Exists
  <2>3. ASSUME NEW m \in Embedders, e \in Pending(m) PROVE e \in Pending(m)'
    <3>1. m # w
      BY <2>1, <2>3, PendingInserts
    <3> QED
      BY <2>1, <2>3, <3>1 DEF Pending
  <2> QED
    BY <1>1, <2>1, <2>2, <2>3 DEF Waits, ToWrite
<1> QED
  BY <1>2, <1>3, <1>4, <1>5 DEF WorkerStep, BackfillStep, Embedders

\* Without failures, a row without a vector is always on its way to one: with
\* the queue, a request, a repair or an embedder, whatever their interleaving
\* (ingest.service.ts:171-174, 330-334).
THEOREM NothingStranded == SystemSpec => []NoneStranded
<1>1. SystemInit => NothingHeldIdle /\ NoneStranded
  BY DEF SystemInit, StoreInit, SyncInit, NothingHeldIdle, NoneStranded, Unembedded, IdleRequest,
       NoRow, Exists
<1>2. ASSUME SystemInv, NothingHeldIdle, NoneStranded, [SystemNext]_systemVars
      PROVE  NoneStranded'
  <2> SUFFICES ASSUME faults' = 0, NEW e \in ExtIds, Exists(e)', vector'[e] = None
               PROVE  Waits(e)'
    BY DEF NoneStranded, Unembedded, Waits
  <2>1. faults = 0 /\ ~EmbedFault /\ ~SystemCrash
    BY <1>2, NoFailure
  <2>2. (Exists(e) /\ vector[e] = None) => Waits(e)
    BY <1>2, <2>1 DEF NoneStranded, Unembedded, Waits
  <2>3. CASE Alone(Sweep)
    <3>1. PICK S \in SUBSET Stranded : enqueueEmbeddings(S)
      BY <2>3 DEF Alone, Sweep
    <3>2. embedQueue \subseteq embedQueue' /\ UNCHANGED <<jobs, vector, req, repair, emb>>
      BY <2>3, <3>1 DEF Alone, Sweep, syncVars, embedVars, enqueueEmbeddings
    <3> QED
      BY <2>2, <3>2 DEF Waits, Exists, ToWrite, Pending
  <2>4. ASSUME NEW f \in ExtIds, Alone(Age(f)) PROVE Waits(e)'
    BY <2>2, <2>4 DEF Alone, Age, syncVars, storeVars, Waits, Exists, ToWrite, Pending
  <2>5. CASE UNCHANGED systemVars
    BY <2>2, <2>5 DEF systemVars, vars, embedVars, Waits, Exists, ToWrite, Pending
  <2> QED
    BY <1>2, <2>1, <2>2, <2>3, <2>4, <2>5, IngestWaits, RepairWaits, EmbedderWaits
       DEF SystemNext, Alone
<1> QED
  BY SystemInvariance, <1>1, SystemIdleKeepsNothing, <1>2, PTL DEF SystemSpec

-----------------------------------------------------------------------------
\* An entry the worker has begun stays with it until its ids are handed on.
LEMMA EntryHandedOn ==
    ASSUME SystemInv, [SystemNext]_systemVars, faults' = 0,
           NEW w \in EmbedWorkers, emb[w].pc # "idle"
    PROVE  /\ matchQueue \subseteq matchQueue'
           /\ \/ emb'[w].pc # "idle" /\ emb'[w].entry = emb[w].entry
              \/ emb[w].entry.ids \subseteq matchQueue'
<1>1. emb \in [Embedders -> Embedding] /\ w \in Embedders
  BY DEF SystemInv, EmbedTypeOK, Embedders
<1>2. ASSUME NEW v \in EmbedWorkers, NEW n \in embedQueue, TakeEntry(v, n)
      PROVE  emb'[w] = emb[w] /\ matchQueue' = matchQueue
  BY <1>1, <1>2 DEF TakeEntry
<1>3. ASSUME NEW b \in Backfillers, StartBackfill(b)
      PROVE  emb'[w] = emb[w] /\ matchQueue' = matchQueue
  BY <1>1, <1>3, EmbedPipelineAssumption DEF StartBackfill
<1>4. ASSUME NEW m \in Embedders, InsertVector(m)
      PROVE  emb'[w].pc # "idle" /\ emb'[w].entry = emb[w].entry /\ matchQueue' = matchQueue
  <2>1. PICK e \in Pending(m), d \in Embedding :
          /\ emb' = [emb EXCEPT ![m] = d]
          /\ vector' = [vector EXCEPT ![e] = IF @ = None THEN emb[m].texts[e] ELSE @]
          /\ d.texts = [emb[m].texts EXCEPT ![e] = None]
          /\ d.pc # "insert" => d.texts = NoTexts
          /\ d.entry \in {emb[m].entry, None}
          /\ m \in EmbedWorkers => d.pc # "idle" /\ d.entry = emb[m].entry
    BY <1>4, VectorInserted
  <2> QED
    BY <1>1, <1>4, <2>1 DEF InsertVector
<1>5. ASSUME NEW v \in EmbedWorkers, HandOff(v)
      PROVE  /\ matchQueue \subseteq matchQueue'
             /\ \/ emb'[w] = emb[w]
                \/ emb[w].entry.ids \subseteq matchQueue'
  BY <1>1, <1>5 DEF HandOff
<1>6. ASSUME NEW h \in Handlers, Ingest(h) PROVE emb' = emb /\ matchQueue' = matchQueue
  BY <1>6 DEF Ingest, embedVars
<1>7. ASSUME NEW r \in Repairers, RepairStep(r) PROVE emb' = emb /\ matchQueue' = matchQueue
  BY <1>7 DEF RepairStep, RepairRead, RepairClear, RepairWrite, RepairEnqueue
<1>8. CASE Sweep \/ (\E e \in ExtIds : Age(e)) \/ UNCHANGED systemVars
  BY <1>8 DEF Sweep, Age, embedVars, systemVars
<1> QED
  BY <1>2, <1>3, <1>4, <1>5, <1>6, <1>7, <1>8, NoFailure
     DEF SystemNext, Alone, WorkerStep, BackfillStep, Embedders

\* The ids handed to the matcher are never taken back.
LEMMA MatcherKeeps ==
    ASSUME SystemInv, [SystemNext]_systemVars
    PROVE  matchQueue \subseteq matchQueue'
BY DEF SystemNext, Alone, Ingest, RepairStep, RepairRead, RepairClear, RepairWrite, RepairEnqueue,
       WorkerStep, TakeEntry, InsertVector, HandOff, BackfillStep, StartBackfill, Age, Sweep,
       EmbedFault, RepairFails, EmbedFails, SystemCrash, CrashEmbedding, embedVars, systemVars

\* A vector the worker built reaches the incremental matcher, as long as nothing
\* fails and no backfill embeds the row first (embed.processor.ts:8-10).
THEOREM EveryVectorIsMatched == SystemSpec => []EmbeddedReachesMatcher
<1>1. SystemInit => EmbeddedReachesMatcher
  BY DEF SystemInit, StoreInit, EmbeddedReachesMatcher
<1>2. ASSUME SystemInv, EmbeddedReachesMatcher, [SystemNext]_systemVars
      PROVE  EmbeddedReachesMatcher'
  <2> SUFFICES ASSUME faults' = 0, Backfillers = {}, NEW e \in ExtIds, vector'[e] # None
               PROVE  \/ e \in matchQueue'
                      \/ \E w \in EmbedWorkers : emb'[w].pc # "idle" /\ e \in emb'[w].entry.ids
    BY DEF EmbeddedReachesMatcher
  <2>1. faults = 0
    BY <1>2, NoFailure
  <2>2. matchQueue \subseteq matchQueue'
    BY <1>2, MatcherKeeps
  <2>3. \/ e \in matchQueue
        \/ \E w \in EmbedWorkers : emb[w].pc # "idle" /\ e \in emb[w].entry.ids
    <3>1. CASE vector'[e] = vector[e]
      BY <1>2, <2>1, <3>1 DEF EmbeddedReachesMatcher
    <3>2. ASSUME NEW m \in Embedders, e \in Pending(m)
          PROVE  \E w \in EmbedWorkers : emb[w].pc # "idle" /\ e \in emb[w].entry.ids
      <4>1. m \in EmbedWorkers
        BY DEF Embedders
      <4>2. emb[m].pc = "insert"
        BY <1>2, <3>2, PendingInserts
      <4> QED
        BY <1>2, <3>2, <4>1, <4>2 DEF SystemInv, EmbedCoherent, HoldsTexts
    <3> QED
      BY <1>2, <3>1, <3>2, VectorAppears
  <2>4. ASSUME NEW w \in EmbedWorkers, emb[w].pc # "idle", e \in emb[w].entry.ids
        PROVE  e \in matchQueue' \/ (emb'[w].pc # "idle" /\ e \in emb'[w].entry.ids)
    BY <1>2, <2>4, EntryHandedOn
  <2> QED
    BY <2>2, <2>3, <2>4
<1> QED
  BY SystemInvariance, <1>1, <1>2, PTL DEF SystemSpec

=============================================================================
