--------------------------- MODULE EmbedPipeline ---------------------------
(***************************************************************************)
(* How a job gets, loses and regains its embedding, beside the crawls:     *)
(* IngestService.repairDescriptions and reconcileEmbeddings (the sweeper), *)
(* EmbedProcessor.process and MatchingService.embedJobsByIds,              *)
(* backfillJobEmbeddings and embedJobs.                                    *)
(*                                                                         *)
(* The text of a row is read in one statement, sent to the provider, and   *)
(* its vector inserted in a later one (ON CONFLICT DO NOTHING): the reader *)
(* keeps the text in the meantime, as texts[e].                            *)
(***************************************************************************)
EXTENDS JobStore

CONSTANTS
    Repairers,     \* concurrent repairDescriptions requests
    EmbedWorkers,  \* workers of embed-jobs (one, BullMQ's default)
    Backfillers,   \* generateForUser calls that backfill embeddings first
    SweepLimit     \* EMBED_SWEEP_LIMIT (2000 in the code)

Embedders == EmbedWorkers \cup Backfillers

ASSUME EmbedPipelineAssumption ==
    /\ EmbedWorkers \cap Backfillers = {}
    /\ SweepLimit \in Nat \ {0}

VARIABLES
    repair,      \* repair[r]: the local state of a repair request
    emb,         \* emb[m]: the local state of an embedder
    dead,        \* entries that failed for good, kept by removeOnFail: 1000
    aged,        \* rows first seen more than EMBED_GRACE_MS ago
    matchQueue   \* ids handed to match-new-jobs so far

embedVars == <<repair, emb, dead, aged, matchQueue>>

-----------------------------------------------------------------------------
Repair == [pc : {"idle", "clear", "write", "enqueue"},
           new : [ExtIds -> Bodies \cup {None}]]   \* toWrite: id to body

NoBodies == [e \in ExtIds |-> None]
IdleRepair == [pc |-> "idle", new |-> NoBodies]
ToWrite(r) == {e \in ExtIds : repair[r].new[e] # None}

Embedding == [pc    : {"idle", "insert", "handoff"},
              entry : Entry \cup {None},             \* the BullMQ job, if any
              texts : [ExtIds -> Text \cup {None}]]  \* read, not yet inserted

NoTexts == [e \in ExtIds |-> None]
IdleEmbedding == [pc |-> "idle", entry |-> None, texts |-> NoTexts]
Pending(m) == {e \in ExtIds : emb[m].texts[e] # None}

Unembedded == {e \in ExtIds : Exists(e) /\ vector[e] = None}
Active == {e \in ExtIds : jobs[e].status = "ACTIVE"}

-----------------------------------------------------------------------------
\* MUTANT of RepairRead: rows are matched without their source.
RepairReadAnySource(r, s, U) ==
    /\ repair[r].pc = "idle"
    /\ LET new == [e \in ExtIds |-> IF U[e] # jobs[e].body THEN U[e] ELSE None]
       IN  /\ new # NoBodies
           /\ repair' = [repair EXCEPT ![r] = [pc |-> "clear", new |-> new]]
    /\ UNCHANGED <<storeVars, emb, dead, aged, matchQueue>>

(***************************************************************************)
(* repairDescriptions(source, updates), U[e] being the new body of e.  The *)
(* rows are matched on (source, externalId) whatever their status.         *)
(***************************************************************************)
RepairRead(r, s, U) ==
    /\ repair[r].pc = "idle"
    /\ LET new == [e \in ExtIds |->
                     IF jobs[e].source = s /\ U[e] # jobs[e].body
                     THEN U[e] ELSE None]
       IN  /\ new # NoBodies
           /\ repair' = [repair EXCEPT ![r] = [pc |-> "clear", new |-> new]]
    /\ UNCHANGED <<storeVars, emb, dead, aged, matchQueue>>

\* The vectors are deleted BEFORE the bodies are written.
RepairClear(r) ==
    /\ repair[r].pc = "clear"
    /\ ClearVectors(ToWrite(r))
    /\ repair' = [repair EXCEPT ![r].pc = "write"]
    /\ UNCHANGED <<jobs, embedQueue, emb, dead, aged, matchQueue>>

RepairWrite(r) ==
    /\ repair[r].pc = "write"
    /\ jobs' = [e \in ExtIds |-> IF e \in ToWrite(r)
                                 THEN [jobs[e] EXCEPT !.body = repair[r].new[e]]
                                 ELSE jobs[e]]
    /\ repair' = [repair EXCEPT ![r].pc = "enqueue"]
    /\ UNCHANGED <<vector, embedQueue, emb, dead, aged, matchQueue>>

RepairEnqueue(r) ==
    /\ repair[r].pc = "enqueue"
    /\ enqueueEmbeddings(ToWrite(r))
    /\ repair' = [repair EXCEPT ![r] = IdleRepair]
    /\ UNCHANGED <<jobs, vector, emb, dead, aged, matchQueue>>

\* A statement throws: nothing catches it and the ids are lost.
RepairFails(r) ==
    /\ repair[r].pc # "idle"
    /\ repair' = [repair EXCEPT ![r] = IdleRepair]
    /\ UNCHANGED <<storeVars, emb, dead, aged, matchQueue>>

-----------------------------------------------------------------------------
(***************************************************************************)
(* The embed worker takes an entry and reads the rows among its ids that   *)
(* have no vector; without any it completes at once and hands nothing on.  *)
(***************************************************************************)
TakeEntry(w, n) ==
    /\ emb[w].pc = "idle"
    /\ n \in embedQueue
    /\ embedQueue' = embedQueue \ {n}
    /\ LET missing == n.ids \cap Unembedded
       IN  emb' = IF missing = {} THEN emb
                  ELSE [emb EXCEPT ![w] =
                         [pc |-> "insert", entry |-> n,
                          texts |-> [e \in ExtIds |->
                             IF e \in missing THEN TextOf(e) ELSE None]]]
    /\ UNCHANGED <<jobs, vector, repair, dead, aged, matchQueue>>

\* generateForUser embeds every ACTIVE row without a vector first.
StartBackfill(b) ==
    /\ emb[b].pc = "idle"
    /\ Unembedded \cap Active # {}
    /\ emb' = [emb EXCEPT ![b] =
                 [pc |-> "insert", entry |-> None,
                  texts |-> [e \in ExtIds |->
                     IF e \in Unembedded \cap Active THEN TextOf(e) ELSE None]]]
    /\ UNCHANGED <<storeVars, repair, dead, aged, matchQueue>>

\* MUTANT of InsertVector: the worker ends with its last vector, like a backfill.
InsertVectorAndEnd(m) ==
    /\ emb[m].pc = "insert"
    /\ \E e \in Pending(m) :
          /\ vector' = [vector EXCEPT ![e] = IF @ = None THEN emb[m].texts[e] ELSE @]
          /\ emb' = [emb EXCEPT ![m] =
               IF Pending(m) # {e} THEN [@ EXCEPT !.texts[e] = None] ELSE IdleEmbedding]
    /\ UNCHANGED <<jobs, embedQueue, repair, dead, aged, matchQueue>>

\* INSERT INTO job_embeddings ... ON CONFLICT (jobId) DO NOTHING, row by row.
InsertVector(m) ==
    /\ emb[m].pc = "insert"
    /\ \E e \in Pending(m) :
          /\ vector' = [vector EXCEPT ![e] = IF @ = None THEN emb[m].texts[e] ELSE @]
          /\ emb' = [emb EXCEPT ![m] =
               IF Pending(m) # {e} THEN [@ EXCEPT !.texts[e] = None]
               ELSE IF m \in EmbedWorkers
                    THEN [pc |-> "handoff", entry |-> @.entry, texts |-> NoTexts]
                    ELSE IdleEmbedding]
    /\ UNCHANGED <<jobs, embedQueue, repair, dead, aged, matchQueue>>

\* matchQueue.add with all the ids of the entry, then the entry completes.
HandOff(w) ==
    /\ emb[w].pc = "handoff"
    /\ matchQueue' = matchQueue \cup emb[w].entry.ids
    /\ emb' = [emb EXCEPT ![w] = IdleEmbedding]
    /\ UNCHANGED <<storeVars, repair, dead, aged>>

\* The provider, a statement or matchQueue.add throws.  BullMQ runs the entry
\* again until it has no attempt left, and then keeps it among the failed.
EmbedFails(m) ==
    /\ emb[m].pc # "idle"
    /\ LET n == emb[m].entry
       IN  IF n = None
           THEN UNCHANGED <<embedQueue, dead>>
           ELSE LET again == [n EXCEPT !.attempts = @ + 1]
                IN  IF again.attempts < EmbedAttempts
                    THEN embedQueue' = embedQueue \cup {again} /\ UNCHANGED dead
                    ELSE dead' = dead \cup {again} /\ UNCHANGED embedQueue
    /\ emb' = [emb EXCEPT ![m] = IdleEmbedding]
    /\ UNCHANGED <<jobs, vector, repair, aged, matchQueue>>

-----------------------------------------------------------------------------
\* Half an hour passes since the row was first seen.
Age(e) ==
    /\ Exists(e) /\ e \notin aged
    /\ aged' = aged \cup {e}
    /\ UNCHANGED <<storeVars, repair, emb, dead, matchQueue>>

\* MUTANT of Stranded: a job that was matched once is taken to be embedded.
StrandedNotMatched == (aged \cap Unembedded \cap Active) \ matchQueue

Stranded == aged \cap Unembedded \cap Active

\* reconcileEmbeddings, newest first up to the limit; which rows are newest is
\* left open.
Sweep ==
    /\ \E S \in SUBSET Stranded :
          /\ S # {}
          /\ Cardinality(S) <= SweepLimit
          /\ S # Stranded => Cardinality(S) = SweepLimit
          /\ enqueueEmbeddings(S)
    /\ UNCHANGED <<jobs, vector, embedVars>>

\* The process dies.  BullMQ hands an entry whose worker vanished to the next
\* one, as the same attempt.
CrashEmbedding ==
    /\ emb' = [m \in Embedders |-> IdleEmbedding]
    /\ embedQueue' = embedQueue \cup ({emb[m].entry : m \in Embedders} \ {None})
    /\ repair' = [r \in Repairers |-> IdleRepair]
    /\ UNCHANGED <<jobs, vector, dead, aged, matchQueue>>

-----------------------------------------------------------------------------
EmbedTypeOK ==
    /\ repair \in [Repairers -> Repair]
    /\ emb \in [Embedders -> Embedding]
    /\ dead \in SUBSET Entry
    /\ aged \in SUBSET ExtIds
    /\ matchQueue \in SUBSET ExtIds

EmbedInit ==
    /\ repair = [r \in Repairers |-> IdleRepair]
    /\ emb = [m \in Embedders |-> IdleEmbedding]
    /\ dead = {}
    /\ aged = {}
    /\ matchQueue = {}

Updates == [ExtIds -> Bodies \cup {None}]

RepairStep(r) ==
    \/ \E s \in Sources, U \in Updates : RepairRead(r, s, U)
    \/ RepairClear(r) \/ RepairWrite(r) \/ RepairEnqueue(r)

WorkerStep(w) ==
    \/ \E n \in embedQueue : TakeEntry(w, n)
    \/ InsertVector(w) \/ HandOff(w)

BackfillStep(b) == StartBackfill(b) \/ InsertVector(b)
=============================================================================
