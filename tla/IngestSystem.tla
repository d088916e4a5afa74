---------------------------- MODULE IngestSystem ----------------------------
(***************************************************************************)
(* Crawls and the embedding pipeline together, over the tables and the     *)
(* queue of JobStore.  All of it but the crawlers themselves runs in the   *)
(* API process, so a crash ends every request and every embedder at once.  *)
(***************************************************************************)
EXTENDS CrawlSync, EmbedPipeline

\* History: the rows that met one of the races of RacedNow.
VARIABLE raced

systemVars == <<vars, embedVars, raced>>

-----------------------------------------------------------------------------
(***************************************************************************)
(* The steps after which a vector may no longer follow its row:            *)
(*  - the text of a row changes while an embedder holds the old one;       *)
(*  - its title changes and its body does not;                             *)
(*  - a repair writes a body after a vector was rebuilt from the old one;  *)
(*  - an upsert overwrites a body other than the one it read before;       *)
(*  - a failure keeps a request from clearing the vectors it made stale.   *)
(***************************************************************************)
RacedNow ==
    {e \in ExtIds :
        \/ /\ TextOf(e)' # TextOf(e)
           /\ \E m \in Embedders : emb[m].texts[e] # None
        \/ /\ jobs'[e].title # jobs[e].title
           /\ jobs'[e].body = jobs[e].body
        \/ \E r \in Repairers :
              /\ repair[r].pc = "write" /\ repair'[r].pc = "enqueue"
              /\ e \in ToWrite(r) /\ vector[e] # None
        \/ \E h \in Handlers :
              /\ req[h].pc = "upsert" /\ req'[h].pc \in {"read", "clear"}
              /\ e \in ExtsOf(req[h].chunk)
              /\ req[h].before[e] # jobs[e].body
        \/ \E h \in Handlers :
              e \in req[h].stale \ req'[h].stale /\ vector'[e] # None}

TrackRaces == raced' = raced \cup RacedNow

Ingest(h) ==
    /\ Start(h) \/ HandlerStep(h) \/ HandlerFault(h)
    /\ UNCHANGED embedVars
    /\ TrackRaces

\* A step of the embedding side, no request moving.
Alone(Step) == Step /\ UNCHANGED syncVars /\ TrackRaces

EmbedFault ==
    /\ faults < MaxFaults
    /\ faults' = faults + 1
    /\ \/ \E r \in Repairers : RepairFails(r)
       \/ \E m \in Embedders : EmbedFails(m)
    /\ UNCHANGED <<req, run>>
    /\ TrackRaces

SystemCrash == CrashRequests /\ CrashEmbedding /\ TrackRaces

SystemInit == StoreInit /\ SyncInit /\ EmbedInit /\ raced = {}

SystemNext ==
    \/ \E h \in Handlers : Ingest(h)
    \/ \E r \in Repairers : Alone(RepairStep(r))
    \/ \E w \in EmbedWorkers : Alone(WorkerStep(w))
    \/ \E b \in Backfillers : Alone(BackfillStep(b))
    \/ \E e \in ExtIds : Alone(Age(e))
    \/ Alone(Sweep)
    \/ EmbedFault
    \/ SystemCrash

SystemSpec == SystemInit /\ [][SystemNext]_systemVars

(***************************************************************************)
(* Fairness.  The embed worker keeps running and BullMQ serves its entries *)
(* in order, so a waiting entry is eventually taken; the sweep is on a     *)
(* 30-minute schedule and half an hour eventually passes.  Nothing obliges *)
(* a crawl, a repair or a backfill to start or to go on.                   *)
(***************************************************************************)
Fairness ==
    /\ \A w \in EmbedWorkers :
          /\ \A n \in Entry : SF_systemVars(Alone(TakeEntry(w, n)))
          /\ WF_systemVars(Alone(InsertVector(w) \/ HandOff(w)))
    /\ WF_systemVars(Alone(Sweep))
    /\ \A e \in ExtIds : WF_systemVars(Alone(Age(e)))

FairSpec == SystemSpec /\ Fairness

-----------------------------------------------------------------------------
SystemTypeOK == TypeOK /\ EmbedTypeOK /\ raced \in SUBSET ExtIds

\* Without failures, a row without a vector is always on its way to one: its id
\* waits in embed-jobs, is held by a request or a repair that will enqueue it, or
\* its text is with an embedder (ingest.service.ts:171-174, 330-334).
NoneStranded ==
    faults = 0 =>
        \A e \in Unembedded :
            \/ \E n \in embedQueue : e \in n.ids
            \/ \E h \in Handlers : e \in req[h].fresh
            \/ \E r \in Repairers : repair[r].pc \in {"write", "enqueue"} /\ e \in ToWrite(r)
            \/ \E m \in Embedders : e \in Pending(m)

\* A vector that no longer matches its row, unless a request is about to clear
\* it.
Stale(e) ==
    /\ Exists(e)
    /\ vector[e] \notin {None, TextOf(e)}
    /\ \A h \in Handlers : e \notin req[h].stale

\* THE EMBEDDING INVARIANT (ingest.service.ts:595-611), as far as it holds: only
\* the races of RacedNow leave a vector behind that does not match its row.
StaleOnlyAfterRace == \A e \in ExtIds : Stale(e) => e \in raced

\* Every vector the embed worker built reaches the incremental matcher
\* (embed.processor.ts:8-10), as long as nothing fails and no backfill embeds
\* the row first.
EmbeddedReachesMatcher ==
    (faults = 0 /\ Backfillers = {}) =>
        \A e \in ExtIds : vector[e] # None =>
            \/ e \in matchQueue
            \/ \E w \in EmbedWorkers : emb[w].pc # "idle" /\ e \in emb[w].entry.ids

\* Every ACTIVE job without a vector is eventually embedded, gone, or observable
\* in a failed entry: never silently stranded (ingest.service.ts:173-174), in
\* spite of errors, crashes and lost enqueues.
NeverSilentlyStranded ==
    \A e \in ExtIds :
        (e \in Active /\ vector[e] = None) ~>
            (e \notin Active \/ vector[e] # None \/ \E n \in dead : e \in n.ids)
=============================================================================
