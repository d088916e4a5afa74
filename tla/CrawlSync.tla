----------------------------- MODULE CrawlSync -----------------------------
(***************************************************************************)
(* IngestService.syncCompanyJobs and IngestService.ingestBoardJobs          *)
(* (apps/api/src/modules/internal/ingest.service.ts) for one company, one  *)
(* action per database statement: nothing in the code wraps them in a      *)
(* transaction, so the statements of two requests interleave freely.       *)
(*                                                                         *)
(* A request handler h runs batchUpsert (owners, refresh, then per chunk   *)
(* read, upsert, clear) and then, for a company sync, retires what the     *)
(* crawl no longer lists, marks the CrawlRun and settles the schedule; a   *)
(* board ingest only marks the run.  Both enqueue embeddings last.         *)
(***************************************************************************)
EXTENDS JobStore

CONSTANTS
    Handlers,     \* requests the API serves at the same time
    UpsertChunk,  \* rows per INSERT ... ON CONFLICT (500 in the code)
    MaxBatch,     \* bound: postings a crawl returns for the company
    MaxFaults     \* bound: statements that fail plus process crashes

ASSUME CrawlSyncAssumption ==
    /\ UpsertChunk \in Nat \ {0}
    /\ MaxBatch \in Nat
    /\ MaxFaults \in Nat
    /\ None \notin Handlers

VARIABLES
    req,    \* req[h]: the local state of the request h serves
    run,    \* run[h]: the status of the CrawlRun h created last
    faults  \* errors and crashes so far

syncVars == <<req, run, faults>>
vars == <<jobs, vector, embedQueue, req, run, faults>>

-----------------------------------------------------------------------------
Posting == [ext : ExtIds, title : Titles, body : Bodies]

Fp(p) == jobFingerprint[p.title]

ExtsOf(S) == {p.ext : p \in S}

Batches == {B \in SUBSET Posting : Cardinality(B) <= MaxBatch}

Request == [pc       : {"idle", "owners", "refresh", "read", "upsert", "clear",
                        "finish", "settle", "enqueue"},
            kind     : {"none", "sync", "board"},
            source   : Sources \cup {None},
            batch    : SUBSET Posting,      \* what the crawl returned
            complete : BOOLEAN,             \* boardComplete
            todo     : SUBSET Posting,      \* toUpsert, chunks not yet done
            refresh  : SUBSET ExtIds,       \* refreshIds
            chunk    : SUBSET Posting,
            before   : [ExtIds -> Bodies \cup {None}],  \* previousBody
            stale    : SUBSET ExtIds,       \* restaleIds
            fresh    : SUBSET ExtIds,       \* newJobIds
            failed   : BOOLEAN,             \* board ingest: failures > 0
            orphan   : BOOLEAN]             \* its worker no longer waits for it

NothingRead == [e \in ExtIds |-> None]

IdleRequest ==
    [pc |-> "idle", kind |-> "none", source |-> None, batch |-> {},
     complete |-> TRUE, todo |-> {}, refresh |-> {}, chunk |-> {},
     before |-> NothingRead, stale |-> {}, fresh |-> {}, failed |-> FALSE, orphan |-> FALSE]

-----------------------------------------------------------------------------
(***************************************************************************)
(* Operators named as the bug they hold (WithoutRepeats, OwnersIfActive,   *)
(* ...) are what a plausible slip would make of the definition after them. *)
(***************************************************************************)

(***************************************************************************)
(* Collapsing a batch.  The code keeps the first posting per externalId,   *)
(* then the first per fingerprint.  The order of the list is the crawler's *)
(* choice, so any posting may be the first one.                            *)
(***************************************************************************)
FirstPerExt(B) ==
    {D \in SUBSET B : /\ \A p \in B : \E q \in D : q.ext = p.ext
                      /\ \A p, q \in D : p.ext = q.ext => p = q}

FirstPerFingerprint(D) ==
    {K \in SUBSET D : /\ \A p \in D : \E q \in K : Fp(q) = Fp(p)
                      /\ \A p, q \in K : Fp(p) = Fp(q) => p = q}

\* MUTANT of Collapsed: a repeated posting is dropped, not kept once.
WithoutRepeats(B) ==
    {{p \in B : \A q \in B : (q.ext = p.ext \/ Fp(q) = Fp(p)) => q = p}}

Collapsed(B) == UNION {FirstPerFingerprint(D) : D \in FirstPerExt(B)}

\* MUTANT of Owners: retired rows own nothing.
OwnersIfActive(K) ==
    {owner \in [Fingerprints -> ExtIds \cup {None}] :
        \A f \in Fingerprints :
            LET rows == {e \in ExtIds : jobs[e].status = "ACTIVE" /\ FingerprintOf(e) = f}
            IN  IF f \in {Fp(p) : p \in K} /\ rows # {}
                THEN owner[f] \in rows
                ELSE owner[f] = None}

\* ownerByFp: new Map(existing.map(...)) keeps the LAST row the query returned
\* for a fingerprint, in an order the query does not fix.
Owners(K) ==
    {owner \in [Fingerprints -> ExtIds \cup {None}] :
        \A f \in Fingerprints :
            LET rows == {e \in ExtIds : Exists(e) /\ FingerprintOf(e) = f}
            IN  IF f \in {Fp(p) : p \in K} /\ rows # {}
                THEN owner[f] \in rows
                ELSE owner[f] = None}

\* MUTANT of RefreshIds: the entry's own row is refreshed, not the owner's.
RefreshIdsOfEntry(owner, duplicates) == {p.ext : p \in duplicates}

\* refreshIds: the canonical rows of the entries that are not written.
RefreshIds(owner, duplicates) == {owner[Fp(p)] : p \in duplicates}

\* MUTANT of Written: the conflict clause forgets to set the status.
WrittenKeepingStatus(s, p) ==
    [status |-> IF Exists(p.ext) THEN jobs[p.ext].status ELSE "ACTIVE",
     source |-> s, title |-> p.title, body |-> p.body]

\* The row an upsert leaves for p; the code writes ACTIVE whatever it was.
Written(s, p) ==
    [status |-> "ACTIVE", source |-> s, title |-> p.title, body |-> p.body]

\* xmax = 0: the rows of the chunk that the upsert creates.
Inserted(r) == {e \in ExtsOf(r.chunk) : ~Exists(e)}

\* MUTANT of Restale: a changed body is not noticed, as when only the inserted
\* rows were enqueued.
RestaleNone(r) == {}

\* restaleIds: rows that existed, had a body before, and have another one now.
Restale(r) ==
    {p.ext : p \in {q \in r.chunk : /\ q.ext \notin Inserted(r)
                                    /\ r.before[q.ext] \notin {None, q.body}}}

\* MUTANT of MayRetire: an empty answer retires the whole board.
MayRetireIfComplete(r) == r.complete

\* decideReconciliation: an empty or a partial crawl proves nothing.
MayRetire(r) == r.batch # {} /\ r.complete

\* MUTANT of Retires: the rows of other sources are retired too.
RetiresAnySource(r, e) ==
    /\ MayRetire(r)
    /\ jobs[e].status = "ACTIVE"
    /\ e \notin ExtsOf(r.batch)

\* The rows the retire statement of r selects.
Retires(r, e) ==
    /\ MayRetire(r)
    /\ jobs[e].source = r.source
    /\ jobs[e].status = "ACTIVE"
    /\ e \notin ExtsOf(r.batch)

-----------------------------------------------------------------------------
(***************************************************************************)
(* The requests.  refresh-all fans out with jobId crawl-<companyId>, so a  *)
(* company is synced by one crawl job at a time, and a second request can  *)
(* only come from its retry, after the worker abandoned the first; board   *)
(* ingests (boards, career pages, replays, renders) may run beside both.   *)
(***************************************************************************)
\* MUTANT of NoSyncAwaited: a crawl job is queued while one is at work.
AnyTime == TRUE

\* No worker waits for a sync of the company: jobId crawl-<companyId>.
NoSyncAwaited == \A g \in Handlers : req[g].kind = "sync" => req[g].orphan

StartSync(h, s, B, complete) ==
    /\ req[h].pc = "idle"
    /\ NoSyncAwaited
    /\ req' = [req EXCEPT ![h] = [IdleRequest EXCEPT !.pc = "owners",
                 !.kind = "sync", !.source = s, !.batch = B,
                 !.complete = complete]]
    /\ run' = [run EXCEPT ![h] = "RUNNING"]
    /\ UNCHANGED <<storeVars, faults>>

StartBoard(h, s, B) ==
    /\ req[h].pc = "idle"
    /\ B # {}
    /\ req' = [req EXCEPT ![h] = [IdleRequest EXCEPT !.pc = "owners",
                 !.kind = "board", !.source = s, !.batch = B]]
    /\ run' = [run EXCEPT ![h] = "RUNNING"]
    /\ UNCHANGED <<storeVars, faults>>

\* A posting whose fingerprint another row owns is not written: its owner will
\* be refreshed instead.
FindOwners(h) ==
    /\ req[h].pc = "owners"
    /\ \E K \in Collapsed(req[h].batch) : \E owner \in Owners(K) :
          LET duplicates == {p \in K : owner[Fp(p)] \notin {None, p.ext}}
          IN  req' = [req EXCEPT ![h].pc = "refresh",
                        ![h].todo = K \ duplicates,
                        ![h].refresh = RefreshIds(owner, duplicates)]
    /\ UNCHANGED <<storeVars, run, faults>>

RefreshOwners(h) ==
    /\ req[h].pc = "refresh"
    /\ jobs' = [e \in ExtIds |-> IF e \in req[h].refresh
                                 THEN [jobs[e] EXCEPT !.status = "ACTIVE"]
                                 ELSE jobs[e]]
    /\ req' = [req EXCEPT ![h].pc = "read"]
    /\ UNCHANGED <<vector, embedQueue, run, faults>>

\* The next chunk, and the bodies its rows have before it is written.
ReadBodies(h) ==
    /\ req[h].pc = "read"
    /\ \E C \in SUBSET req[h].todo :
          /\ C # {}
          /\ Cardinality(C) <= UpsertChunk
          /\ C # req[h].todo => Cardinality(C) = UpsertChunk
          /\ req' = [req EXCEPT ![h].pc = "upsert", ![h].chunk = C,
                       ![h].before = [e \in ExtIds |->
                            IF e \in ExtsOf(C) THEN jobs[e].body ELSE None]]
    /\ UNCHANGED <<storeVars, run, faults>>

\* INSERT ... ON CONFLICT (companyId, externalId) DO UPDATE ... RETURNING
UpsertRows(h) ==
    /\ req[h].pc = "upsert"
    /\ LET C == req[h].chunk
           restale == Restale(req[h])
       IN  /\ jobs' = [e \in ExtIds |->
                         IF e \in ExtsOf(C)
                         THEN Written(req[h].source, CHOOSE p \in C : p.ext = e)
                         ELSE jobs[e]]
           /\ req' = [req EXCEPT ![h].pc = IF restale = {} THEN "read" ELSE "clear",
                        ![h].todo = @ \ C, ![h].chunk = {},
                        ![h].before = NothingRead, ![h].stale = restale,
                        ![h].fresh = @ \cup Inserted(req[h])]
    /\ UNCHANGED <<vector, embedQueue, run, faults>>

\* MUTANT of ClearStale: the cleared rows are not enqueued.
ClearStaleSilently(h) ==
    /\ req[h].pc = "clear"
    /\ ClearVectors(req[h].stale)
    /\ req' = [req EXCEPT ![h].pc = "read", ![h].stale = {}]
    /\ UNCHANGED <<jobs, embedQueue, run, faults>>

ClearStale(h) ==
    /\ req[h].pc = "clear"
    /\ ClearVectors(req[h].stale)
    /\ req' = [req EXCEPT ![h].pc = "read", ![h].stale = {},
                 ![h].fresh = @ \cup req[h].stale]
    /\ UNCHANGED <<jobs, embedQueue, run, faults>>

Retire(h) ==
    /\ req[h].pc = "read" /\ req[h].todo = {} /\ req[h].kind = "sync"
    /\ jobs' = [e \in ExtIds |->
                  IF Retires(req[h], e)
                  THEN [jobs[e] EXCEPT !.status = "REMOVED"]
                  ELSE jobs[e]]
    /\ req' = [req EXCEPT ![h].pc = "finish"]
    /\ UNCHANGED <<vector, embedQueue, run, faults>>

FinishSync(h) ==
    /\ req[h].pc = "finish"
    /\ run' = [run EXCEPT ![h] = "SUCCEEDED"]
    /\ req' = [req EXCEPT ![h].pc = "settle"]
    /\ UNCHANGED <<storeVars, faults>>

\* applyAdaptiveSchedule and updateConfidenceAfterCrawl write only the company.
Settle(h) ==
    /\ req[h].pc = "settle"
    /\ req' = [req EXCEPT ![h].pc = "enqueue"]
    /\ UNCHANGED <<storeVars, run, faults>>

FinishBoard(h) ==
    /\ req[h].pc = "read" /\ req[h].todo = {} /\ req[h].kind = "board"
    /\ run' = [run EXCEPT ![h] = IF req[h].failed THEN "PARTIAL" ELSE "SUCCEEDED"]
    /\ req' = [req EXCEPT ![h].pc = "enqueue"]
    /\ UNCHANGED <<storeVars, faults>>

Enqueue(h) ==
    /\ req[h].pc = "enqueue"
    /\ enqueueEmbeddings(req[h].fresh)
    /\ req' = [req EXCEPT ![h] = IdleRequest]
    /\ UNCHANGED <<jobs, vector, run, faults>>

-----------------------------------------------------------------------------
(***************************************************************************)
(* Failures.  A statement of a sync that throws reaches the catch clause,  *)
(* whatever was already written; the ids collected so far are dropped, and *)
(* the run is marked FAILED unless the database refuses that as well.  A   *)
(* statement of a board ingest that throws inside batchUpsert skips the    *)
(* company and loses its ids; one that throws later ends the request.  A   *)
(* crash of the API drops every request and leaves their runs as they are. *)
(* A worker that dies or times out abandons a request that goes on.        *)
(***************************************************************************)
SyncFails(h) ==
    /\ faults < MaxFaults
    /\ req[h].pc # "idle" /\ req[h].kind = "sync"
    /\ \E status \in {"FAILED", run[h]} : run' = [run EXCEPT ![h] = status]
    /\ req' = [req EXCEPT ![h] = IdleRequest]
    /\ faults' = faults + 1
    /\ UNCHANGED storeVars

BoardCompanyFails(h) ==
    /\ faults < MaxFaults
    /\ req[h].kind = "board"
    /\ \/ req[h].pc \in {"owners", "refresh", "upsert", "clear"}
       \/ req[h].pc = "read" /\ req[h].todo # {}
    /\ req' = [req EXCEPT ![h] = [IdleRequest EXCEPT !.pc = "read", !.kind = "board",
                 !.source = req[h].source, !.failed = TRUE]]
    /\ faults' = faults + 1
    /\ UNCHANGED <<storeVars, run>>

BoardFails(h) ==
    /\ faults < MaxFaults
    /\ req[h].kind = "board"
    /\ \/ req[h].pc = "enqueue"
       \/ req[h].pc = "read" /\ req[h].todo = {}
    /\ req' = [req EXCEPT ![h] = IdleRequest]
    /\ faults' = faults + 1
    /\ UNCHANGED <<storeVars, run>>

WorkerAbandons(h) ==
    /\ faults < MaxFaults
    /\ req[h].kind = "sync" /\ ~req[h].orphan
    /\ req' = [req EXCEPT ![h].orphan = TRUE]
    /\ faults' = faults + 1
    /\ UNCHANGED <<storeVars, run>>

CrashRequests ==
    /\ faults < MaxFaults
    /\ req' = [h \in Handlers |-> IdleRequest]
    /\ faults' = faults + 1
    /\ UNCHANGED run

Crash == CrashRequests /\ UNCHANGED storeVars

-----------------------------------------------------------------------------
SyncInit ==
    /\ req = [h \in Handlers |-> IdleRequest]
    /\ run = [h \in Handlers |-> "NONE"]
    /\ faults = 0

HandlerStep(h) ==
    \/ FindOwners(h) \/ RefreshOwners(h) \/ ReadBodies(h) \/ UpsertRows(h)
    \/ ClearStale(h) \/ Retire(h) \/ FinishSync(h) \/ Settle(h)
    \/ FinishBoard(h) \/ Enqueue(h)

Start(h) ==
    \E B \in Batches :
        \/ \E s \in AtsSources, complete \in BOOLEAN : StartSync(h, s, B, complete)
        \/ \E s \in Sources : StartBoard(h, s, B)

HandlerFault(h) ==
    SyncFails(h) \/ BoardCompanyFails(h) \/ BoardFails(h) \/ WorkerAbandons(h)

Init == StoreInit /\ SyncInit

Next ==
    \/ \E h \in Handlers : Start(h) \/ HandlerStep(h) \/ HandlerFault(h)
    \/ Crash

Spec == Init /\ [][Next]_vars
-----------------------------------------------------------------------------
TypeOK ==
    /\ StoreTypeOK
    /\ req \in [Handlers -> Request]
    /\ run \in [Handlers -> {"NONE", "RUNNING", "SUCCEEDED", "FAILED", "PARTIAL"}]
    /\ faults \in 0 .. MaxFaults

\* Rows whose latest listing came from an aggregator are never retired: whatever
\* interleaving, error or crash, a REMOVED row was last written from a source
\* that company syncs crawl (crawl-reconciliation.ts:9-10, the 18 of 31
\* opportunities that were destroyed).  It protects no row that a board ingest
\* put in under such a source: a sync that does not list it retires it.
RemovedOnlyByOwnSource ==
    \A e \in ExtIds : jobs[e].status = "REMOVED" => jobs[e].source \in AtsSources

\* While a worker waits for a sync, no posting that the sync lists is withdrawn,
\* whatever other requests are at work, except by a sync that an earlier worker
\* abandoned and that retires with the seenIds of its older crawl
\* (ingest.service.ts:98-106, api-client.ts:171).  A board ingest has no such
\* protection: what it lists may be withdrawn while it is still at work.
AwaitedListingsStay ==
    [][\A e \in ExtIds, g \in Handlers :
          (/\ jobs[e].status = "ACTIVE" /\ jobs'[e].status = "REMOVED"
           /\ req[g].kind = "sync" /\ ~req[g].orphan
           /\ e \in ExtsOf(req[g].batch)) =>
             \E h \in Handlers :
                req[h].orphan /\ req[h].pc = "read" /\ req'[h].pc = "finish"]_vars

\* Every request (and, in IngestSystem, every repair), statement by statement,
\* interleaved and with its failures, does to the rows what the atomic steps of
\* JobHistory allow and nothing else: no row is deleted, and only a sync of the
\* row's own source withdraws one.
History == INSTANCE JobHistory WITH
               jobs <- jobs, ExtIds <- ExtIds, Titles <- Titles, Bodies <- Bodies,
               Sources <- Sources, AtsSources <- AtsSources, None <- None

ImplementsJobHistory == History!Spec

\* The same opening never has two rows, however the sources word, order, repeat
\* or renumber it (job-fingerprint.ts:4-8).  True when requests do not overlap.
OneRowPerOpening ==
    \A d, e \in ExtIds :
        (Exists(d) /\ Exists(e) /\ FingerprintOf(d) = FingerprintOf(e)) => d = e

\* What a request leaves behind when no posting of its crawl was suppressed as a
\* duplicate of an older row: for each externalId it listed, an opening it listed
\* under that id has a row on the board; and a sync that may retire leaves no
\* other row of its source there.  Collapsing twice, chunking and retiring lose
\* nothing between them.  True when requests do not overlap.
BoardShowsTheCrawl ==
    \A h \in Handlers :
        (req[h].pc \in {"settle", "enqueue"} /\ req[h].refresh = {}) =>
            LET B == req[h].batch
                shown == {e \in ExtIds : jobs[e].status = "ACTIVE"
                                         /\ jobs[e].source = req[h].source}
            IN  /\ \A p \in B : \E q \in B, e \in shown :
                       q.ext = p.ext /\ FingerprintOf(e) = Fp(q)
                /\ (req[h].kind = "sync" /\ MayRetire(req[h])) => shown \subseteq ExtsOf(B)

\* As long as nothing failed, a row without a vector is waiting in embed-jobs or
\* in the newJobIds of a request that will still enqueue it: the interleaving of
\* requests alone strands no job (ingest.service.ts:164-174).
NoRowForgotten ==
    faults = 0 =>
        \A e \in ExtIds :
            (Exists(e) /\ vector[e] = None) =>
                \/ \E n \in embedQueue : e \in n.ids
                \/ \E h \in Handlers : e \in req[h].fresh

-----------------------------------------------------------------------------
\* What ingest.service.ts:461 and :475 say, and a run refutes: the canonical row
\* of a re-listed opening is kept fresh.  The sync that refreshes it retires it
\* in its next statement when the opening came under a new externalId of the
\* same source.
CanonicalRowKeptFresh ==
    \A h \in Handlers :
        req[h].pc = "finish" =>
            \A e \in req[h].refresh : jobs[e].status = "ACTIVE"
=============================================================================
