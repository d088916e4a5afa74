-------------------------- MODULE CrawlSyncProofs --------------------------
(***************************************************************************)
(* Theorems about CrawlSync, for every company, every number of concurrent *)
(* requests, every batch and every number of failures.                     *)
(***************************************************************************)
EXTENDS CrawlSync, TLAPS

(***************************************************************************)
(* The inductive invariant.  TypeOK alone is not inductive: a refresh is   *)
(* an UPDATE of rows found earlier, so it needs them to exist still; an    *)
(* upsert writes the source of its request, which an idle one has not got; *)
(* and the two postings of a chunk must be for different rows.             *)
(***************************************************************************)
SourceKnown(r) ==
    /\ r.pc = "idle" => r.kind = "none"
    /\ r.pc # "idle" => r.source \in Sources
    /\ r.kind = "sync" => r.source \in AtsSources

RefreshesRows(r) == \A e \in r.refresh : Exists(e)

OnePerRow(r) ==
    /\ r.chunk \subseteq r.todo
    /\ r.pc # "upsert" => r.chunk = {}
    /\ \A p, q \in r.todo : p.ext = q.ext => p = q

Coherent ==
    \A h \in Handlers :
        SourceKnown(req[h]) /\ RefreshesRows(req[h]) /\ OnePerRow(req[h])

Inv == TypeOK /\ Coherent /\ RemovedOnlyByOwnSource

-----------------------------------------------------------------------------
\* What a collapsed batch is: part of the batch, one posting per externalId and
\* one per fingerprint.
LEMMA CollapsedProp ==
    ASSUME NEW B, NEW K \in Collapsed(B)
    PROVE  /\ K \subseteq B
           /\ \A p, q \in K : p.ext = q.ext => p = q
           /\ \A p, q \in K : Fp(p) = Fp(q) => p = q
BY DEF Collapsed, FirstPerExt, FirstPerFingerprint

LEMMA IdleRequestType == IdleRequest \in Request
BY JobStoreAssumption DEF IdleRequest, Request, NothingRead

LEMMA InitInv == Init => Inv
<1> SUFFICES ASSUME Init PROVE Inv
  OBVIOUS
<1> USE DEF Init, StoreInit, SyncInit
<1>1. StoreTypeOK
  BY DEF StoreTypeOK, Row, NoRow, Exists
<1>2. req \in [Handlers -> Request]
  BY IdleRequestType
<1>3. TypeOK
  BY <1>1, <1>2, CrawlSyncAssumption DEF TypeOK
<1>4. Coherent
  BY DEF Coherent, SourceKnown, RefreshesRows, OnePerRow, IdleRequest
<1>5. RemovedOnlyByOwnSource
  BY DEF RemovedOnlyByOwnSource, NoRow
<1> QED
  BY <1>3, <1>4, <1>5 DEF Inv

(***************************************************************************)
(* A step that moves one request to r and lets no row vanish keeps the     *)
(* part of the invariant that is about requests.                           *)
(***************************************************************************)
LEMMA RequestStep ==
    ASSUME Inv, NEW h \in Handlers, NEW r \in Request,
           req' = [req EXCEPT ![h] = r],
           \A e \in ExtIds : Exists(e) => Exists(e)',
           SourceKnown(r), OnePerRow(r), \A e \in r.refresh : Exists(e)'
    PROVE  req' \in [Handlers -> Request] /\ Coherent'
<1>1. req \in [Handlers -> Request]
  BY DEF Inv, TypeOK
<1>2. req' \in [Handlers -> Request]
  BY <1>1
<1>3. \A g \in Handlers : req'[g] = IF g = h THEN r ELSE req[g]
  BY <1>1
<1>4. Coherent'
  <2> SUFFICES ASSUME NEW g \in Handlers
               PROVE  (SourceKnown(req[g]) /\ RefreshesRows(req[g]) /\ OnePerRow(req[g]))'
    BY DEF Coherent
  <2>1. CASE g = h
    BY <1>3, <2>1 DEF RefreshesRows, SourceKnown, OnePerRow
  <2>2. CASE g # h
    <3>1. req'[g] = req[g]
      BY <1>3, <2>2
    <3>2. SourceKnown(req[g]) /\ RefreshesRows(req[g]) /\ OnePerRow(req[g])
      BY DEF Inv, Coherent
    <3>3. req[g].refresh \subseteq ExtIds
      BY <1>1 DEF Request
    <3> QED
      BY <3>1, <3>2, <3>3 DEF RefreshesRows, SourceKnown, OnePerRow
  <2> QED
    BY <2>1, <2>2
<1> QED
  BY <1>2, <1>4

RunStatus == {"NONE", "RUNNING", "SUCCEEDED", "FAILED", "PARTIAL"}

\* A step that leaves the rows alone keeps what the invariant says of them.
LEMMA RowsUnchanged ==
    ASSUME Inv, jobs' = jobs, vector' = vector, embedQueue' \in SUBSET Entry
    PROVE  /\ StoreTypeOK'
           /\ RemovedOnlyByOwnSource'
           /\ \A e \in ExtIds : Exists(e) => Exists(e)'
BY DEF Inv, TypeOK, StoreTypeOK, RemovedOnlyByOwnSource, Exists

LEMMA StartSyncInv ==
    ASSUME Inv, NEW h \in Handlers, NEW s \in AtsSources, NEW B \in Batches,
           NEW complete \in BOOLEAN, StartSync(h, s, B, complete)
    PROVE  Inv'
<1> DEFINE r == [IdleRequest EXCEPT !.pc = "owners", !.kind = "sync",
                   !.source = s, !.batch = B, !.complete = complete]
<1>1. r \in Request
  BY IdleRequestType, JobStoreAssumption DEF Request, Batches
<1>2. SourceKnown(r) /\ OnePerRow(r) /\ r.refresh = {}
  BY JobStoreAssumption DEF IdleRequest, SourceKnown, OnePerRow
<1>3. req' = [req EXCEPT ![h] = r] /\ UNCHANGED <<storeVars, faults>>
  BY DEF StartSync
<1>4. run' \in [Handlers -> RunStatus]
  BY DEF StartSync, Inv, TypeOK, RunStatus
<1>5. /\ StoreTypeOK'
      /\ RemovedOnlyByOwnSource'
      /\ \A e \in ExtIds : Exists(e) => Exists(e)'
  BY <1>3, RowsUnchanged DEF storeVars, Inv, TypeOK, StoreTypeOK
<1>6. req' \in [Handlers -> Request] /\ Coherent'
  <2> HIDE DEF r
  <2> QED BY <1>1, <1>2, <1>3, <1>5, RequestStep
<1> QED
  BY <1>3, <1>4, <1>5, <1>6 DEF Inv, TypeOK, RunStatus

LEMMA StartBoardInv ==
    ASSUME Inv, NEW h \in Handlers, NEW s \in Sources, NEW B \in Batches,
           StartBoard(h, s, B)
    PROVE  Inv'
<1> DEFINE r == [IdleRequest EXCEPT !.pc = "owners", !.kind = "board",
                   !.source = s, !.batch = B]
<1>1. r \in Request
  BY IdleRequestType, JobStoreAssumption DEF Request, Batches
<1>2. SourceKnown(r) /\ OnePerRow(r) /\ r.refresh = {}
  BY JobStoreAssumption DEF IdleRequest, SourceKnown, OnePerRow
<1>3. req' = [req EXCEPT ![h] = r] /\ UNCHANGED <<storeVars, faults>>
  BY DEF StartBoard
<1>4. run' \in [Handlers -> RunStatus]
  BY DEF StartBoard, Inv, TypeOK, RunStatus
<1>5. /\ StoreTypeOK'
      /\ RemovedOnlyByOwnSource'
      /\ \A e \in ExtIds : Exists(e) => Exists(e)'
  BY <1>3, RowsUnchanged DEF storeVars, Inv, TypeOK, StoreTypeOK
<1>6. req' \in [Handlers -> Request] /\ Coherent'
  <2> HIDE DEF r
  <2> QED BY <1>1, <1>2, <1>3, <1>5, RequestStep
<1> QED
  BY <1>3, <1>4, <1>5, <1>6 DEF Inv, TypeOK, RunStatus

LEMMA FindOwnersInv ==
    ASSUME Inv, NEW h \in Handlers, FindOwners(h)
    PROVE  Inv'
<1> PICK K \in Collapsed(req[h].batch) : \E owner \in Owners(K) :
        LET duplicates == {p \in K : owner[Fp(p)] \notin {None, p.ext}}
        IN  req' = [req EXCEPT ![h].pc = "refresh",
                      ![h].todo = K \ duplicates,
                      ![h].refresh = RefreshIds(owner, duplicates)]
  BY DEF FindOwners
<1>1. PICK owner \in Owners(K) :
        LET duplicates == {p \in K : owner[Fp(p)] \notin {None, p.ext}}
        IN  req' = [req EXCEPT ![h].pc = "refresh",
                      ![h].todo = K \ duplicates,
                      ![h].refresh = RefreshIds(owner, duplicates)]
  OBVIOUS
<1> DEFINE duplicates == {p \in K : owner[Fp(p)] \notin {None, p.ext}}
           T == K \ duplicates
           R == RefreshIds(owner, duplicates)
           r == [req[h] EXCEPT !.pc = "refresh", !.todo = T, !.refresh = R]
<1>2. req[h] \in Request /\ req[h].pc = "owners"
  BY DEF Inv, TypeOK, FindOwners
<1>3. /\ K \subseteq req[h].batch
      /\ \A p, q \in K : p.ext = q.ext => p = q
  BY CollapsedProp
<1>4. K \subseteq Posting
  BY <1>2, <1>3 DEF Request
<1>5. \A p \in duplicates : owner[Fp(p)] \in ExtIds /\ Exists(owner[Fp(p)])
  <2> SUFFICES ASSUME NEW p \in duplicates
               PROVE  owner[Fp(p)] \in ExtIds /\ Exists(owner[Fp(p)])
    OBVIOUS
  <2>1. Fp(p) \in Fingerprints /\ owner[Fp(p)] # None
    BY <1>4, JobStoreAssumption DEF Posting, Fp
  <2> QED
    BY <2>1 DEF Owners
<1>6. T \in SUBSET Posting /\ R \in SUBSET ExtIds /\ \A e \in R : Exists(e)
  BY <1>4, <1>5 DEF RefreshIds
<1>7. req' = [req EXCEPT ![h] = r] /\ UNCHANGED <<storeVars, run, faults>>
  BY <1>1 DEF FindOwners
<1> HIDE DEF T, R
<1>8. r \in Request /\ r.refresh = R
  BY <1>2, <1>6 DEF Request
<1>9. SourceKnown(r) /\ OnePerRow(r)
  <2>1. SourceKnown(req[h]) /\ OnePerRow(req[h])
    BY DEF Inv, Coherent
  <2>2. SourceKnown(r)
    BY <2>1, <1>2 DEF SourceKnown, Request
  <2>3. req[h].chunk = {}
    BY <1>2, <2>1 DEF OnePerRow
  <2> QED
    BY <2>2, <2>3, <1>2, <1>3 DEF OnePerRow, Request, T
<1>10. /\ StoreTypeOK'
       /\ RemovedOnlyByOwnSource'
       /\ \A e \in ExtIds : Exists(e) => Exists(e)'
  BY <1>7, RowsUnchanged DEF storeVars, Inv, TypeOK, StoreTypeOK
<1>11. req' \in [Handlers -> Request] /\ Coherent'
  <2> HIDE DEF r
  <2> QED BY <1>6, <1>7, <1>8, <1>9, <1>10, RequestStep
<1> QED
  BY <1>7, <1>10, <1>11 DEF Inv, TypeOK

LEMMA RefreshOwnersInv ==
    ASSUME Inv, NEW h \in Handlers, RefreshOwners(h)
    PROVE  Inv'
<1> DEFINE r == [req[h] EXCEPT !.pc = "read"]
<1>1. /\ req[h] \in Request /\ req[h].pc = "refresh"
      /\ SourceKnown(req[h]) /\ RefreshesRows(req[h]) /\ OnePerRow(req[h])
  BY DEF RefreshOwners, Inv, TypeOK, Coherent
<1>2. /\ req' = [req EXCEPT ![h] = r]
      /\ jobs' = [e \in ExtIds |-> IF e \in req[h].refresh
                                   THEN [jobs[e] EXCEPT !.status = "ACTIVE"]
                                   ELSE jobs[e]]
      /\ UNCHANGED <<vector, embedQueue, run, faults>>
  BY DEF RefreshOwners
<1>3. r \in Request /\ r.refresh = req[h].refresh
  BY <1>1 DEF Request
<1>4. SourceKnown(r) /\ OnePerRow(r)
  BY <1>1 DEF SourceKnown, OnePerRow, Request
<1>5. \A e \in ExtIds : /\ jobs[e] \in Row /\ jobs'[e] \in Row
                        /\ jobs'[e].title = jobs[e].title
                        /\ jobs'[e].body = jobs[e].body
                        /\ jobs'[e].source = jobs[e].source
                        /\ jobs'[e].status = IF e \in req[h].refresh THEN "ACTIVE"
                                             ELSE jobs[e].status
                        /\ e \notin req[h].refresh => jobs'[e] = jobs[e]
  BY <1>2 DEF Inv, TypeOK, StoreTypeOK, Row
<1>6. \A e \in req[h].refresh : Exists(e)
  BY <1>1 DEF RefreshesRows
<1>7. \A e \in ExtIds : Exists(e)' <=> Exists(e)
  BY <1>5, <1>6 DEF Exists
<1>8. StoreTypeOK'
  <2>1. jobs' \in [ExtIds -> Row]
    BY <1>2, <1>5
  <2>2. \A e \in ExtIds : ~Exists(e)' => (jobs[e] = NoRow)'
    BY <1>5, <1>6, <1>7 DEF Inv, TypeOK, StoreTypeOK
  <2>3. \A e \in ExtIds : Exists(e)' => /\ jobs'[e].source \in Sources
                                        /\ jobs'[e].title \in Titles
                                        /\ jobs'[e].body \in Bodies
    BY <1>5, <1>7 DEF Inv, TypeOK, StoreTypeOK
  <2> QED
    BY <1>2, <2>1, <2>2, <2>3 DEF Inv, TypeOK, StoreTypeOK
<1>9. RemovedOnlyByOwnSource'
  BY <1>5 DEF Inv, RemovedOnlyByOwnSource
<1>10. req' \in [Handlers -> Request] /\ Coherent'
  <2>1. \A e \in r.refresh : Exists(e)'
    BY <1>1, <1>3, <1>6, <1>7 DEF Request
  <2> HIDE DEF r
  <2> QED BY <1>2, <1>3, <1>4, <1>7, <2>1, RequestStep
<1> QED
  BY <1>2, <1>8, <1>9, <1>10 DEF Inv, TypeOK

LEMMA ReadBodiesInv ==
    ASSUME Inv, NEW h \in Handlers, ReadBodies(h)
    PROVE  Inv'
<1> PICK C \in SUBSET req[h].todo :
      req' = [req EXCEPT ![h].pc = "upsert", ![h].chunk = C,
                ![h].before = [e \in ExtIds |->
                     IF e \in ExtsOf(C) THEN jobs[e].body ELSE None]]
  BY DEF ReadBodies
<1> DEFINE M == [e \in ExtIds |-> IF e \in ExtsOf(C) THEN jobs[e].body ELSE None]
           r == [req[h] EXCEPT !.pc = "upsert", !.chunk = C, !.before = M]
<1>1. /\ req[h] \in Request /\ req[h].pc = "read"
      /\ SourceKnown(req[h]) /\ RefreshesRows(req[h]) /\ OnePerRow(req[h])
  BY DEF ReadBodies, Inv, TypeOK, Coherent
<1>2. req' = [req EXCEPT ![h] = r] /\ UNCHANGED <<storeVars, run, faults>>
  BY DEF ReadBodies
<1>3. M \in [ExtIds -> Bodies \cup {None}]
  BY DEF Inv, TypeOK, StoreTypeOK, Row
<1> HIDE DEF M
<1>4. r \in Request /\ r.refresh = req[h].refresh
  BY <1>1, <1>3 DEF Request
<1>5. SourceKnown(r) /\ OnePerRow(r)
  BY <1>1 DEF SourceKnown, OnePerRow, Request
<1>6. /\ StoreTypeOK'
      /\ RemovedOnlyByOwnSource'
      /\ \A e \in ExtIds : Exists(e) => Exists(e)'
  BY <1>2, RowsUnchanged DEF storeVars, Inv, TypeOK, StoreTypeOK
<1>7. req' \in [Handlers -> Request] /\ Coherent'
  <2>1. \A e \in r.refresh : Exists(e)'
    BY <1>1, <1>4, <1>6 DEF Request, RefreshesRows
  <2> HIDE DEF r
  <2> QED BY <1>2, <1>4, <1>5, <1>6, <2>1, RequestStep
<1> QED
  BY <1>2, <1>6, <1>7 DEF Inv, TypeOK

LEMMA UpsertRowsInv ==
    ASSUME Inv, NEW h \in Handlers, UpsertRows(h)
    PROVE  Inv'
<1> DEFINE C == req[h].chunk
           inserted == Inserted(req[h])
           restale == Restale(req[h])
           pc == IF restale = {} THEN "read" ELSE "clear"
           T == req[h].todo \ C
           F == req[h].fresh \cup inserted
           r == [req[h] EXCEPT !.pc = pc, !.todo = T, !.chunk = {},
                   !.before = NothingRead, !.stale = restale, !.fresh = F]
<1>1. /\ req[h] \in Request /\ req[h].pc = "upsert"
      /\ SourceKnown(req[h]) /\ RefreshesRows(req[h]) /\ OnePerRow(req[h])
  BY DEF UpsertRows, Inv, TypeOK, Coherent
<1>2. /\ req' = [req EXCEPT ![h] = r]
      /\ jobs' = [e \in ExtIds |->
                    IF e \in ExtsOf(C)
                    THEN Written(req[h].source, CHOOSE p \in C : p.ext = e)
                    ELSE jobs[e]]
      /\ UNCHANGED <<vector, embedQueue, run, faults>>
  BY DEF UpsertRows
<1>3. C \subseteq Posting
  BY <1>1 DEF Request
<1>4. /\ restale \in SUBSET ExtIds /\ T \in SUBSET Posting
      /\ F \in SUBSET ExtIds /\ pc \in {"read", "clear"}
  BY <1>1, <1>3 DEF Request, Posting, ExtsOf, Inserted, Restale
<1>5. OnePerRow([req[h] EXCEPT !.pc = pc, !.todo = T, !.chunk = {}])
  BY <1>1 DEF OnePerRow, Request
<1>6. \A e \in ExtIds : e \in ExtsOf(C) =>
        /\ jobs'[e].status = "ACTIVE" /\ jobs'[e].source \in Sources
        /\ jobs'[e].title \in Titles /\ jobs'[e].body \in Bodies
        /\ jobs'[e] \in Row
  <2> SUFFICES ASSUME NEW e \in ExtIds, e \in ExtsOf(C)
               PROVE  /\ jobs'[e].status = "ACTIVE" /\ jobs'[e].source \in Sources
                      /\ jobs'[e].title \in Titles /\ jobs'[e].body \in Bodies
                      /\ jobs'[e] \in Row
    OBVIOUS
  <2> DEFINE p == CHOOSE q \in C : q.ext = e
  <2>1. p \in C
    BY DEF ExtsOf
  <2>2. p.title \in Titles /\ p.body \in Bodies
    BY <2>1, <1>3 DEF Posting
  <2>3. jobs'[e] = Written(req[h].source, p)
    BY <1>2
  <2>4. req[h].source \in Sources
    BY <1>1 DEF SourceKnown
  <2> HIDE DEF p
  <2> QED
    BY <2>2, <2>3, <2>4 DEF Written, Row
<1>7. \A e \in ExtIds : e \notin ExtsOf(C) => jobs'[e] = jobs[e]
  BY <1>2
<1>8. \A e \in ExtIds : Exists(e) => Exists(e)'
  BY <1>6, <1>7 DEF Exists
<1>9. StoreTypeOK'
  <2>1. jobs' \in [ExtIds -> Row]
    BY <1>2, <1>6, <1>7 DEF Inv, TypeOK, StoreTypeOK
  <2>2. \A e \in ExtIds : ~Exists(e)' => (jobs[e] = NoRow)'
    BY <1>6, <1>7 DEF Inv, TypeOK, StoreTypeOK, Exists
  <2>3. \A e \in ExtIds : Exists(e)' => /\ jobs'[e].source \in Sources
                                        /\ jobs'[e].title \in Titles
                                        /\ jobs'[e].body \in Bodies
    BY <1>6, <1>7 DEF Inv, TypeOK, StoreTypeOK, Exists
  <2> QED
    BY <1>2, <2>1, <2>2, <2>3 DEF Inv, TypeOK, StoreTypeOK
<1>10. RemovedOnlyByOwnSource'
  BY <1>6, <1>7 DEF Inv, RemovedOnlyByOwnSource
<1> HIDE DEF restale, T, F, pc, inserted
<1>11. r \in Request /\ r.refresh = req[h].refresh
  BY <1>1, <1>4, IdleRequestType DEF Request, IdleRequest
<1>12. SourceKnown(r) /\ OnePerRow(r)
  BY <1>1, <1>4, <1>5 DEF SourceKnown, OnePerRow, Request
<1>13. req' \in [Handlers -> Request] /\ Coherent'
  <2>1. \A e \in r.refresh : Exists(e)'
    BY <1>1, <1>8, <1>11 DEF Request, RefreshesRows
  <2> HIDE DEF r
  <2> QED BY <1>2, <1>8, <1>11, <1>12, <2>1, RequestStep
<1> QED
  BY <1>2, <1>9, <1>10, <1>13 DEF Inv, TypeOK

LEMMA ClearStaleInv ==
    ASSUME Inv, NEW h \in Handlers, ClearStale(h)
    PROVE  Inv'
<1> DEFINE F == req[h].fresh \cup req[h].stale
           r == [req[h] EXCEPT !.pc = "read", !.stale = {}, !.fresh = F]
<1>1. /\ req[h] \in Request /\ req[h].pc = "clear"
      /\ SourceKnown(req[h]) /\ RefreshesRows(req[h]) /\ OnePerRow(req[h])
  BY DEF ClearStale, Inv, TypeOK, Coherent
<1>2. /\ req' = [req EXCEPT ![h] = r] /\ UNCHANGED <<jobs, embedQueue, run, faults>>
      /\ vector' = [e \in ExtIds |-> IF e \in req[h].stale THEN None ELSE vector[e]]
  BY DEF ClearStale, ClearVectors
<1>3. F \in SUBSET ExtIds
  BY <1>1 DEF Request
<1> HIDE DEF F
<1>4. r \in Request /\ r.refresh = req[h].refresh
  BY <1>1, <1>3 DEF Request
<1>5. SourceKnown(r) /\ OnePerRow(r)
  BY <1>1 DEF SourceKnown, OnePerRow, Request
<1>6. /\ StoreTypeOK'
      /\ RemovedOnlyByOwnSource'
      /\ \A e \in ExtIds : Exists(e) => Exists(e)'
  BY <1>2 DEF Inv, TypeOK, StoreTypeOK, RemovedOnlyByOwnSource, Exists
<1>7. req' \in [Handlers -> Request] /\ Coherent'
  <2>1. \A e \in r.refresh : Exists(e)'
    BY <1>1, <1>4, <1>6 DEF Request, RefreshesRows
  <2> HIDE DEF r
  <2> QED BY <1>2, <1>4, <1>5, <1>6, <2>1, RequestStep
<1> QED
  BY <1>2, <1>6, <1>7 DEF Inv, TypeOK

LEMMA RetireInv ==
    ASSUME Inv, NEW h \in Handlers, Retire(h)
    PROVE  Inv'
<1> DEFINE r == [req[h] EXCEPT !.pc = "finish"]
<1>1. /\ req[h] \in Request /\ req[h].pc = "read" /\ req[h].kind = "sync"
      /\ SourceKnown(req[h]) /\ RefreshesRows(req[h]) /\ OnePerRow(req[h])
  BY DEF Retire, Inv, TypeOK, Coherent
<1>2. /\ req' = [req EXCEPT ![h] = r]
      /\ jobs' = [e \in ExtIds |-> IF Retires(req[h], e)
                                   THEN [jobs[e] EXCEPT !.status = "REMOVED"]
                                   ELSE jobs[e]]
      /\ UNCHANGED <<vector, embedQueue, run, faults>>
  BY DEF Retire
<1>3. r \in Request /\ r.refresh = req[h].refresh
  BY <1>1 DEF Request
<1>4. SourceKnown(r) /\ OnePerRow(r)
  BY <1>1 DEF SourceKnown, OnePerRow, Request
<1>5. \A e \in ExtIds : /\ jobs[e] \in Row /\ jobs'[e] \in Row
                        /\ jobs'[e].title = jobs[e].title
                        /\ jobs'[e].body = jobs[e].body
                        /\ jobs'[e].source = jobs[e].source
                        /\ jobs'[e] = jobs[e]
                           \/ /\ jobs'[e].status = "REMOVED"
                              /\ jobs[e].status = "ACTIVE"
                              /\ jobs[e].source \in AtsSources
  BY <1>1, <1>2 DEF Inv, TypeOK, StoreTypeOK, Row, SourceKnown, Retires
<1>6. \A e \in ExtIds : Exists(e)' <=> Exists(e)
  BY <1>5 DEF Exists
<1>7. StoreTypeOK'
  <2>1. jobs' \in [ExtIds -> Row]
    BY <1>2, <1>5
  <2>2. \A e \in ExtIds : ~Exists(e)' => (jobs[e] = NoRow)'
    BY <1>5, <1>6 DEF Inv, TypeOK, StoreTypeOK, Exists
  <2>3. \A e \in ExtIds : Exists(e)' => /\ jobs'[e].source \in Sources
                                        /\ jobs'[e].title \in Titles
                                        /\ jobs'[e].body \in Bodies
    BY <1>5, <1>6 DEF Inv, TypeOK, StoreTypeOK
  <2> QED
    BY <1>2, <2>1, <2>2, <2>3 DEF Inv, TypeOK, StoreTypeOK
<1>8. RemovedOnlyByOwnSource'
  BY <1>5 DEF Inv, RemovedOnlyByOwnSource
<1>9. req' \in [Handlers -> Request] /\ Coherent'
  <2>1. \A e \in r.refresh : Exists(e)'
    BY <1>1, <1>3, <1>6 DEF Request, RefreshesRows
  <2> HIDE DEF r
  <2> QED BY <1>2, <1>3, <1>4, <1>6, <2>1, RequestStep
<1> QED
  BY <1>2, <1>7, <1>8, <1>9 DEF Inv, TypeOK

\* The steps that only end a part of a request.
LEMMA FinishInv ==
    ASSUME Inv, NEW h \in Handlers,
           FinishSync(h) \/ Settle(h) \/ FinishBoard(h) \/ WorkerAbandons(h)
    PROVE  Inv'
<1>1. PICK pc \in {"settle", "enqueue", req[h].pc}, orphan \in BOOLEAN :
         /\ req' = [req EXCEPT ![h] = [req[h] EXCEPT !.pc = pc, !.orphan = orphan]]
         /\ req[h].pc # "idle"
         /\ pc # req[h].pc => req[h].pc \in {"finish", "settle", "read"}
  <2>1. req[h] \in Request
    BY DEF Inv, TypeOK
  <2>2. CASE FinishSync(h)
    <3>1. req' = [req EXCEPT ![h] = [req[h] EXCEPT !.pc = "settle", !.orphan = req[h].orphan]]
      BY <2>1, <2>2 DEF FinishSync, Request
    <3> QED BY <2>1, <2>2, <3>1 DEF FinishSync, Request
  <2>3. CASE Settle(h)
    <3>1. req' = [req EXCEPT ![h] = [req[h] EXCEPT !.pc = "enqueue", !.orphan = req[h].orphan]]
      BY <2>1, <2>3 DEF Settle, Request
    <3> QED BY <2>1, <2>3, <3>1 DEF Settle, Request
  <2>4. CASE FinishBoard(h)
    <3>1. req' = [req EXCEPT ![h] = [req[h] EXCEPT !.pc = "enqueue", !.orphan = req[h].orphan]]
      BY <2>1, <2>4 DEF FinishBoard, Request
    <3> QED BY <2>1, <2>4, <3>1 DEF FinishBoard, Request
  <2>5. CASE WorkerAbandons(h)
    <3>1. req' = [req EXCEPT ![h] = [req[h] EXCEPT !.pc = req[h].pc, !.orphan = TRUE]]
      BY <2>1, <2>5 DEF WorkerAbandons, Request
    <3>2. req[h].pc # "idle"
      BY <2>5 DEF WorkerAbandons, Inv, Coherent, SourceKnown
    <3> QED BY <2>1, <2>5, <3>1, <3>2 DEF Request
  <2> QED
    BY <2>2, <2>3, <2>4, <2>5
<1> DEFINE r == [req[h] EXCEPT !.pc = pc, !.orphan = orphan]
<1>2. /\ req[h] \in Request
      /\ SourceKnown(req[h]) /\ RefreshesRows(req[h]) /\ OnePerRow(req[h])
  BY DEF Inv, TypeOK, Coherent
<1>3. r \in Request /\ r.refresh = req[h].refresh
  BY <1>1, <1>2 DEF Request
<1>4. SourceKnown(r) /\ OnePerRow(r)
  BY <1>1, <1>2 DEF SourceKnown, OnePerRow, Request
<1>5. /\ UNCHANGED storeVars
      /\ run' \in [Handlers -> RunStatus]
      /\ faults' \in 0 .. MaxFaults
  BY CrawlSyncAssumption DEF FinishSync, Settle, FinishBoard, WorkerAbandons, Inv, TypeOK, RunStatus
<1>6. /\ StoreTypeOK'
      /\ RemovedOnlyByOwnSource'
      /\ \A e \in ExtIds : Exists(e) => Exists(e)'
  BY <1>5, RowsUnchanged DEF storeVars, Inv, TypeOK, StoreTypeOK
<1>7. req' \in [Handlers -> Request] /\ Coherent'
  <2>1. \A e \in r.refresh : Exists(e)'
    BY <1>2, <1>3, <1>6 DEF Request, RefreshesRows
  <2> HIDE DEF r
  <2> QED BY <1>1, <1>3, <1>4, <1>6, <2>1, RequestStep DEF r
<1> QED
  BY <1>5, <1>6, <1>7 DEF Inv, TypeOK, RunStatus

\* The steps that end a request: its answer, or an error that ends it.
LEMMA ReturnInv ==
    ASSUME Inv, NEW h \in Handlers, Enqueue(h) \/ SyncFails(h) \/ BoardFails(h)
    PROVE  Inv'
<1>1. req' = [req EXCEPT ![h] = IdleRequest]
  BY DEF Enqueue, SyncFails, BoardFails
<1>2. SourceKnown(IdleRequest) /\ OnePerRow(IdleRequest) /\ IdleRequest.refresh = {}
  BY DEF SourceKnown, OnePerRow, IdleRequest
<1>3. /\ UNCHANGED <<jobs, vector>>
      /\ run' \in [Handlers -> RunStatus]
      /\ faults' \in 0 .. MaxFaults
  BY CrawlSyncAssumption DEF Enqueue, SyncFails, BoardFails, storeVars, Inv, TypeOK, RunStatus
<1>4. embedQueue' \in SUBSET Entry
  <2>1. embedQueue \in SUBSET Entry /\ req[h].fresh \subseteq ExtIds
    BY DEF Inv, TypeOK, StoreTypeOK, Request
  <2>2. [ids |-> req[h].fresh, attempts |-> 0] \in Entry
    BY <2>1, JobStoreAssumption DEF Entry
  <2> QED
    BY <2>1, <2>2 DEF Enqueue, SyncFails, BoardFails, enqueueEmbeddings, storeVars
<1>5. /\ StoreTypeOK'
      /\ RemovedOnlyByOwnSource'
      /\ \A e \in ExtIds : Exists(e) => Exists(e)'
  BY <1>3, <1>4, RowsUnchanged
<1>6. req' \in [Handlers -> Request] /\ Coherent'
  BY <1>1, <1>2, <1>5, IdleRequestType, RequestStep
<1> QED
  BY <1>3, <1>5, <1>6 DEF Inv, TypeOK, RunStatus

LEMMA BoardCompanyFailsInv ==
    ASSUME Inv, NEW h \in Handlers, BoardCompanyFails(h)
    PROVE  Inv'
<1> DEFINE r == [IdleRequest EXCEPT !.pc = "read", !.kind = "board",
                   !.source = req[h].source, !.failed = TRUE]
<1>1. req[h] \in Request /\ SourceKnown(req[h]) /\ req[h].pc # "idle"
  BY DEF BoardCompanyFails, Inv, TypeOK, Coherent
<1>2. r \in Request
  BY <1>1, IdleRequestType DEF Request
<1>3. SourceKnown(r) /\ OnePerRow(r) /\ r.refresh = {}
  BY <1>1 DEF SourceKnown, OnePerRow, IdleRequest
<1>4. /\ req' = [req EXCEPT ![h] = r]
      /\ UNCHANGED <<storeVars, run>>
      /\ faults' \in 0 .. MaxFaults
  BY CrawlSyncAssumption DEF BoardCompanyFails, Inv, TypeOK
<1>5. /\ StoreTypeOK'
      /\ RemovedOnlyByOwnSource'
      /\ \A e \in ExtIds : Exists(e) => Exists(e)'
  BY <1>4, RowsUnchanged DEF storeVars, Inv, TypeOK, StoreTypeOK
<1>6. req' \in [Handlers -> Request] /\ Coherent'
  <2> HIDE DEF r
  <2> QED BY <1>2, <1>3, <1>4, <1>5, RequestStep
<1> QED
  BY <1>4, <1>5, <1>6 DEF Inv, TypeOK

LEMMA CrashInv ==
    ASSUME Inv, Crash
    PROVE  Inv'
<1>1. /\ req' = [h \in Handlers |-> IdleRequest]
      /\ UNCHANGED <<storeVars, run>>
      /\ faults' \in 0 .. MaxFaults
  BY CrawlSyncAssumption DEF Crash, CrashRequests, Inv, TypeOK
<1>2. StoreTypeOK' /\ RemovedOnlyByOwnSource'
  BY <1>1, RowsUnchanged DEF storeVars, Inv, TypeOK, StoreTypeOK
<1>3. Coherent'
  BY <1>1 DEF Coherent, SourceKnown, OnePerRow, RefreshesRows, IdleRequest
<1> QED
  BY <1>1, <1>2, <1>3, IdleRequestType DEF Inv, TypeOK

LEMMA StutterInv ==
    ASSUME Inv, UNCHANGED vars
    PROVE  Inv'
<1>1. StoreTypeOK' /\ RemovedOnlyByOwnSource'
  BY RowsUnchanged DEF vars, Inv, TypeOK, StoreTypeOK
<1>2. Coherent'
  BY DEF vars, Inv, Coherent, SourceKnown, OnePerRow, RefreshesRows, Exists
<1> QED
  BY <1>1, <1>2 DEF vars, Inv, TypeOK

-----------------------------------------------------------------------------
\* Every step keeps Inv.
LEMMA NextKeepsInv ==
    ASSUME Inv, [Next]_vars
    PROVE  Inv'
<1>1. ASSUME NEW h \in Handlers, Start(h) PROVE Inv'
  BY <1>1, StartSyncInv, StartBoardInv DEF Start
<1>2. ASSUME NEW h \in Handlers, HandlerStep(h) PROVE Inv'
  BY <1>2, FindOwnersInv, RefreshOwnersInv, ReadBodiesInv, UpsertRowsInv,
     ClearStaleInv, RetireInv, FinishInv, ReturnInv DEF HandlerStep
<1>3. ASSUME NEW h \in Handlers, HandlerFault(h) PROVE Inv'
  BY <1>3, ReturnInv, FinishInv, BoardCompanyFailsInv DEF HandlerFault
<1> QED
  BY <1>1, <1>2, <1>3, CrashInv, StutterInv DEF Next

\* Inv holds in every reachable state.
THEOREM Invariance == Spec => []Inv
BY InitInv, NextKeepsInv, PTL DEF Spec

\* Every reachable state is well formed: in particular a row is complete or
\* absent, although rows are refreshed, written and retired by statements that
\* were prepared from earlier reads.
THEOREM TypeCorrect == Spec => []TypeOK
BY Invariance, PTL DEF Inv

\* A REMOVED row was last written from a source that company syncs crawl
\* (crawl-reconciliation.ts:1-10), whatever the interleaving and the failures.
THEOREM NeverRetiredByAnotherSource == Spec => []RemovedOnlyByOwnSource
BY Invariance, PTL DEF Inv

-----------------------------------------------------------------------------
(***************************************************************************)
(* Refinement: each statement of a request is one step of JobHistory, or   *)
(* leaves the rows alone.                                                  *)
(***************************************************************************)
LEMMA RefreshConfirms ==
    ASSUME Inv, NEW h \in Handlers, RefreshOwners(h)
    PROVE  History!Next
<1>1. req[h].refresh \in SUBSET History!Listed
  BY DEF Inv, TypeOK, Request, Coherent, RefreshesRows, Exists, History!Listed
<1>2. History!Confirm(req[h].refresh)
  BY DEF RefreshOwners, History!Confirm
<1> QED
  BY <1>1, <1>2 DEF History!Next

LEMMA UpsertPublishes ==
    ASSUME Inv, NEW h \in Handlers, UpsertRows(h)
    PROVE  History!Next
<1> DEFINE C == req[h].chunk
<1>1. /\ req[h] \in Request /\ req[h].pc = "upsert"
      /\ SourceKnown(req[h]) /\ OnePerRow(req[h])
  BY DEF UpsertRows, Inv, TypeOK, Coherent
<1>2. C \in SUBSET Posting /\ req[h].source \in Sources
  BY <1>1 DEF Request, SourceKnown
<1>3. \A p, q \in C : p.ext = q.ext => p = q
  BY <1>1 DEF OnePerRow
<1>4. jobs' = [e \in ExtIds |->
                 IF e \in ExtsOf(C)
                 THEN Written(req[h].source, CHOOSE p \in C : p.ext = e)
                 ELSE jobs[e]]
  BY DEF UpsertRows
<1>5. \A p \in C : jobs'[p.ext] = Written(req[h].source, p)
  <2> SUFFICES ASSUME NEW p \in C PROVE jobs'[p.ext] = Written(req[h].source, p)
    OBVIOUS
  <2>1. p.ext \in ExtIds /\ p.ext \in ExtsOf(C)
    BY <1>2 DEF Posting, ExtsOf
  <2>2. (CHOOSE q \in C : q.ext = p.ext) = p
    BY <1>3
  <2> QED
    BY <1>4, <2>1, <2>2
<1>6. \A e \in ExtIds : (\A p \in C : p.ext # e) => jobs'[e] = jobs[e]
  BY <1>4 DEF ExtsOf
<1>7. History!Publish(req[h].source, C)
  BY <1>3, <1>5, <1>6 DEF History!Publish, Written
<1>8. C \in SUBSET History!Posting
  BY <1>2 DEF Posting, History!Posting
<1> QED
  BY <1>2, <1>7, <1>8 DEF History!Next

LEMMA RetireWithdraws ==
    ASSUME Inv, NEW h \in Handlers, Retire(h)
    PROVE  History!Next \/ jobs' = jobs
<1> DEFINE seen == ExtsOf(req[h].batch)
<1>1. /\ req[h] \in Request /\ req[h].source \in AtsSources
  BY DEF Retire, Inv, TypeOK, Coherent, SourceKnown
<1>2. CASE ~MayRetire(req[h])
  BY <1>2 DEF Retire, Retires, Inv, TypeOK, StoreTypeOK
<1>3. CASE MayRetire(req[h])
  <2>1. seen \in SUBSET ExtIds /\ seen # {}
    BY <1>1, <1>3 DEF Request, Posting, ExtsOf, MayRetire
  <2>2. History!Withdraw(req[h].source, seen)
    BY <1>3 DEF Retire, Retires, History!Withdraw
  <2> QED
    BY <1>1, <2>1, <2>2 DEF History!Next
<1> QED
  BY <1>2, <1>3

\* The steps that do not touch the rows.
LEMMA RowsKept ==
    ASSUME [Next]_vars, jobs' # jobs
    PROVE  \E h \in Handlers : RefreshOwners(h) \/ UpsertRows(h) \/ Retire(h)
BY DEF Next, Start, HandlerStep, HandlerFault, StartSync, StartBoard, FindOwners,
       ReadBodies, ClearStale, FinishSync, Settle, FinishBoard, Enqueue, SyncFails,
       BoardCompanyFails, BoardFails, WorkerAbandons, Crash, storeVars, vars

\* Whatever a step of the requests does to the rows, JobHistory allows.
LEMMA NextIsHistory ==
    ASSUME Inv, [Next]_vars
    PROVE  [History!Next]_jobs
BY RowsKept, RefreshConfirms, UpsertPublishes, RetireWithdraws

\* The rows of an empty table are where JobHistory starts.
LEMMA InitIsHistory == Init => History!Init
BY DEF Init, StoreInit, NoRow, History!Init

\* CrawlSync implements JobHistory: the interleaved, failing, non-transactional
\* statements of the requests give no row a history the atomic steps would not.
THEOREM CrawlSyncImplementsJobHistory == Spec => ImplementsJobHistory
BY Invariance, InitIsHistory, NextIsHistory, PTL DEF Spec, ImplementsJobHistory, History!Spec

\* Of two syncs of the company at work, one has been abandoned by its worker.
OneSyncAwaited ==
    \A g, h \in Handlers :
        (g # h /\ req[g].kind = "sync" /\ req[h].kind = "sync") =>
            (req[g].orphan \/ req[h].orphan)

\* What a statement or a fault of one request does to it: it stays what it is, it
\* ends, or it goes on as a board ingest.
LEMMA StaysASync ==
    ASSUME Inv, NEW g \in Handlers, HandlerStep(g) \/ HandlerFault(g), NEW h \in Handlers,
           req'[h].kind = "sync"
    PROVE  req[h].kind = "sync" /\ (req[h].orphan => req'[h].orphan)
<1> USE DEF Inv, TypeOK
<1>0. IdleRequest.kind = "none"
  BY DEF IdleRequest
<1>1. CASE FindOwners(g)
  <2>1. PICK todo, refresh : req' = [req EXCEPT ![g].pc = "refresh",
                                       ![g].todo = todo, ![g].refresh = refresh]
    BY <1>1 DEF FindOwners
  <2> QED
    BY <2>1
<1>2. CASE RefreshOwners(g)
  BY <1>2 DEF RefreshOwners
<1>3. CASE ReadBodies(g)
  <2>1. PICK C, before : req' = [req EXCEPT ![g].pc = "upsert", ![g].chunk = C,
                                   ![g].before = before]
    BY <1>3 DEF ReadBodies
  <2> QED
    BY <2>1
<1>4. CASE UpsertRows(g)
  <2>1. PICK pc, todo, stale, fresh :
           req' = [req EXCEPT ![g].pc = pc, ![g].todo = todo, ![g].chunk = {},
                     ![g].before = NothingRead, ![g].stale = stale, ![g].fresh = fresh]
    BY <1>4 DEF UpsertRows
  <2> QED
    BY <2>1
<1>5. CASE ClearStale(g)
  BY <1>5 DEF ClearStale
<1>6. CASE Retire(g)
  BY <1>6 DEF Retire
<1>7. CASE FinishSync(g) \/ Settle(g) \/ FinishBoard(g)
  <2>1. PICK pc : req' = [req EXCEPT ![g].pc = pc]
    BY <1>7 DEF FinishSync, Settle, FinishBoard
  <2> QED
    BY <2>1
<1>8. CASE Enqueue(g) \/ SyncFails(g) \/ BoardFails(g)
  <2>1. req' = [req EXCEPT ![g] = IdleRequest]
    BY <1>8 DEF Enqueue, SyncFails, BoardFails
  <2> QED
    BY <1>0, <2>1
<1>9. CASE BoardCompanyFails(g)
  <2>1. PICK r : r.kind = "board" /\ req' = [req EXCEPT ![g] = r]
    <3>1. [IdleRequest EXCEPT !.pc = "read", !.kind = "board",
             !.source = req[g].source, !.failed = TRUE].kind = "board"
      BY DEF IdleRequest
    <3> QED
      BY <1>9, <3>1 DEF BoardCompanyFails
  <2> QED
    BY <2>1
<1>10. CASE WorkerAbandons(g)
  BY <1>10 DEF WorkerAbandons
<1> QED
  BY <1>1, <1>2, <1>3, <1>4, <1>5, <1>6, <1>7, <1>8, <1>9, <1>10
     DEF HandlerStep, HandlerFault

\* A sync is started only when no worker waits for another, and none is ever
\* adopted again.
LEMMA NextAwaitsOne ==
    ASSUME Inv, OneSyncAwaited, [Next]_vars
    PROVE  OneSyncAwaited'
<1>1. CASE UNCHANGED vars
  BY <1>1 DEF OneSyncAwaited, vars
<1>2. CASE Crash
  BY <1>2 DEF Crash, CrashRequests, OneSyncAwaited, IdleRequest
<1>3. ASSUME NEW g \in Handlers, HandlerStep(g) \/ HandlerFault(g) PROVE OneSyncAwaited'
  BY <1>3, StaysASync DEF OneSyncAwaited
<1>4. ASSUME NEW g \in Handlers, Start(g) PROVE OneSyncAwaited'
  <2>1. PICK r : req' = [req EXCEPT ![g] = r] /\ (r.kind = "sync" => NoSyncAwaited)
    <3>1. CASE \E B \in Batches, s \in AtsSources, complete \in BOOLEAN :
                  StartSync(g, s, B, complete)
      BY <3>1 DEF StartSync
    <3>2. CASE \E B \in Batches, s \in Sources : StartBoard(g, s, B)
      <4>1. PICK B, s : StartBoard(g, s, B)
        BY <3>2
      <4>2. [IdleRequest EXCEPT !.pc = "owners", !.kind = "board",
               !.source = s, !.batch = B].kind = "board"
        BY DEF IdleRequest
      <4> QED
        BY <4>1, <4>2 DEF StartBoard
    <3> QED
      BY <1>4, <3>1, <3>2 DEF Start
  <2>2. \A h \in Handlers : req'[h] = IF h = g THEN r ELSE req[h]
    BY <2>1 DEF Inv, TypeOK
  <2> QED
    BY <2>1, <2>2 DEF NoSyncAwaited, OneSyncAwaited
<1> QED
  BY <1>1, <1>2, <1>3, <1>4 DEF Next

\* A retiring sync withdraws what no batch of its own lists: a withdrawn row is
\* in the batch of another sync, and of two syncs one is abandoned.
LEMMA NextLetsListingsStay ==
    ASSUME Inv, OneSyncAwaited, [Next]_vars, NEW e \in ExtIds, NEW g \in Handlers,
           jobs[e].status = "ACTIVE", jobs'[e].status = "REMOVED",
           req[g].kind = "sync", ~req[g].orphan, e \in ExtsOf(req[g].batch)
    PROVE  \E h \in Handlers :
              req[h].orphan /\ req[h].pc = "read" /\ req'[h].pc = "finish"
<1>1. PICK h \in Handlers : RefreshOwners(h) \/ UpsertRows(h) \/ Retire(h)
  BY RowsKept
<1>2. jobs[e] \in Row
  BY DEF Inv, TypeOK, StoreTypeOK
<1>3. ~RefreshOwners(h)
  BY <1>2 DEF RefreshOwners, Row
<1>4. ASSUME UpsertRows(h) PROVE FALSE
  <2>1. jobs'[e] = IF e \in ExtsOf(req[h].chunk)
                   THEN Written(req[h].source, CHOOSE p \in req[h].chunk : p.ext = e)
                   ELSE jobs[e]
    BY <1>4 DEF UpsertRows
  <2> QED
    BY <2>1 DEF Written
<1>5. Retire(h)
  BY <1>1, <1>3, <1>4
<1>6. e \notin ExtsOf(req[h].batch)
  BY <1>5 DEF Retire, Retires
<1>7. g # h /\ req[h].kind = "sync" /\ req[h].pc = "read"
  BY <1>5, <1>6 DEF Retire
<1>8. req'[h].pc = "finish"
  BY <1>5 DEF Retire, Inv, TypeOK
<1> QED
  BY <1>7, <1>8 DEF OneSyncAwaited

\* What a sync lists while its worker waits stays on the board, whatever other
\* requests do, except for the retire statement of an abandoned sync.
THEOREM ListingsStayWhileAwaited == Spec => AwaitedListingsStay
<1>1. Init => OneSyncAwaited
  BY DEF Init, SyncInit, OneSyncAwaited, IdleRequest
<1> DEFINE Stays(e, g) ==
        (/\ jobs[e].status = "ACTIVE" /\ jobs'[e].status = "REMOVED"
         /\ req[g].kind = "sync" /\ ~req[g].orphan
         /\ e \in ExtsOf(req[g].batch)) =>
           \E h \in Handlers :
              req[h].orphan /\ req[h].pc = "read" /\ req'[h].pc = "finish"
<1>2. Inv /\ OneSyncAwaited /\ [Next]_vars =>
        [\A e \in ExtIds, g \in Handlers : Stays(e, g)]_vars
  BY NextLetsListingsStay
<1>3. Inv /\ OneSyncAwaited /\ [Next]_vars => OneSyncAwaited'
  BY NextAwaitsOne
<1> QED
  BY Invariance, <1>1, <1>2, <1>3, PTL DEF Spec, AwaitedListingsStay

-----------------------------------------------------------------------------
(***************************************************************************)
(* No row is forgotten.  The ids of the rows that wait for a vector are in *)
(* the newJobIds of the request that wrote them until it enqueues them; a  *)
(* request that has ended must not have left any behind.                   *)
(***************************************************************************)
\* What the atomic steps of JobHistory never do: delete a row.
LEMMA HistoryDeletesNothing ==
    ASSUME jobs \in [ExtIds -> Row], [History!Next]_jobs
    PROVE  \A e \in ExtIds : Exists(e) => Exists(e)'
<1> SUFFICES ASSUME NEW e \in ExtIds, Exists(e), History!Next
             PROVE  Exists(e)'
  BY DEF Exists
<1>1. ASSUME NEW s \in Sources, NEW P \in SUBSET History!Posting, History!Publish(s, P)
      PROVE  Exists(e)'
  <2>1. ASSUME NEW p \in P, p.ext = e PROVE Exists(e)'
    <3>1. jobs'[e] = [status |-> "ACTIVE", source |-> s, title |-> p.title, body |-> p.body]
      BY <1>1, <2>1 DEF History!Publish
    <3> QED
      BY <3>1 DEF Exists
  <2>2. CASE \A p \in P : p.ext # e
    BY <1>1, <2>2 DEF History!Publish, Exists
  <2> QED
    BY <2>1, <2>2
<1>2. ASSUME NEW R \in SUBSET History!Listed, History!Confirm(R) PROVE Exists(e)'
  BY <1>2 DEF History!Confirm, Exists, Row
<1>3. ASSUME NEW s \in AtsSources, NEW seen \in SUBSET ExtIds, History!Withdraw(s, seen)
      PROVE  Exists(e)'
  BY <1>3 DEF History!Withdraw, Exists, Row
<1>4. ASSUME NEW R \in SUBSET History!Listed, NEW new \in [R -> Bodies], History!Rewrite(new)
      PROVE  Exists(e)'
  BY <1>4 DEF History!Rewrite, Exists, Row
<1> QED
  BY <1>1, <1>2, <1>3, <1>4 DEF History!Next

\* What a step of a request may do to the rows, the vectors and the queue.
LEMMA RequestsAndStore ==
    ASSUME Inv, [Next]_vars
    PROVE  /\ \A e \in ExtIds : Exists(e) => Exists(e)'
           /\ \A e \in ExtIds : vector'[e] \in {None, vector[e]}
           /\ embedQueue \subseteq embedQueue'
           /\ \A n \in embedQueue' : n \in embedQueue \/ n.attempts = 0
<1>1. \A e \in ExtIds : Exists(e) => Exists(e)'
  BY NextIsHistory, HistoryDeletesNothing DEF Inv, TypeOK, StoreTypeOK
<1>2. CASE \E h \in Handlers : ClearStale(h) \/ Enqueue(h)
  BY <1>1, <1>2 DEF ClearStale, Enqueue, ClearVectors, enqueueEmbeddings
<1>3. CASE UNCHANGED <<vector, embedQueue>>
  BY <1>1, <1>3
<1>4. (\E h \in Handlers : ClearStale(h) \/ Enqueue(h)) \/ UNCHANGED <<vector, embedQueue>>
  <2>1. ASSUME NEW h \in Handlers, Start(h) \/ HandlerFault(h)
        PROVE  UNCHANGED <<vector, embedQueue>>
    BY <2>1 DEF Start, HandlerFault, StartSync, StartBoard, SyncFails, BoardCompanyFails,
         BoardFails, WorkerAbandons, storeVars
  <2>2. ASSUME NEW h \in Handlers, HandlerStep(h)
        PROVE  ClearStale(h) \/ Enqueue(h) \/ UNCHANGED <<vector, embedQueue>>
    BY <2>2 DEF HandlerStep, FindOwners, RefreshOwners, ReadBodies, UpsertRows, Retire,
         FinishSync, Settle, FinishBoard, storeVars
  <2>3. CASE Crash \/ UNCHANGED vars
    BY <2>3 DEF Crash, storeVars, vars
  <2> QED
    BY <2>1, <2>2, <2>3 DEF Next
<1> QED
  BY <1>2, <1>3, <1>4

NothingHeldIdle == \A h \in Handlers : req[h].pc = "idle" => req[h].fresh = {}

\* The rows an upsert creates join the ids of its request.
LEMMA UpsertIds ==
    ASSUME Inv, NEW h \in Handlers, UpsertRows(h)
    PROVE  /\ \A g \in Handlers : g # h => req'[g] = req[g]
           /\ req'[h].pc # "idle"
           /\ req'[h].fresh = req[h].fresh \cup Inserted(req[h])
<1> DEFINE F == req[h].fresh \cup Inserted(req[h])
           T == req[h].todo \ req[h].chunk
           R == Restale(req[h])
           pc == IF R = {} THEN "read" ELSE "clear"
<1>1. req \in [Handlers -> Request]
  BY DEF Inv, TypeOK
<1>2. req' = [req EXCEPT ![h].pc = pc, ![h].todo = T, ![h].chunk = {},
                         ![h].before = NothingRead, ![h].stale = R, ![h].fresh = F]
  BY DEF UpsertRows
<1>3. pc # "idle"
  OBVIOUS
<1> HIDE DEF F, T, R, pc
<1>4. /\ \A g \in Handlers : g # h => req'[g] = req[g]
      /\ req'[h].pc = pc /\ req'[h].fresh = F
  BY <1>1, <1>2 DEF Request
<1> QED
  BY <1>3, <1>4 DEF F

\* What a statement of a request does to the ids it holds.
LEMMA FreshIds ==
    ASSUME Inv, NEW h \in Handlers, HandlerStep(h)
    PROVE  /\ \A g \in Handlers : g # h => req'[g] = req[g]
           /\ \/ req'[h].pc # "idle" /\ req'[h].fresh = req[h].fresh
              \/ /\ UpsertRows(h) /\ req'[h].pc # "idle"
                 /\ req'[h].fresh = req[h].fresh \cup Inserted(req[h])
              \/ /\ ClearStale(h) /\ req'[h].pc # "idle"
                 /\ req'[h].fresh = req[h].fresh \cup req[h].stale
              \/ Enqueue(h) /\ req'[h].fresh = {}
<1>1. req \in [Handlers -> Request]
  BY DEF Inv, TypeOK
<1>2. CASE FindOwners(h)
  <2>1. PICK T, R : req' = [req EXCEPT ![h].pc = "refresh", ![h].todo = T, ![h].refresh = R]
    BY <1>2 DEF FindOwners
  <2> QED
    BY <1>1, <2>1 DEF Request
<1>3. CASE RefreshOwners(h)
  BY <1>1, <1>3 DEF RefreshOwners, Request
<1>4. CASE ReadBodies(h)
  BY <1>1, <1>4 DEF ReadBodies, Request
<1>5. CASE Retire(h)
  BY <1>1, <1>5 DEF Retire, Request
<1>6. CASE FinishSync(h)
  BY <1>1, <1>6 DEF FinishSync, Request
<1>7. CASE Settle(h)
  BY <1>1, <1>7 DEF Settle, Request
<1>8. CASE FinishBoard(h)
  BY <1>1, <1>8 DEF FinishBoard, Request
<1>9. CASE UpsertRows(h)
  BY <1>9, UpsertIds
<1>10. CASE ClearStale(h)
  BY <1>1, <1>10 DEF ClearStale, Request
<1>11. CASE Enqueue(h)
  BY <1>1, <1>11 DEF Enqueue, IdleRequest
<1> QED
  BY <1>2, <1>3, <1>4, <1>5, <1>6, <1>7, <1>8, <1>9, <1>10, <1>11 DEF HandlerStep

\* A request starts where none is served, and begins with no ids.
LEMMA StartIds ==
    ASSUME Inv, NEW h \in Handlers, Start(h)
    PROVE  /\ req[h].pc = "idle" /\ req'[h].pc = "owners" /\ req'[h].fresh = {}
           /\ \A g \in Handlers : g # h => req'[g] = req[g]
           /\ UNCHANGED <<jobs, vector, embedQueue, faults>>
<1>1. req \in [Handlers -> Request]
  BY DEF Inv, TypeOK
<1>2. ASSUME NEW s \in AtsSources, NEW B \in Batches, NEW complete \in BOOLEAN,
             StartSync(h, s, B, complete)
      PROVE  /\ req[h].pc = "idle" /\ req'[h].pc = "owners" /\ req'[h].fresh = {}
             /\ \A g \in Handlers : g # h => req'[g] = req[g]
             /\ UNCHANGED <<jobs, vector, embedQueue, faults>>
  BY <1>1, <1>2 DEF StartSync, IdleRequest, storeVars
<1>3. ASSUME NEW s \in Sources, NEW B \in Batches, StartBoard(h, s, B)
      PROVE  /\ req[h].pc = "idle" /\ req'[h].pc = "owners" /\ req'[h].fresh = {}
             /\ \A g \in Handlers : g # h => req'[g] = req[g]
             /\ UNCHANGED <<jobs, vector, embedQueue, faults>>
  BY <1>1, <1>3 DEF StartBoard, IdleRequest, storeVars
<1> QED
  BY <1>2, <1>3 DEF Start

\* Every failure counts, and one that leaves a request idle leaves it nothing.
LEMMA FaultIds ==
    ASSUME Inv, NEW h \in Handlers, HandlerFault(h)
    PROVE  /\ faults' = faults + 1
           /\ \A g \in Handlers : g # h => req'[g] = req[g]
           /\ \/ req'[h].fresh = {}
              \/ req'[h].pc = req[h].pc /\ req'[h].fresh = req[h].fresh
<1>1. req \in [Handlers -> Request]
  BY DEF Inv, TypeOK
<1>2. CASE SyncFails(h) \/ BoardFails(h)
  <2>1. req' = [req EXCEPT ![h] = IdleRequest] /\ faults' = faults + 1
    BY <1>2 DEF SyncFails, BoardFails
  <2> QED
    BY <1>1, <2>1 DEF IdleRequest
<1>3. CASE BoardCompanyFails(h)
  <2> DEFINE r == [IdleRequest EXCEPT !.pc = "read", !.kind = "board",
                     !.source = req[h].source, !.failed = TRUE]
  <2>1. req' = [req EXCEPT ![h] = r] /\ faults' = faults + 1
    BY <1>3 DEF BoardCompanyFails
  <2>2. r.fresh = {}
    BY DEF IdleRequest
  <2> HIDE DEF r
  <2> QED
    BY <1>1, <2>1, <2>2
<1>5. CASE WorkerAbandons(h)
  BY <1>1, <1>5 DEF WorkerAbandons, Request
<1> QED
  BY <1>2, <1>3, <1>5 DEF HandlerFault

LEMMA IdleKeepsNothing ==
    ASSUME Inv, NothingHeldIdle, [Next]_vars
    PROVE  NothingHeldIdle'
<1>1. ASSUME NEW h \in Handlers, Start(h) PROVE NothingHeldIdle'
  BY <1>1, StartIds DEF NothingHeldIdle
<1>2. ASSUME NEW h \in Handlers, HandlerFault(h) PROVE NothingHeldIdle'
  BY <1>2, FaultIds DEF NothingHeldIdle
<1>3. ASSUME NEW h \in Handlers, HandlerStep(h) PROVE NothingHeldIdle'
  <2>1. /\ \A g \in Handlers : g # h => req'[g] = req[g]
        /\ req'[h].pc # "idle" \/ req'[h].fresh = {}
    BY <1>3, FreshIds
  <2> QED
    BY <2>1 DEF NothingHeldIdle
<1>4. CASE Crash
  BY <1>4 DEF NothingHeldIdle, Crash, CrashRequests, IdleRequest
<1>5. CASE UNCHANGED vars
  BY <1>5 DEF NothingHeldIdle, vars
<1> QED
  BY <1>1, <1>2, <1>3, <1>4, <1>5 DEF Next

\* Without a failure, the ids a request holds stay with it or are enqueued, and
\* the rows that come to miss a vector are among them.
LEMMA FreshReachesQueue ==
    ASSUME Inv, NothingHeldIdle, [Next]_vars, faults' = 0, NEW e \in ExtIds,
           Exists(e)', vector'[e] = None,
           \/ ~Exists(e) \/ vector[e] # None
           \/ \E h \in Handlers : e \in req[h].fresh
    PROVE  \/ \E n \in embedQueue' : e \in n.ids
           \/ \E h \in Handlers : e \in req'[h].fresh
<1>1. faults \in Nat /\ jobs \in [ExtIds -> Row]
  BY CrawlSyncAssumption DEF Inv, TypeOK, StoreTypeOK
<1>2. ASSUME NEW h \in Handlers, Start(h) PROVE \E g \in Handlers : e \in req'[g].fresh
  <2>1. Exists(e)' = Exists(e) /\ vector' = vector
    BY <1>2, StartIds DEF Exists
  <2>2. PICK g \in Handlers : e \in req[g].fresh
    BY <2>1
  <2> QED
    BY <1>2, <2>2, StartIds DEF NothingHeldIdle
<1>3. ASSUME NEW h \in Handlers, HandlerFault(h) PROVE FALSE
  BY <1>1, <1>3, FaultIds
<1>4. ASSUME NEW h \in Handlers, HandlerStep(h)
      PROVE  \/ \E n \in embedQueue' : e \in n.ids
             \/ \E g \in Handlers : e \in req'[g].fresh
  <2>1. CASE Enqueue(h)
    <3>1. UNCHANGED <<jobs, vector>> /\ enqueueEmbeddings(req[h].fresh)
      BY <2>1 DEF Enqueue
    <3>2. PICK g \in Handlers : e \in req[g].fresh
      BY <3>1 DEF Exists
    <3>3. CASE g = h
      <4> DEFINE n == [ids |-> req[h].fresh, attempts |-> 0]
      <4>1. n \in embedQueue' /\ e \in n.ids
        BY <3>1, <3>2, <3>3 DEF enqueueEmbeddings
      <4> QED
        BY <4>1
    <3>4. CASE g # h
      BY <1>4, <3>2, <3>4, FreshIds
    <3> QED
      BY <3>3, <3>4
  <2>2. CASE ~Enqueue(h)
    <3>1. \A g \in Handlers : e \in req[g].fresh => e \in req'[g].fresh
      BY <1>4, <2>2, FreshIds
    <3>2. CASE ~Exists(e)
      <4>1. UpsertRows(h) /\ e \in ExtsOf(req[h].chunk)
        <5>1. ~RefreshOwners(h)
          BY <3>2 DEF RefreshOwners, Exists, Inv, Coherent, RefreshesRows
        <5>2. ~Retire(h)
          BY <3>2 DEF Retire, Retires, Exists
        <5>3. jobs' # jobs
          BY <3>2 DEF Exists
        <5>4. UpsertRows(h)
          BY <1>4, <2>2, <5>1, <5>2, <5>3 DEF HandlerStep, FindOwners, ReadBodies, ClearStale,
             FinishSync, Settle, FinishBoard, storeVars
        <5> QED
          BY <3>2, <5>4 DEF UpsertRows, Exists
      <4>2. e \in Inserted(req[h])
        BY <3>2, <4>1 DEF Inserted
      <4>3. req'[h].fresh = req[h].fresh \cup Inserted(req[h])
        BY <4>1, UpsertIds
      <4> QED
        BY <4>2, <4>3
    <3>3. CASE vector[e] # None
      <4>1. ClearStale(h)
        BY <1>4, <2>2, <3>3 DEF HandlerStep, FindOwners, RefreshOwners, ReadBodies, UpsertRows,
           Retire, FinishSync, Settle, FinishBoard, storeVars
      <4>2. e \in req[h].stale
        BY <3>3, <4>1 DEF ClearStale, ClearVectors
      <4>3. req'[h].fresh = req[h].fresh \cup req[h].stale
        BY <4>1 DEF ClearStale, Inv, TypeOK, Request
      <4> QED
        BY <4>2, <4>3
    <3> QED
      BY <3>1, <3>2, <3>3
  <2> QED
    BY <2>1, <2>2
<1>5. ~Crash
  BY <1>1 DEF Crash, CrashRequests
<1>6. CASE UNCHANGED vars
  BY <1>6 DEF vars, Exists
<1> QED
  BY <1>2, <1>3, <1>4, <1>5, <1>6 DEF Next

LEMMA FaultsOnlyGrow ==
    ASSUME Inv, [Next]_vars, faults' = 0
    PROVE  faults = 0
<1>1. faults \in Nat
  BY CrawlSyncAssumption DEF Inv, TypeOK
<1>2. ASSUME NEW h \in Handlers, HandlerStep(h) PROVE faults' = faults
  BY <1>2 DEF HandlerStep, FindOwners, RefreshOwners, ReadBodies, UpsertRows, ClearStale,
       Retire, FinishSync, Settle, FinishBoard, Enqueue
<1> QED
  BY <1>1, <1>2, StartIds, FaultIds DEF Next, Crash, CrashRequests, vars

\* As long as nothing fails, however the requests interleave, a row without a
\* vector is waiting in embed-jobs or with a request that will enqueue it
\* (ingest.service.ts:164-174).
THEOREM NoneForgotten == Spec => []NoRowForgotten
<1>1. Init => NothingHeldIdle /\ NoRowForgotten
  BY DEF Init, StoreInit, SyncInit, NothingHeldIdle, NoRowForgotten, IdleRequest, NoRow, Exists
<1>2. ASSUME Inv, NothingHeldIdle, NoRowForgotten, [Next]_vars
      PROVE  NoRowForgotten'
  <2> SUFFICES ASSUME faults' = 0, NEW e \in ExtIds, Exists(e)', vector'[e] = None
               PROVE  \/ \E n \in embedQueue' : e \in n.ids
                      \/ \E h \in Handlers : e \in req'[h].fresh
    BY DEF NoRowForgotten
  <2>1. faults = 0
    BY <1>2, FaultsOnlyGrow
  <2>2. embedQueue \subseteq embedQueue'
    BY <1>2, RequestsAndStore
  <2> QED
    BY <1>2, <2>1, <2>2, FreshReachesQueue DEF NoRowForgotten
<1> QED
  BY Invariance, <1>1, IdleKeepsNothing, <1>2, PTL DEF Spec

-----------------------------------------------------------------------------
(***************************************************************************)
(* One row per opening.  The code looks for owners in one statement and    *)
(* inserts in later ones; alone, a request keeps between the two that each *)
(* posting it still has to write meets no row but its own.                 *)
(***************************************************************************)
Separate(r) ==
    /\ \A p, q \in r.todo : Fp(p) = Fp(q) => p = q
    /\ \A p \in r.todo : \A e \in ExtIds :
          (Exists(e) /\ FingerprintOf(e) = Fp(p)) => e = p.ext

SerialInv ==
    /\ Inv
    /\ OneRowPerOpening
    /\ \A h \in Handlers : Separate(req[h])

\* A step that keeps titles and rows, and gives no request more to write.
LEMMA SeparateKept ==
    ASSUME SerialInv, Inv',
           \A e \in ExtIds : /\ Exists(e)' <=> Exists(e)
                             /\ jobs'[e].title = jobs[e].title,
           \A h \in Handlers : req'[h].todo \subseteq req[h].todo
    PROVE  SerialInv'
<1>1. \A e \in ExtIds : FingerprintOf(e)' = FingerprintOf(e)
  BY DEF FingerprintOf
<1>2. OneRowPerOpening'
  BY <1>1 DEF SerialInv, OneRowPerOpening
<1>3. ASSUME NEW h \in Handlers PROVE Separate(req[h])'
  BY <1>1 DEF SerialInv, Separate
<1> QED
  BY <1>2, <1>3 DEF SerialInv

LEMMA FindOwnersSerial ==
    ASSUME SerialInv, Inv', NEW h \in Handlers, FindOwners(h),
           \A g \in Handlers : g = h
    PROVE  SerialInv'
<1> PICK K \in Collapsed(req[h].batch) : \E owner \in Owners(K) :
        LET duplicates == {p \in K : owner[Fp(p)] \notin {None, p.ext}}
        IN  req' = [req EXCEPT ![h].pc = "refresh",
                      ![h].todo = K \ duplicates,
                      ![h].refresh = RefreshIds(owner, duplicates)]
  BY DEF FindOwners
<1>1. PICK owner \in Owners(K) :
        LET duplicates == {p \in K : owner[Fp(p)] \notin {None, p.ext}}
        IN  req' = [req EXCEPT ![h].pc = "refresh",
                      ![h].todo = K \ duplicates,
                      ![h].refresh = RefreshIds(owner, duplicates)]
  OBVIOUS
<1>2. /\ req \in [Handlers -> Request]
      /\ jobs' = jobs
  BY DEF FindOwners, SerialInv, Inv, TypeOK, storeVars
<1>3. \A p \in req'[h].todo : p \in K /\ owner[Fp(p)] \in {None, p.ext}
  <2> DEFINE T == K \ {p \in K : owner[Fp(p)] \notin {None, p.ext}}
             R == RefreshIds(owner, {p \in K : owner[Fp(p)] \notin {None, p.ext}})
  <2>1. req' = [req EXCEPT ![h] = [req[h] EXCEPT !.pc = "refresh", !.todo = T,
                                                 !.refresh = R]]
    BY <1>1
  <2>2. \A p \in T : p \in K /\ owner[Fp(p)] \in {None, p.ext}
    OBVIOUS
  <2> HIDE DEF T, R
  <2>3. req[h] \in Request
    BY <1>2
  <2>4. req'[h] = [req[h] EXCEPT !.pc = "refresh", !.todo = T, !.refresh = R]
    BY <1>2, <2>1
  <2>5. req'[h].todo = T
    BY <2>3, <2>4 DEF Request
  <2> QED
    BY <2>2, <2>5
<1>4. /\ K \subseteq Posting
      /\ \A p, q \in K : Fp(p) = Fp(q) => p = q
  <2>1. K \subseteq req[h].batch
    BY CollapsedProp
  <2>2. req[h].batch \subseteq Posting
    BY <1>2 DEF Request
  <2> QED
    BY <2>1, <2>2, CollapsedProp
<1>5. ASSUME NEW p \in req'[h].todo, NEW e \in ExtIds,
             Exists(e), FingerprintOf(e) = Fp(p)
      PROVE  e = p.ext
  <2> DEFINE f == Fp(p)
             rows == {d \in ExtIds : Exists(d) /\ FingerprintOf(d) = f}
  <2>1. f \in Fingerprints /\ f \in {Fp(q) : q \in K} /\ p.ext \in ExtIds
    BY <1>3, <1>4, JobStoreAssumption DEF Posting, Fp
  <2>2. e \in rows
    BY <1>5
  <2>3. owner[f] \in rows
    BY <2>1, <2>2 DEF Owners
  <2>4. owner[f] # None
    BY <2>3, JobStoreAssumption
  <2>5. p.ext \in rows
    BY <1>3, <2>3, <2>4
  <2> QED
    BY <2>2, <2>5 DEF SerialInv, OneRowPerOpening
<1>6. OneRowPerOpening'
  BY <1>2 DEF SerialInv, OneRowPerOpening, Exists, FingerprintOf
<1>7. Separate(req[h])'
  BY <1>2, <1>3, <1>4, <1>5 DEF Separate, Exists, FingerprintOf
<1> QED
  BY <1>6, <1>7 DEF SerialInv

LEMMA UpsertRowsSerial ==
    ASSUME SerialInv, Inv', NEW h \in Handlers, UpsertRows(h),
           \A g \in Handlers : g = h
    PROVE  SerialInv'
<1> DEFINE C == req[h].chunk
<1>1. /\ req \in [Handlers -> Request] /\ OnePerRow(req[h])
      /\ C \subseteq Posting /\ C \subseteq req[h].todo
  BY DEF SerialInv, Inv, TypeOK, Coherent, OnePerRow, Request
<1>2. /\ jobs' = [e \in ExtIds |->
                   IF e \in ExtsOf(C)
                   THEN Written(req[h].source, CHOOSE p \in C : p.ext = e)
                   ELSE jobs[e]]
  BY DEF UpsertRows
<1>3. req'[h].todo = req[h].todo \ C
  <2> DEFINE inserted == Inserted(req[h])
             restale == Restale(req[h])
             pc == IF restale = {} THEN "read" ELSE "clear"
             F == req[h].fresh \cup inserted
             T == req[h].todo \ C
  <2>1. req' = [req EXCEPT ![h] = [req[h] EXCEPT !.pc = pc, !.todo = T, !.chunk = {},
                   !.before = NothingRead, !.stale = restale, !.fresh = F]]
    BY DEF UpsertRows
  <2> HIDE DEF inserted, restale, pc, F, T
  <2>2. req'[h].todo = T
    BY <1>1, <2>1 DEF Request
  <2> QED
    BY <2>2 DEF T
<1>4. \A e \in ExtIds : e \notin ExtsOf(C) => jobs'[e] = jobs[e]
  BY <1>2
<1>5. ASSUME NEW e \in ExtIds, e \in ExtsOf(C)
      PROVE  \E p \in C : p.ext = e /\ FingerprintOf(e)' = Fp(p)
  <2> DEFINE p == CHOOSE q \in C : q.ext = e
  <2>1. p \in C /\ p.ext = e
    BY <1>5 DEF ExtsOf
  <2>2. jobs'[e].title = p.title
    BY <1>2, <1>5 DEF Written
  <2> HIDE DEF p
  <2> QED
    BY <2>1, <2>2 DEF FingerprintOf, Fp
<1>6. /\ \A p, q \in req[h].todo : Fp(p) = Fp(q) => p = q
      /\ \A p \in req[h].todo : \A e \in ExtIds :
           (Exists(e) /\ FingerprintOf(e) = Fp(p)) => e = p.ext
  BY DEF SerialInv, Separate
<1>7. OneRowPerOpening'
  <2> SUFFICES ASSUME NEW d \in ExtIds, NEW e \in ExtIds, Exists(d)', Exists(e)',
                      FingerprintOf(d)' = FingerprintOf(e)'
               PROVE  d = e
    BY DEF OneRowPerOpening
  <2>1. CASE d \in ExtsOf(C) /\ e \in ExtsOf(C)
    BY <1>1, <1>5, <1>6, <2>1
  <2>2. CASE d \in ExtsOf(C) /\ e \notin ExtsOf(C)
    <3>1. Exists(e) /\ FingerprintOf(e)' = FingerprintOf(e)
      BY <1>4, <2>2 DEF Exists, FingerprintOf
    <3> QED
      BY <1>1, <1>5, <1>6, <2>2, <3>1
  <2>3. CASE d \notin ExtsOf(C) /\ e \in ExtsOf(C)
    <3>1. Exists(d) /\ FingerprintOf(d)' = FingerprintOf(d)
      BY <1>4, <2>3 DEF Exists, FingerprintOf
    <3> QED
      BY <1>1, <1>5, <1>6, <2>3, <3>1
  <2>4. CASE d \notin ExtsOf(C) /\ e \notin ExtsOf(C)
    BY <1>4, <2>4 DEF SerialInv, OneRowPerOpening, Exists, FingerprintOf
  <2> QED
    BY <2>1, <2>2, <2>3, <2>4
<1>8. Separate(req[h])'
  <2>1. ASSUME NEW p \in req'[h].todo, NEW e \in ExtIds, Exists(e)',
               FingerprintOf(e)' = Fp(p)
        PROVE  e = p.ext
    <3>1. e \notin ExtsOf(C)
      BY <1>1, <1>3, <1>5, <1>6, <2>1
    <3>2. Exists(e) /\ FingerprintOf(e) = Fp(p)
      BY <1>4, <2>1, <3>1 DEF Exists, FingerprintOf
    <3> QED
      BY <1>3, <1>6, <3>2
  <2>2. \A p, q \in req'[h].todo : Fp(p) = Fp(q) => p = q
    BY <1>3, <1>6
  <2> QED
    BY <2>1, <2>2 DEF Separate, Exists, FingerprintOf, Fp
<1> QED
  BY <1>7, <1>8 DEF SerialInv

\* What the other steps do to the rows and to what is left to write.
LEMMA OtherStepsSerial ==
    ASSUME SerialInv, [Next]_vars,
           \A h \in Handlers : ~FindOwners(h) /\ ~UpsertRows(h)
    PROVE  /\ \A e \in ExtIds : /\ Exists(e)' <=> Exists(e)
                                /\ jobs'[e].title = jobs[e].title
           /\ \A h \in Handlers : req'[h].todo \subseteq req[h].todo
<1>1. req \in [Handlers -> Request] /\ jobs \in [ExtIds -> Row]
  BY DEF SerialInv, Inv, TypeOK, StoreTypeOK
<1>2. ASSUME NEW e \in ExtIds
      PROVE  /\ Exists(e)' <=> Exists(e)
             /\ jobs'[e].title = jobs[e].title
  <2>1. CASE jobs' = jobs
    BY <2>1 DEF Exists
  <2>2. ASSUME NEW h \in Handlers, RefreshOwners(h)
        PROVE  /\ Exists(e)' <=> Exists(e)
               /\ jobs'[e].title = jobs[e].title
    <3>1. e \in req[h].refresh => Exists(e)
      BY DEF SerialInv, Inv, Coherent, RefreshesRows
    <3> QED
      BY <1>1, <2>2, <3>1 DEF RefreshOwners, Row, Exists
  <2>3. ASSUME NEW h \in Handlers, Retire(h)
        PROVE  /\ Exists(e)' <=> Exists(e)
               /\ jobs'[e].title = jobs[e].title
    BY <1>1, <2>3 DEF Retire, Retires, Row, Exists
  <2> QED
    BY <2>1, <2>2, <2>3, RowsKept
<1>3. ASSUME NEW g \in Handlers
      PROVE  req'[g].todo \subseteq req[g].todo
  <2> DEFINE Keeps == req'[g].todo \subseteq req[g].todo
  <2>1. ASSUME NEW h \in Handlers, NEW r, req' = [req EXCEPT ![h] = r],
               r.todo \in SUBSET req[h].todo
        PROVE  Keeps
    BY <1>1, <2>1
  <2>2. ASSUME NEW h \in Handlers, Start(h) PROVE Keeps
    <3>1. ASSUME NEW B, NEW s, NEW c, StartSync(h, s, B, c) PROVE Keeps
      <4>1. req' = [req EXCEPT ![h] = [IdleRequest EXCEPT !.pc = "owners",
                      !.kind = "sync", !.source = s, !.batch = B, !.complete = c]]
        BY <3>1 DEF StartSync
      <4> QED BY <2>1, <4>1 DEF IdleRequest
    <3>2. ASSUME NEW B, NEW s, StartBoard(h, s, B) PROVE Keeps
      <4>1. req' = [req EXCEPT ![h] = [IdleRequest EXCEPT !.pc = "owners",
                      !.kind = "board", !.source = s, !.batch = B]]
        BY <3>2 DEF StartBoard
      <4> QED BY <2>1, <4>1 DEF IdleRequest
    <3> HIDE DEF Keeps
    <3> QED
      BY <2>2, <3>1, <3>2 DEF Start
  <2>3. ASSUME NEW h \in Handlers, HandlerStep(h) PROVE Keeps
    <3>1. req[h] \in Request
      BY <1>1
    <3>2. CASE RefreshOwners(h)
      <4>1. req' = [req EXCEPT ![h] = [req[h] EXCEPT !.pc = "read"]]
        BY <3>2 DEF RefreshOwners
      <4> QED BY <2>1, <3>1, <4>1 DEF Request
    <3>3. CASE ReadBodies(h)
      <4>1. PICK C \in SUBSET req[h].todo :
               req' = [req EXCEPT ![h].pc = "upsert", ![h].chunk = C,
                         ![h].before = [e \in ExtIds |->
                              IF e \in ExtsOf(C) THEN jobs[e].body ELSE None]]
        BY <3>3 DEF ReadBodies
      <4> DEFINE M == [e \in ExtIds |-> IF e \in ExtsOf(C) THEN jobs[e].body ELSE None]
      <4>2. req' = [req EXCEPT ![h] = [req[h] EXCEPT !.pc = "upsert", !.chunk = C,
                                                     !.before = M]]
        BY <4>1
      <4> HIDE DEF M
      <4> QED BY <2>1, <3>1, <4>2 DEF Request
    <3>4. CASE ClearStale(h)
      <4>1. PICK F : req' = [req EXCEPT ![h] = [req[h] EXCEPT !.pc = "read",
                               !.stale = {}, !.fresh = F]]
        BY <3>4 DEF ClearStale
      <4> QED BY <2>1, <3>1, <4>1 DEF Request
    <3>5. CASE Retire(h) \/ FinishSync(h) \/ Settle(h) \/ FinishBoard(h)
      <4>1. PICK pc : req' = [req EXCEPT ![h] = [req[h] EXCEPT !.pc = pc]]
        BY <3>5 DEF Retire, FinishSync, Settle, FinishBoard
      <4> QED BY <2>1, <3>1, <4>1 DEF Request
    <3>6. CASE Enqueue(h)
      BY <2>1, <3>6 DEF Enqueue, IdleRequest
    <3> QED
      BY <2>3, <3>2, <3>3, <3>4, <3>5, <3>6 DEF HandlerStep
  <2>4. ASSUME NEW h \in Handlers, HandlerFault(h) PROVE Keeps
    <3>1. CASE SyncFails(h) \/ BoardFails(h)
      BY <2>1, <3>1 DEF SyncFails, BoardFails, IdleRequest
    <3>2. CASE BoardCompanyFails(h)
      BY <2>1, <3>2 DEF BoardCompanyFails, IdleRequest
    <3>3. CASE WorkerAbandons(h)
      <4>1. req' = [req EXCEPT ![h] = [req[h] EXCEPT !.orphan = TRUE]]
        BY <3>3 DEF WorkerAbandons
      <4> QED BY <1>1, <2>1, <4>1 DEF Request
    <3> QED
      BY <2>4, <3>1, <3>2, <3>3 DEF HandlerFault
  <2>5. CASE Crash
    BY <1>1, <2>5 DEF Crash, CrashRequests, IdleRequest
  <2>6. CASE UNCHANGED vars
    BY <2>6 DEF vars
  <2> QED
    BY <2>2, <2>3, <2>4, <2>5, <2>6 DEF Next
<1> QED
  BY <1>2, <1>3

\* While the API serves one request at a time, an opening never has two rows,
\* however the sources word, order, repeat or renumber it (job-fingerprint.ts:
\* 4-8): the read in FindOwners and the inserts of UpsertRows are then as good as
\* one statement.  With two requests at a time a run shows the opposite.
THEOREM OneRowWhenSerial ==
    ASSUME \A g, h \in Handlers : g = h
    PROVE  Spec => []OneRowPerOpening
<1>1. Init => SerialInv
  <2> SUFFICES ASSUME Init PROVE SerialInv
    OBVIOUS
  <2>1. OneRowPerOpening
    BY DEF Init, StoreInit, OneRowPerOpening, Exists, NoRow
  <2>2. \A h \in Handlers : Separate(req[h])
    BY DEF Init, SyncInit, Separate, IdleRequest
  <2> QED
    BY <2>1, <2>2, InitInv DEF SerialInv
<1>2. SerialInv /\ [Next]_vars /\ Inv' => SerialInv'
  BY FindOwnersSerial, UpsertRowsSerial, OtherStepsSerial, SeparateKept
<1> QED
  BY Invariance, <1>1, <1>2, PTL DEF Spec, SerialInv

-----------------------------------------------------------------------------
(***************************************************************************)
(* What the crawl listed is shown.  Once the batch is collapsed, each      *)
(* opening it lists is still to be written, or a row of the source shows   *)
(* it that no later chunk writes again and no retirement may touch.  T     *)
(* stands for the table jobs, r for the request.                           *)
(***************************************************************************)
Shown(T, r, e) == T[e].status = "ACTIVE" /\ T[e].source = r.source

Collapses(r) == r.pc \in {"idle", "owners"}

Done(r) == r.pc \in {"finish", "settle", "enqueue"}

WrittenOrTodo(T, r, q) ==
    \/ \E k \in r.todo : Fp(k) = Fp(q)
    \/ \E e \in ExtsOf(r.batch) \ ExtsOf(r.todo) :
           Shown(T, r, e) /\ jobFingerprint[T[e].title] = Fp(q)

Lists(T, r) ==
    \A p \in r.batch : \E q \in r.batch : q.ext = p.ext /\ WrittenOrTodo(T, r, q)

Shows(T, r) ==
    /\ r.todo \subseteq r.batch
    /\ Done(r) => r.todo = {}
    /\ (~Collapses(r) /\ r.refresh = {}) => Lists(T, r)
    /\ (Done(r) /\ r.kind = "sync" /\ MayRetire(r)) =>
           \A e \in ExtIds : Shown(T, r, e) => e \in ExtsOf(r.batch)

ShowInv == \A h \in Handlers : Shows(jobs, req[h])

SameCrawl(r, s) ==
    /\ s.kind = r.kind /\ s.source = r.source /\ s.batch = r.batch
    /\ s.complete = r.complete /\ s.refresh = r.refresh /\ s.todo = r.todo

\* A statement beside the collapse and the upsert that takes r to s and the
\* table T to U: what had to be shown is shown still.
LEMMA KeepsShowing ==
    ASSUME NEW T, NEW U, NEW r, NEW s, r.batch \subseteq Posting,
           Shows(T, r), SameCrawl(r, s), Collapses(r) => Collapses(s),
           Done(s) => Done(r) \/ r.todo = {},
           \A e \in ExtIds : U[e].title = T[e].title,
           \A e \in ExtsOf(r.batch) :
               (r.refresh = {} /\ Shown(T, r, e)) => Shown(U, r, e),
           (Done(s) /\ r.kind = "sync" /\ MayRetire(r)) =>
               \A e \in ExtIds : Shown(U, r, e) => e \in ExtsOf(r.batch)
    PROVE  Shows(U, s)
<1>1. /\ s.kind = r.kind /\ s.source = r.source /\ s.batch = r.batch
      /\ s.complete = r.complete /\ s.refresh = r.refresh /\ s.todo = r.todo
  BY DEF SameCrawl
<1>2. \A e : Shown(U, s, e) <=> Shown(U, r, e)
  BY <1>1 DEF Shown
<1>3. ExtsOf(r.batch) \subseteq ExtIds
  BY DEF ExtsOf, Posting
<1>4. ASSUME ~Collapses(s), s.refresh = {} PROVE Lists(U, s)
  <2>1. Lists(T, r) /\ r.refresh = {}
    BY <1>1, <1>4 DEF Shows
  <2>2. ASSUME NEW q, WrittenOrTodo(T, r, q) PROVE WrittenOrTodo(U, s, q)
    <3>1. CASE \E k \in r.todo : Fp(k) = Fp(q)
      BY <1>1, <3>1 DEF WrittenOrTodo
    <3>2. CASE \E e \in ExtsOf(r.batch) \ ExtsOf(r.todo) :
                  Shown(T, r, e) /\ jobFingerprint[T[e].title] = Fp(q)
      <4>1. PICK e \in ExtsOf(r.batch) \ ExtsOf(r.todo) :
               Shown(T, r, e) /\ jobFingerprint[T[e].title] = Fp(q)
        BY <3>2
      <4>2. Shown(U, s, e) /\ jobFingerprint[U[e].title] = Fp(q)
        BY <1>2, <1>3, <2>1, <4>1
      <4>3. e \in ExtsOf(s.batch) \ ExtsOf(s.todo)
        BY <1>1
      <4> QED
        BY <4>2, <4>3 DEF WrittenOrTodo
    <3> QED
      BY <2>2, <3>1, <3>2 DEF WrittenOrTodo
  <2> QED
    BY <1>1, <2>1, <2>2 DEF Lists
<1>5. s.todo \subseteq s.batch /\ (Done(s) => s.todo = {})
  BY <1>1 DEF Shows
<1>6. ASSUME Done(s), s.kind = "sync", MayRetire(s), NEW e \in ExtIds, Shown(U, s, e)
      PROVE  e \in ExtsOf(s.batch)
  BY <1>1, <1>2, <1>6 DEF MayRetire
<1> QED
  BY <1>4, <1>5, <1>6 DEF Shows

\* The statements that neither collapse the batch nor write a chunk of it.
LEMMA CrawlKept ==
    ASSUME Inv, NEW h \in Handlers,
           \/ RefreshOwners(h) \/ ReadBodies(h) \/ ClearStale(h) \/ Retire(h) \/ FinishSync(h)
           \/ Settle(h) \/ FinishBoard(h) \/ WorkerAbandons(h)
    PROVE  /\ SameCrawl(req[h], req'[h])
           /\ Collapses(req[h]) => Collapses(req'[h])
           /\ Done(req'[h]) =>
                 \/ Done(req[h])
                 \/ Retire(h) /\ req[h].todo = {}
                 \/ FinishBoard(h) /\ req[h].todo = {} /\ req[h].kind = "board"
<1>1. req \in [Handlers -> Request] /\ req[h] \in Request
  BY DEF Inv, TypeOK
<1>3. CASE RefreshOwners(h)
  <2>1. req'[h] = [req[h] EXCEPT !.pc = "read"]
    BY <1>1, <1>3 DEF RefreshOwners
  <2> QED
    BY <1>1, <1>3, <2>1 DEF RefreshOwners, SameCrawl, Collapses, Done, Request
<1>4. CASE Retire(h)
  <2>1. req'[h] = [req[h] EXCEPT !.pc = "finish"]
    BY <1>1, <1>4 DEF Retire
  <2> QED
    BY <1>1, <1>4, <2>1 DEF Retire, SameCrawl, Collapses, Done, Request
<1>5. CASE FinishSync(h)
  <2>1. req'[h] = [req[h] EXCEPT !.pc = "settle"]
    BY <1>1, <1>5 DEF FinishSync
  <2> QED
    BY <1>1, <1>5, <2>1 DEF FinishSync, SameCrawl, Collapses, Done, Request
<1>6. CASE Settle(h)
  <2>1. req'[h] = [req[h] EXCEPT !.pc = "enqueue"]
    BY <1>1, <1>6 DEF Settle
  <2> QED
    BY <1>1, <1>6, <2>1 DEF Settle, SameCrawl, Collapses, Done, Request
<1>7. CASE FinishBoard(h)
  <2>1. req'[h] = [req[h] EXCEPT !.pc = "enqueue"]
    BY <1>1, <1>7 DEF FinishBoard
  <2> QED
    BY <1>1, <1>7, <2>1 DEF FinishBoard, SameCrawl, Collapses, Done, Request
<1>8. CASE WorkerAbandons(h)
  <2>1. req'[h] = [req[h] EXCEPT !.orphan = TRUE]
    BY <1>1, <1>8 DEF WorkerAbandons
  <2> QED
    BY <1>1, <1>8, <2>1 DEF WorkerAbandons, SameCrawl, Collapses, Done, Request
<1>9. CASE ReadBodies(h)
  <2>1. PICK C \in SUBSET req[h].todo :
           req' = [req EXCEPT ![h].pc = "upsert", ![h].chunk = C,
                     ![h].before = [e \in ExtIds |->
                          IF e \in ExtsOf(C) THEN jobs[e].body ELSE None]]
    BY <1>9 DEF ReadBodies
  <2> DEFINE M == [e \in ExtIds |-> IF e \in ExtsOf(C) THEN jobs[e].body ELSE None]
  <2>2. req'[h] = [req[h] EXCEPT !.pc = "upsert", !.chunk = C, !.before = M]
    BY <1>1, <2>1
  <2> HIDE DEF M
  <2> QED
    BY <1>1, <1>9, <2>2 DEF ReadBodies, SameCrawl, Collapses, Done, Request
<1>10. CASE ClearStale(h)
  <2>1. PICK F : req'[h] = [req[h] EXCEPT !.pc = "read", !.stale = {}, !.fresh = F]
    BY <1>1, <1>10 DEF ClearStale
  <2> QED
    BY <1>1, <1>10, <2>1 DEF ClearStale, SameCrawl, Collapses, Done, Request
<1> QED
  BY <1>3, <1>4, <1>5, <1>6, <1>7, <1>8, <1>9, <1>10

\* A request that begins, or ends, lists nothing it must show.
LEMMA NothingToShow ==
    ASSUME Inv, NEW h \in Handlers,
           Start(h) \/ Enqueue(h) \/ SyncFails(h) \/ BoardFails(h) \/ BoardCompanyFails(h) \/ Crash
    PROVE  Shows(jobs, req[h])'
<1>1. req \in [Handlers -> Request]
  BY DEF Inv, TypeOK
<1>2. ASSUME NEW r, req'[h] = r, r.todo = {}, ~Done(r), Collapses(r) \/ r.batch = {}
      PROVE  Shows(jobs, req[h])'
  BY <1>2 DEF Shows, Lists, Done, Collapses
<1>3. ASSUME Enqueue(h) \/ SyncFails(h) \/ BoardFails(h) \/ Crash PROVE Shows(jobs, req[h])'
  <2>1. req'[h] = IdleRequest
    BY <1>1, <1>3 DEF Enqueue, SyncFails, BoardFails, Crash, CrashRequests
  <2>2. IdleRequest.todo = {} /\ IdleRequest.pc = "idle"
    BY DEF IdleRequest
  <2> QED
    BY <1>2, <2>1, <2>2 DEF Done, Collapses
<1>4. CASE BoardCompanyFails(h)
  <2>1. req'[h] = [IdleRequest EXCEPT !.pc = "read", !.kind = "board",
                     !.source = req[h].source, !.failed = TRUE]
    BY <1>1, <1>4 DEF BoardCompanyFails
  <2> QED
    BY <1>2, <2>1 DEF IdleRequest, Done
<1>5. ASSUME NEW s \in AtsSources, NEW B \in Batches, NEW complete \in BOOLEAN,
             StartSync(h, s, B, complete)
      PROVE  Shows(jobs, req[h])'
  <2>1. req'[h] = [IdleRequest EXCEPT !.pc = "owners", !.kind = "sync", !.source = s,
                     !.batch = B, !.complete = complete]
    BY <1>1, <1>5 DEF StartSync
  <2> QED
    BY <1>2, <2>1 DEF IdleRequest, Done, Collapses
<1>6. ASSUME NEW s \in Sources, NEW B \in Batches, StartBoard(h, s, B) PROVE Shows(jobs, req[h])'
  <2>1. req'[h] = [IdleRequest EXCEPT !.pc = "owners", !.kind = "board", !.source = s, !.batch = B]
    BY <1>1, <1>6 DEF StartBoard
  <2> QED
    BY <1>2, <2>1 DEF IdleRequest, Done, Collapses
<1> QED
  BY <1>3, <1>4, <1>5, <1>6 DEF Start

\* An upsert moves the postings of its chunk from toUpsert to rows that no later
\* chunk writes: no two postings of toUpsert are for the same row.
LEMMA UpsertShows ==
    ASSUME NEW T, NEW U, NEW r, NEW s, NEW C \in SUBSET r.todo, r.batch \subseteq Posting,
           Shows(T, r), ~Collapses(r), \A p, q \in r.todo : p.ext = q.ext => p = q,
           ~Done(s), s.source = r.source, s.batch = r.batch, s.refresh = r.refresh,
           s.todo = r.todo \ C,
           \A e \in ExtIds : U[e] = IF e \in ExtsOf(C)
                                   THEN Written(r.source, CHOOSE p \in C : p.ext = e)
                                   ELSE T[e]
    PROVE  Shows(U, s)
<1>1. r.todo \subseteq r.batch /\ ExtsOf(r.batch) \subseteq ExtIds
  BY DEF Shows, ExtsOf, Posting
<1>2. ASSUME s.refresh = {} PROVE Lists(U, s)
  <2>1. Lists(T, r)
    BY <1>2 DEF Shows
  <2>2. ASSUME NEW q, WrittenOrTodo(T, r, q) PROVE WrittenOrTodo(U, s, q)
    <3>1. ASSUME NEW k \in C, Fp(k) = Fp(q) PROVE WrittenOrTodo(U, s, q)
      <4>1. k.ext \in ExtIds /\ k.ext \in ExtsOf(C) /\ k.ext \in ExtsOf(s.batch)
        BY <1>1 DEF ExtsOf
      <4>2. (CHOOSE p \in C : p.ext = k.ext) = k
        OBVIOUS
      <4>3. U[k.ext] = Written(r.source, k)
        BY <4>1, <4>2
      <4>4. k.ext \notin ExtsOf(s.todo)
        BY DEF ExtsOf
      <4>5. Shown(U, s, k.ext) /\ jobFingerprint[U[k.ext].title] = Fp(q)
        BY <3>1, <4>3 DEF Shown, Written, Fp
      <4> QED
        BY <4>1, <4>4, <4>5 DEF WrittenOrTodo
    <3>2. ASSUME NEW e \in ExtsOf(r.batch) \ ExtsOf(r.todo), Shown(T, r, e),
                 jobFingerprint[T[e].title] = Fp(q)
          PROVE  WrittenOrTodo(U, s, q)
      <4>1. e \in ExtsOf(s.batch) \ ExtsOf(s.todo) /\ e \notin ExtsOf(C)
        BY DEF ExtsOf
      <4>2. U[e] = T[e]
        BY <1>1, <4>1
      <4>3. Shown(U, s, e) /\ jobFingerprint[U[e].title] = Fp(q)
        BY <3>2, <4>2 DEF Shown
      <4> QED
        BY <4>1, <4>3 DEF WrittenOrTodo
    <3>3. ASSUME NEW k \in r.todo \ C, Fp(k) = Fp(q) PROVE WrittenOrTodo(U, s, q)
      BY <3>3 DEF WrittenOrTodo
    <3> QED
      BY <2>2, <3>1, <3>2, <3>3 DEF WrittenOrTodo
  <2> QED
    BY <2>1, <2>2 DEF Lists
<1> QED
  BY <1>1, <1>2 DEF Shows

\* The collapse keeps, for each externalId, a posting whose opening it keeps.
LEMMA FindOwnersShows ==
    ASSUME Inv, NEW h \in Handlers, FindOwners(h)
    PROVE  Shows(jobs, req[h])'
<1> DEFINE r == req[h]
           s == req'[h]
<1>1. req \in [Handlers -> Request] /\ r \in Request
  BY DEF Inv, TypeOK
<1>2. PICK K \in Collapsed(r.batch) : \E owner \in Owners(K) :
         LET duplicates == {p \in K : owner[Fp(p)] \notin {None, p.ext}}
         IN  req' = [req EXCEPT ![h].pc = "refresh", ![h].todo = K \ duplicates,
                       ![h].refresh = RefreshIds(owner, duplicates)]
  BY DEF FindOwners
<1>3. PICK owner \in Owners(K) :
         LET duplicates == {p \in K : owner[Fp(p)] \notin {None, p.ext}}
         IN  req' = [req EXCEPT ![h].pc = "refresh", ![h].todo = K \ duplicates,
                       ![h].refresh = RefreshIds(owner, duplicates)]
  BY <1>2
<1> DEFINE duplicates == {p \in K : owner[Fp(p)] \notin {None, p.ext}}
           ids == RefreshIds(owner, duplicates)
<1>4. s = [r EXCEPT !.pc = "refresh", !.todo = K \ duplicates, !.refresh = ids]
  BY <1>1, <1>3
<1>5. s.pc = "refresh" /\ s.todo = K \ duplicates /\ s.refresh = ids /\ s.batch = r.batch
  <2> HIDE DEF ids, duplicates
  <2> QED BY <1>1, <1>4 DEF Request
<1>6. s.refresh = {} => s.todo = K
  BY <1>5 DEF RefreshIds
<1>7. PICK D \in FirstPerExt(r.batch) : K \in FirstPerFingerprint(D)
  BY DEF Collapsed
<1>8. K \subseteq D /\ D \subseteq r.batch
  BY <1>7 DEF FirstPerExt, FirstPerFingerprint
<1>9. ASSUME s.refresh = {}, NEW p \in s.batch
      PROVE  \E q \in s.batch : q.ext = p.ext /\ WrittenOrTodo(jobs', s, q)
  <2>1. PICK q \in D : q.ext = p.ext
    BY <1>5, <1>7 DEF FirstPerExt
  <2>2. PICK k \in K : Fp(k) = Fp(q)
    BY <1>7 DEF FirstPerFingerprint
  <2> QED
    BY <1>5, <1>6, <1>8, <1>9, <2>1, <2>2 DEF WrittenOrTodo
<1>10. s.todo \subseteq s.batch /\ ~Done(s)
  BY <1>5, <1>8 DEF Done
<1> HIDE DEF s, r
<1>11. Shows(jobs', s)
  BY <1>9, <1>10 DEF Shows, Lists
<1> QED
  BY <1>11 DEF s

LEMMA UpsertRowsShows ==
    ASSUME Inv, NEW h \in Handlers, UpsertRows(h), Shows(jobs, req[h])
    PROVE  Shows(jobs, req[h])'
<1> DEFINE r == req[h]
           s == req'[h]
           C == r.chunk
           restale == Restale(r)
           pc == IF restale = {} THEN "read" ELSE "clear"
           fresh == r.fresh \cup Inserted(r)
<1>1. req \in [Handlers -> Request] /\ r \in Request /\ OnePerRow(r)
  BY DEF Inv, TypeOK, Coherent
<1>2. s = [r EXCEPT !.pc = pc, !.todo = @ \ C, !.chunk = {}, !.before = NothingRead,
             !.stale = restale, !.fresh = fresh]
  BY <1>1 DEF UpsertRows
<1>3. /\ s.pc \in {"read", "clear"} /\ s.todo = r.todo \ C /\ s.source = r.source
      /\ s.batch = r.batch /\ s.refresh = r.refresh
  <2>1. pc \in {"read", "clear"}
    OBVIOUS
  <2> HIDE DEF pc, fresh, restale
  <2> QED BY <1>1, <1>2, <2>1 DEF Request
<1>4. jobs' = [e \in ExtIds |-> IF e \in ExtsOf(C)
                                THEN Written(r.source, CHOOSE p \in C : p.ext = e)
                                ELSE jobs[e]]
  BY DEF UpsertRows
<1>5. /\ C \in SUBSET r.todo /\ r.batch \subseteq Posting
      /\ \A p, q \in r.todo : p.ext = q.ext => p = q
      /\ r.pc = "upsert"
  BY <1>1 DEF OnePerRow, Request, UpsertRows
<1>6. ~Collapses(r) /\ ~Done(s)
  BY <1>3, <1>5 DEF Collapses, Done
<1>7. Shows(jobs, r)
  OBVIOUS
<1> HIDE DEF r, s, C, restale, pc, fresh
<1>8. Shows(jobs', s)
  BY <1>3, <1>4, <1>5, <1>6, <1>7, UpsertShows
<1> QED
  BY <1>8 DEF s

\* The other statements change no title; the refresh of no row changes nothing,
\* and a retirement touches only rows the crawl did not list.
LEMMA OtherStatementsShow ==
    ASSUME Inv, NEW h \in Handlers, Shows(jobs, req[h]),
           \/ RefreshOwners(h) \/ ReadBodies(h) \/ ClearStale(h) \/ Retire(h) \/ FinishSync(h)
           \/ Settle(h) \/ FinishBoard(h) \/ WorkerAbandons(h)
    PROVE  Shows(jobs, req[h])'
<1> DEFINE r == req[h]
           s == req'[h]
<1>1. /\ SameCrawl(r, s)
      /\ Collapses(r) => Collapses(s)
      /\ Done(s) => \/ Done(r)
                    \/ Retire(h) /\ r.todo = {}
                    \/ FinishBoard(h) /\ r.todo = {} /\ r.kind = "board"
  BY CrawlKept
<1>2. r \in Request /\ jobs \in [ExtIds -> Row]
  BY DEF Inv, TypeOK, StoreTypeOK
<1>3. r.batch \subseteq Posting
  BY <1>2 DEF Request
<1>4. ASSUME \A e \in ExtIds : jobs'[e].title = jobs[e].title,
             \A e \in ExtsOf(r.batch) :
                 (r.refresh = {} /\ Shown(jobs, r, e)) => Shown(jobs', r, e),
             (Done(s) /\ r.kind = "sync" /\ MayRetire(r)) =>
                 \A e \in ExtIds : Shown(jobs', r, e) => e \in ExtsOf(r.batch)
      PROVE  Shows(jobs, req[h])'
  <2>1. Shows(jobs, r) /\ (Done(s) => Done(r) \/ r.todo = {})
    BY <1>1
  <2> HIDE DEF r, s
  <2>2. Shows(jobs', s)
    BY <1>1, <1>3, <1>4, <2>1, KeepsShowing
  <2> QED
    BY <2>2 DEF s
<1>5. CASE RefreshOwners(h)
  <2>1. r.pc = "refresh" /\ ~Done(r) /\ ~Retire(h) /\ ~FinishBoard(h)
    BY <1>5 DEF RefreshOwners, Done, Retire, FinishBoard
  <2>2. \A e \in ExtIds : jobs'[e] = IF e \in r.refresh
                                    THEN [jobs[e] EXCEPT !.status = "ACTIVE"] ELSE jobs[e]
    BY <1>5 DEF RefreshOwners
  <2>3. \A e \in ExtIds : jobs'[e].title = jobs[e].title
    BY <1>2, <2>2 DEF Row
  <2>4. ExtsOf(r.batch) \subseteq ExtIds
    BY <1>3 DEF ExtsOf, Posting
  <2>5. \A e \in ExtsOf(r.batch) :
           (r.refresh = {} /\ Shown(jobs, r, e)) => Shown(jobs', r, e)
    BY <2>2, <2>4 DEF Shown
  <2> QED
    BY <1>1, <1>4, <2>1, <2>3, <2>5
<1>6. CASE Retire(h)
  <2>1. \A e \in ExtIds : jobs'[e] = IF Retires(r, e)
                                    THEN [jobs[e] EXCEPT !.status = "REMOVED"] ELSE jobs[e]
    BY <1>6 DEF Retire
  <2>2. \A e \in ExtIds : jobs'[e].title = jobs[e].title
    BY <1>2, <2>1 DEF Row
  <2>3. ExtsOf(r.batch) \subseteq ExtIds
    BY <1>3 DEF ExtsOf, Posting
  <2>4. \A e \in ExtsOf(r.batch) :
           (r.refresh = {} /\ Shown(jobs, r, e)) => Shown(jobs', r, e)
    BY <2>1, <2>3 DEF Shown, Retires
  <2>5. ASSUME MayRetire(r), NEW e \in ExtIds, Shown(jobs', r, e) PROVE e \in ExtsOf(r.batch)
    <3>1. CASE Retires(r, e)
      <4>1. jobs'[e].status = "REMOVED"
        BY <1>2, <2>1, <3>1 DEF Row
      <4> QED
        BY <2>5, <4>1 DEF Shown
    <3>2. CASE ~Retires(r, e)
      BY <2>1, <2>5, <3>2 DEF Shown, Retires
    <3> QED
      BY <3>1, <3>2
  <2> QED
    BY <1>4, <2>2, <2>4, <2>5
<1>7. CASE /\ ~Retire(h)
           /\ \/ ReadBodies(h) \/ ClearStale(h) \/ FinishSync(h) \/ Settle(h) \/ FinishBoard(h)
              \/ WorkerAbandons(h)
  <2>1. jobs' = jobs
    BY <1>7 DEF ReadBodies, ClearStale, FinishSync, Settle, FinishBoard, WorkerAbandons, storeVars
  <2>2. Done(s) => Done(r) \/ r.kind = "board"
    BY <1>1, <1>7
  <2>3. (Done(s) /\ r.kind = "sync" /\ MayRetire(r)) =>
           \A e \in ExtIds : Shown(jobs, r, e) => e \in ExtsOf(r.batch)
    BY <2>2 DEF Shows
  <2> QED
    BY <1>4, <2>1, <2>3
<1> QED
  BY <1>5, <1>6, <1>7

\* Without overlap only the one request changes a row, so the board shows, from
\* the collapse to the end of the request, what the crawl listed.
LEMMA NextShows ==
    ASSUME \A g, h \in Handlers : g = h, Inv, ShowInv, [Next]_vars
    PROVE  ShowInv'
<1> SUFFICES ASSUME NEW h \in Handlers PROVE Shows(jobs, req[h])'
  BY DEF ShowInv
<1>1. Shows(jobs, req[h])
  BY DEF ShowInv
<1>2. CASE UNCHANGED vars
  BY <1>1, <1>2 DEF vars
<1>3. CASE Crash
  BY <1>3, NothingToShow
<1>4. ASSUME NEW g \in Handlers, Start(g) \/ HandlerStep(g) \/ HandlerFault(g)
      PROVE  Shows(jobs, req[h])'
  <2>1. g = h
    OBVIOUS
  <2> QED
    BY <1>1, <1>4, <2>1, NothingToShow, FindOwnersShows, UpsertRowsShows, OtherStatementsShow
       DEF HandlerStep, HandlerFault
<1> QED
  BY <1>2, <1>3, <1>4 DEF Next

\* When requests do not overlap, a crawl whose postings own their fingerprints
\* ends with one of its openings on the board for each externalId it listed,
\* and, when it may retire, with no other row of its source there.
THEOREM BoardShownWhenSerial ==
    ASSUME \A g, h \in Handlers : g = h
    PROVE  Spec => []BoardShowsTheCrawl
<1>1. Init => ShowInv
  <2> SUFFICES ASSUME Init, NEW h \in Handlers PROVE Shows(jobs, req[h])
    BY DEF ShowInv
  <2>1. req[h] = IdleRequest
    BY DEF Init, SyncInit
  <2> QED
    BY <2>1 DEF Shows, Collapses, Done, IdleRequest
<1>2. Inv /\ ShowInv /\ [Next]_vars => ShowInv'
  BY NextShows
<1>3. Inv /\ ShowInv => BoardShowsTheCrawl
  <2> SUFFICES ASSUME Inv, ShowInv, NEW h \in Handlers, req[h].pc \in {"settle", "enqueue"},
                      req[h].refresh = {}
               PROVE  LET B == req[h].batch
                          shown == {e \in ExtIds : jobs[e].status = "ACTIVE"
                                                   /\ jobs[e].source = req[h].source}
                      IN  /\ \A p \in B : \E q \in B, e \in shown :
                                 q.ext = p.ext /\ FingerprintOf(e) = Fp(q)
                          /\ (req[h].kind = "sync" /\ MayRetire(req[h])) =>
                                 shown \subseteq ExtsOf(B)
    BY DEF BoardShowsTheCrawl
  <2>1. Shows(jobs, req[h]) /\ Done(req[h]) /\ ~Collapses(req[h])
    BY DEF ShowInv, Done, Collapses
  <2>2. req[h].todo = {} /\ Lists(jobs, req[h])
    BY <2>1 DEF Shows
  <2>3. ExtsOf(req[h].batch) \subseteq ExtIds
    BY DEF Inv, TypeOK, Request, ExtsOf, Posting
  <2>4. \A q \in req[h].batch : WrittenOrTodo(jobs, req[h], q) =>
           \E e \in ExtIds : Shown(jobs, req[h], e) /\ FingerprintOf(e) = Fp(q)
    BY <2>2, <2>3 DEF WrittenOrTodo, FingerprintOf
  <2> QED
    BY <2>1, <2>2, <2>4 DEF Lists, Shows, Shown
<1> QED
  BY Invariance, <1>1, <1>2, <1>3, PTL DEF Spec

=============================================================================
