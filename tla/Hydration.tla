----------------------------- MODULE Hydration ------------------------------
(***************************************************************************)
(* The description of a job row and its two writers: the upsert of a crawl *)
(* (batchUpsert, ingest.service.ts) and the hydration of thin rows from    *)
(* their own pages (hydrate-descriptions.processor.ts, decideHydration,    *)
(* hydrationDue and repairDescriptions).  A hydration claims its batch,    *)
(* reads pages for minutes and repairs afterwards, matching rows by source *)
(* and externalId.  A body is whose posting it tells of, and its form.     *)
(* The vectors both writers drop are the matter of EmbedPipeline.          *)
(***************************************************************************)
EXTENDS Integers, FiniteSets, FiniteSetsExt, Functions

CONSTANTS
    Postings,         \* job rows
    KeyOfRow,         \* [row -> [source, ext]]
    Brings,           \* [row -> what a crawl brings: records [form, prov]]
    PageForms,        \* what the posting's page may hold
    LengthOf,         \* [form -> characters]
    Marked,           \* forms with a phrase of a posting in them
    MIN_CHARS,        \* MIN_DESCRIPTION_CHARS
    BatchLimit,
    MaxCrawls, MaxRuns

ASSUME HydrationConstants ==
    /\ BatchLimit \in Nat \ {0}
    /\ \A r \in Postings : \A b \in Brings[r] : b.prov \in {"none", "LIST", "DETAIL", "MISSING"}
    /\ Marked \subseteq DOMAIN LengthOf

VARIABLES
    body,       \* description: [of, form]
    prov,       \* descriptionSource
    attempt,    \* lastHydrationAttemptAt: never, recent, or old enough to retry
    hyd,        \* the hydration in progress
    crawls, runs,
    touched     \* history: rows a crawl wrote since the batch was claimed

hydVars == <<body, prov, attempt, hyd, crawls, runs, touched>>

NoBody == [of |-> "nobody", form |-> "none"]
Resting == [pc |-> "rest", claimed |-> [r \in Postings |-> NoBody], todo |-> {}, updates |-> {},
            writes |-> {}]

charsOf(b) == LengthOf[b.form]

-----------------------------------------------------------------------------
\* MUTANT of isJobDescription: a phrase of a posting is enough
isAnyPosting(form) == form \in Marked

\* A job description, not a page that merely mentions jobs: long enough, and in
\* the words of a posting.
isJobDescription(form) == LengthOf[form] >= MIN_CHARS /\ form \in Marked

\* decideHydration: the page is written where it was read, is a posting, and is
\* longer than the body read when the batch was claimed.
decideHydration(current, page) ==
    IF page.form # "unread" /\ isJobDescription(page.form) /\ charsOf(page) > charsOf(current)
    THEN "WRITE" ELSE "KEEP"

-----------------------------------------------------------------------------
\* ON CONFLICT DO UPDATE, one statement: the body is replaced, whatever it is; the
\* provenance only by a source that reports one.  What batchUpsert reads before it
\* and clears after it are the row's vectors.
Crawl(r) ==
    /\ crawls < MaxCrawls
    /\ \E b \in Brings[r] :
         /\ body' = [body EXCEPT ![r] = [of |-> r, form |-> b.form]]
         /\ prov' = [prov EXCEPT ![r] = IF b.prov = "none" THEN @ ELSE b.prov]
    /\ crawls' = crawls + 1
    /\ touched' = touched \cup {r}
    /\ UNCHANGED <<attempt, hyd, runs>>

-----------------------------------------------------------------------------
due == {r \in Postings : charsOf(body[r]) < MIN_CHARS /\ attempt[r] # "recent"}

\* hydrationDue: a batch of the due, those never tried first, claimed before any
\* of the work is done.
Claim ==
    /\ hyd.pc = "rest" /\ runs < MaxRuns /\ due # {}
    /\ \E batch \in SUBSET due :
         /\ Cardinality(batch) = Min({BatchLimit, Cardinality(due)})
         /\ \A r \in batch, s \in due \ batch : attempt[s] = "never" => attempt[r] = "never"
         /\ attempt' = [r \in Postings |-> IF r \in batch THEN "recent" ELSE attempt[r]]
         /\ hyd' = [Resting EXCEPT
                !.pc = "fetch", !.todo = batch,
                !.claimed = [r \in Postings |-> IF r \in batch THEN body[r] ELSE NoBody]]
    /\ runs' = runs + 1
    /\ touched' = {}
    /\ UNCHANGED <<body, prov, crawls>>

\* One page of the batch; the last one hands the updates over.
FetchPage(r, form) ==
    /\ hyd.pc = "fetch" /\ r \in hyd.todo
    /\ LET page == [of |-> r, form |-> form]
           writes == decideHydration(hyd.claimed[r], page) = "WRITE"
       IN hyd' = [hyd EXCEPT !.todo = @ \ {r},
                             !.updates = @ \cup (IF writes THEN {page} ELSE {}),
                             !.pc = IF hyd.todo = {r} THEN "repair" ELSE "fetch"]
    /\ UNCHANGED <<body, prov, attempt, crawls, runs, touched>>

\* MUTANT of sameKey: the rows are found by externalId alone
sameExternalId(r, s) == KeyOfRow[r].ext = KeyOfRow[s].ext

\* The rows an update of r's posting may be for: where { source, externalId }.
sameKey(r, s) == KeyOfRow[r] = KeyOfRow[s]

\* repairDescriptions of the next source reads its rows: byExternalId keeps one
\* row of a key, whichever the query returned last, and that row takes every
\* update of the key whose text is not its own already.
RepairRead ==
    /\ hyd.pc = "repair" /\ hyd.updates # {}
    /\ \E u \in hyd.updates :
         LET source  == KeyOfRow[u.of].source
             updates == {w \in hyd.updates : KeyOfRow[w.of].source = source}
         IN \E rowOf \in [updates -> Postings] :
              /\ \A w \in updates : sameKey(w.of, rowOf[w])
              /\ \A w, x \in updates : sameKey(w.of, x.of) => rowOf[w] = rowOf[x]
              /\ LET writes == {<<rowOf[w], w>> : w \in {x \in updates : body[rowOf[x]] # x}}
                 IN hyd' = [hyd EXCEPT
                        !.updates = @ \ updates, !.writes = writes,
                        !.pc = IF writes = {} THEN "repair" ELSE "update"]
    /\ UNCHANGED <<body, prov, attempt, crawls, runs, touched>>

\* UPDATE ... FROM unnest: of two updates of a row either may be taken.
RepairUpdate ==
    /\ hyd.pc = "update"
    /\ LET rows == {w[1] : w \in hyd.writes}
       IN /\ \E taken \in [rows -> {w[2] : w \in hyd.writes}] :
               /\ \A r \in rows : <<r, taken[r]>> \in hyd.writes
               /\ body' = [r \in Postings |-> IF r \in rows THEN taken[r] ELSE body[r]]
          /\ prov' = [r \in Postings |-> IF r \in rows THEN "DETAIL" ELSE prov[r]]
    /\ hyd' = [hyd EXCEPT !.pc = "repair", !.writes = {}]
    /\ UNCHANGED <<attempt, crawls, runs, touched>>

\* The run ends, or its process does: a claim is not undone.
HydrationEnds ==
    /\ hyd.pc # "rest"
    /\ hyd' = Resting
    /\ UNCHANGED <<body, prov, attempt, crawls, runs, touched>>

\* HYDRATION_RETRY_MS goes by.
RetryDue(r) ==
    /\ attempt[r] = "recent" /\ hyd.pc = "rest"
    /\ attempt' = [attempt EXCEPT ![r] = "old"]
    /\ UNCHANGED <<body, prov, hyd, crawls, runs, touched>>

HydrationInit ==
    /\ \E first \in [Postings -> UNION {Brings[r] : r \in Postings}] :
         /\ \A r \in Postings : first[r] \in Brings[r]
         /\ body = [r \in Postings |-> [of |-> r, form |-> first[r].form]]
         /\ prov = [r \in Postings |-> first[r].prov]
    /\ attempt = [r \in Postings |-> "never"]
    /\ hyd = Resting /\ crawls = 0 /\ runs = 0 /\ touched = {}

HydrationNext ==
    \/ \E r \in Postings : Crawl(r) \/ RetryDue(r)
    \/ \E r \in Postings, f \in PageForms : FetchPage(r, f)
    \/ Claim \/ RepairRead \/ RepairUpdate \/ HydrationEnds

HydrationSpec == HydrationInit /\ [][HydrationNext]_hydVars

-----------------------------------------------------------------------------
\* Another row under the key of r: rows of two companies may be, as an externalId
\* is the provider's within a tenant (a Workday requisition, a Keka number).
HasTwin(r) == \E s \in Postings \ {r} : KeyOfRow[s] = KeyOfRow[r]

\* However many crawls, claims and repairs pass between the reading of a page and
\* its writing, a row tells of its own posting, never of a namesake's under another
\* source (repairDescriptions): only of another company's under its very source and
\* externalId.
RowsTellTheirOwn == \A r \in Postings : body[r].of # r => HasTwin(r)

\* A repair lengthens the body, past what the gate needs to judge it ("never
\* weaken", detail-hydration.ts), except where a crawl wrote the row since the
\* batch was claimed or the row has a twin.
RepairsStrengthen ==
    [][\A r \in Postings :
         hyd.pc = "update" /\ body'[r] # body[r] /\ r \notin touched' /\ ~HasTwin(r) =>
            charsOf(body'[r]) > charsOf(body[r]) /\ charsOf(body'[r]) >= MIN_CHARS]_hydVars
=============================================================================
