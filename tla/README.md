# CareerOS in TLA+

CareerOS collects job postings from many sources, keeps one row per opening, embeds and
classifies the rows, matches them against the active version of a resume and tells the user
about the few worth applying to. It is a NestJS API over PostgreSQL (`src/apps/api`), a process
of BullMQ workers (`src/apps/workers`), a Next.js front end (`src/apps/web`) and a shared package.
These modules model the parts whose correctness depends on the order in which things happen:
what is written between which two statements, what a failure leaves half done, what a retry
repeats. Line numbers without a file are those of
`src/apps/api/src/modules/internal/ingest.service.ts`.

## The system

Paths are below `src/apps/api/src/modules/`, `W` is `src/apps/workers/src/`.

| part | state it keeps | operations | what is hard |
|---|---|---|---|
| Crawl reconciliation (`internal/ingest.service.ts`, `crawl-reconciliation.ts`, `job-fingerprint.ts`) | `jobs`, `crawl_runs`, the schedule of a company | `syncCompanyJobs`, `ingestBoardJobs`, `batchUpsert` | no transaction around read, upsert, delete, retire; a retry beside the request it retries; partial crawls |
| Embedding pipeline (`matching/embed.processor.ts`, `embedJobs*`, `repairDescriptions`, `reconcileEmbeddings`) | `job_embeddings`, queue `embed-jobs` | enqueue, embed, backfill, repair, sweep | text read, then sent out, then inserted; entries lost by a crash; retries |
| Source adapters (`W/adapters`, crawl processors) | the walk in progress | one walk of a board or of the queries of an aggregator | boards that move between two pages, caps, detail requests that fail, and what may then be called complete |
| Hydration (`W/processors/hydrate-descriptions*`, `W/adapters/detail-hydration.ts`) | `description`, `descriptionSource` | claim, fetch, decide, repair | decided on a body read minutes before; rows found without their company |
| Career pages (`W/processors/extract-career-pages*`, `W/adapters/career-extractor.ts`, `discovery/`) | marks, snapshots, the extractor version | static, replay and render tiers | a page is stored as read before its jobs are ingested |
| ATS discovery (`discovery/`, `W/discovery/prober.ts`) | probe results, stages | probe, apply, import | an empty board answers like a live one |
| Company registry (`companies/`, `internal/company-identity*`, `ats-conflict*`) | `companies` | create, find or create, upgrade, correct, alias, merge | six writers that look up, then write |
| Matching and scoring (`matching/`, `opportunity/`) | `job_matches`, `job_classifications` | gate, score, decide, match new jobs, reconcile, rescore | four callers on the same row; a score replaces the notification memory |
| Notifications (`notifications/`) | `notifiedAt`, `notifiedScore` of a match | decide, deliver, record, brief, digest | check, send, record without a lock |
| Resumes (`resumes/`) | versions, `activatedAt`, `reconciledAt`, queue `parse-resume` | parse, confirm, activate, reconcile, retry | two activations at once; a report about another version |
| Applications (`applications/`, `analytics/`) | `applications`, their events, the outcome log | create, move, report | a button of a message beside the web page |
| Authentication (`auth/`) | password, `refresh_tokens` | register, login, refresh, logout, change | a rotation or a login that crosses another or a change of password |
| Referrals (`referrals/`) | contacts, caches of channels | look up, draft, set status, follow up | the contact is read, a model is asked, the contact is written |
| Gmail (`gmail/`) | the connection | consent, access token, parse an alert | a dead grant is noticed after the next consent |
| AI providers (`ai/`) | quota circuit (one process), `ai_usage` | call, retry, record, ceiling | usage is recorded behind the answer |
| Pages of decisions (`matching.service.ts` browseByFit, `today/`, `review/`, dashboard) | none | select and order | five pages, each with a rule of its own over the same rows |
| Watchlist, intelligence, source trust, users, admin, storage, web | one row each, or figures | single statements | outside this development |

How they meet: the crawl workers fetch a board and call the API once per company
(`/internal/companies/:id/jobs`) or once per board (`/internal/board/:source/jobs`). The API writes
`jobs` and puts the ids of new rows into `embed-jobs`. The embed worker, in the API process, stores
vectors and puts the ids into `match-new-jobs`, whose worker classifies, scores and notifies. An
activation of a resume version puts a reconcile job into `parse-resume`. Schedulers put sweeps and
replays into queues of their own. The message about a match carries buttons that the webhook turns
into applications; applications keep a job out of later announcements and of the pages.

What makes each part correct, in a sentence: reconciliation retires exactly what an authoritative
crawl of the same source did not list, and a crawl is authoritative only when it skipped nothing;
embedding leaves no job without a vector unseen and no vector of a text the row no longer has; a
body tells of its own posting and only grows by a repair; what an extractor read of a page is
ingested; a company has one row and is in some queue; matching decides
on the newest evidence, leaves no candidate undecided and never forgets what it told the user; a
notification goes out once, and what is marked as told was told; a user has one active version and
its report is about that version; the two logs of an application tell its history; a refresh token
is used once and a new password ends old sessions; what the user logged about a contact stands; a
mailbox is paused only when its grant is dead or our credentials are refused; the bill of a day is bounded; each page tells the
stored decision.

## Modules

| module | models | role |
|---|---|---|
| `JobStore` | `jobs`, `job_embeddings`, `embed-jobs`, `enqueueEmbeddings`, `jobFingerprint` (a constant function) | state shared by the next two |
| `CrawlSync` | `syncCompanyJobs`, `ingestBoardJobs`, `batchUpsert`, `decideReconciliation`, one action per statement, with failures, retries, crashes | core |
| `JobHistory` | atomic publications, confirmations, withdrawals, rewrites of rows | abstract specification of `CrawlSync` and of the rows of `IngestSystem` |
| `EmbedPipeline` | the embed worker, backfills, repairs, the sweep | second component |
| `IngestSystem` | both together, fairness, a history of races | composition |
| `ResumeActivation` | `saveProfile`, `activate`, `retryReconcile`, the reconcile jobs of `parse-resume` and what they, the belt and a rescore do to decided matches | third component |
| `RoleGate` | `role-classification.ts`, `normalize`, `isClassificationStale`: pure definitions | used by the next two |
| `Opportunity` | `compute` of the opportunity score and `decide` of the verdict: pure definitions | used by the next |
| `MatchMemory` | one user's matches under every evaluator: gate, score, decide, announce, record | fourth component |
| `AuthSessions` | accounts, refresh tokens, calls | service |
| `ApplicationTracker` | applications, events, outcomes | service |
| `CompanyRegistry` | company rows and everybody who writes their identity | service |
| `Prober` | what a probe concludes from a company's web | service, one step |
| `CareerPages` | three tiers over career pages, snapshots, extractor versions | service |
| `BoardWalk` | the walks of thirteen adapters over boards that move | service |
| `Hydration` | the two writers of a description | service |
| `AiSpend` | retries, quota circuit, usage records, ceiling | service |
| `Outreach` | contacts, caches, the ladder of ways in | service |
| `Surfaces` | feed, today, review, exclusions, dashboard, brief over one set of decisions | service |
| `DailyBrief` | trigger, brief, digest, marks, beside the pushes | service |
| `Mailbox`, `LinkedInAlert` | the Gmail connection; the alert parser | services |
| `CrawlSyncProofs`, `IngestSystemProofs`, `ResumeActivationProofs`, `MatchMemoryProofs`, `AuthSessionsProofs` | TLAPS proofs about the module each is named for | proofs |
| `CorpusProofs` | TLAPS proofs about `Hydration`, `LinkedInAlert`, `Prober`, `CompanyRegistry`, `CareerPages`, `BoardWalk` | proofs |
| `ServiceProofs` | TLAPS proofs about `Mailbox`, `AiSpend`, `Outreach`, `ApplicationTracker` | proofs |
| `TellingProofs` | TLAPS proofs about `DailyBrief` and `Surfaces` | proofs |
| `MCCrawlSync`, `MCIngestSystem`, `MCResumeActivation`, `MCMatchMemory` | model values, the fingerprint function, symmetry, a view | instances |
| `MCServices` | the thirteen services, one at a time | instance |

`MatchMemory` EXTENDS `Opportunity` EXTENDS `RoleGate`; `IngestSystem` composes `CrawlSync` and
`EmbedPipeline` over `JobStore`; `CrawlSync` implements `JobHistory` through an instance of it. The
services share no variable. In the code they meet through rows that each of them only reads of the
others: a walk's `complete` is the input of `decideReconciliation`, whose two outcomes `CrawlSync`
takes as given; the verdicts `Surfaces` and `DailyBrief` select from are what `MatchMemory` writes.

### CrawlSync

`req[h]` is the local state of the request that handler `h` serves: `pc` names the next statement.

| action | code |
|---|---|
| `StartSync`, `StartBoard` | a call of `syncCompanyJobs` / one company of `ingestBoardJobs`; creates the CrawlRun |
| `FindOwners` | 423-479: keep the first posting per externalId, then per fingerprint; look up which rows own the fingerprints; postings owned by another row are not written |
| `RefreshOwners` | 480-485: the owners' rows become ACTIVE |
| `ReadBodies`, `UpsertRows`, `ClearStale` | 487-619, once per chunk: read the old bodies, upsert, delete vectors whose body changed |
| `Retire` | 79-112 and `decideReconciliation` |
| `FinishSync`, `Settle`, `Enqueue`, `FinishBoard` | 114-129, 393-402 |
| `SyncFails`, `BoardCompanyFails`, `BoardFails` | the catch clauses at 130 and 385, and the errors nothing catches |
| `WorkerAbandons` | the worker dies or its call is cut off; BullMQ starts the crawl again beside it |
| `Crash` | the API process stops |

Order within a list is the crawler's choice, so "the first posting" is any posting. A database
query without ORDER BY may return the rows in any order, so the last owner is any owner.

### EmbedPipeline and IngestSystem

`emb[m].texts` are the texts an embedder has read and not inserted yet. `TakeEntry`,
`InsertVector`, `HandOff` are `EmbedProcessor.process`; `StartBackfill` is `backfillJobEmbeddings`;
`RepairRead`, `RepairClear`, `RepairWrite`, `RepairEnqueue` are the four steps of
`repairDescriptions`; `Sweep` and `Age` are `reconcileEmbeddings` and its grace period;
`EmbedFails` includes BullMQ's attempts and its list of failed entries. `raced` is a history
variable: the rows that met one of the races of `RacedNow`, which the invariant
`StaleOnlyAfterRace` says are the only ways to a vector that does not match its row.

### ResumeActivation

One user. `call[q]` is the local state of a request that activates or retries, `rec[r]` that of a
reconciliation: `pc` names the next step. Files are those of `src/apps/api/src/modules/`.

| action | code |
|---|---|
| `SaveProfile` | `resumes.service.ts` 388-431: the confirmed profile and `profileUpdatedAt` |
| `BeginActivate`, `CommitActivate`, `EnqueueReconcile` | 433-466: the first statement of the transaction fixes which other versions it clears; the commit shows both writes; the job is added after it |
| `BeginRetry`, `ResetReport` | 487-501: the version is read active, then its report is cleared |
| `CallFails` | an error in any of them; after the commit the job is lost |
| `TakeJob`, `StoreReport`, `StoreError`, `ErrorLost` | `resumes.processor.ts` 36-82: the report goes to the version the job names, whatever version matching ran against; the update in the catch clause may throw as well, and the job is not attempted again |
| `StartBelt`, `EndBelt` | a reconciliation of the 15-minute schedule or of the user's button |
| `ReadSince`, `ListCandidates` | `matching.service.ts` 416-503: context, then `profileUpdatedAt`, then candidates |
| `ScoreRow`, `SkipRow`, `DecideRow` | `scoreAndUpsert` (1073-1135), a batch answered badly, and `scoreMatch`, which stamps `decidedAt` |
| `StartRescore` | `rescoreExisting` (295-310): verdicts again, from the scores there are |
| `RecFails`, `Crash` | the catch clause; the API process stops and the stalled job is taken again once |

Three history variables name what the properties except: `overlapped` (two activations were in their
transactions at once), `blurred` (versions whose profile was saved under a scorer, or whose old scores
were rescored), `lost` (versions whose reconcile job was lost, or ended without a report because even its
error could not be stored, and that have had no job added since).

### RoleGate, Opportunity and MatchMemory

A classification is a record, a skill a phrase (a sequence of words), a technology a canonical token;
`eligibility` and `actionFor` decide in the order of the code, over every combination the constants
allow. `compute` works in tenths of a point, as the code rounds. `ev[p]` is the local state of an
evaluator, `match[v][j]` the row of a job under a resume version, `cls[j]` the stored classification
with the evidence it was made from.

| action | code |
|---|---|
| `BeltTick`, `OtherStart` | `evaluate-matches.processor.ts` and `reconcileAll`; `generate`, `matchNewJobs`, `rescoreExisting` |
| `Classify`, `ClassifyFails`, `Judge` | `matching.service.ts` 669-760 and `gateByRole`: the cache, the model for what is missing, the verdict of the gate |
| `RecordGateDecision` | 826-915: a refusal or a doubt becomes a row |
| `ScoreAndUpsert`, `ScoreFails` | 1073-1135 |
| `Decide`, `DecideFails` | `scoreMatch`, `opportunity.service.ts` 140-255: score, eligibility again, verdict, a new breakdown |
| `Check`, `Send`, `RecordSent` | `maybeNotifyMatch`: read the memory, deliver, write the memory |
| `Hydrate`, `FactsChange`, `Activate`, `SaveProfile`, `Apply` | what changes under the evaluators |
| `Crash` | the API process stops between any two of these |

`raced` is a history variable: matches that two evaluators had between check and record at once, or
one of which died there.

### The services

| module | state | actions and code |
|---|---|---|
| `AuthSessions` | `account`, `token`, `authCall` | one action per awaited statement of `auth.service.ts`: `RegisterLookup`, `RegisterCreate`, `Login`, `IssueTokenPair`, `Refresh`, `Rotate`, `ChangePassword`, `StorePassword`, `LockOut`, `Logout`; `LoseReply`: a call dies between two |
| `ApplicationTracker` | `app` with its events, `outcomes` | `CreateFromJob`/`Create`, `Transition`/`Update`, `Tap` with `TapRecords` (the button), `RecordApplied` (not awaited), `Report` |
| `CompanyRegistry` | `company`, `write` | `BoardByAts`, `BoardByName`, `BoardUpgrade`, `InsertRow`; `CreateByHand`; `BulkDiscover`, `Enrich`; `ApplyResult`, `ApplyWrite`; `StartCrawl`, `updateConfidenceAfterCrawl` (the stage a sync leaves, 625-661); `CorrectAts`, `CorrectOne`; `ResolveAliases`, `MergeOne`; `BackfillToken`; `JobArrives` |
| `Prober` | `web`, `probed` | `probeCompany`: hint, homepage, career links, usual path, guessed slugs at seven providers |
| `CareerPages` | `older` (which page was looked at before which), `snapshot`, `ingested`, `tier` | `Claim*`, `Fetch`, `Extract*`, `Ingest*` of the three tiers; an ingest may skip companies and still succeed (385-391); `Restart` deploys a version; `Edit` changes a page |
| `BoardWalk` | `board`, `walk`, `open` | `StartWorkday`, `Probe`, `ListPage`, `Details`; `FetchOnce` for the one-request boards; `StartFeed`, `FeedPage`; failures; `BoardMoves`. A page of a listing is the set of the positions whose rank among those served falls into it |
| `Hydration` | `body`, `prov`, `attempt`, `hyd` | `Claim`, `FetchPage`, `RepairRead`, `RepairUpdate`, `HydrationEnds`; `Crawl`, the one statement of the upsert. The vectors that both writers drop, and their races, are in `CrawlSync` and `EmbedPipeline` |
| `AiSpend` | the circuit, the rows, the calls | `StartTick`, `Begin`, `Answered`, `Refused`, `CooldownPasses`, `RowWritten`, `Crash` |
| `Outreach` | `contacts`, `channels`, `asked` | `ForJob`, `Discover`; `Drafting`/`GenerateDraft`, `SettingStatus`/`SetStatus`, `LoggingFollowUp`/`LogFollowUp` as read and write; `NextDay` |
| `Surfaces` | `row`, `act`, `judged`, `gone` | `Gated`, `Upserted`, `Scored`, `UserActs`; the pages are definitions over the state, each the set of pages the code may show: rows that its ORDER BY leaves equal come in any order |
| `DailyBrief` | `work` (the queue's job), `serving`, `pushing`, `pushed`, `notifiedAt` | `TakeJob`, `Trigger`, `ReadDigest`, `SendDigest`, `MarkDigest`, `SendBrief`, `Respond`; `DecidePush`, `SendPush`, `MarkPush` of any evaluation, without a lock; `LoseAnswer`, `CrashApi` |
| `Mailbox` | `connection`, `grants`, `client`, `poll` | `Exchange`, `StoreConnection`, `ReadConnection`, `AskGoogle`, `MarkDead`; `EndGrant` at Google; `ConfigureClient`: the OAuth client of a deployment is wrong, or right again |
| `LinkedInAlert` | `alert`, `link` (where the last link read was), `jobs` | `ParseLink`, one job link after the other |

## Abstractions, each with its reason

- One company. A row's key is (companyId, externalId) and its fingerprint hashes the companyId.
- A title stands for (title, location, workMode), a body for a description. Nothing else of a
  posting is compared or embedded.
- `enqueueEmbeddings` sends entries of 100 ids; here an entry has all of them. Two waiting entries
  with the same ids are one element of a set: the second would find every vector present.
- `Settle` stands for `applyAdaptiveSchedule` and `updateConfidenceAfterCrawl`, which write only
  the company. They keep their place in the order, because they can throw.
- An embed entry is taken with any priority and any order. BullMQ serves them in order, which
  only the fairness uses.
- A row that was suppressed keeps its title: renaming a posting to the title of another row is
  allowed by the model as by the code.
- A lost update inside one statement cannot happen: a statement is atomic in PostgreSQL.

In `ResumeActivation`:

- Instants are compared with `profileUpdatedAt` only, so they are counted in saves of the profile.
- `Jobs` are the ACTIVE jobs near the resume that the role gate admits, and do not change. What the gate
  records and what is notified is in `MatchMemory`.
- An activation is two steps of a READ COMMITTED transaction: its snapshot of the other active versions
  and its commit. The row locks between two activations only delay the second commit; a lock wait re-reads
  the locked row and finds no new rows, so the snapshot stays.
- Belt and button reconciliations are the same calls, and `Belts` is how many may run at once.
- A score is the profile it was computed from.

In `MatchMemory`: one user; `Facts` are the inputs of the score in two stages, before and after they
change; similarity and the 14-day window order the candidates (`JobOrder`), which do not leave; the
shortlist an incremental matcher sends to the model first, and its own limit, are left out, as is the
removal of a job in mid-run.

In the services: a company name is its words and whether punctuation joins them (the prefix query works
on characters: a name that goes on within a word is written as one with further words), a URL a host, a
subdomain and a first segment; a career page a set of blocks with features; a posting of a board the
fields its adapter filters by; a body its form, its length and whose posting it tells of; a profile of
GitHub what the ranking reads; a call of a model one unit; a mail its links
and lines with their places, each of a card or of none.
GitHub, Google, Telegram, boards and models are what they may answer, failures included.

Definitions with a comment that begins with MUTANT are not part of any specification. Each is a
plausible slip of the definition after it, and each property was seen to fail when the one
replaces the other.

## Runs

| run | question | instance |
|---|---|---|
| `crawl_serial` | do two collapses, chunks and the retire statement keep one row per opening and the board as the crawl saw it? | 2 externalIds, 2 openings, 2 bodies, 2 sources, crawls of up to 2 postings, chunks of 1, 1 failure |
| `crawl_overlap` | do two requests at once retire nothing an aggregator listed last or an awaited sync lists, forget no row, and act as `JobHistory`? | 2 handlers, 2 externalIds, 2 openings, crawls of 1 posting, 1 failure |
| `crawl_canonical` | is the canonical row kept fresh? (violated) | 1 handler, no failure |
| `ingest_races` | is a job ever stranded, and can a vector go stale but by a named race? | crawl, repair, worker, backfill and sweep at once on one row, 2 titles, 2 bodies, no failure |
| `ingest_faults` | the same with a failure, and does what the worker embeds reach the matcher? | 2 sources, crawl, repair, worker, 1 failure, 2 attempts |
| `ingest_liveness` | is a job without a vector eventually embedded, gone or visible as failed? | 1 row, 2 bodies, 2 failures, 2 attempts |
| `resume_races` | can two versions stay active, can a decision look current and be old, does a finished report speak of its version? | 2 versions, 1 job, 2 requests, worker and belt, 2 saves each, 2 calls, 1 failure |
| `resume_liveness` | does the page of an active version leave "running"? | 1 of 2 versions is of the primary resume, 1 request, 3 calls, 2 failures |
| `match_races` | is a match told once, remembered, and not told again under a new version? | 1 job, 2 versions, 2 evaluators of any kind, a stub and a full description, 2 answers of the classifier, facts below and above the bar, 2 failures, crashes or overlapping starts |
| `match_belt` | does every candidate get a verdict? | 2 jobs, room for 1, 1 evaluator, 2 failures |
| `match_unread` | is nobody refused on the classification of a text the job no longer has? (violated) | 1 job, 1 evaluator, 1 failure |
| `services` | seventeen properties, of thirteen services | below |

Why the bounds suffice. Everything the code decides about a row depends on that row and on at most
one other (the owner of its fingerprint, or the first posting of its group): two externalIds and
two fingerprints give every case of both collapses, of suppression
and of retiring. A chunk of one makes a crawl of two postings take two chunks. Two overlapping
requests are the most that can conflict on one row in a way a third does not repeat, and the
fairness, retry and stale-vector questions are about one row each. The bounds are `MaxBatch`
(postings of a crawl), `MaxFaults` (errors plus crashes) and, standing for the code's 500, 5 and
2000, `UpsertChunk`, `EmbedAttempts` and `SweepLimit`. In `ResumeActivation`, what is decided about a match
depends on its job and version alone, so one job and two versions suffice; `MaxSaves`, `MaxCalls` and
`MaxFaults` bound saves of a profile, activations with retries, and errors with crashes. `Cap` (the code's
cap on candidates) is above the number of jobs in these runs: only the proofs cover a cap that cuts. `IgnoringRuns` is a view that leaves out
the status of a CrawlRun, which no guard reads. Symmetry is used for safety only.

In `MatchMemory`, what happens to a match depends on its own row, its classification and its versions; one
job shows every race of two evaluators, and a second job with `Cap` = 1 is what it takes to be starved.
`MaxTrouble` bounds failed calls, crashes, overlapping starts and saves of the profile together.

`services` has a variable `focus`, drawn once at the start: the service it names moves in an instance
of its own, the twelve others rest in one fixed initial state. They share no state, so nothing is lost
by not interleaving them, the view `MCView` tells states apart by the service that moves, and the run
explores the sum of thirteen state spaces (1,042,362 states). Each bound is the
least at which the hazard of the service occurs:

| service | instance | why it is enough |
|---|---|---|
| auth | 1 account, 2 clients, 3 tokens, `MaxPassword` 2, `MaxLostReplies` 1 | two calls can hold one token, and each get a successor; one change of password beside any of them |
| tracker | 1 job, a tap and a page, statuses SAVED and APPLIED, `MaxEvents` 3, `MaxReports` 1, `MaxSilent` 1 | two requests about one application; the first APPLIED, a way back and a second one |
| registry | 4 names (two spellings of one, one that goes on after it, one of initials), 2 writers, `CANDIDATES` 1 (25 in the code), `MaxRows` 3, `MaxUrls` 2 (postings of a company), `MaxWrites` 2, an empty registry and two filled ones | twins and cycles are about two rows, a crowded prefix query about a third, races about two writers; two resolutions make a circle when the second sees a count the first did not. The two writers are interchangeable |
| probe | three providers with any answer for two spellings; hint, homepage, path, link each absent or present | all of `probeCompany`'s precedence |
| pages | 2 pages, a batch of 1, 2 revisions (one a shell), 2 extractor versions, 1 edit, 1 fault | one page waits while the other is read; a new version finds more in an old page |
| boards | pages of 2 rows, 2 pages at most, 6 rows with every reason to be left out, 3 kinds of tenant, `MaxTrouble` 2 | one full page, one short, one beyond the cap, a row that arrives in between |
| bodies | 3 rows, two of one key and a third with their externalId, a batch of 2, 1 crawl, 2 runs | a twin, a namesake and a row alone |
| spend | 1 belt, 1 caller without budget, ceiling 1, 2 calls a tick, 2 retries, `MaxBill` 4, 1 crash | the ceiling is passed in the middle of a tick, and the circuit opens under a call |
| outreach | 2 people, 2 requests, 2 sites, 2 blogs, cache of 1 day, `MaxDay` 1, `MaxRequests` 2 | a read of each kind crossing a write of each kind |
| surfaces | 5 jobs that differ in all the pages sort by, a feed of 1 (pool of 3), earlier rows or none, 2 decisions, 1 act | more decided rows than the pool, and undecided rows more similar than they |
| brief | 3 matches of 2 users, a digest of 1, 2 evaluations, 2 requests, 2 attempts, 2 jobs, 1 failure, 1 change | a retry beside the request it repeats, a failure at the second user, a push beside the digest, two pushes of one match, a push that Telegram refuses |
| mailbox | 2 pollers, 2 consents, `MaxGrants` 3, `MaxPolls` 3 | a poller that holds a grant two consents old, credentials that go wrong under it |
| alert | mails of 2 cards of 7 shapes, of one job or two, with a line ahead of a link or not, something of nobody's between and after them, short lines or long with `CARD_CHARS` 5 | every pair of neighbours, the last card before a footer, and a card longer than it is read |

Fairness (`IngestSystem!Fairness`). The embed worker keeps running and the queue serves its
entries in order: strong fairness of `TakeEntry` for each entry (the worker is busy in between)
and weak fairness of its later steps. The sweep is on a repeating 30-minute schedule and half an
hour passes. Nothing is assumed of crawls, repairs and backfills, and failures are finitely many
(`MaxFaults`); beyond them an entry ends in the failed list, which the property accepts.
In `ResumeActivation` a request the API serves goes on and the one worker of `parse-resume` goes on (weak
fairness of `CallStep` and `WorkerStep`); nobody need save or activate, and the belt need not run. In `MatchMemory`
(`MatchFairness`) an evaluator the API runs goes on (weak fairness of `EvaluatorStep`) and the belt ticks on
its schedule again and again (strong fairness of `BeltTick`: it is skipped while the tick before it runs);
failures are finitely many, and nobody need save, apply or call the other entry points. Without that bound a
job the classifier can never read would keep its place: no line of the code ends its claim (`matching.service.ts`
757-759). The services have
no liveness property. The user may stop for good and the work is bounded, so the runs of `ResumeActivation`,
`MatchMemory` and the services do not check deadlock.

## What the violated runs show

- `crawl_canonical`: an opening relisted by the same source under a new externalId is a duplicate
  of its old row. The sync refreshes the old row (480-485) and, in its next statement, retires it
  (98-106), because the old externalId is not among those seen. The opening is on the board and has
  no active row there; every later authoritative crawl refreshes the old row and retires it again.
- `match_unread`: a job is classified from a stub and held for want of a description; its description
  then arrives while a rescore is under way. The gate would throw the classification away, as the comment
  of `classification-evidence.ts` 26-27 demands, but `rescoreExisting` goes straight to `scoreMatch`, whose
  `eligibilityFor` (`opportunity.service.ts` 262-307) takes the newest classification without looking at
  its evidence: the row says NOT_DEVELOPMENT on the word of a classification that the text the job now has
  makes stale.

## Behaviour the passing runs allow

Each property that holds names, in its statement, what it has to except. A reader of the code should
know these; they are what the code does, not what the model adds. Where the exception is the race itself,
the property shows that the harm has no other cause, not that the race is harmless: so it is with two
inserts of one opening (`OneRowPerOpening`, stated for one handler), the withdrawal by an abandoned sync
(`AwaitedListingsStay`; `JobHistory` has it as a withdrawal like any other), the lost hand-off to the matcher
(`EmbeddedReachesMatcher`), a repair over a row crawled since its claim (`RepairsStrengthen`), the lost
extraction run (`CorpusIsRead`), the failed detail and the shifted row (`NothingSkippedUnexplained`), the
rows two writers make or take a board from (`BoardsFindTheirCompany`, `NobodyIsLost`), overlapping
activations (`TwoActiveOnlyIfOverlapped`), two refreshes of one token (`OnePairPerToken`), two requests about
one application (`LogsTellTheHistory`), an overtaken draft (`ContactsKeepFaith`) and an overtaken poller
(`OnlyOvertakenPausesAMailbox`).

*Jobs and vectors.* A body that changes while an embedder holds the old one keeps the old vector: it is
inserted after the clearing, and the rebuild finds it. A title that changes alone leaves its vector
(only the body is compared, 591); a repair clears before it writes (319-321), so an embedder in
between rebuilds from the old body; a failure between the upsert and the delete of the vectors leaves
new body and old vector, and no later crawl sees a change. These are the disjuncts of `RacedNow`, which
`StaleOnlyAfterRace` excepts and nothing else. When `matchQueue.add` fails after the vectors are
stored, the retry embeds nothing and returns before the hand-off: `EmbeddedReachesMatcher` excepts it.
Two overlapping requests can both insert the same opening, as no unique key covers the fingerprint;
that is why `OneRowPerOpening` is stated for one handler.

*Boards and bodies.* A Workday posting whose detail request failed is left out while the walk stays
complete (`workday.ts` 344-348), so the reconciliation retires it; the same befalls a row that slides
across the boundary of two pages, and a page served twice counts as the end. The one request of
SmartRecruiters asks for 100 rows and takes them for all. Adzuna and Jooble stop at the first page
without a row they want. `repairDescriptions` finds rows by source and externalId without the company.
A page replayed under a new extractor version is stored as read before its jobs are ingested; a failure
between the two loses them, and so does an ingest that skips the company and reports success (385-391).
Pages outranked by a full batch of watched or target-city pages wait for ever.

*Companies.* `BoardUpgrade` can write over a board recorded since its read (`companies.service.ts`
81-86), and so can a probe (`discovery.service.ts` 216-286); the conflict service can take a board away and
leave a monitored row in no queue, as a sync that ends after its company's board was replaced marks it
MONITORED all the same. These rows are `replaced`. Two alias resolutions at once can make a circle;
`detectAts` takes the route `apply.workable.com/j/` for an account "j" and `jobs.workable.com` for an
account "jobs"; a name stored with punctuation is not found by the prefix query, nor is one behind 25 older
names that begin with its key (`companies.repository.ts` 53).

*Resumes and matches.* Two activations whose transactions overlap both stay active
(`TwoActiveOnlyIfOverlapped`). A save while a reconciliation holds the old profile, or a rescore after
it, gives a verdict that only looks current (`blurred` in `CurrentFromCurrentProfile`). A reconcile job
runs against the version active when it starts and its report goes to the version it names, so a report
can be about another version for a while; `CompleteMeansEvaluated` holds at rest because every activation
adds a job of its own and the single worker runs them one after the other. The second message that
`notifications.service.ts` 35-41 promises after an improvement is never sent: `scoreMatch` has replaced
the breakdown that held the score to compare with (`opportunity.service.ts` 230).

*Telling.* A crash between message and mark tells a match twice, as do two evaluations at once (`doubled`).
In the
digest one user's failed message ends the run for those after him, and the next attempt repeats those
before him; without a configured channel everything is marked and nothing sent. A push and a digest that
cross both tell. A push that Telegram refuses is marked as told all the same (`notifications.service.ts`
348-353, 173-185), and no digest takes the match up: `MarkedMeansTold` excepts it.

*Sessions, people, accounts.* Two refreshes that both read a token as valid both get a pair; a login
that had checked the old password stores its session after the lock-out, and a change that dies before
revoking leaves the old ones. A draft or a follow-up writes back a status read before it. The marker of
a dead grant can pause a connection renewed since. Credentials of ours that Google refuses
(`invalid_client`) pause every mailbox polled meanwhile, whose grants are good, until each user consents
again (`gmail-oauth.service.ts` 30-31). A footer, or a line ahead of the next link, becomes the company of an
alert's job whose card shows none behind its link (`linkedin-alert.parser.ts` 142-149, 226-235), as does a
part of a title spread over several elements. An unknown model costs nothing in the sum the ceiling
looks at; the incremental matcher and `generate` do not look. A straggler's success closes the circuit
another call has opened.

## Proofs

Every invariant and action property that a passing run checks is also a theorem, for any constants
that satisfy the named assumptions of the modules. The runs came first: each inductive invariant
was checked, or derived from a property that was, before it was proved. One step per action, and
under it the conjuncts the action can disturb.

### Reconciliation and the ingest system

| theorem (`CrawlSyncProofs`) | says |
|---|---|
| `TypeCorrect` | `Spec => []TypeOK` |
| `NeverRetiredByAnotherSource` | `Spec => []RemovedOnlyByOwnSource` |
| `ListingsStayWhileAwaited` | `Spec => AwaitedListingsStay` |
| `CrawlSyncImplementsJobHistory` | `Spec => ImplementsJobHistory` |
| `NoneForgotten` | `Spec => []NoRowForgotten` |
| `OneRowWhenSerial` | with one handler, `Spec => []OneRowPerOpening` |
| `BoardShownWhenSerial` | with one handler, `Spec => []BoardShowsTheCrawl` |

`TypeOK` alone is not inductive: that the refreshed and written rows are complete needs that
`refresh` names rows that exist and that a chunk has one posting per externalId. The invariant is

    Inv == TypeOK /\ Coherent /\ RemovedOnlyByOwnSource
    Coherent: SourceKnown  a request in progress has a source, a sync one of AtsSources
              RefreshesRows  refresh names rows that exist
              OnePerRow    todo and chunk have one posting per externalId

The step of each action to `JobHistory` is then: `UpsertRows` is a `Publish` of its chunk,
`RefreshOwners` a `Confirm`, `Retire` a `Withdraw` of what the batch lists or a stutter, everything
else a stutter. `NoneForgotten` adds `NothingHeldIdle` (an idle handler holds no ids) and follows each
created row from the upsert over `fresh` to the queue or a failure. `OneRowWhenSerial` adds
`SerialInv`: what a request is about to write is separate, no two postings of `todo` and `chunk` share
a fingerprint, and none has the fingerprint of another row. `ShowInv` says what
`BoardShowsTheCrawl` leaves out, the statements before the last: once the collapses are done each
posting of the batch is shown or still to be written, and a retire that may act has every shown row of
its source in the batch. Both are false with two handlers, and the theorems assume one: two
requests can both insert an opening, or retire what the other has written.

| theorem (`IngestSystemProofs`) | says |
|---|---|
| `SystemTypeCorrect` | `SystemSpec => []SystemTypeOK` |
| `SystemImplementsJobHistory` | `SystemSpec => ImplementsJobHistory` |
| `StaleOnlyByRaces` | `SystemSpec => []StaleOnlyAfterRace` |
| `NothingStranded` | `SystemSpec => []NoneStranded` |
| `EveryVectorIsMatched` | `SystemSpec => []EmbeddedReachesMatcher` |

`SystemInv` is `Inv` with what embedders keep: a repair names rows that exist, an embedder has texts
only at the steps that use them, an entry has attempts left, a vector has a row. For
`StaleOnlyAfterRace` a text in hand must be the row's text, or the row has raced, or its vector is about
to be cleared; `RacedNow` lists the ways in which the text moves under its reader, and the proof shows
there are no others. `NothingStranded` follows a row without a vector through all who may hold it
(request, queue, embedder, failed entry), and `EveryVectorIsMatched` a vector from its insertion to the
hand-off.

### Resumes and matches

| theorem (`ResumeActivationProofs`) | says |
|---|---|
| `ResumeTypeCorrect` | `Spec => []TypeOK` |
| `OneActiveUnlessOverlapped` | `Spec => []TwoActiveOnlyIfOverlapped` |
| `DecisionsAreCurrent` | `Spec => []CurrentFromCurrentProfile` |
| `CompleteReportsAreTrue` | `Spec => []CompleteMeansEvaluated` |

Each rests on an invariant of its own beside `TypeInv`, which adds to `TypeOK` that an active version has a
confirmed profile, that a call and the worker's job name a version, and that what is to be decided has a row
(else `DecideRow` would stamp a match that is not there). `ActiveInv`: without an overlap there is one
committer at most and it knows every version it has to clear. `CurrentInv`: for a version outside `blurred`,
a reconciler at work on it holds the current profile, the rows it is about to decide have the scores of
the current profile, and no row is dated after the last save. The one that `CurrentFromCurrentProfile`
lacks is the middle one: a row that is about to be decided looks stale until it is stamped. `EvalInv`, while
nothing failed: a complete report dates from no later than the profile it names (`ReportsHold`); what the
worker has passed it has decided, no earlier than its own start (`WorkHolds`); and the matched
version is served, by a call about to add its job, by a job in the queue, by the worker with that
version as its context, or by a report about it (`Served`). The last is what the property at rest needs
and cannot say, since it speaks only of the moment when no job is left.

| theorem (`MatchMemoryProofs`) | says |
|---|---|
| `ToldOncePerMatch` | `MatchSpec => []OnceUnlessRaced` |
| `AnnouncementsRemembered` | `MatchSpec => []AnnouncedIsRemembered` |
| `NewVersionsDoNotRepeat` | `MatchSpec => []SeenIsNotReannounced` |

`MemoryInv` speaks of the jobs that did not race: one evaluator at most is between decision and memory
(`Alone`); what was sent is remembered in the row or about to be by the evaluator that sent it
(`Remembered`); an evaluator that checks has erased the score to compare with, and one that sends has
sent nothing for that row before (`Erased`); hence `OncePerVersion`. `SpeaksFirst` carries the last
property over the step from check to send: a reconciliation there has nothing sent before it, or a
score below the bar under the version before. `Erased` is the second half of why the promised second
message is never sent.

### What brings postings in

| theorem (`CorpusProofs`) | says |
|---|---|
| `RowsKeepTheirOwn`, `RepairsOnlyStrengthen` | `HydrationSpec => []RowsTellTheirOwn`, `HydrationSpec => RepairsStrengthen` |
| `AlertFieldsAreOwn` | `AlertSpec => []FieldsAreTheCardsOwn` |
| `GuessesAreLive` | `ProbeSpec => []LivePostingsBeatShells` |
| `BoardsFindCompanies`, `NobodyDropsOut` | `RegistrySpec => []BoardsFindTheirCompany`, `RegistrySpec => []NobodyIsLost` |
| `PagesAreRead` | `PagesSpec => []CorpusIsRead` |
| `SkippedIsExplained` | `BoardSpec => []NothingSkippedUnexplained` |

- `HydrationInv`: the claim, the page and the repair are minutes apart, so it says what is carried over: of
  which row an update is and that it is stronger than the body claimed (`UpdatesAreStronger`), that a
  source is not repaired twice (`RepairedOnce`), and that a row no crawl and no twin has touched still has
  the body claimed (`ClaimedIsStored`).
- `AlertInv`: each job parsed has the fields its place in the mail gives it, and no id is parsed twice. That
  these are its card's own is about the order of lines: whatever the card shows behind its link comes before
  anything else the parser reads, and what another card shows behind a link of its own is cut off by that
  link. `AlertConstants` asks that cards come one after the other and that every link is a card's.
- A probe is one step, so `ProbeInv` is its result; the proof is about the order in which seven providers
  are asked for the spellings. `WebConstants` gives each spelling an answer of each provider.
- `RegistryInv`: a row keeps its name and its maker, and a request about to insert for a board has looked
  for it (what it then makes was not there, was not to be found by its query, or was made by an overlapping
  request); a row nobody replaced stays crawled or probed under every writer of its stage (`Followed`). `AliasInv`: without
  two resolutions at once, aliases point to rows with more postings, or as many and an older
  row, so a circle would have no top row; that a finite set has one (`TopOf`) is two uses of
  `LeastIndex`.
- `ExtractInv` adds to the first half of the property that no snapshot was read by a later version than
  the deployed one, so that a new version finds every page to read again. `RotationInv`, for the second: a page outranked by none has waited for at most as many batches as pages
  are not ahead of it, counted with the cardinality of those that are.
- `WalkInv`: while a board stands still, a Workday walk has seen exactly what stands above its next page
  (`ReadUpTo`); once it is over without a mark it has seen all that is served, because the page that
  ended it was not full, or brought nothing new and so was empty. That a page that is not full has
  nothing after it is `ShortPageIsLast`, from two counts of ranks (`FewRanks`, `NoRankSkipped`). For an
  aggregator, the queries behind the current one have been read (`QueryRead`) and the pages of the
  current one up to the next. A board that moved, or a tenant that repeats a page, is excepted by the
  property itself. `BoardConstants` asks that a Workday board list a posting once: a page of repetitions
  ends a walk like a repeated page.

### Spending, people, sessions, logs

| theorem | module | says |
|---|---|---|
| `SpendingStaysContained` | `ServiceProofs` | `SpendSpec => []SpendingIsContained` |
| `OutreachKeepsFaith` | `ServiceProofs` | `OutreachSpec => ContactsKeepFaith` |
| `LogsTellTheTruth` | `ServiceProofs` | `TrackSpec => []LogsTellTheHistory` |
| `MailboxKeptAlive` | `ServiceProofs` | `MailSpec => OnlyOvertakenPausesAMailbox` |
| `RotationIsSingle`, `OldSessionsEnd` | `AuthSessionsProofs` | `AuthSpec => []OnePairPerToken`, `AuthSpec => []OldPasswordLockedOut` |

- `SpendInv`: the bill is what is stored, on its way and unseen (`Accounted`); and with the calls that the
  belts have still to make in this tick it stays under the ceiling (`SpendingAhead`), as the requests that
  callers may still send before they find the circuit open stay under theirs (`RequestsAhead`). The
  property counts only what has been spent; the invariant counts what may still be.
- `OutreachInv`: what a request about to write has read is still there or was changed in a way its write
  respects (`SeenHolds`), dates agree with the status (`ContactsDated`). A dated contact comes due
  (`NudgeComesDue`): undated, its silence would be counted from now for ever. The ladder asks nobody
  twice because its rungs are disjoint (`LadderApart`).
- `TrackInv`: while one request at a time has an application (`AloneUnlessCrossed`), what it holds is the
  row (`HeldIsCurrent`), the events tell the history (`EventsTold`), and a sent application has one
  outcome row, or one on its way (`SentIsCounted`).
- `MailInv`: every token stored or held has been issued, and a poller told `invalid_grant` holds a token
  that is no good and never will be again (`DeadStaysDead`). So the connection it pauses, if good, has
  another token, unless it was told `invalid_client`.
- `AuthInv`: `SpentIsRevoked`, a token with a successor is revoked; `OneClaim`, of the calls about to
  rotate a token, the calls about to issue its successor and the successor itself there is at most one
  unless two calls shared the token; `ProofsAreReal`, no session proves a password the account has not
  had. `OnePairPerToken` alone says nothing of calls between revoking and issuing; `OldPasswordLockedOut`
  is inductive only with `ProofsAreReal`.

### What the user is told

| theorem (`TellingProofs`) | says |
|---|---|
| `MarkedIsNeverLost` | `BriefSpec => []MarkedMeansTold` |
| `ToldOnce` | `BriefSpec => []ToldOnceUnlessCrossed` |
| `PagesAgree` | `SurfacesSpec => []PagesTellTheDecision` |

- `BriefInv`: between message and mark, what a request or a push holds has been named, or was refused
  (`SentIsNamed`), although
  verdicts, marks and acts change meanwhile. `OnceInv` adds that without a
  failure the worker waits for whatever is being served (`WaitedFor`), that only a digest carries a batch
  (`BatchInHand`), that a match neither overtaken nor doubled is told once at most, and then marked or in the hands of the
  one request or push about to mark it (`ToldByOne`), and that the briefs sent and still to send are paid for by scheduled jobs and
  failures (`BriefsPaidFor`). `HandlerAssumption`: `NoHandler` is no handler.
- `SurfacesInv` is only that rows agree with themselves: a refusal code comes with a SKIP
  (`SurfaceConstants`, as the gate writes it). The work is in the pages, each cut out of the rows by rank:
  of a cut it is enough to know what it leaves out (`ComesFrom`). `SurfaceConstants` bounds the feed by
  66, because the pool of three feeds is clamped to 200 rows.

### What is not proved

`NeverSilentlyStranded`, `TerminalStateWritten` and `EveryCandidateJudged` are liveness under fairness,
which needs ENABLED: out of the prover's reach, and checked by TLC on `ingest_liveness`,
`resume_liveness` and `match_belt`. The two violated properties are false. That the proofs are about all
instances does not extend the models: what `Abstractions` leaves out is left out of the theorems too.

## Plan

Done: the core, `ResumeActivation`, `MatchMemory`, the thirteen services, and a proof of every safety
property the passing runs check. What would come next, in this order:

1. `BoardWalk` composed with `CrawlSync`: what a walk leaves out is what the reconciliation retires.
2. An abstract specification of a match and its memory, implemented by `MatchMemory` as `CrawlSync`
   implements `JobHistory`.
3. The safety half of the liveness properties: that whoever is waited for is at a step from which the
   fair actions lead on.

## Not modelled

- The web pages: calls of the API, which the modules above take from any caller in any order.
- Watchlist, company intelligence, insights, source trust, users, admin, storage, the jobs API: single
  statements or figures recomputed as a whole.
- Uploading, parsing and tailoring a resume, the resume builder, its quality gate and the ATS check:
  functions of one document, in one request.
- The figures of applications and outcomes (rates, lifts, causes, advice) and what a page shows beside
  the ladder of ways in (confidence, strategy, plan): recomputed per request, they change no state.
- The tiers of the crawl schedule; queue health and the process guard.
- The Places search, the seed import and the statistics of discovery.
- A sync of Gmail: `gmail-sync.ts` has the helpers and nothing in the repository calls them.
- Shadow reports, explanations and the scripts that backfill: read-only, or run by hand once.
- HTML, dates, salary text, prompts, wording, HTTP validation.

`PROJECT.json` lists every part with its reason, and every hazard with the property that covers it; two
have none, with the reason there: the title of a suppressed row, and the sweep whose limit is filled by
rows that can never be embedded.
