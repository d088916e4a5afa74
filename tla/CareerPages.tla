----------------------------- MODULE CareerPages -----------------------------
(***************************************************************************)
(* Career pages read without an ATS: extract-career-pages.processor.ts     *)
(* (the static tier, the replay of stored pages and the render tier), the  *)
(* extractor they share (career-extractor.ts) and the queues and snapshots *)
(* they work from (discovery.service.ts).  A page shows a set of           *)
(* candidate blocks; what the extractor makes of a block depends on its    *)
(* version.                                                                *)
(***************************************************************************)
EXTENDS Integers, Sequences, FiniteSets, SequencesExt, Functions

CONSTANTS
    Pages,          \* companies with a career page and no known ATS
    Blocks,         \* block -> its features, see classifyBlock
    Contents,       \* revision of a page -> the blocks it shows, a set of names
    Shells,         \* revisions whose static HTML is a JavaScript shell
    Versions,       \* extractor version -> the features it recognises
    BATCH,          \* pages a run claims
    MaxEdits,       \* changes of the pages
    MaxFaults       \* failed calls and dead workers

THRESHOLD == 70
MaxVersionOf == Len(Versions)

ASSUME PagesConstants ==
    /\ IsFiniteSet(Pages) /\ BATCH \in Nat \ {0} /\ {MaxEdits, MaxFaults} \subseteq Nat
    /\ \A k \in DOMAIN Contents : Contents[k] \subseteq DOMAIN Blocks
    /\ Shells \subseteq DOMAIN Contents

VARIABLES
    revision,   \* what each page shows now
    older,      \* pairs of pages: the first was extracted before the second
    watched,    \* pages of companies somebody watches, or of a target city
    needsRender,
    snapshot,   \* stored page: its revision and the version that read it
    ingested,   \* pairs of page and block that became jobs
    version,    \* the deployed EXTRACTOR_VERSION
    tier,       \* live, replay, render -> the run in progress
    faults,
    \* history
    waited,     \* live batches a page was due for and not in
    dropped     \* pages whose jobs were lost since they were last stored

pagesVars == <<revision, older, watched, needsRender, snapshot, ingested, version, tier, faults,
               waited, dropped>>

Tiers == {"live", "replay", "render"}
NoSnapshot == [revision |-> 0, version |-> 0]
NoRun == [pc |-> "idle", todo |-> {}, held |-> [p \in Pages |-> 0], all |-> {}, shells |-> {}]

-----------------------------------------------------------------------------
\* classify, in points: the title, the link, and what the block says beside it.
Points == [location |-> 12, experience |-> 10, employment |-> 8, department |-> 6, salary |-> 8]
LinkPoints == [job |-> 25, other |-> 8, none |-> 0]

score(b) ==
    LET s == 45 + LinkPoints[b.link] + SumFunctionOnSet(Points, b.signals)
    IN IF s > 100 THEN 100 ELSE s

\* A block is a candidate if its title names a role and nothing speaks against it,
\* and something beside the title speaks for it.
candidate(b, known) == b.title \in known /\ (b.link # "none" \/ b.signals # {})

CandidatesOf(v, S) == {x \in S : candidate(Blocks[x], Versions[v])}

\* extractCareerPage: the candidates over the threshold that have a URL.
Strong(v, S) == {x \in CandidatesOf(v, S) : Blocks[x].link # "none" /\ score(Blocks[x]) >= THRESHOLD}

confidence(v, S) ==
    LET strong == Cardinality(Strong(v, S))
        jobs == CandidatesOf(v, S)
        avg == SumFunction([x \in jobs |-> score(Blocks[x])]) \div Cardinality(jobs)
    IN CASE strong >= 3 -> IF strong > 35 THEN 95 ELSE 60 + strong
         [] strong > 0 -> 55
         [] OTHER -> IF jobs = {} THEN 0 ELSE IF avg > 45 THEN 45 ELSE avg

\* What a GET returns of a revision, and what a browser does.
Static(k) == IF k \in Shells THEN {} ELSE Contents[k]
Shown(t, k) == IF t = "live" THEN Static(k) ELSE Contents[k]

-----------------------------------------------------------------------------
PagesInit ==
    /\ revision = [p \in Pages |-> 1]
    /\ older = {}
    /\ watched \in SUBSET Pages
    /\ needsRender = {}
    /\ snapshot = [p \in Pages |-> NoSnapshot]
    /\ ingested = {}
    /\ version = 1
    /\ tier = [t \in Tiers |-> NoRun]
    /\ faults = 0
    /\ waited = [p \in Pages |-> 0]
    /\ dropped = {}

\* careerPagesDue: watched pages first, then the longest unread; pages of one batch
\* have one stamp, and then the ids decide.
Outranks(q, p) ==
    IF (q \in watched) = (p \in watched) THEN <<q, p>> \in older ELSE q \in watched

Due(S) ==
    /\ Cardinality(S) = IF Cardinality(Pages) < BATCH THEN Cardinality(Pages) ELSE BATCH
    /\ \A p \in S, q \in Pages \ S : ~Outranks(q, p)

\* The batch is claimed in the statement that selects it.
ClaimPages ==
    /\ tier["live"].pc = "idle"
    /\ \E S \in SUBSET Pages :
          /\ Due(S)
          /\ older' = {pair \in older : pair[1] \notin S /\ pair[2] \notin S} \cup ((Pages \ S) \X S)
          /\ waited' = [p \in Pages |->
                          IF p \in S THEN 0
                          ELSE IF waited[p] = Cardinality(Pages) THEN waited[p] ELSE waited[p] + 1]
          /\ tier' = [tier EXCEPT !["live"] = [NoRun EXCEPT !.pc = "pages", !.todo = S]]
    /\ UNCHANGED <<revision, watched, needsRender, snapshot, ingested, version, faults, dropped>>

\* snapshotsReplayDue: what another version has read, with the stored HTML.
Backlog == {p \in Pages : snapshot[p] # NoSnapshot /\ snapshot[p].version # version}

ClaimSnapshots ==
    /\ tier["replay"].pc = "idle" /\ Backlog # {}
    /\ tier' = [tier EXCEPT !["replay"] =
                  [NoRun EXCEPT !.pc = "pages", !.todo = Backlog,
                                !.held = [p \in Pages |-> snapshot[p].revision]]]
    /\ UNCHANGED <<revision, older, watched, needsRender, snapshot, ingested, version, faults,
                   waited, dropped>>

\* renderDue
ClaimShells ==
    /\ tier["render"].pc = "idle" /\ needsRender # {}
    /\ tier' = [tier EXCEPT !["render"] = [NoRun EXCEPT !.pc = "pages", !.todo = needsRender]]
    /\ UNCHANGED <<revision, older, watched, needsRender, snapshot, ingested, version, faults,
                   waited, dropped>>

\* A page is fetched; a failed fetch leaves it to a later batch.
Fetch(t, p) ==
    /\ t # "replay"
    /\ tier[t].pc = "pages" /\ p \in tier[t].todo /\ tier[t].held[p] = 0
    /\ tier' = [tier EXCEPT ![t].held[p] = revision[p]]
    /\ UNCHANGED <<revision, older, watched, needsRender, snapshot, ingested, version, faults,
                   waited, dropped>>

FetchFails(t, p) ==
    /\ t # "replay"
    /\ tier[t].pc = "pages" /\ p \in tier[t].todo /\ tier[t].held[p] = 0
    /\ faults < MaxFaults /\ faults' = faults + 1
    /\ tier' = [tier EXCEPT ![t].todo = @ \ {p}]
    /\ UNCHANGED <<revision, older, watched, needsRender, snapshot, ingested, version, waited,
                   dropped>>

\* MUTANT of AndThese: each page starts the list of extracted jobs again
OnlyThese(r, found) == found

\* all.push(...clean)
AndThese(r, found) == r.all \cup found

\* It is extracted with the version the worker runs and its jobs join the run's.
\* store says whether this tier stores the page now; storing that fails is only
\* logged.
Extract(t, p, store, stored) ==
    /\ tier[t].pc = "pages" /\ p \in tier[t].todo /\ tier[t].held[p] # 0
    /\ LET k == tier[t].held[p]
           found == {<<p, x>> : x \in Strong(version, Shown(t, k))}
       IN /\ tier' = [tier EXCEPT
                        ![t] = [tier[t] EXCEPT !.todo = @ \ {p},
                               !.all = AndThese(tier[t], found),
                               !.shells = IF t = "live" /\ k \in Shells THEN @ \cup {p} ELSE @]]
          /\ snapshot' = IF stored /\ store
                         THEN [snapshot EXCEPT ![p] = [revision |-> k, version |-> version]]
                         ELSE snapshot
          /\ dropped' = IF stored /\ store THEN dropped \ {p} ELSE dropped
    /\ IF stored THEN UNCHANGED faults ELSE faults < MaxFaults /\ faults' = faults + 1
    /\ UNCHANGED <<revision, older, watched, needsRender, ingested, version, waited>>

HasCandidates(t, p) == CandidatesOf(version, Shown(t, tier[t].held[p])) # {}

\* A fetched or rendered page is stored if it has candidates at all; a replayed one
\* in any case, so that it leaves the backlog.
ExtractLive(p, stored) == Extract("live", p, HasCandidates("live", p), stored)
ExtractReplay(p, stored) == Extract("replay", p, TRUE, stored)
ExtractRender(p, stored) == Extract("render", p, HasCandidates("render", p), stored)

\* Whose jobs a run holds.
HasJobs(t) == {f[1] : f \in tier[t].all}

\* One ingest call at the end of the run.  The API takes one company after the
\* other; a company that fails is logged and skipped, and the call still succeeds.
Ingest(t, skipped) ==
    /\ tier[t].pc = "pages" /\ tier[t].todo = {}
    /\ skipped \subseteq HasJobs(t) /\ faults + Cardinality(skipped) <= MaxFaults
    /\ faults' = faults + Cardinality(skipped)
    /\ ingested' = ingested \cup {f \in tier[t].all : f[1] \notin skipped}
    /\ dropped' = dropped \cup skipped
    /\ tier' = [tier EXCEPT ![t] = NoRun]
    /\ UNCHANGED <<revision, older, watched, snapshot, version, waited>>

\* The live run then hands the shells it met to the render tier.
IngestLive(skipped) ==
    Ingest("live", skipped) /\ needsRender' = needsRender \cup tier["live"].shells
IngestReplay(skipped) == Ingest("replay", skipped) /\ UNCHANGED needsRender
IngestRender(skipped) == Ingest("render", skipped) /\ UNCHANGED needsRender

\* The call itself fails: the run fails with it, and there is no second attempt.
IngestFails(t) ==
    /\ tier[t].pc = "pages" /\ tier[t].todo = {} /\ tier[t].all # {}
    /\ faults < MaxFaults /\ faults' = faults + 1
    /\ dropped' = dropped \cup HasJobs(t)
    /\ tier' = [tier EXCEPT ![t] = NoRun]
    /\ UNCHANGED <<revision, older, watched, needsRender, snapshot, ingested, version, waited>>

\* The worker process stops, and comes back with this version or the next.
Restart(v) ==
    /\ v \in {version, version + 1} /\ v <= MaxVersionOf
    /\ IF v = version THEN faults < MaxFaults /\ faults' = faults + 1 ELSE UNCHANGED faults
    /\ version' = v
    /\ dropped' = dropped \cup UNION {HasJobs(t) : t \in Tiers}
    /\ tier' = [t \in Tiers |-> NoRun]
    /\ UNCHANGED <<revision, older, watched, needsRender, snapshot, ingested, waited>>

\* The company edits its page.
Edit(p) ==
    /\ revision[p] < Len(Contents)
    /\ SumFunction(revision) < Cardinality(Pages) + MaxEdits
    /\ revision' = [revision EXCEPT ![p] = @ + 1]
    /\ UNCHANGED <<older, watched, needsRender, snapshot, ingested, version, tier, faults, waited,
                   dropped>>

PagesNext ==
    \/ ClaimPages \/ ClaimSnapshots \/ ClaimShells
    \/ \E t \in Tiers, p \in Pages :
          Fetch(t, p) \/ FetchFails(t, p)
    \/ \E p \in Pages, stored \in BOOLEAN :
          ExtractLive(p, stored) \/ ExtractReplay(p, stored) \/ ExtractRender(p, stored)
    \/ \E skipped \in SUBSET Pages :
          IngestLive(skipped) \/ IngestReplay(skipped) \/ IngestRender(skipped)
    \/ \E t \in Tiers : IngestFails(t)
    \/ \E v \in 1 .. MaxVersionOf : Restart(v)
    \/ \E p \in Pages : Edit(p)

PagesSpec == PagesInit /\ [][PagesNext]_pagesVars

-----------------------------------------------------------------------------
\* "A parser improvement turns into new jobs across the whole captured corpus"
\* (extract-career-pages.processor.ts:336): what the deployed extractor accepts in
\* a stored page is a job, or about to be one, or the page is still in the backlog.
\* The exception is the order of the two: a page is stored as read before its jobs
\* are ingested.  If the run ends between the two, or the ingest skips the company,
\* its jobs are lost until the page is read and stored again: no replay takes it up.
NothingExtractedIsForgotten ==
    \A p \in Pages \ dropped :
        snapshot[p] # NoSnapshot /\ snapshot[p].version = version =>
            \A x \in Strong(version, Contents[snapshot[p].revision]) :
                <<p, x>> \in ingested \cup UNION {tier[t].all : t \in Tiers}

\* "Runs rotate through the corpus instead of re-fetching the same pages every 6h"
\* (discovery.service.ts:349), as far as the order keeps it: a page that no other
\* outranks is read again before as many batches as there are pages have passed it
\* by.  Pages outranked by a full batch of watched or target-city pages never are.
OutrankedBy(p) == IF p \in watched THEN {} ELSE watched

PreferredPagesRotate ==
    \A p \in Pages : OutrankedBy(p) = {} => waited[p] < Cardinality(Pages)

\* The corpus is read: in turn, and with nothing left behind in what was stored.
CorpusIsRead == NothingExtractedIsForgotten /\ PreferredPagesRotate
=============================================================================
