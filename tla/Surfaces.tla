------------------------------ MODULE Surfaces ------------------------------
(***************************************************************************)
(* What the pages say about the stored decisions of one user: the feed     *)
(* (browseByFit of matching.service.ts), the plan of the day (today), the  *)
(* review queue and the page of exclusions, the counters of the dashboard, *)
(* the lists of the brief.  They read the same rows of job_matches, each   *)
(* with a rule of its own; the rows change as the gate and the scorer      *)
(* decide, the user acts, and postings close.                              *)
(***************************************************************************)
EXTENDS Integers, FiniteSets

CONSTANTS
    Listed,        \* jobs with a row on some page
    Facts,         \* job -> [fit, age, place, embedded, referral, watched, trend, trust]
    Decisions,     \* what the scorer may decide: records [verdict, code, opportunity]
    GateOutcomes,  \* what the gate may decide: records [verdict, code]
    FEED,          \* jobs today() asks of the feed (24)
    Desk,          \* [due, tailored, hasMaster, gaps]: what else today() reads
    Earlier,       \* rows earlier runs may have left: a set of functions on Listed
    MaxDecisions, MaxActs  \* bounds

\* The states of an application are modelled by ApplicationTracker.
Acts == {"none", "SAVED", "APPLIED"}

VARIABLES
    row,     \* the match of each job with the active resume version
    act,     \* the user's application to it
    judged,  \* jobs with review feedback
    gone,    \* jobs no longer ACTIVE
    decided, \* decisions so far
    acts     \* what the user did so far

surfaceVars == <<row, act, judged, gone, decided, acts>>

NoScore == -1
NoRow == [verdict |-> "none", code |-> "none", opportunity |-> NoScore, decidedAt |-> FALSE]

-----------------------------------------------------------------------------
\* The state a surface may claim.

GATE_REFUSAL_CODES ==
    {"TARGET_ROLE_TOO_SENIOR", "NOT_DEVELOPMENT", "DEVELOPMENT_WRONG_SPECIALIZATION",
     "TARGET_ROLE_BELOW_LEVEL", "LOW_CODING_RESPONSIBILITY", "CORE_STACK_MISMATCH"}

Verdicts == {"APPLY", "CONSIDER", "NEEDS_REVIEW", "SKIP"}

\* The code of a refusal comes with the verdict SKIP, from the gate as from the
\* scorer (eligibility, decide).
Agrees(d) == d.verdict \in Verdicts /\ (d.code \in GATE_REFUSAL_CODES => d.verdict = "SKIP")

\* A row that is not decided has no verdict.
RowForm(r) ==
    /\ r.opportunity \in Int /\ r.decidedAt \in BOOLEAN
    /\ IF r.decidedAt THEN Agrees(r) ELSE r.verdict \in {"none", "undecided"}

ASSUME SurfaceConstants ==
    /\ IsFiniteSet(Listed)
    /\ FEED \in 1 .. 66              \* the pool is three times as large, and is capped at 200
    /\ \A d \in Decisions : Agrees(d) /\ d.opportunity \in Int
    /\ \A o \in GateOutcomes : Agrees(o)
    /\ \A rows \in Earlier : rows = [j \in Listed |-> rows[j]] /\ \A j \in Listed : RowForm(rows[j])
    /\ \A t \in Desk.due : t.kind \in {"REPLY", "FOLLOW_UP"}

recommendationState(r) ==
    IF ~r.decidedAt THEN "POTENTIAL"
    ELSE IF r.code \in GATE_REFUSAL_CODES THEN "REFUSED"
    ELSE IF r.verdict \in {"APPLY", "CONSIDER"} THEN r.verdict
    ELSE IF r.verdict = "SKIP" THEN "REFUSED"
    ELSE "POTENTIAL"

STATE_RANK == [APPLY |-> 0, CONSIDER |-> 1, POTENTIAL |-> 2, REFUSED |-> 3]

Clamp(n, lo, hi) == IF n < lo THEN lo ELSE IF n > hi THEN hi ELSE n

\* The similarity blend that orders what was not decided: the points of the
\* fit, the age, a referral, the watchlist, the company's trend, the source.
opportunityScore(f, isApplied) ==
    LET fitPoints == Clamp((68 * (f.fit - 55) + 17) \div 35, 0, 68)
        fresh == CASE f.age <= 1 -> 12 [] f.age \in 2 .. 3 -> 9 [] f.age \in 4 .. 7 -> 5
                   [] f.age \in 22 .. 45 -> -4 [] f.age > 45 -> -8 [] OTHER -> 0
        referral == [CONTACTED |-> 12, FOUND |-> 6, NONE |-> 0][f.referral]
        trend == CASE f.trend = "GROWING" -> 5 [] f.trend = "DECLINING" -> -3 [] OTHER -> 0
        trust == IF f.trust = NoScore THEN 0
                 ELSE IF f.trust >= 95 THEN 3 ELSE IF f.trust <= 75 THEN -5 ELSE 0
    IN Clamp(fitPoints + fresh + referral + trend + trust
             + (IF f.watched THEN 8 ELSE 0) - (IF isApplied THEN 18 ELSE 0), 0, 100)

-----------------------------------------------------------------------------
\* The feed.

HasAct(j) == act[j] # "none"
notActedOn(j) == act[j] \in {"none", "SAVED"}
OpenJobs == Listed \ gone

\* MUTANT of DecidedFirst, once measured in the code: similarity orders the pool.
MoreSimilar(a, b) ==
    IF row[a].decidedAt # row[b].decidedAt THEN row[a].decidedAt
    ELSE Facts[a].fit > Facts[b].fit

\* ORDER BY decided, opportunityScore DESC NULLS LAST, similarity.
DecidedFirst(a, b) ==
    IF row[a].decidedAt # row[b].decidedAt THEN row[a].decidedAt
    ELSE IF row[a].opportunity # row[b].opportunity
         THEN row[a].opportunity > row[b].opportunity
    ELSE Facts[a].fit > Facts[b].fit

\* What the first n of S may be: no other row ranks before one of them, and rows
\* that rank alike come in any order.
FirstRows(n, S, Before(_, _)) ==
    {T \in SUBSET S :
        /\ Cardinality(T) = IF n < Cardinality(S) THEN n ELSE Cardinality(S)
        /\ \A a \in T, b \in S \ T : ~Before(b, a)}

inScope(indiaOnly) ==
    {j \in OpenJobs : Facts[j].embedded /\ (indiaOnly => Facts[j].place # "abroad")}

item(j) ==
    LET state == recommendationState(row[j])
    IN [job |-> j, state |-> state, isApplied |-> HasAct(j),
        opportunity |-> IF state = "POTENTIAL" THEN NoScore ELSE row[j].opportunity,
        matchSignal |-> opportunityScore(Facts[j], HasAct(j))]

byRecommendation(a, b) ==
    IF a.state # b.state THEN STATE_RANK[a.state] < STATE_RANK[b.state]
    ELSE IF a.state = "POTENTIAL" THEN a.matchSignal > b.matchSignal
    ELSE a.opportunity > b.opportunity

\* A refused job never reaches the feed.
offered(i) == i.state # "REFUSED"

\* A pool of three times the limit is selected, labelled, filtered, cut: the feeds
\* there may be.
browseByFit(ask, indiaOnly) ==
    LET limit == Clamp(ask, 1, 120)
        pool == Clamp(3 * limit, 0, 200)
    IN UNION {FirstRows(limit, {i \in {item(j) : j \in selected} : offered(i)}, byRecommendation) :
                 selected \in FirstRows(pool, inScope(indiaOnly), DecidedFirst)}

-----------------------------------------------------------------------------
\* The plan of the day.

KIND_ORDER == [REPLY |-> 0, FOLLOW_UP |-> 1, APPLY |-> 2, TAILOR |-> 3, REFERRAL |-> 4,
               POTENTIAL |-> 5, MASTER_RESUME |-> 6, LEARN |-> 7]

Task(kind, stars, j) == [kind |-> kind, stars |-> stars, job |-> j]
NoTask(kind, stars) == Task(kind, stars, "none")

When(condition, task) == IF condition THEN {task} ELSE {}

\* The tasks about the jobs to apply to, of which top is the first, and about the
\* jobs nobody has judged.
planActions(apply, top, potential) ==
    Desk.due
    \cup {Task("APPLY", 5, i.job) : i \in apply}
    \cup {Task("POTENTIAL", 3, i.job) : i \in potential}
    \cup {Task("TAILOR", 4, i.job) : i \in {t \in top : t.job \notin Desk.tailored}}
    \cup {Task("REFERRAL", 4, i.job) : i \in {t \in top : Facts[t.job].referral = "NONE"}}
    \cup When(~Desk.hasMaster, NoTask("MASTER_RESUME", 4))
    \cup When(Desk.gaps >= 3, NoTask("LEARN", 3))

Sooner(a, b) ==
    \/ a.stars > b.stars
    \/ a.stars = b.stars /\ KIND_ORDER[a.kind] < KIND_ORDER[b.kind]

InState(feed, s) == {i \in feed : ~i.isApplied /\ notActedOn(i.job) /\ i.state = s}

\* The plans that may follow from a feed: the best two to apply to, what room three
\* leave for unjudged ones, and seven tasks of all.
plans(feed) ==
    LET room == Clamp(3 - Cardinality(InState(feed, "APPLY")), 0, 3)
        Of(apply, potential) ==
            UNION {FirstRows(7, planActions(apply, top, potential), Sooner) :
                      top \in FirstRows(1, apply, byRecommendation)}
    IN UNION {Of(apply, potential) :
                 apply \in FirstRows(2, InState(feed, "APPLY"), byRecommendation),
                 potential \in FirstRows(room, InState(feed, "POTENTIAL"), byRecommendation)}

today == UNION {plans(feed) : feed \in browseByFit(FEED, TRUE)}

-----------------------------------------------------------------------------
\* The audit pages, the counters, the lists of the brief.

WithVerdict(v) == {j \in OpenJobs : row[j].verdict = v}

needsReview == WithVerdict("NEEDS_REVIEW") \ judged

excludedRow(j) == row[j].verdict = "SKIP"

excluded == {j \in OpenJobs : excludedRow(j)}

dashboardDecisions ==
    [applyNow |-> {j \in WithVerdict("APPLY") : notActedOn(j)},
     worthApplying |-> {j \in WithVerdict("CONSIDER") : notActedOn(j)},
     needsReview |-> needsReview]

ByOpportunity(a, b) == row[a].opportunity > row[b].opportunity

\* The brief lists a verdict while it is fresh: APPLY for a week, CONSIDER a month.
briefLists(v, days) ==
    FirstRows(3, {j \in WithVerdict(v) : Facts[j].age <= days /\ notActedOn(j)}, ByOpportunity)

\* Its "top opportunities": the most similar jobs of India, whatever was decided.
topOpportunities ==
    LET candidates == {j \in OpenJobs : /\ Facts[j].embedded /\ Facts[j].place = "india"
                                        /\ Facts[j].age <= 30}
        Nearer(a, b) == Facts[a].fit > Facts[b].fit
        fresh(j) == opportunityScore([Facts[j] EXCEPT !.trust = NoScore], FALSE)
        Fresher(a, b) == fresh(a) > fresh(b)
    IN UNION {FirstRows(5, {j \in nearest : ~HasAct(j)}, Fresher) :
                 nearest \in FirstRows(60, candidates, Nearer)}

-----------------------------------------------------------------------------
\* The writers of the rows.

Decide(j, new) ==
    /\ j \in OpenJobs /\ decided < MaxDecisions /\ decided' = decided + 1
    /\ row' = [row EXCEPT ![j] = new]
    /\ UNCHANGED <<act, judged, gone, acts>>

\* recordGateDecisions: an upsert that leaves the score of an older decision.
Gated(j) ==
    \E o \in GateOutcomes :
       Decide(j, [verdict |-> o.verdict, code |-> o.code,
                  opportunity |-> row[j].opportunity, decidedAt |-> TRUE])

\* scoreAndUpsert creates the match undecided; scoreMatch decides it.
Upserted(j) == row[j] = NoRow /\ Decide(j, [NoRow EXCEPT !.verdict = "undecided"])

Scored(j) ==
    /\ row[j] # NoRow
    /\ \E d \in Decisions :
          Decide(j, [verdict |-> d.verdict, code |-> d.code,
                     opportunity |-> d.opportunity, decidedAt |-> TRUE])

UserActs ==
    /\ acts < MaxActs /\ acts' = acts + 1
    /\ \/ \E j \in OpenJobs, s \in Acts \ {"none"} :
             act' = [act EXCEPT ![j] = s] /\ UNCHANGED <<judged, gone>>
       \/ \E j \in OpenJobs :
             row[j] # NoRow /\ judged' = judged \union {j} /\ UNCHANGED <<act, gone>>
       \/ \E j \in OpenJobs :
             gone' = gone \union {j} /\ UNCHANGED <<act, judged>>
    /\ UNCHANGED <<row, decided>>

SurfacesInit ==
    /\ row \in Earlier /\ act = [j \in Listed |-> "none"]
    /\ judged = {} /\ gone = {} /\ decided = 0 /\ acts = 0

SurfacesNext == UserActs \/ \E j \in Listed : Gated(j) \/ Upserted(j) \/ Scored(j)

SurfacesSpec == SurfacesInit /\ [][SurfacesNext]_surfaceVars

-----------------------------------------------------------------------------
IsRefused(j) == recommendationState(row[j]) = "REFUSED"

(* A job the user was refused is asked of nobody: it is in no feed, no plan *)
(* of the day and no list of recommendations, and the page of exclusions   *)
(* shows it.  topOpportunities of the brief is the one list that reads no  *)
(* verdict (matching.service.ts:1340 "A refused job never reaches an       *)
(* actionable surface").                                                   *)
RefusedIsShownAsExcluded ==
    /\ \A feed \in browseByFit(FEED, FALSE) : \A i \in feed : ~IsRefused(i.job)
    /\ \A plan \in today : \A t \in plan :
          t.kind = "APPLY" => row[t.job].verdict = "APPLY" /\ notActedOn(t.job)
    /\ \A v \in {"APPLY", "CONSIDER"} : \A list \in briefLists(v, 30) :
          \A j \in list : ~IsRefused(j)
    /\ \A j \in OpenJobs : IsRefused(j) <=> j \in excluded

(* An approval is never hidden by a job that is merely similar: when the   *)
(* feed leaves out a job decided APPLY, every job it shows is approved     *)
(* with at least the same score, or the pool was full of decisions that    *)
(* score as high (matching.service.ts:1270-1296, 1195-1200).               *)
ApprovalsReachTheFeed ==
    LET Above(j) == {k \in inScope(TRUE) : row[k].decidedAt /\ k # j
                                           /\ row[k].opportunity >= row[j].opportunity}
    IN \A feed \in browseByFit(FEED, TRUE) : \A j \in inScope(TRUE) :
          /\ row[j].decidedAt /\ row[j].verdict = "APPLY"
          /\ j \notin {i.job : i \in feed}
          => \/ Cardinality(Above(j)) >= 3 * FEED
             \/ \A i \in feed : i.state = "APPLY" /\ i.opportunity >= row[j].opportunity

(* Every decision is on exactly one page until the user acts on it: a      *)
(* verdict is counted, waits for review, or is listed as an exclusion.     *)
EveryVerdictHasOnePage ==
    LET d == dashboardDecisions
        pages == << d.applyNow, d.worthApplying, d.needsReview, excluded >>
    IN \A j \in OpenJobs : row[j].decidedAt =>
          LET on == {p \in DOMAIN pages : j \in pages[p]}
              done == \/ act[j] = "APPLIED" /\ row[j].verdict \in {"APPLY", "CONSIDER"}
                      \/ j \in judged /\ row[j].verdict = "NEEDS_REVIEW"
          IN Cardinality(on) = IF done THEN 0 ELSE 1

(* Each page tells the decision of the job: refusals are excluded, approvals *)
(* reach the feed, and every verdict has its one page.  Before the first   *)
(* decision there is none to tell.                                         *)
PagesTellTheDecision ==
    (\E j \in Listed : row[j].decidedAt) =>
        RefusedIsShownAsExcluded /\ ApprovalsReachTheFeed /\ EveryVerdictHasOnePage
=============================================================================
