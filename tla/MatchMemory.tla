---------------------------- MODULE MatchMemory -----------------------------
(***************************************************************************)
(* One user's matches: matching.service.ts (gate, score, record),          *)
(* opportunity.service.ts scoreMatch (decide) and notifications.service.ts *)
(* maybeNotifyMatch (announce), run by evaluators that overlap: the belt   *)
(* and the resume worker (reconcileForUser), POST /matches/generate,       *)
(* the incremental matcher (matchNewJobs) and the rescore after a deploy.  *)
(* A match row carries the memory of what was decided and announced.       *)
(***************************************************************************)
EXTENDS Opportunity, TLC

CONSTANTS
    JobOrder,      \* the jobs, best candidate first (fresh tiers, then similarity)
    Evaluators,
    Kinds,         \* the kinds of run the evaluators start
    MaxVersion,    \* resume versions activated
    Cap,           \* LIMIT of the candidate query
    MaxTrouble,    \* failed calls, crashes, overlapping starts and profile saves together
    Bodies,        \* [body, length] of the descriptions a job may have, thinnest first
    Answers,       \* [job -> [body -> what the classifier may answer]]
    LlmScores,     \* what the model may score a job
    Facts,         \* what else the score reads about a job, before and after
    Years,         \* years of experience the profile may state
    Mine,          \* the user's skills
    NOTIFY_MIN_SCORE, NOTIFY_MAX_AGE_DAYS

Jobs == {JobOrder[i] : i \in DOMAIN JobOrder}

ASSUME MatchConstants ==
    /\ Kinds \subseteq {"reconcile", "generate", "matchNew", "rescore"}
    /\ MaxVersion \in Nat \ {0} /\ Cap \in Nat \ {0}
    /\ MaxTrouble \in Nat
    /\ Years # {} /\ Years \subseteq Nat

RENOTIFY_SCORE_DELTA == 5

VARIABLES
    job,      \* [text, facts] of each job
    cls,      \* stored classification of each job, with its evidence
    match,    \* the match row of a resume version and a job
    active,   \* the activated resume version
    years, excluded,   \* the profile, and the disciplines answered No
    acted,    \* jobs in the user's applications, past SAVED
    ev,       \* the evaluators
    trouble,
    sent,     \* history: the messages about each job
    raced     \* history: jobs announced by two evaluators at once, or across a crash

userVars == <<active, years, excluded, acted>>
matchVars == <<job, cls, match, userVars, ev, trouble, sent, raced>>

Versions == 1 .. MaxVersion

NoScores == [overallScore |-> 0, experienceScore |-> 0, gaps |-> 0]
NoRow == [exists |-> FALSE, scores |-> NoScores, opp |-> NoNumber, verdict |-> "none",
          code |-> "none", current |-> FALSE, notified |-> FALSE, notifiedScore |-> NoNumber]
NoClass == [class |-> [roleFamily |-> "none"], evidence |-> NoEvidence]

Idle == [kind |-> "none", pc |-> "idle", version |-> 1, todo |-> {},
         held |-> [j \in Jobs |-> Bodies[1]], known |-> [j \in Jobs |-> NoClass],
         refused |-> {}, before |-> [j \in Jobs |-> NoNumber], at |-> "none", opp |-> NoNumber]

-----------------------------------------------------------------------------
\* The rows the candidate query leaves out: decided since the profile was saved,
\* unless for want of a description that has arrived since.
decided(v, j) ==
    /\ match[v][j].verdict # "none" /\ match[v][j].current
    /\ ~ (/\ match[v][j].code = "INSUFFICIENT_EVIDENCE"
          /\ job[j].text.length >= MIN_DESCRIPTION_CHARS)

Candidates(v) == {j \in Jobs : ~decided(v, j)}

\* The first n of S in the order of the query.
TopOf(S, n) ==
    {JobOrder[i] : i \in {k \in DOMAIN JobOrder :
        JobOrder[k] \in S /\ Cardinality({JobOrder[l] : l \in 1 .. k} \cap S) <= n}}

jobEverNotified(j) == \E v \in Versions : match[v][j].notified

\* The score of a job under the newest other version that has one.
previousScore(v, j) ==
    LET scored == {w \in Versions \ {v} : match[w][j].opp # NoNumber}
    IN IF scored = {} THEN NoNumber ELSE match[Max(scored)][j].opp

verdictOf(opp) == IF opp >= 750 THEN "APPLY" ELSE IF opp >= 600 THEN "CONSIDER" ELSE "SKIP"

\* Everything the score reads about a match.
Reading(facts, scores) ==
    [f \in DOMAIN facts \cup DOMAIN scores |->
        IF f \in DOMAIN scores THEN scores[f] ELSE facts[f]]

OpportunityOf ==
    [f \in Range(Facts), s \in LlmScores \cup {NoScores} |-> compute(Reading(f, s))]

-----------------------------------------------------------------------------
\* What keeps a recommended match from interrupting the user: country, age, a
\* board copy of a company crawled directly.
maxAgeDays(f) ==
    IF f.bigTech \/ f.recentJobs >= 3 THEN 2 * NOTIFY_MAX_AGE_DAYS ELSE NOTIFY_MAX_AGE_DAYS

held(f) ==
    \/ ~f.inCountry
    \/ f.ageHours > 24 * maxAgeDays(f)
    \/ f.boardCopy

\* MUTANT of worthAnnouncing: the memory is not consulted
AnnouncingAnyway(row, j) ==
    /\ row.opp >= 10 * NOTIFY_MIN_SCORE
    /\ ~held(job[j].facts)
    /\ row.verdict = "APPLY"
    /\ j \notin acted

\* The gate and memory of maybeNotifyMatch: never twice for a match, unless its
\* score rose by the delta since the one it was announced with.
worthAnnouncing(row, j) ==
    /\ row.opp >= 10 * NOTIFY_MIN_SCORE
    /\ ~held(job[j].facts)
    /\ row.notified =>
         /\ row.notifiedScore # NoNumber
         /\ row.opp >= row.notifiedScore + 10 * RENOTIFY_SCORE_DELTA
    /\ row.verdict = "APPLY"
    /\ j \notin acted

InWindow(e, j) == e.at = j /\ e.pc \in {"check", "send", "recordSent"}

TrackRaces ==
    raced' = raced \cup {j \in Jobs : \E p, q \in Evaluators :
                            p # q /\ InWindow(ev'[p], j) /\ InWindow(ev'[q], j)}

\* Evaluator p goes on as e, and nothing else happens to it.
Becomes(p, e) == ev' = [ev EXCEPT ![p] = e]

\* The row of the match p is at.
Row(p) == match[ev[p].version][ev[p].at]

\* The next match of the run, or its end.
Onward(e) ==
    IF e.todo = {} THEN Idle ELSE [e EXCEPT !.pc = "decide", !.at = "none", !.opp = NoNumber]

-----------------------------------------------------------------------------
Trouble == trouble < MaxTrouble /\ trouble' = trouble + 1

\* A run starts on the active version: a reconciliation on the candidates the
\* query returns, a generate on all similar jobs, the incremental matcher on the
\* jobs just embedded, a rescore on the rows there are.
Start(p, kind, S) ==
    /\ ev[p].pc = "idle"
    /\ kind \in Kinds
    /\ S # {}
    /\ CASE kind = "reconcile" -> S = TopOf(Candidates(active), Cap)
         [] kind = "generate" -> S = Jobs
         [] kind = "matchNew" -> S \subseteq Jobs
         [] kind = "rescore" -> S = {j \in Jobs : match[active][j].exists}
    /\ Becomes(p, [Idle EXCEPT !.kind = kind, !.version = active, !.todo = S,
                               !.pc = IF kind = "rescore" THEN "decide" ELSE "classify",
                               !.held = [j \in Jobs |-> IF j \in S THEN job[j].text ELSE @[j]]])
    /\ IF \A q \in Evaluators : ev[q].pc = "idle" THEN UNCHANGED trouble ELSE Trouble
    /\ UNCHANGED <<job, cls, match, userVars, sent>>

\* gateByRole: the stored classifications that still hold, ...
Known(p) ==
    [j \in Jobs |-> IF isClassificationStale(cls[j].evidence, ev[p].held[j])
                    THEN NoClass ELSE cls[j]]

Unclassified(p) == {j \in ev[p].todo : Known(p)[j] = NoClass}

\* What the classifier may answer about some text of some job.
AnyAnswer == UNION {Answers[j][t.body] : j \in Jobs, t \in Range(Bodies)}

\* ... and the classifier's answers for the rest, normalised and stored with the
\* text they were made from.
Classify(p) ==
    /\ ev[p].pc = "classify"
    /\ \E answer \in [Unclassified(p) -> AnyAnswer] :
          /\ \A j \in Unclassified(p) : answer[j] \in Answers[j][ev[p].held[j].body]
          /\ LET fresh == [j \in Unclassified(p) |->
                             [class |-> normalize(answer[j]), evidence |-> evidenceOf(ev[p].held[j])]]
             IN /\ cls' = fresh @@ cls
                /\ Becomes(p, [ev[p] EXCEPT !.pc = "judge", !.known = fresh @@ Known(p)])
    /\ UNCHANGED <<job, match, userVars, trouble, sent>>

\* A malformed answer: the batch stays unclassified and the run goes on.
ClassifyFails(p) ==
    /\ ev[p].pc = "classify" /\ Unclassified(p) # {}
    /\ Trouble
    /\ Becomes(p, [ev[p] EXCEPT !.pc = "judge", !.known = Known(p)])
    /\ UNCHANGED <<job, cls, match, userVars, sent>>

\* The gate: refused jobs and undecided ones are listed with their code, an
\* unclassified job is only counted.
careerPathExcluded(c) == excluded # {} /\ offPathDiscipline(c, Mine) \in excluded

gateCode(p, j) ==
    IF careerPathExcluded(ev[p].known[j].class) THEN "CAREER_PATH_EXCLUDED"
    ELSE eligibility(ev[p].known[j].class, years, Mine, ev[p].held[j].length).code

Classified(p) == {j \in ev[p].todo : ev[p].known[j] # NoClass}

Refusal(p, j) ==
    [at |-> j, code |-> gateCode(p, j),
     verdict |-> IF gateCode(p, j) \in ReviewCodes THEN "NEEDS_REVIEW" ELSE "SKIP"]

\* MUTANT of Refusals: undecided jobs are counted, not recorded
RejectionsOnly(p) ==
    {Refusal(p, j) : j \in {i \in Classified(p) : gateCode(p, i) \notin EligibleCodes \cup ReviewCodes}}

\* The incremental matcher records no decision.
Refusals(p) ==
    IF ev[p].kind = "matchNew" THEN {}
    ELSE {Refusal(p, j) : j \in {i \in Classified(p) : gateCode(p, i) \notin EligibleCodes}}

Judge(p) ==
    /\ ev[p].pc = "judge"
    /\ Becomes(p, [ev[p] EXCEPT
                     !.pc = "score",
                     !.todo = {j \in Classified(p) : gateCode(p, j) \in EligibleCodes},
                     !.refused = Refusals(p),
                     !.before = [j \in Jobs |-> previousScore(ev[p].version, j)]])
    /\ UNCHANGED <<job, cls, match, userVars, trouble, sent>>

\* MUTANT of Recorded: the refusal replaces the row
RecordedAfresh(row, r) ==
    [NoRow EXCEPT !.exists = TRUE, !.verdict = r.verdict, !.code = r.code, !.current = TRUE]

\* recordGateDecisions: one upsert, scores untouched.
Recorded(row, r) ==
    [row EXCEPT !.exists = TRUE, !.verdict = r.verdict, !.code = r.code, !.current = TRUE]

RecordGateDecision(p) ==
    /\ ev[p].pc = "score"
    /\ \E r \in ev[p].refused :
          /\ match' = [match EXCEPT ![ev[p].version][r.at] = Recorded(@, r)]
          /\ Becomes(p, [ev[p] EXCEPT !.refused = @ \ {r}])
    /\ UNCHANGED <<job, cls, userVars, trouble, sent>>

\* scoreAndUpsert: a score for each admitted job; the verdict is not touched.
Scored(row, s) == [row EXCEPT !.exists = TRUE, !.scores = s]

ScoreAndUpsert(p) ==
    /\ ev[p].pc = "score" /\ ev[p].refused = {}
    /\ \E s \in [ev[p].todo -> LlmScores] :
          match' = [match EXCEPT ![ev[p].version] =
                      [j \in Jobs |-> IF j \in ev[p].todo THEN Scored(@[j], s[j]) ELSE @[j]]]
    /\ Becomes(p, Onward(ev[p]))
    /\ UNCHANGED <<job, cls, userVars, trouble, sent>>

\* The batch fails, or the answer leaves jobs out: they are dropped.
ScoreFails(p) ==
    /\ ev[p].pc = "score" /\ ev[p].refused = {} /\ ev[p].todo # {}
    /\ Trouble
    /\ Becomes(p, Idle)
    /\ UNCHANGED <<job, cls, match, userVars, sent>>

-----------------------------------------------------------------------------
\* scoreMatch: the score and the verdict from the row, the facts of the moment
\* and the newest stored classification, without the text it was read from.
eligibilityFor(j) ==
    IF cls[j] = NoClass THEN NoEligibility
    ELSE eligibility(cls[j].class, years, Mine, NoNumber)

Decided(row, j) ==
    LET opp == OpportunityOf[job[j].facts, row.scores]
        d == decide(opp, Reading(job[j].facts, row.scores), eligibilityFor(j))
    IN [row EXCEPT !.opp = opp, !.notifiedScore = NoNumber, !.verdict = d.verdict,
                   !.code = d.code, !.current = TRUE]

\* MUTANT of announces: every APPLY of the new version is new
announcesAll(e, j, opp) == e.kind # "reconcile" \/ verdictOf(opp) = "APPLY"

\* A reconciliation announces a new APPLY, or an upgrade into it; the others ask
\* the notifier about every match.
announces(e, j, opp) ==
    \/ e.kind # "reconcile"
    \/ /\ verdictOf(opp) = "APPLY"
       /\ \/ ~jobEverNotified(j)
          \/ e.before[j] # NoNumber /\ verdictOf(e.before[j]) # "APPLY"

Decide(p, j) ==
    /\ ev[p].pc = "decide" /\ j \in ev[p].todo
    /\ LET row == Decided(match[ev[p].version][j], j)
           rest == [ev[p] EXCEPT !.todo = @ \ {j}]
       IN /\ match' = [match EXCEPT ![ev[p].version][j] = row]
          /\ Becomes(p, IF announces(ev[p], j, row.opp)
                        THEN [rest EXCEPT !.pc = "check", !.at = j] ELSE Onward(rest))
    /\ UNCHANGED <<job, cls, userVars, trouble, sent>>

\* A failed statement costs a reconciliation this match, any other run the rest.
DecideFails(p, j) ==
    /\ ev[p].pc = "decide" /\ j \in ev[p].todo
    /\ Trouble
    /\ Becomes(p, IF ev[p].kind = "reconcile"
                  THEN Onward([ev[p] EXCEPT !.todo = @ \ {j}]) ELSE Idle)
    /\ UNCHANGED <<job, cls, match, userVars, sent>>

\* maybeNotifyMatch, up to the message.
Check(p) ==
    /\ ev[p].pc = "check"
    /\ Becomes(p, IF worthAnnouncing(Row(p), ev[p].at)
                  THEN [ev[p] EXCEPT !.pc = "send", !.opp = Row(p).opp] ELSE Onward(ev[p]))
    /\ UNCHANGED <<job, cls, match, userVars, trouble, sent>>

\* deliver: a row in the app, then Telegram, whose failure is only logged.
Message(p) == [version |-> ev[p].version, opp |-> ev[p].opp, by |-> ev[p].kind,
               before |-> ev[p].before[ev[p].at]]

Send(p) ==
    /\ ev[p].pc = "send"
    /\ sent' = [sent EXCEPT ![ev[p].at] = Append(@, Message(p))]
    /\ Becomes(p, [ev[p] EXCEPT !.pc = "recordSent"])
    /\ UNCHANGED <<job, cls, match, userVars, trouble>>

\* The memory, written over whatever the row holds now.
RecordSent(p) ==
    /\ ev[p].pc = "recordSent"
    /\ match' = [match EXCEPT ![ev[p].version][ev[p].at].notified = TRUE,
                              ![ev[p].version][ev[p].at].notifiedScore = ev[p].opp]
    /\ Becomes(p, Onward(ev[p]))
    /\ UNCHANGED <<job, cls, userVars, trouble, sent>>

\* The API process dies with the evaluators in it.
Crash ==
    /\ Trouble
    /\ \E p \in Evaluators : ev[p].pc # "idle"
    /\ ev' = [p \in Evaluators |-> Idle]
    /\ raced' = raced \cup {ev[p].at : p \in {q \in Evaluators : ev[q].pc = "recordSent"}}
    /\ UNCHANGED <<job, cls, match, userVars, sent>>

-----------------------------------------------------------------------------
\* What happens beside the evaluators: a description arrives, the facts about a
\* company change, the user activates a version, saves the profile, answers No
\* to a discipline, or applies.
Hydrate(j) ==
    /\ job[j].text = Bodies[1]
    /\ job' = [job EXCEPT ![j].text = Bodies[2]]
    /\ UNCHANGED <<cls, match, userVars, ev, trouble, sent, raced>>

FactsChange(j) ==
    /\ job[j].facts = Facts[1]
    /\ job' = [job EXCEPT ![j].facts = Facts[2]]
    /\ UNCHANGED <<cls, match, userVars, ev, trouble, sent, raced>>

Activate ==
    /\ active < MaxVersion
    /\ active' = active + 1
    /\ UNCHANGED <<job, cls, match, years, excluded, acted, ev, trouble, sent, raced>>

SaveProfile(y) ==
    /\ Trouble
    /\ years' = y
    /\ match' = [match EXCEPT ![active] = [j \in Jobs |-> [@[j] EXCEPT !.current = FALSE]]]
    /\ UNCHANGED <<job, cls, active, excluded, acted, ev, sent, raced>>

setCareerPreference(d, answer) ==
    /\ Trouble
    /\ excluded' = IF answer = "NO" THEN excluded \cup {d} ELSE excluded \ {d}
    /\ UNCHANGED <<job, cls, match, active, years, acted, ev, sent, raced>>

Apply(j) ==
    /\ sent[j] # <<>>
    /\ acted' = acted \cup {j}
    /\ UNCHANGED <<job, cls, match, active, years, excluded, ev, trouble, sent, raced>>

-----------------------------------------------------------------------------
MatchInit ==
    /\ job \in [Jobs -> [text : {Bodies[1], Bodies[2]}, facts : {Facts[1]}]]
    /\ cls = [j \in Jobs |-> NoClass]
    /\ match = [v \in Versions |-> [j \in Jobs |-> NoRow]]
    /\ active = 1 /\ years \in Years /\ excluded = {} /\ acted = {}
    /\ ev = [p \in Evaluators |-> Idle]
    /\ trouble = 0
    /\ sent = [j \in Jobs |-> <<>>] /\ raced = {}

EvaluatorStep(p) ==
    /\ \/ Classify(p) \/ Judge(p) \/ RecordGateDecision(p) \/ ScoreAndUpsert(p)
       \/ (\E j \in Jobs : Decide(p, j))
       \/ Check(p) \/ Send(p) \/ RecordSent(p)
    /\ TrackRaces

EvaluatorFault(p) ==
    /\ ClassifyFails(p) \/ ScoreFails(p) \/ \E j \in Jobs : DecideFails(p, j)
    /\ TrackRaces

BeltTick(p) ==
    /\ \E S \in SUBSET Jobs : Start(p, "reconcile", S)
    /\ TrackRaces

OtherStart(p) ==
    /\ \E kind \in Kinds \ {"reconcile"}, S \in SUBSET Jobs : Start(p, kind, S)
    /\ TrackRaces

UserStep ==
    \/ Activate
    \/ \E y \in Years : SaveProfile(y)
    \/ \E d \in Range(DISCIPLINE_LABELS), a \in {"NO", "SOMETIMES"} : setCareerPreference(d, a)
    \/ \E j \in Jobs : Apply(j)

MatchNext ==
    \/ \E p \in Evaluators :
          BeltTick(p) \/ OtherStart(p) \/ EvaluatorStep(p) \/ EvaluatorFault(p)
    \/ \E j \in Jobs : Hydrate(j) \/ FactsChange(j)
    \/ UserStep
    \/ Crash

MatchSpec == MatchInit /\ [][MatchNext]_matchVars

\* The belt ticks every ten minutes, and a run that was started goes on.
MatchFairness ==
    \A p \in Evaluators : WF_matchVars(EvaluatorStep(p)) /\ SF_matchVars(BeltTick(p))

FairMatchSpec == MatchSpec /\ MatchFairness

-----------------------------------------------------------------------------
MessagesOf(j, v) == {k \in DOMAIN sent[j] : sent[j][k].version = v}

\* "Never twice for the same match" (notifications.service.ts:38), as far as the
\* code keeps it: two messages about one match mean that two evaluations of it
\* overlapped, or that one died between the message and the memory of it.  It also
\* says that the second message after an improvement, which the same comment
\* promises, is never sent: scoreMatch has erased the score to compare with.
OnceUnlessRaced ==
    \A j \in Jobs \ raced, v \in Versions : Cardinality(MessagesOf(j, v)) <= 1

\* What was announced stays remembered, whatever the gate, a rescore or a saved
\* profile do to the row afterwards: the memory is what the next run reads.
AnnouncedIsRemembered ==
    \A j \in Jobs \ raced, v \in Versions :
        MessagesOf(j, v) # {} =>
            \/ match[v][j].notified
            \/ \E p \in Evaluators : ev[p].pc = "recordSent" /\ ev[p].at = j

\* "A new resume version must not re-announce jobs you have already seen"
\* (reconcileForUser): a reconciliation speaks about a job a second time only
\* when the job was below APPLY under the version before.
SeenIsNotReannounced ==
    \A j \in Jobs \ raced : \A k \in 2 .. Len(sent[j]) :
        sent[j][k].by = "reconcile" =>
            sent[j][k].before # NoNumber /\ verdictOf(sent[j][k].before) # "APPLY"

\* No job stays in the candidate query for ever: refused, uncertain or scored, it
\* gets a row, and rows that no run decides do not hold the places under Cap.
EveryCandidateJudged ==
    \A j \in Jobs : j \in Candidates(active) ~> j \notin Candidates(active)

\* "A classification may only be used for a job if it was computed against the
\* job's current material evidence" (classification-evidence.ts:26): when a posting
\* is refused as no development work, the classification was made from the
\* description it has then.
RefusedOnCurrentEvidence ==
    [][\A v \in Versions, j \in Jobs :
          (/\ match[v][j].code # "NOT_DEVELOPMENT"
           /\ match'[v][j].code = "NOT_DEVELOPMENT") =>
             ~isClassificationStale(cls[j].evidence, job[j].text)]_matchVars
=============================================================================
