----------------------------- MODULE DailyBrief -----------------------------
(***************************************************************************)
(* The morning brief and the midday digest: the daily-brief worker pulls   *)
(* the trigger, sendAll and sendConsiderDigest of daily-brief.service.ts   *)
(* write to every user and mark what the digest has told.  A job of the    *)
(* worker is attempted again when its request fails; the handler of a      *)
(* request whose answer was lost goes on.  Matches are re-scored and       *)
(* announced by the notification gate in the meantime (maybeNotifyMatch,   *)
(* notifications.service.ts), and the user acts.  Scores stand still: that *)
(* a better one is announced again is the matter of Opportunity.           *)
(***************************************************************************)
EXTENDS Integers, FiniteSets, FiniteSetsExt, Functions

CONSTANTS
    Readers,       \* users with an embedded version of their primary resume
    Told,          \* matches: record [user, score, qualifies], see DigestQuery
    BriefHandlers, \* requests the API may serve, each used once
    Evaluators,    \* evaluations that may reach the notification gate at once
    DIGEST_LIMIT,  \* matches in one digest (8)
    ATTEMPTS,      \* attempts of a job (3)
    MaxBriefJobs, MaxBriefTrouble, MaxBriefChanges  \* bounds

\* Matches in a digest query: fresh, of an open posting of India.
ASSUME ToldAssumption ==
    \A m \in DOMAIN Told : Told[m].user \in Readers /\ Told[m].qualifies \in BOOLEAN

Digested == DOMAIN Told
Kinds == {"scheduled", "consider-digest"}

VARIABLES
    configured,  \* the Telegram channel has its token
    verdict,     \* stored verdict of each match
    notifiedAt,  \* it is set
    actedOn,     \* matches the user has acted on
    work,        \* the worker: [job, attempt, waits]
    serving,     \* handler -> the request it serves
    pushing,     \* pushes decided on, [by, match]: their message is to be sent
    pushed,      \* pushes whose message is over: their mark is to be written
    told,        \* history: messages that named the match
    briefs,      \* history: briefs a user received
    jobsRun,     \* history: jobs of each kind
    changes,     \* verdicts and acts so far
    trouble,     \* lost answers, crashes, half-failed calls so far
    overtaken,   \* history: matches whose verdict changed while a message was made
    doubled,     \* history: matches announced while a message about them was made
    refused      \* history: matches whose push Telegram refused

briefVars == <<configured, verdict, notifiedAt, actedOn, work, serving, pushing, pushed,
               told, briefs, jobsRun, changes, trouble, overtaken, doubled, refused>>

pushVars == <<pushing, pushed, doubled, refused>>

NoHandler == "none"

ASSUME HandlerAssumption == NoHandler \notin BriefHandlers

AtRest == [job |-> "none", attempt |-> 0, waits |-> NoHandler]
Unused == [pc |-> "unused", kind |-> "none", todo |-> {}, user |-> "none", batch |-> {}]

-----------------------------------------------------------------------------
\* The worker.

\* The schedulers put a job in the queue; it is taken one at a time.
TakeJob(kind) ==
    /\ work = AtRest /\ SumFunction(jobsRun) < MaxBriefJobs
    /\ jobsRun' = [jobsRun EXCEPT ![kind] = @ + 1]
    /\ work' = [job |-> kind, attempt |-> 0, waits |-> NoHandler]
    /\ UNCHANGED <<configured, verdict, notifiedAt, actedOn, serving, pushVars, told, briefs,
                   changes, trouble, overtaken>>

\* An attempt: the trigger reaches the API.  The refreshes before it may fail.
Trigger(h) ==
    /\ work # AtRest /\ work.waits = NoHandler /\ work.attempt < ATTEMPTS
    /\ serving[h] = Unused
    /\ work' = [work EXCEPT !.attempt = @ + 1, !.waits = h]
    /\ serving' = [serving EXCEPT ![h] = [pc |-> "next", kind |-> work.job, todo |-> Readers,
                                          user |-> "none", batch |-> {}]]
    /\ UNCHANGED <<configured, verdict, notifiedAt, actedOn, pushVars, told, briefs, jobsRun,
                   changes, trouble, overtaken>>

\* What the worker makes of an error: another attempt, or a failed job.
Attempted(w) == IF w.attempt < ATTEMPTS THEN [w EXCEPT !.waits = NoHandler] ELSE AtRest

\* The answer of h, when the worker still waits for it.
Replied(h, ok) ==
    work' = IF work.waits # h THEN work ELSE IF ok THEN AtRest ELSE Attempted(work)

Hurt == trouble < MaxBriefTrouble /\ trouble' = trouble + 1

\* The request times out at the worker; its handler goes on.
LoseAnswer ==
    /\ work.waits # NoHandler /\ Hurt /\ work' = Attempted(work)
    /\ UNCHANGED <<configured, verdict, notifiedAt, actedOn, serving, pushVars, told, briefs,
                   jobsRun, changes, overtaken>>

\* The API restarts: its handlers and pushes are gone.
CrashApi ==
    /\ pushing \cup pushed # {} \/ \E h \in BriefHandlers : serving[h].pc \notin {"unused", "over"}
    /\ Hurt
    /\ pushing' = {} /\ pushed' = {}
    /\ serving' = [h \in BriefHandlers |->
         IF serving[h] = Unused THEN Unused ELSE [Unused EXCEPT !.pc = "over"]]
    /\ work' = IF work.waits = NoHandler THEN work ELSE Attempted(work)
    /\ UNCHANGED <<configured, verdict, notifiedAt, actedOn, told, briefs, jobsRun, changes,
                   overtaken, doubled, refused>>

-----------------------------------------------------------------------------
\* The handlers.

Over == [Unused EXCEPT !.pc = "over"]
Finish(h, ok) == serving' = [serving EXCEPT ![h] = Over] /\ Replied(h, ok)

\* MUTANT of DigestQuery: it forgets what was told.
AnyConsider(m, u) ==
    Told[m].user = u /\ verdict[m] = "CONSIDER" /\ Told[m].qualifies /\ m \notin actedOn

DigestQuery(m, u) ==
    /\ Told[m].user = u /\ verdict[m] = "CONSIDER" /\ Told[m].qualifies
    /\ m \notin notifiedAt /\ m \notin actedOn

\* The best of them, up to the limit.
DigestBatch(u) ==
    LET found == {m \in Digested : DigestQuery(m, u)}
    IN {m \in found :
          Cardinality({n \in found : Told[n].score > Told[m].score}) < DIGEST_LIMIT}

\* One user's query.  Nothing to tell: the loop goes on to the next.
ReadDigest(h) ==
    LET s == serving[h] IN
    /\ s.pc = "next" /\ s.kind = "consider-digest"
    /\ \E u \in s.todo :
         LET batch == DigestBatch(u)
             rest == [s EXCEPT !.todo = @ \ {u}]
         IN serving' = [serving EXCEPT ![h] =
              IF batch = {} THEN rest ELSE [rest EXCEPT !.pc = "send", !.user = u, !.batch = batch]]
    /\ UNCHANGED <<configured, verdict, notifiedAt, actedOn, work, pushVars, told, briefs, jobsRun,
                   changes, trouble, overtaken>>

NameThem(batch) == told' = [m \in Digested |-> told[m] + IF m \in batch THEN 1 ELSE 0]

\* The message, or a line of the log when no channel is configured.
SendDigest(h) ==
    /\ serving[h].pc = "send"
    /\ serving' = [serving EXCEPT ![h].pc = "mark"]
    /\ IF configured THEN NameThem(serving[h].batch) ELSE UNCHANGED told
    /\ UNCHANGED <<configured, verdict, notifiedAt, actedOn, work, pushVars, briefs, jobsRun,
                   changes, trouble, overtaken>>

\* Telegram refuses, or its answer is lost: the digest ends for every user left.
SendFails(h) ==
    /\ serving[h].pc = "send" /\ configured /\ Hurt
    /\ NameThem({}) \/ NameThem(serving[h].batch)
    /\ Finish(h, FALSE)
    /\ UNCHANGED <<configured, verdict, notifiedAt, actedOn, pushVars, briefs, jobsRun, changes,
                   overtaken>>

\* MUTANT of MarkedNow: a mark by verdict, which takes in what the limit left out.
MarkAll(h) == notifiedAt \union
    {m \in Digested : Told[m].user = serving[h].user /\ verdict[m] = "CONSIDER"}

MarkedNow(h) == notifiedAt \union serving[h].batch

MarkDigest(h) ==
    /\ serving[h].pc = "mark"
    /\ notifiedAt' = MarkedNow(h)
    /\ serving' = [serving EXCEPT ![h] = [@ EXCEPT !.pc = "next", !.user = "none", !.batch = {}]]
    /\ UNCHANGED <<configured, verdict, actedOn, work, pushVars, told, briefs, jobsRun, changes,
                   trouble, overtaken>>

\* One user's brief, which a failure costs only this user.
SendBrief(h) ==
    LET s == serving[h] IN
    /\ s.pc = "next" /\ s.kind = "scheduled"
    /\ \E u \in s.todo :
         /\ serving' = [serving EXCEPT ![h].todo = @ \ {u}]
         /\ \/ briefs' = [briefs EXCEPT ![u] = @ + IF configured THEN 1 ELSE 0] /\ UNCHANGED trouble
            \/ Hurt /\ UNCHANGED briefs
    /\ UNCHANGED <<configured, verdict, notifiedAt, actedOn, work, pushVars, told, jobsRun, changes,
                   overtaken>>

Respond(h) ==
    /\ serving[h].pc = "next" /\ serving[h].todo = {}
    /\ Finish(h, TRUE)
    /\ UNCHANGED <<configured, verdict, notifiedAt, actedOn, pushVars, told, briefs, jobsRun,
                   changes, trouble, overtaken>>

-----------------------------------------------------------------------------
\* What goes on meanwhile: scoring, the notification gate, the user.

InAMessage(m) ==
    \/ \E p \in pushing \cup pushed : p.match = m
    \/ \E h \in BriefHandlers : m \in serving[h].batch

Change ==
    /\ changes < MaxBriefChanges /\ changes' = changes + 1
    /\ \/ \E m \in Digested, v \in {"APPLY", "CONSIDER"} :
             /\ v # verdict[m] /\ verdict' = [verdict EXCEPT ![m] = v]
             /\ overtaken' = IF InAMessage(m) THEN overtaken \union {m} ELSE overtaken
             /\ UNCHANGED actedOn
       \/ \E m \in Digested :
             actedOn' = actedOn \union {m} /\ UNCHANGED <<verdict, overtaken>>
    /\ UNCHANGED <<configured, notifiedAt, work, serving, pushVars, told, briefs, jobsRun, trouble>>

\* An evaluation decides on the row it reads; no other evaluation waits for it.  The
\* user's applications are looked up later, which may only call a push off.
DecidePush(e, m) ==
    /\ \A p \in pushing \cup pushed : p.by # e
    /\ verdict[m] = "APPLY" /\ m \notin notifiedAt /\ m \notin actedOn
    /\ pushing' = pushing \cup {[by |-> e, match |-> m]}
    /\ doubled' = IF InAMessage(m) THEN doubled \cup {m} ELSE doubled
    /\ UNCHANGED <<configured, verdict, notifiedAt, actedOn, work, serving, pushed, told, briefs,
                   jobsRun, changes, trouble, overtaken, refused>>

\* deliver: the message, and that Telegram refuses it goes no further than the log.
SendPush(p) ==
    /\ p \in pushing /\ pushing' = pushing \ {p} /\ pushed' = pushed \cup {p}
    /\ \/ NameThem(IF configured THEN {p.match} ELSE {}) /\ UNCHANGED refused
       \/ configured /\ refused' = refused \cup {p.match} /\ UNCHANGED told
    /\ UNCHANGED <<configured, verdict, notifiedAt, actedOn, work, serving, briefs, jobsRun,
                   changes, trouble, overtaken, doubled>>

MarkPush(p) ==
    /\ p \in pushed /\ pushed' = pushed \ {p}
    /\ notifiedAt' = notifiedAt \cup {p.match}
    /\ UNCHANGED <<configured, verdict, actedOn, work, serving, pushing, told, briefs, jobsRun,
                   changes, trouble, overtaken, doubled, refused>>

-----------------------------------------------------------------------------
BriefInit ==
    /\ configured \in BOOLEAN
    /\ verdict = [m \in Digested |-> "CONSIDER"] /\ notifiedAt = {} /\ actedOn = {}
    /\ work = AtRest /\ serving = [h \in BriefHandlers |-> Unused]
    /\ pushing = {} /\ pushed = {} /\ doubled = {} /\ refused = {}
    /\ told = [m \in Digested |-> 0] /\ briefs = [u \in Readers |-> 0]
    /\ jobsRun = [k \in Kinds |-> 0] /\ changes = 0 /\ trouble = 0 /\ overtaken = {}

BriefNext ==
    \/ LoseAnswer \/ CrashApi \/ Change
    \/ \E k \in Kinds : TakeJob(k)
    \/ \E h \in BriefHandlers :
         \/ Trigger(h) \/ ReadDigest(h) \/ SendDigest(h) \/ SendFails(h) \/ MarkDigest(h)
         \/ SendBrief(h) \/ Respond(h)
    \/ \E e \in Evaluators, m \in Digested : DecidePush(e, m)
    \/ \E p \in pushing \cup pushed : SendPush(p) \/ MarkPush(p)

BriefSpec == BriefInit /\ [][BriefNext]_briefVars

-----------------------------------------------------------------------------
(* What is marked as told has been told, whoever crosses whom: the digest   *)
(* marks the batch it sent, "so nothing good is silently lost"             *)
(* (daily-brief.service.ts:28-34, 87-91).  The one exception, with a       *)
(* channel, is a push that Telegram refused: maybeNotifyMatch marks it all *)
(* the same (notifications.service.ts:348-353, 173-185).                   *)
MarkedMeansTold == configured => \A m \in notifiedAt : told[m] > 0 \/ m \in refused

(* A match is named twice only after a failure between its message and its *)
(* mark, an answer the worker did not wait for, a new verdict while the    *)
(* message was made, or two evaluations of it at once, which nothing       *)
(* orders (notifications.service.ts:109-173); and a user gets one brief a  *)
(* morning unless an attempt was repeated.                                 *)
ToldOnceUnlessCrossed ==
    /\ \A m \in Digested : told[m] > 1 => trouble > 0 \/ m \in overtaken \cup doubled
    /\ \A u \in Readers : briefs[u] <= jobsRun["scheduled"] + trouble
=============================================================================
