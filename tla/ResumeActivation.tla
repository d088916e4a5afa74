-------------------------- MODULE ResumeActivation --------------------------
(***************************************************************************)
(* One user's resume versions: ResumesService.saveProfile, activate and    *)
(* retryReconcile, ResumesProcessor.reconcile, and what they do through    *)
(* MatchingService.reconcileForUser, scoreAndUpsert and rescoreExisting to *)
(* the decided matches of the versions.                                    *)
(*                                                                         *)
(* Timestamps are compared only with the instant a profile last changed,   *)
(* so they are counted in saves: profile[v] is the number of times the     *)
(* profile of v was confirmed, and a match decided when that number was n  *)
(* has decidedAt >= profileUpdatedAt exactly as long as profile[v] = n.    *)
(***************************************************************************)
EXTENDS Naturals, FiniteSets, Sequences

CONSTANTS
    Versions,    \* versionNumbers
    Primary,     \* the versions of the primary resume
    Jobs,        \* ACTIVE jobs near the resume that the role gate admits
    Requests,    \* activate and retryReconcile calls served at the same time
    Worker,      \* the worker of parse-resume (one, BullMQ's default)
    Belts,       \* reconcileForUser and rescoreExisting calls beside them
    Cap,         \* candidates of one reconciliation
    MaxSaves,    \* bound: saves of one profile
    MaxCalls,    \* bound: activations and retries
    MaxFaults,   \* bound: errors and crashes
    None

Reconcilers == {Worker} \cup Belts

ASSUME ResumeAssumption ==
    /\ Versions \subseteq Nat
    /\ Primary \subseteq Versions
    /\ Worker \notin Belts /\ IsFiniteSet(Jobs)
    /\ Cap \in Nat \ {0}
    /\ MaxSaves \in Nat /\ MaxCalls \in Nat /\ MaxFaults \in Nat
    /\ None \notin Versions

VARIABLES
    active,     \* the versions with an activatedAt
    profile,    \* profile[v]: saves of its confirmed profile, 0 if none
    report,     \* report[v]: what reconciledAt and reconcileReport say
    match,      \* match[v][j]: the JobMatch of j for v, or None
    call,       \* call[q]: the local state of an activate or a retry
    queue,      \* the reconcile jobs waiting in parse-resume
    rec,        \* rec[r]: the local state of a reconciliation or a rescore
    calls,      \* activations and retries so far
    faults,     \* errors and crashes so far
    overlapped, \* history: two activations were in their transactions at once
    blurred,    \* history: the versions that met a race of CurrentFromCurrentProfile
    lost        \* history: the versions whose reconcile job was lost

vars == <<active, profile, report, match, call, queue, rec, calls, faults,
          overlapped, blurred, lost>>

-----------------------------------------------------------------------------
Saves == 0 .. MaxSaves

\* by: the profile its scores were computed from.  decided: the saves there had
\* been when decidedAt was written, 0 for a row that is not decided.
Match == [by : 1 .. MaxSaves, decided : Saves]

ASSUME MatchAssumption == None \notin Match

\* reconciledAt (null: "none") and reconcileReport, with the version and the
\* profile a finished reconciliation was about.
Report == [status : {"none", "failed", "complete"},
           of : Versions \cup {None}, by : Saves]

NoReport == [status |-> "none", of |-> None, by |-> 0]

\* The steps of a call that are still to come; others are the versions the first
\* statement of an activation found active.
Call == [pc : {"idle", "commit", "reset", "enqueue"},
         version : Versions \cup {None},
         others : SUBSET Versions]

IdleCall == [pc |-> "idle", version |-> None, others |-> {}]

\* A reconcile job.  BullMQ gives a job whose worker vanished to another worker
\* once, and fails it the second time.
Job == [version : Versions, stalled : BOOLEAN]

Rec == [pc     : {"idle", "since", "list", "work", "error"},
        job    : Job \cup {None},              \* None: not a job of the queue
        ctx    : Versions \cup {None},         \* the version matching runs against
        by     : Saves,                        \* its profile, as it was read
        since  : Saves,                        \* profileUpdatedAt
        todo   : SUBSET Jobs,                  \* to be scored
        scored : SUBSET Jobs]                  \* to be decided

IdleRec == [pc |-> "idle", job |-> None, ctx |-> None, by |-> 0, since |-> 0,
            todo |-> {}, scored |-> {}]

-----------------------------------------------------------------------------
\* getPrimaryResumeContext and activeResumeVersionId: the highest versionNumber
\* among the active versions of the primary resume.
IsMatched(v) ==
    /\ v \in active \cap Primary
    /\ \A u \in active \cap Primary : u <= v

\* MUTANT of Candidates: idempotent on the version, whatever its profile.
CandidatesWithoutRow(v, since) == {j \in Jobs : match[v][j] = None}

\* No row, an undecided row, or one decided before the profile last changed.
Candidates(v, since) ==
    {j \in Jobs : \/ match[v][j] = None
                  \/ match[v][j].decided = 0
                  \/ match[v][j].decided < since}

-----------------------------------------------------------------------------
\* History (see CurrentFromCurrentProfile): a decision may stop telling which profile it is from.
TrackBlur(now) == blurred' = blurred \cup now

Quiet == UNCHANGED <<overlapped, blurred, lost>>

SaveProfile(v) ==
    /\ profile[v] < MaxSaves
    /\ profile' = [profile EXCEPT ![v] = @ + 1]
    /\ TrackBlur({u \in {v} : \E r \in Reconcilers : rec[r].ctx = v})
    /\ UNCHANGED <<active, report, match, call, queue, rec, calls, faults, overlapped, lost>>

-----------------------------------------------------------------------------
(***************************************************************************)
(* activate(v).  Its two statements share a transaction, at PostgreSQL's   *)
(* default READ COMMITTED: the first finds the other active versions among *)
(* the committed ones, and what both write is seen at the commit.  Waiting *)
(* for a row lock re-reads that row and no other.                          *)
(***************************************************************************)
\* MUTANT of BeginActivate: the confirmation is not asked for.
BeginActivateUnconfirmed(q, v) ==
    /\ call[q].pc = "idle" /\ calls < MaxCalls
    /\ call' = [call EXCEPT ![q] = [pc |-> "commit", version |-> v, others |-> active \ {v}]]
    /\ calls' = calls + 1
    /\ overlapped' = (overlapped \/ \E p \in Requests : call[p].pc = "commit")
    /\ UNCHANGED <<active, profile, report, match, queue, rec, faults, blurred, lost>>

BeginActivate(q, v) ==
    /\ call[q].pc = "idle" /\ calls < MaxCalls
    /\ profile[v] > 0
    /\ call' = [call EXCEPT ![q] = [pc |-> "commit", version |-> v, others |-> active \ {v}]]
    /\ calls' = calls + 1
    /\ overlapped' = (overlapped \/ \E p \in Requests : call[p].pc = "commit")
    /\ UNCHANGED <<active, profile, report, match, queue, rec, faults, blurred, lost>>

\* MUTANT of CommitActivate: only the older versions are cleared.
CommitActivateOlder(q) ==
    /\ call[q].pc = "commit"
    /\ active' = (active \ {v \in call[q].others : v < call[q].version}) \cup {call[q].version}
    /\ report' = [report EXCEPT ![call[q].version] = NoReport]
    /\ call' = [call EXCEPT ![q].pc = "enqueue", ![q].others = {}]
    /\ UNCHANGED <<profile, match, queue, rec, calls, faults>> /\ Quiet

CommitActivate(q) ==
    /\ call[q].pc = "commit"
    /\ active' = (active \ call[q].others) \cup {call[q].version}
    /\ report' = [report EXCEPT ![call[q].version] = NoReport]
    /\ call' = [call EXCEPT ![q].pc = "enqueue", ![q].others = {}]
    /\ UNCHANGED <<profile, match, queue, rec, calls, faults>> /\ Quiet

\* retryReconcile(v): only for a version that is active when it is read.
BeginRetry(q, v) ==
    /\ call[q].pc = "idle" /\ calls < MaxCalls
    /\ v \in active
    /\ call' = [call EXCEPT ![q] = [pc |-> "reset", version |-> v, others |-> {}]]
    /\ calls' = calls + 1
    /\ UNCHANGED <<active, profile, report, match, queue, rec, faults>> /\ Quiet

ResetReport(q) ==
    /\ call[q].pc = "reset"
    /\ report' = [report EXCEPT ![call[q].version] = NoReport]
    /\ call' = [call EXCEPT ![q].pc = "enqueue"]
    /\ UNCHANGED <<active, profile, match, queue, rec, calls, faults>> /\ Quiet

\* parseQueue.add('reconcile', ...), after the transaction.
EnqueueReconcile(q) ==
    /\ call[q].pc = "enqueue"
    /\ queue' = Append(queue, [version |-> call[q].version, stalled |-> FALSE])
    /\ call' = [call EXCEPT ![q] = IdleCall]
    /\ lost' = lost \ {call[q].version}
    /\ UNCHANGED <<active, profile, report, match, rec, calls, faults, overlapped, blurred>>

\* A transaction that fails is undone; an add that fails is reported to the
\* caller, and the version waits for a report that nobody will write.
CallFails(q) ==
    /\ call[q].pc # "idle" /\ faults < MaxFaults
    /\ call' = [call EXCEPT ![q] = IdleCall]
    /\ lost' = IF call[q].pc = "enqueue" THEN lost \cup {call[q].version} ELSE lost
    /\ faults' = faults + 1
    /\ UNCHANGED <<active, profile, report, match, queue, rec, calls, overlapped, blurred>>

-----------------------------------------------------------------------------
(***************************************************************************)
(* reconcileForUser: read the context, then profileUpdatedAt, then the     *)
(* candidates; score them all; then decide them one by one.  A worker of   *)
(* parse-resume does it for the job of a version, whatever version the     *)
(* context turns out to be; the belt and the user's button for none.       *)
(***************************************************************************)
Started(job, v) ==
    [IdleRec EXCEPT !.pc = "since", !.job = job, !.ctx = v, !.by = profile[v]]

TakeJob ==
    /\ rec[Worker].pc = "idle" /\ queue # <<>>
    /\ queue' = Tail(queue)
    /\ rec' = [rec EXCEPT ![Worker] =
                 IF \E v \in Versions : IsMatched(v)
                 THEN Started(Head(queue), CHOOSE v \in Versions : IsMatched(v))
                 ELSE [IdleRec EXCEPT !.pc = "error", !.job = Head(queue)]]
    /\ UNCHANGED <<active, profile, report, match, call, calls, faults>> /\ Quiet

StartBelt(b) ==
    /\ rec[b].pc = "idle"
    /\ \E v \in Versions : IsMatched(v) /\ rec' = [rec EXCEPT ![b] = Started(None, v)]
    /\ UNCHANGED <<active, profile, report, match, call, queue, calls, faults>> /\ Quiet

ReadSince(r) ==
    /\ rec[r].pc = "since"
    /\ rec' = [rec EXCEPT ![r].pc = "list", ![r].since = profile[rec[r].ctx]]
    /\ UNCHANGED <<active, profile, report, match, call, queue, calls, faults>> /\ Quiet

ListCandidates(r) ==
    /\ rec[r].pc = "list"
    /\ LET found == Candidates(rec[r].ctx, rec[r].since)
       IN  \E S \in SUBSET found :
              /\ Cardinality(S) <= Cap
              /\ S # found => Cardinality(S) = Cap
              /\ rec' = [rec EXCEPT ![r].pc = "work", ![r].todo = S]
    /\ UNCHANGED <<active, profile, report, match, call, queue, calls, faults>> /\ Quiet

\* MUTANT of ScoreRow: a row that exists keeps its scores.
ScoreRowOnce(r, j) ==
    /\ rec[r].pc = "work" /\ j \in rec[r].todo
    /\ match' = [match EXCEPT ![rec[r].ctx][j] =
                    IF @ = None THEN [by |-> rec[r].by, decided |-> 0] ELSE @]
    /\ rec' = [rec EXCEPT ![r].todo = @ \ {j}, ![r].scored = @ \cup {j}]
    /\ UNCHANGED <<active, profile, report, call, queue, calls, faults>> /\ Quiet

\* scoreAndUpsert: the update clause leaves decidedAt alone.
ScoreRow(r, j) ==
    /\ rec[r].pc = "work" /\ j \in rec[r].todo
    /\ match' = [match EXCEPT ![rec[r].ctx][j] =
                    IF @ = None THEN [by |-> rec[r].by, decided |-> 0]
                                ELSE [@ EXCEPT !.by = rec[r].by]]
    /\ rec' = [rec EXCEPT ![r].todo = @ \ {j}, ![r].scored = @ \cup {j}]
    /\ UNCHANGED <<active, profile, report, call, queue, calls, faults>> /\ Quiet

\* A batch the model answers badly is skipped; a scoreMatch that throws too.
SkipRow(r, j) ==
    /\ faults < MaxFaults
    /\ rec[r].pc = "work"
    /\ \/ j \in rec[r].todo
       \/ rec[r].todo = {} /\ j \in rec[r].scored
    /\ rec' = [rec EXCEPT ![r].todo = @ \ {j}, ![r].scored = @ \ {j}]
    /\ faults' = faults + 1
    /\ UNCHANGED <<active, profile, report, match, call, queue, calls>> /\ Quiet

\* scoreMatch computes the verdict from the scores of the row and stamps it.
DecideRow(r, j) ==
    /\ rec[r].pc = "work" /\ rec[r].todo = {} /\ j \in rec[r].scored
    /\ match' = [match EXCEPT ![rec[r].ctx][j].decided = profile[rec[r].ctx]]
    /\ rec' = [rec EXCEPT ![r].scored = @ \ {j}]
    /\ UNCHANGED <<active, profile, report, call, queue, calls, faults>> /\ Quiet

\* The report goes to the version the job names.
StoreReport ==
    /\ rec[Worker].pc = "work" /\ rec[Worker].todo = {} /\ rec[Worker].scored = {}
    /\ report' = [report EXCEPT ![rec[Worker].job.version] =
                     [status |-> "complete", of |-> rec[Worker].ctx, by |-> rec[Worker].by]]
    /\ rec' = [rec EXCEPT ![Worker] = IdleRec]
    /\ UNCHANGED <<active, profile, match, call, queue, calls, faults>> /\ Quiet

EndBelt(b) ==
    /\ rec[b].pc = "work" /\ rec[b].todo = {} /\ rec[b].scored = {}
    /\ rec' = [rec EXCEPT ![b] = IdleRec]
    /\ UNCHANGED <<active, profile, report, match, call, queue, calls, faults>> /\ Quiet

\* rescoreExisting: every row of the matched version is decided again, from the
\* scores it has.
StartRescore(b) ==
    /\ rec[b].pc = "idle"
    /\ \E v \in Versions :
          LET rows == {j \in Jobs : match[v][j] # None}
          IN  /\ IsMatched(v)
              /\ rec' = [rec EXCEPT ![b] = [IdleRec EXCEPT !.pc = "work", !.ctx = v,
                                              !.scored = rows]]
              /\ TrackBlur({u \in {v} : \E j \in rows : match[v][j].by # profile[v]})
    /\ UNCHANGED <<active, profile, report, match, call, queue, calls, faults,
                   overlapped, lost>>

\* Any read or write throws: the worker's catch clause is still to come.
RecFails(r) ==
    /\ faults < MaxFaults
    /\ rec[r].pc \in {"since", "list", "work"}
    /\ rec' = [rec EXCEPT ![r] = IF rec[r].job = None THEN IdleRec
                                 ELSE [IdleRec EXCEPT !.pc = "error", !.job = rec[r].job]]
    /\ faults' = faults + 1
    /\ UNCHANGED <<active, profile, report, match, call, queue, calls>> /\ Quiet

\* MUTANT of StoreError: the job fails and no terminal state is written.
StoreNoError ==
    /\ rec[Worker].pc = "error"
    /\ rec' = [rec EXCEPT ![Worker] = IdleRec]
    /\ UNCHANGED <<active, profile, report, match, call, queue, calls, faults>> /\ Quiet

StoreError ==
    /\ rec[Worker].pc = "error"
    /\ report' = [report EXCEPT ![rec[Worker].job.version] = [NoReport EXCEPT !.status = "failed"]]
    /\ rec' = [rec EXCEPT ![Worker] = IdleRec]
    /\ UNCHANGED <<active, profile, match, call, queue, calls, faults>> /\ Quiet

\* The update of the catch clause throws as well: the job is attempted once only,
\* and nobody will write the report.
ErrorLost ==
    /\ faults < MaxFaults
    /\ rec[Worker].pc = "error"
    /\ rec' = [rec EXCEPT ![Worker] = IdleRec]
    /\ lost' = lost \cup {rec[Worker].job.version}
    /\ faults' = faults + 1
    /\ UNCHANGED <<active, profile, report, match, call, queue, calls, overlapped, blurred>>

\* The API process stops.  The job its worker held goes back to the queue, once.
Crash ==
    /\ faults < MaxFaults
    /\ faults' = faults + 1
    /\ LET job == rec[Worker].job
           requests == {call[q].version : q \in {p \in Requests : call[p].pc = "enqueue"}}
       IN  \/ /\ job = None
             /\ UNCHANGED queue
             /\ lost' = lost \cup requests
          \/ /\ job # None /\ ~job.stalled
             /\ queue' = <<[job EXCEPT !.stalled = TRUE]>> \o queue
             /\ lost' = lost \cup requests
          \/ /\ job # None /\ job.stalled
             /\ UNCHANGED queue
             /\ lost' = lost \cup requests \cup {job.version}
    /\ rec' = [r \in Reconcilers |-> IdleRec]
    /\ call' = [q \in Requests |-> IdleCall]
    /\ UNCHANGED <<active, profile, report, match, calls, overlapped, blurred>>

-----------------------------------------------------------------------------
Init ==
    /\ active = {}
    /\ profile = [v \in Versions |-> 0]
    /\ report = [v \in Versions |-> NoReport]
    /\ match = [v \in Versions |-> [j \in Jobs |-> None]]
    /\ call = [q \in Requests |-> IdleCall]
    /\ queue = <<>>
    /\ rec = [r \in Reconcilers |-> IdleRec]
    /\ calls = 0 /\ faults = 0
    /\ overlapped = FALSE /\ blurred = {} /\ lost = {}

CallStep(q) == CommitActivate(q) \/ ResetReport(q) \/ EnqueueReconcile(q)

Reconcile(r) ==
    \/ ReadSince(r) \/ ListCandidates(r)
    \/ \E j \in Jobs : ScoreRow(r, j) \/ DecideRow(r, j)

WorkerStep == TakeJob \/ Reconcile(Worker) \/ StoreReport \/ StoreError

BeltStep(b) == StartBelt(b) \/ StartRescore(b) \/ Reconcile(b) \/ EndBelt(b)

Next ==
    \/ \E v \in Versions : SaveProfile(v)
    \/ \E q \in Requests, v \in Versions : BeginActivate(q, v) \/ BeginRetry(q, v)
    \/ \E q \in Requests : CallStep(q) \/ CallFails(q)
    \/ WorkerStep
    \/ \E b \in Belts : BeltStep(b)
    \/ \E r \in Reconcilers : RecFails(r) \/ \E j \in Jobs : SkipRow(r, j)
    \/ ErrorLost
    \/ Crash

Spec == Init /\ [][Next]_vars

(***************************************************************************)
(* Fairness.  A request that the API serves goes on, and so does the       *)
(* worker; the belt need not run, and nobody need save or activate.        *)
(***************************************************************************)
Fairness ==
    /\ \A q \in Requests : WF_vars(CallStep(q))
    /\ WF_vars(WorkerStep)

FairSpec == Spec /\ Fairness

-----------------------------------------------------------------------------
TypeOK ==
    /\ active \subseteq Versions
    /\ profile \in [Versions -> Saves]
    /\ report \in [Versions -> Report]
    /\ match \in [Versions -> [Jobs -> Match \cup {None}]]
    /\ call \in [Requests -> Call]
    /\ queue \in Seq(Job)
    /\ rec \in [Reconcilers -> Rec]
    /\ calls \in 0 .. MaxCalls
    /\ faults \in 0 .. MaxFaults
    /\ overlapped \in BOOLEAN
    /\ blurred \subseteq Versions
    /\ lost \subseteq Versions

\* "Exactly one active version per user, atomically" (resumes.service.ts:443), as
\* far as the transaction gives it: only two activations whose transactions ran
\* at once leave two active versions, whatever retries, saves, failures and
\* crashes came between.
TwoActiveOnlyIfOverlapped ==
    overlapped \/ \A u, v \in active : u = v

\* A decision that reconciliation takes for current was computed from the current
\* profile (matching.service.ts:434-437), except for a version that met one of
\* two races: its profile was saved while a scorer held the old one, or its rows
\* were rescored while they had old scores.
CurrentFromCurrentProfile ==
    \A v \in Versions \ blurred, j \in Jobs :
        (match[v][j] # None /\ match[v][j].decided = profile[v]) =>
            match[v][j].by = profile[v]

AtRest ==
    /\ queue = <<>>
    /\ \A r \in Reconcilers : rec[r].pc = "idle"
    /\ \A q \in Requests : call[q].pc = "idle"

\* Once everything has run, without a failure: the report of the matched version
\* is about that version, and every job was decided no earlier than the profile
\* the report is about, if the cap let them all in (resumes.service.ts:458-459,
\* matching.service.ts:407-412).
CompleteMeansEvaluated ==
    (AtRest /\ faults = 0 /\ ~overlapped) =>
        \A v \in Versions : IsMatched(v) =>
            /\ report[v].status = "complete"
            /\ report[v].of = v
            /\ Cap >= Cardinality(Jobs) =>
                  \A j \in Jobs : match[v][j] # None /\ match[v][j].decided >= report[v].by

\* "Always write a terminal state" (resumes.processor.ts:58): the page of an active
\* version does not stay at "running", unless the add of its job failed, the job
\* was failed after two stalls, or the write of its error failed too, and no job
\* has been added for the version since.
TerminalStateWritten ==
    \A v \in Versions :
        (v \in active /\ report[v].status = "none") ~>
            (v \notin active \/ report[v].status # "none" \/ v \in lost)
=============================================================================
