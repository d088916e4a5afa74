------------------------- MODULE ApplicationTracker -------------------------
(***************************************************************************)
(* What the user did about a job, and what is logged of it:                *)
(* applications.service.ts, the "I applied" button of the Telegram message *)
(* (telegram-callback.ts, telegram-webhook.controller.ts) and the outcome  *)
(* log (analytics.service.ts).  One user.                                  *)
(***************************************************************************)
EXTENDS Integers, Sequences, FiniteSets

CONSTANTS
    TrackedJobs, Callers,
    UsedStatuses,    \* the statuses the callers set
    Notifications,   \* notification -> the job it is about
    ShownScores,     \* scores a match may have when something is reported
    MaxEvents,       \* status events an application gets
    MaxReports,      \* outcome events
    MaxSilent        \* outcome events whose insert fails

ApplicationStatus ==
    {"SAVED", "APPLIED", "OA", "INTERVIEW", "OFFER", "REJECTED", "ACCEPTED", "WITHDRAWN"}

ASSUME TrackerConstants ==
    /\ IsFiniteSet(TrackedJobs) /\ UsedStatuses \subseteq ApplicationStatus
    /\ \A n \in DOMAIN Notifications : Notifications[n] \in TrackedJobs
    /\ ShownScores \subseteq Nat /\ {MaxEvents, MaxReports, MaxSilent} \subseteq Nat

VARIABLES
    app,       \* application of each job
    outcomes,  \* opportunity_events, append-only
    appCall,   \* the requests in progress
    silent,    \* outcome events lost so far
    \* history
    crossed    \* jobs two requests were writing at once

trackVars == <<app, outcomes, appCall, silent, crossed>>

NoApp == [status |-> "none", appliedAt |-> FALSE, events |-> <<>>]
NoRequest == [pc |-> "idle"]

TrackInit ==
    /\ app = [j \in TrackedJobs |-> NoApp]
    /\ outcomes = <<>>
    /\ appCall = [c \in Callers |-> NoRequest]
    /\ silent = 0 /\ crossed = {}

Request(c, r) ==
    /\ appCall' = [appCall EXCEPT ![c] = r]
    /\ crossed' = crossed \cup
         {j \in TrackedJobs : \E d \in Callers \ {c} :
             /\ r.pc \in {"create", "update"} /\ r.job = j
             /\ appCall[d].pc \in {"create", "update"} /\ appCall[d].job = j}

-----------------------------------------------------------------------------
\* createFromJob: the application of the job is looked up, then created or moved.
CreateFromJob(c, j, s, note) ==
    Request(c, [pc |-> IF app[j] = NoApp THEN "create" ELSE "move",
                job |-> j, to |-> s, note |-> note, held |-> app[j]])

Post(c, j, s, note) ==
    /\ appCall[c] = NoRequest
    /\ CreateFromJob(c, j, s, note)
    /\ UNCHANGED <<app, outcomes, silent>>

\* recordApplied: a tap on a job that is tracked already changes nothing.
Tap(c, n) ==
    /\ appCall[c] = NoRequest
    /\ app[Notifications[n]] = NoApp
    /\ Request(c, [pc |-> "tapped", job |-> Notifications[n]])
    /\ UNCHANGED <<app, outcomes, silent>>

TapRecords(c) ==
    /\ appCall[c].pc = "tapped"
    /\ CreateFromJob(c, appCall[c].job, "APPLIED", FALSE)
    /\ UNCHANGED <<app, outcomes, silent>>

\* Creation, refused by the unique key when somebody was faster; an application
\* that was sent is then an outcome.
Create(c) ==
    /\ appCall[c].pc = "create"
    /\ LET j == appCall[c].job
           s == appCall[c].to
       IN IF app[j] = NoApp
          THEN /\ app' = [app EXCEPT ![j] =
                            [status |-> s, appliedAt |-> s = "APPLIED",
                             events |-> <<[from |-> "none", to |-> s]>>]]
               /\ Request(c, IF s = "APPLIED" THEN [pc |-> "record", job |-> j] ELSE NoRequest)
          ELSE Request(c, NoRequest) /\ UNCHANGED app
    /\ UNCHANGED <<outcomes, silent>>

\* transition, from createFromJob or from the tracker: the row is read, a move to
\* the same status needs a note.
Transition(c, j, s, note) ==
    Request(c, IF app[j].status = s /\ ~note THEN NoRequest
               ELSE [pc |-> "update", job |-> j, to |-> s, note |-> note, held |-> app[j]])

Patch(c, j, s, note) ==
    /\ appCall[c] = NoRequest /\ app[j] # NoApp
    /\ Transition(c, j, s, note)
    /\ UNCHANGED <<app, outcomes, silent>>

Move(c) ==
    /\ appCall[c].pc = "move"
    /\ Transition(c, appCall[c].job, appCall[c].to, appCall[c].note)
    /\ UNCHANGED <<app, outcomes, silent>>

\* The first time an application reaches APPLIED, from the row that was read.
FirstApplied(held, s) == s = "APPLIED" /\ ~held.appliedAt

\* MUTANT of StatusEvent: the event names the status the row was created with
EventOfFirst(held, s) ==
    [from |-> IF held.events = <<>> THEN "none" ELSE held.events[1].to, to |-> s]

StatusEvent(held, s) == [from |-> held.status, to |-> s]

Update(c) ==
    /\ appCall[c].pc = "update"
    /\ LET j == appCall[c].job
           s == appCall[c].to
           held == appCall[c].held
       IN /\ Len(app[j].events) < MaxEvents
          /\ app' = [app EXCEPT ![j] =
                       [status |-> s, appliedAt |-> @.appliedAt \/ FirstApplied(held, s),
                        events |-> Append(@.events, StatusEvent(held, s))]]
          /\ Request(c, IF FirstApplied(held, s) THEN [pc |-> "record", job |-> j] ELSE NoRequest)
    /\ UNCHANGED <<outcomes, silent>>

-----------------------------------------------------------------------------
\* record: the decision as it is stored now is copied into the event; a failure
\* is only logged.
OutcomeEvent(type, j, score, displayed) ==
    [type |-> type, job |-> j, opportunityScore |-> score, displayedScore |-> displayed]

RecordApplied(c) ==
    /\ appCall[c].pc = "record"
    /\ \/ \E score \in ShownScores :
             outcomes' = Append(outcomes, OutcomeEvent("APPLIED", appCall[c].job, score, score))
          /\ UNCHANGED silent
       \/ /\ silent < MaxSilent
          /\ silent' = silent + 1
          /\ UNCHANGED outcomes
    /\ Request(c, NoRequest)
    /\ UNCHANGED app

\* recordImpressions, and a click or a dismissal: what the surface showed is
\* stored beside what was decided, and neither corrects the other.
Report(type, j, score, displayed) ==
    /\ Len(outcomes) < MaxReports
    /\ outcomes' = Append(outcomes, OutcomeEvent(type, j, score, displayed))
    /\ UNCHANGED <<app, appCall, silent, crossed>>

CallerStep(c) ==
    \/ \E j \in TrackedJobs, s \in UsedStatuses, note \in BOOLEAN :
          Post(c, j, s, note) \/ Patch(c, j, s, note)
    \/ \E n \in DOMAIN Notifications : Tap(c, n)
    \/ TapRecords(c) \/ Create(c) \/ Move(c) \/ Update(c) \/ RecordApplied(c)

TrackNext ==
    \/ \E c \in Callers : CallerStep(c)
    \/ \E t \in {"SHOWN", "CLICKED", "DISMISSED"}, j \in TrackedJobs, s, d \in ShownScores :
          Report(t, j, s, d)

TrackSpec == TrackInit /\ [][TrackNext]_trackVars

-----------------------------------------------------------------------------
OfType(log, T) == {i \in DOMAIN log : log[i].type \in T}

\* Every status change is an append-only event (applications.service.ts:26): the
\* events of an application tell its history from the creation to the status it
\* has, unless two requests wrote it at once.
EventsTellTheHistory ==
    \A j \in TrackedJobs \ crossed :
        /\ \A i \in DOMAIN app[j].events :
             app[j].events[i].from = IF i = 1 THEN "none" ELSE app[j].events[i - 1].to
        /\ app[j].events # <<>> => app[j].status = app[j].events[Len(app[j].events)].to

\* The first transition into APPLIED is an outcome: an application that was sent
\* is counted once in the log, except when the insert failed or is under way, or
\* when two requests wrote the application at once.
AppliedIsCountedOnce ==
    silent = 0 => \A j \in TrackedJobs \ crossed :
        LET recorded == Cardinality({i \in OfType(outcomes, {"APPLIED"}) : outcomes[i].job = j})
            pending == Cardinality({c \in Callers : appCall[c].pc = "record" /\ appCall[c].job = j})
        IN recorded + pending = IF app[j].appliedAt THEN 1 ELSE 0

\* The two logs of an application, its events and its outcomes, tell its history.
LogsTellTheHistory == EventsTellTheHistory /\ AppliedIsCountedOnce
=============================================================================
