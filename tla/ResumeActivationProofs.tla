----------------------- MODULE ResumeActivationProofs -----------------------
(***************************************************************************)
(* Theorems about ResumeActivation, for every number of versions, jobs,    *)
(* calls, belts, saves and failures.                                       *)
(***************************************************************************)
EXTENDS ResumeActivation, FiniteSetTheorems, TLAPS

(***************************************************************************)
(* What TypeOK rests on: only confirmed versions become active, so what a  *)
(* reconciliation reads is a profile; a call and the worker's job name a   *)
(* version; and what is to be decided has a row.                           *)
(***************************************************************************)
Confirmed ==
    /\ \A v \in active : profile[v] > 0
    /\ \A q \in Requests :
          /\ call[q].pc # "idle" => call[q].version \in Versions
          /\ call[q].pc = "commit" => profile[call[q].version] > 0

RecOK(r) ==
    /\ rec[r].pc \in {"since", "list", "work"} => rec[r].ctx \in Versions
    /\ rec[r].pc \in {"since", "list"} => rec[r].todo = {} /\ rec[r].scored = {}
    /\ (rec[r].pc \in {"since", "list"} \/ rec[r].todo # {}) => rec[r].by > 0
    /\ \A j \in rec[r].scored :
          rec[r].ctx \in Versions /\ match[rec[r].ctx][j] # None
    /\ rec[r].todo # {} => rec[r].ctx \in Versions

Grounded ==
    /\ Confirmed
    /\ \A r \in Reconcilers : RecOK(r)
    /\ rec[Worker].pc # "idle" => rec[Worker].job \in Job

TypeInv == TypeOK /\ Grounded

-----------------------------------------------------------------------------
LEMMA IdleTypes == IdleRec \in Rec /\ IdleCall \in Call /\ NoReport \in Report
BY ResumeAssumption DEF IdleRec, Rec, Saves, IdleCall, Call, NoReport, Report

LEMMA InitTypeInv == Init => TypeInv
<1> SUFFICES ASSUME Init PROVE TypeInv
  OBVIOUS
<1> USE DEF Init
<1>1. profile \in [Versions -> Saves] /\ calls \in 0 .. MaxCalls /\ faults \in 0 .. MaxFaults
  BY ResumeAssumption DEF Saves
<1>2. queue \in Seq(Job)
  OBVIOUS
<1>3. /\ report \in [Versions -> Report] /\ call \in [Requests -> Call]
      /\ rec \in [Reconcilers -> Rec]
  BY IdleTypes
<1>4. match \in [Versions -> [Jobs -> Match \cup {None}]]
  OBVIOUS
<1>5. TypeOK
  BY <1>1, <1>2, <1>3, <1>4 DEF TypeOK
<1>6. Grounded
  BY DEF Grounded, Confirmed, RecOK, IdleRec, IdleCall, Reconcilers
<1> QED
  BY <1>5, <1>6 DEF TypeInv

(***************************************************************************)
(* A step of one reconciler to the state x: what has to be shown of x.     *)
(***************************************************************************)
LEMMA RecStep ==
    ASSUME TypeInv, NEW r \in Reconcilers, NEW x \in Rec,
           rec' = [rec EXCEPT ![r] = x],
           match' \in [Versions -> [Jobs -> Match \cup {None}]],
           \A v \in Versions, j \in Jobs : match[v][j] # None => match'[v][j] # None,
           x.pc \in {"since", "list", "work"} => x.ctx \in Versions,
           x.pc \in {"since", "list"} => x.todo = {} /\ x.scored = {},
           (x.pc \in {"since", "list"} \/ x.todo # {}) => x.by > 0,
           \A j \in x.scored : x.ctx \in Versions /\ match'[x.ctx][j] # None,
           x.todo # {} => x.ctx \in Versions,
           (r = Worker /\ x.pc # "idle") => x.job \in Job
    PROVE  /\ rec' \in [Reconcilers -> Rec]
           /\ \A s \in Reconcilers : RecOK(s)'
           /\ rec'[Worker].pc # "idle" => rec'[Worker].job \in Job
<1>1. rec \in [Reconcilers -> Rec]
  BY DEF TypeInv, TypeOK
<1>2. \A s \in Reconcilers : rec'[s] = IF s = r THEN x ELSE rec[s]
  BY <1>1
<1>3. ASSUME NEW s \in Reconcilers PROVE RecOK(s)'
  <2>1. CASE s = r
    BY <1>2, <2>1 DEF RecOK
  <2>2. CASE s # r
    <3>1. rec'[s] = rec[s] /\ RecOK(s) /\ rec[s].scored \subseteq Jobs
      BY <1>1, <1>2, <2>2 DEF TypeInv, Grounded, Rec
    <3> QED
      BY <3>1 DEF RecOK
  <2> QED
    BY <2>1, <2>2
<1>4. Worker \in Reconcilers
  BY DEF Reconcilers
<1> QED
  BY <1>1, <1>2, <1>3, <1>4 DEF TypeInv, Grounded

\* A step of one call to the state c.
LEMMA CallStepType ==
    ASSUME TypeInv, NEW q \in Requests, NEW c \in Call,
           call' = [call EXCEPT ![q] = c], profile' = profile,
           c.pc # "idle" => c.version \in Versions,
           c.pc = "commit" => profile[c.version] > 0,
           \A v \in active' : profile[v] > 0
    PROVE  call' \in [Requests -> Call] /\ Confirmed'
<1>1. call \in [Requests -> Call]
  BY DEF TypeInv, TypeOK
<1>2. \A p \in Requests : call'[p] = IF p = q THEN c ELSE call[p]
  BY <1>1
<1> QED
  BY <1>1, <1>2 DEF TypeInv, Grounded, Confirmed

LEMMA MatchedIsActive ==
    ASSUME NEW v, IsMatched(v) PROVE v \in active /\ v \in Primary
BY DEF IsMatched

-----------------------------------------------------------------------------
LEMMA SaveTypeInv == ASSUME TypeInv, NEW v \in Versions, SaveProfile(v) PROVE TypeInv'
<1> USE DEF SaveProfile, TrackBlur
<1>1. profile' \in [Versions -> Saves] /\ \A u \in Versions : profile'[u] >= profile[u]
  BY ResumeAssumption DEF TypeInv, TypeOK, Saves
<1>2. TypeOK'
  BY <1>1 DEF TypeInv, TypeOK
<1>3. Confirmed'
  <2>1. active \subseteq Versions /\ profile \in [Versions -> Nat] /\ profile' \in [Versions -> Nat]
    BY <1>1, ResumeAssumption DEF TypeInv, TypeOK, Saves
  <2> QED
    BY <1>1, <2>1 DEF TypeInv, Grounded, Confirmed
<1>4. \A r \in Reconcilers : RecOK(r)'
  BY DEF TypeInv, Grounded, RecOK
<1> QED
  BY <1>2, <1>3, <1>4 DEF TypeInv, Grounded

\* Steps that leave the reconcilers and the rows alone keep what is said of them.
LEMMA RecUnchanged ==
    ASSUME TypeInv, rec' = rec, match' = match
    PROVE  /\ rec' \in [Reconcilers -> Rec]
           /\ match' \in [Versions -> [Jobs -> Match \cup {None}]]
           /\ \A r \in Reconcilers : RecOK(r)'
           /\ rec'[Worker].pc # "idle" => rec'[Worker].job \in Job
BY DEF TypeInv, TypeOK, Grounded, RecOK

LEMMA BeginActivateTypeInv ==
    ASSUME TypeInv, NEW q \in Requests, NEW v \in Versions, BeginActivate(q, v)
    PROVE  TypeInv'
<1> USE DEF BeginActivate
<1> DEFINE c == [pc |-> "commit", version |-> v, others |-> active \ {v}]
<1>1. c \in Call
  BY DEF TypeInv, TypeOK, Call
<1>2. call' \in [Requests -> Call] /\ Confirmed'
  BY <1>1, CallStepType DEF TypeInv, Grounded, Confirmed
<1>3. TypeOK'
  BY <1>2, ResumeAssumption DEF TypeInv, TypeOK
<1> QED
  BY <1>2, <1>3, RecUnchanged DEF TypeInv, Grounded

LEMMA BeginRetryTypeInv ==
    ASSUME TypeInv, NEW q \in Requests, NEW v \in Versions, BeginRetry(q, v)
    PROVE  TypeInv'
<1> USE DEF BeginRetry, Quiet
<1> DEFINE c == [pc |-> "reset", version |-> v, others |-> {}]
<1>1. c \in Call
  BY DEF Call
<1>2. call' \in [Requests -> Call] /\ Confirmed'
  BY <1>1, CallStepType DEF TypeInv, Grounded, Confirmed
<1>3. TypeOK'
  BY <1>2, ResumeAssumption DEF TypeInv, TypeOK
<1> QED
  BY <1>2, <1>3, RecUnchanged DEF TypeInv, Grounded

LEMMA CommitTypeInv ==
    ASSUME TypeInv, NEW q \in Requests, CommitActivate(q)
    PROVE  TypeInv'
<1> USE DEF CommitActivate, Quiet
<1> DEFINE c == [call[q] EXCEPT !.pc = "enqueue", !.others = {}]
<1>1. call[q] \in Call /\ call[q].version \in Versions /\ profile[call[q].version] > 0
  BY DEF TypeInv, TypeOK, Grounded, Confirmed
<1>2. c \in Call /\ c.version \in Versions /\ c.pc = "enqueue"
  BY <1>1 DEF Call
<1>3. call' = [call EXCEPT ![q] = c]
  BY DEF TypeInv, TypeOK
<1>4. \A u \in active' : profile[u] > 0
  BY <1>1 DEF TypeInv, Grounded, Confirmed
<1>5. call' \in [Requests -> Call] /\ Confirmed'
  <2> HIDE DEF c
  <2> QED BY <1>2, <1>3, <1>4, CallStepType
<1>6. active' \subseteq Versions /\ report' \in [Versions -> Report]
  BY <1>1, IdleTypes DEF TypeInv, TypeOK
<1>7. TypeOK'
  BY <1>5, <1>6 DEF TypeInv, TypeOK
<1> QED
  BY <1>5, <1>7, RecUnchanged DEF TypeInv, Grounded

LEMMA ResetTypeInv ==
    ASSUME TypeInv, NEW q \in Requests, ResetReport(q)
    PROVE  TypeInv'
<1> USE DEF ResetReport, Quiet
<1> DEFINE c == [call[q] EXCEPT !.pc = "enqueue"]
<1>1. call[q] \in Call /\ call[q].version \in Versions
  BY DEF TypeInv, TypeOK, Grounded, Confirmed
<1>2. c \in Call /\ c.version \in Versions /\ c.pc = "enqueue"
  BY <1>1 DEF Call
<1>3. call' = [call EXCEPT ![q] = c]
  BY DEF TypeInv, TypeOK
<1>4. call' \in [Requests -> Call] /\ Confirmed'
  <2> HIDE DEF c
  <2> QED BY <1>2, <1>3, CallStepType DEF TypeInv, Grounded, Confirmed
<1>5. TypeOK'
  BY <1>4, IdleTypes DEF TypeInv, TypeOK
<1> QED
  BY <1>4, <1>5, RecUnchanged DEF TypeInv, Grounded

LEMMA EnqueueTypeInv ==
    ASSUME TypeInv, NEW q \in Requests, EnqueueReconcile(q)
    PROVE  TypeInv'
<1> USE DEF EnqueueReconcile, Quiet
<1>1. call[q].version \in Versions
  BY DEF TypeInv, Grounded, Confirmed
<1>2. [version |-> call[q].version, stalled |-> FALSE] \in Job
  BY <1>1 DEF Job
<1>3. queue' \in Seq(Job)
  BY <1>2 DEF TypeInv, TypeOK
<1>4. call' \in [Requests -> Call] /\ Confirmed'
  BY IdleTypes, CallStepType DEF TypeInv, Grounded, Confirmed, IdleCall
<1>5. TypeOK'
  BY <1>3, <1>4 DEF TypeInv, TypeOK
<1> QED
  BY <1>4, <1>5, RecUnchanged DEF TypeInv, Grounded

LEMMA CallFailsTypeInv ==
    ASSUME TypeInv, NEW q \in Requests, CallFails(q)
    PROVE  TypeInv'
<1> USE DEF CallFails
<1>1. call[q].version \in Versions
  BY DEF TypeInv, Grounded, Confirmed
<1>2. call' \in [Requests -> Call] /\ Confirmed'
  BY IdleTypes, CallStepType DEF TypeInv, Grounded, Confirmed, IdleCall
<1>3. lost' \subseteq Versions
  BY <1>1 DEF TypeInv, TypeOK
<1>a. faults' \in 0 .. MaxFaults
  BY ResumeAssumption DEF TypeInv, TypeOK
<1>4. TypeOK'
  BY <1>2, <1>3, <1>a DEF TypeInv, TypeOK
<1> QED
  BY <1>2, <1>4, RecUnchanged DEF TypeInv, Grounded

-----------------------------------------------------------------------------
\* The variables a step of a reconciler leaves alone, and what is then left to show.
LEMMA RecStepTypeInv ==
    ASSUME TypeInv,
           UNCHANGED <<active, profile, call, calls, overlapped>>,
           report' \in [Versions -> Report], queue' \in Seq(Job),
           blurred' \subseteq Versions, lost' \subseteq Versions, faults' \in 0 .. MaxFaults,
           match' \in [Versions -> [Jobs -> Match \cup {None}]],
           rec' \in [Reconcilers -> Rec],
           \A r \in Reconcilers : RecOK(r)',
           rec'[Worker].pc # "idle" => rec'[Worker].job \in Job
    PROVE  TypeInv'
<1>1. TypeOK'
  BY DEF TypeInv, TypeOK
<1>2. Confirmed'
  BY DEF TypeInv, Grounded, Confirmed
<1> QED
  BY <1>1, <1>2 DEF TypeInv, Grounded

LEMMA WorkerIsReconciler == Worker \in Reconcilers
BY DEF Reconcilers

LEMMA FieldTypes ==
    ASSUME TypeInv, NEW r \in Reconcilers
    PROVE  /\ rec[r] \in Rec
           /\ RecOK(r)
           /\ \A v \in Versions : profile[v] \in Saves
BY DEF TypeInv, TypeOK, Grounded

\* The records reconcilers fail with.
LEMMA ErrorRecord ==
    ASSUME NEW job \in Job, NEW x, x = [IdleRec EXCEPT !.pc = "error", !.job = job]
    PROVE  x \in Rec /\ x.pc = "error" /\ x.job = job /\ x.todo = {} /\ x.scored = {}
<1>1. IdleRec \in Rec /\ IdleRec.todo = {} /\ IdleRec.scored = {}
  BY IdleTypes DEF IdleRec
<1> QED
  BY <1>1 DEF Rec

LEMMA StartedType ==
    ASSUME TypeInv, NEW job \in Job \cup {None}, NEW v, IsMatched(v)
    PROVE  /\ v \in Versions
           /\ Started(job, v) \in Rec
           /\ Started(job, v).by > 0
<1>1. v \in Versions /\ profile[v] \in Saves /\ profile[v] > 0
  BY MatchedIsActive DEF TypeInv, TypeOK, Grounded, Confirmed
<1>2. IdleRec \in Rec
  BY IdleTypes
<1>3. Started(job, v) \in Rec /\ Started(job, v).by = profile[v]
  BY <1>1, <1>2 DEF Started, Rec
<1> QED
  BY <1>1, <1>3 DEF Saves

LEMMA TakeJobTypeInv == ASSUME TypeInv, TakeJob PROVE TypeInv'
<1> USE DEF TakeJob, Quiet
<1>1. queue \in Seq(Job) /\ queue # <<>>
  BY DEF TypeInv, TypeOK
<1>2. Head(queue) \in Job /\ queue' \in Seq(Job)
  BY <1>1
<1> DEFINE v == CHOOSE u \in Versions : IsMatched(u)
           x == IF \E u \in Versions : IsMatched(u)
                THEN Started(Head(queue), v)
                ELSE [IdleRec EXCEPT !.pc = "error", !.job = Head(queue)]
<1>3. rec' = [rec EXCEPT ![Worker] = x]
  OBVIOUS
<1>4. /\ x \in Rec /\ x.job \in Job /\ x.todo = {} /\ x.scored = {}
      /\ x.pc \in {"since", "list", "work"} => x.ctx \in Versions /\ x.by > 0
  <2>1. CASE \E u \in Versions : IsMatched(u)
    <3>1. IsMatched(v)
      BY <2>1
    <3>2. x = Started(Head(queue), v)
      BY <2>1
    <3> HIDE DEF v, x
    <3> QED
      BY <1>2, <3>1, <3>2, StartedType DEF Started, IdleRec
  <2>2. CASE ~ \E u \in Versions : IsMatched(u)
    <3>1. x = [IdleRec EXCEPT !.pc = "error", !.job = Head(queue)]
      BY <2>2
    <3> HIDE DEF x
    <3> QED
      <4>1. /\ x \in Rec /\ x.pc = "error" /\ x.job = Head(queue)
            /\ x.todo = {} /\ x.scored = {}
        BY <1>2, <3>1, ErrorRecord, Zenon
      <4> QED
        BY <1>2, <4>1
  <2> QED
    BY <2>1, <2>2
<1> HIDE DEF x
<1>5. /\ rec' \in [Reconcilers -> Rec]
      /\ \A r \in Reconcilers : RecOK(r)'
      /\ rec'[Worker].pc # "idle" => rec'[Worker].job \in Job
  BY <1>3, <1>4, RecStep, WorkerIsReconciler DEF TypeInv, TypeOK
<1> QED
  BY <1>2, <1>5, RecStepTypeInv DEF TypeInv, TypeOK

LEMMA StartBeltTypeInv ==
    ASSUME TypeInv, NEW b \in Belts, StartBelt(b) PROVE TypeInv'
<1> USE DEF StartBelt, Quiet
<1>1. PICK v \in Versions : IsMatched(v) /\ rec' = [rec EXCEPT ![b] = Started(None, v)]
  OBVIOUS
<1>2. b \in Reconcilers /\ b # Worker
  BY ResumeAssumption DEF Reconcilers
<1>3. /\ Started(None, v) \in Rec /\ Started(None, v).by > 0
      /\ Started(None, v).todo = {} /\ Started(None, v).scored = {}
      /\ Started(None, v).ctx = v
  BY <1>1, StartedType DEF Started, IdleRec
<1>4. /\ rec' \in [Reconcilers -> Rec]
      /\ \A r \in Reconcilers : RecOK(r)'
      /\ rec'[Worker].pc # "idle" => rec'[Worker].job \in Job
  BY <1>1, <1>2, <1>3, RecStep DEF TypeInv, TypeOK
<1> QED
  BY <1>4, RecStepTypeInv DEF TypeInv, TypeOK

LEMMA ReadSinceTypeInv ==
    ASSUME TypeInv, NEW r \in Reconcilers, ReadSince(r) PROVE TypeInv'
<1> USE DEF ReadSince, Quiet
<1> DEFINE x == [rec[r] EXCEPT !.pc = "list", !.since = profile[rec[r].ctx]]
<1>1. /\ rec[r] \in Rec /\ rec[r].ctx \in Versions /\ profile[rec[r].ctx] \in Saves
      /\ rec[r].todo = {} /\ rec[r].scored = {} /\ rec[r].by > 0
  BY FieldTypes DEF RecOK
<1>2. /\ x \in Rec /\ x.ctx \in Versions /\ x.todo = {} /\ x.scored = {} /\ x.by > 0
      /\ x.job = rec[r].job
  BY <1>1 DEF Rec
<1>3. rec' = [rec EXCEPT ![r] = x]
  BY DEF TypeInv, TypeOK
<1>4. (r = Worker) => x.job \in Job
  BY <1>2 DEF TypeInv, Grounded
<1> HIDE DEF x
<1>5. /\ rec' \in [Reconcilers -> Rec]
      /\ \A s \in Reconcilers : RecOK(s)'
      /\ rec'[Worker].pc # "idle" => rec'[Worker].job \in Job
  BY <1>2, <1>3, <1>4, RecStep DEF TypeInv, TypeOK
<1> QED
  BY <1>5, RecStepTypeInv DEF TypeInv, TypeOK

LEMMA ListCandidatesTypeInv ==
    ASSUME TypeInv, NEW r \in Reconcilers, ListCandidates(r) PROVE TypeInv'
<1> USE DEF ListCandidates, Quiet
<1>1. PICK S \in SUBSET Jobs : rec' = [rec EXCEPT ![r].pc = "work", ![r].todo = S]
  BY DEF Candidates
<1> DEFINE x == [rec[r] EXCEPT !.pc = "work", !.todo = S]
<1>2. /\ rec[r] \in Rec /\ rec[r].ctx \in Versions
      /\ rec[r].scored = {} /\ rec[r].by > 0
  BY FieldTypes DEF RecOK
<1>3. /\ x \in Rec /\ x.ctx \in Versions /\ x.scored = {} /\ x.by > 0
      /\ x.job = rec[r].job /\ x.pc = "work"
  BY <1>2 DEF Rec
<1>4. rec' = [rec EXCEPT ![r] = x]
  BY <1>1 DEF TypeInv, TypeOK
<1>5. (r = Worker) => x.job \in Job
  BY <1>3 DEF TypeInv, Grounded
<1> HIDE DEF x
<1>6. /\ rec' \in [Reconcilers -> Rec]
      /\ \A s \in Reconcilers : RecOK(s)'
      /\ rec'[Worker].pc # "idle" => rec'[Worker].job \in Job
  BY <1>3, <1>4, <1>5, RecStep DEF TypeInv, TypeOK
<1> QED
  BY <1>6, RecStepTypeInv DEF TypeInv, TypeOK

\* The rows after one of them got a new value.
LEMMA RowStep ==
    ASSUME TypeInv, NEW v \in Versions, NEW j \in Jobs, NEW row \in Match,
           match' = [match EXCEPT ![v] = [match[v] EXCEPT ![j] = row]]
    PROVE  /\ match' \in [Versions -> [Jobs -> Match \cup {None}]]
           /\ match'[v][j] = row
           /\ \A u \in Versions, i \in Jobs : match[u][i] # None => match'[u][i] # None
BY MatchAssumption DEF TypeInv, TypeOK

LEMMA ScoreRowTypeInv ==
    ASSUME TypeInv, NEW r \in Reconcilers, NEW j \in Jobs, ScoreRow(r, j) PROVE TypeInv'
<1>1. PICK v : v = rec[r].ctx
  OBVIOUS
<1>2. /\ rec[r] \in Rec /\ v \in Versions /\ rec[r].by \in 1 .. MaxSaves /\ rec[r].by > 0
      /\ \A i \in rec[r].scored : match[v][i] # None
  BY <1>1, FieldTypes, ResumeAssumption DEF ScoreRow, RecOK, Rec, Saves
<1>3. PICK row \in Match : match' = [match EXCEPT ![v] = [match[v] EXCEPT ![j] = row]]
  <2>1. CASE match[v][j] = None
    <3>1. [by |-> rec[r].by, decided |-> 0] \in Match
      BY <1>2, ResumeAssumption DEF Match, Saves
    <3>2. match' = [match EXCEPT ![v] = [match[v] EXCEPT ![j] = [by |-> rec[r].by, decided |-> 0]]]
      BY <1>1, <1>2, <2>1 DEF ScoreRow, TypeInv, TypeOK
    <3> QED
      BY <3>1, <3>2
  <2>2. CASE match[v][j] # None
    <3>1. match[v][j] \in Match
      BY <1>2, <2>2 DEF TypeInv, TypeOK
    <3>2. [match[v][j] EXCEPT !.by = rec[r].by] \in Match
      BY <1>2, <3>1 DEF Match
    <3>3. match' = [match EXCEPT ![v] = [match[v] EXCEPT ![j] =
                       [match[v][j] EXCEPT !.by = rec[r].by]]]
      BY <1>1, <1>2, <2>2, <3>1 DEF ScoreRow, TypeInv, TypeOK, Match
    <3> QED
      BY <3>2, <3>3
  <2> QED
    BY <2>1, <2>2
<1>4. /\ match' \in [Versions -> [Jobs -> Match \cup {None}]]
      /\ match'[v][j] # None
      /\ \A u \in Versions, i \in Jobs : match[u][i] # None => match'[u][i] # None
  BY <1>2, <1>3, RowStep, MatchAssumption
<1>5. PICK x : x = [rec[r] EXCEPT !.todo = @ \ {j}, !.scored = @ \cup {j}]
  OBVIOUS
<1>6. rec' = [rec EXCEPT ![r] = x] /\ rec[r].pc = "work"
  BY <1>5 DEF ScoreRow, TypeInv, TypeOK
<1>7. /\ x \in Rec /\ x.pc = "work" /\ x.ctx = v /\ x.by > 0
      /\ x.job = rec[r].job /\ x.scored = rec[r].scored \cup {j}
  BY <1>1, <1>2, <1>5, <1>6 DEF Rec
<1>8. \A i \in x.scored : match'[v][i] # None
  BY <1>2, <1>4, <1>7 DEF Rec
<1>9. (r = Worker) => x.job \in Job
  BY <1>6, <1>7 DEF TypeInv, Grounded
<1>10. /\ rec' \in [Reconcilers -> Rec]
       /\ \A s \in Reconcilers : RecOK(s)'
       /\ rec'[Worker].pc # "idle" => rec'[Worker].job \in Job
  BY <1>2, <1>4, <1>6, <1>7, <1>8, <1>9, RecStep
<1> QED
  BY <1>4, <1>10, RecStepTypeInv DEF ScoreRow, Quiet, TypeInv, TypeOK

LEMMA DecideRowTypeInv ==
    ASSUME TypeInv, NEW r \in Reconcilers, NEW j \in Jobs, DecideRow(r, j) PROVE TypeInv'
<1>1. PICK v : v = rec[r].ctx
  OBVIOUS
<1>2. /\ rec[r] \in Rec /\ v \in Versions /\ profile[v] \in Saves
      /\ rec[r].pc = "work" /\ rec[r].todo = {} /\ j \in rec[r].scored
      /\ \A i \in rec[r].scored : match[v][i] # None
  BY <1>1, FieldTypes DEF DecideRow, RecOK
<1>3. match[v][j] \in Match
  BY <1>2 DEF TypeInv, TypeOK
<1>4. PICK row \in Match : match' = [match EXCEPT ![v] = [match[v] EXCEPT ![j] = row]]
  <2>1. [match[v][j] EXCEPT !.decided = profile[v]] \in Match
    BY <1>2, <1>3 DEF Match
  <2>2. match' = [match EXCEPT ![v] = [match[v] EXCEPT ![j] =
                     [match[v][j] EXCEPT !.decided = profile[v]]]]
    BY <1>1, <1>2, <1>3 DEF DecideRow, TypeInv, TypeOK, Match
  <2> QED
    BY <2>1, <2>2
<1>5. /\ match' \in [Versions -> [Jobs -> Match \cup {None}]]
      /\ \A u \in Versions, i \in Jobs : match[u][i] # None => match'[u][i] # None
  BY <1>2, <1>4, RowStep
<1>6. PICK x : x = [rec[r] EXCEPT !.scored = @ \ {j}]
  OBVIOUS
<1>7. rec' = [rec EXCEPT ![r] = x]
  BY <1>6 DEF DecideRow, TypeInv, TypeOK
<1>8. /\ x \in Rec /\ x.pc = "work" /\ x.ctx = v /\ x.todo = {}
      /\ x.job = rec[r].job /\ x.scored \subseteq rec[r].scored
      /\ x.scored \subseteq Jobs
  BY <1>1, <1>2, <1>6 DEF Rec
<1>9. (r = Worker) => x.job \in Job
  BY <1>2, <1>8 DEF TypeInv, Grounded
<1>10. /\ rec' \in [Reconcilers -> Rec]
       /\ \A s \in Reconcilers : RecOK(s)'
       /\ rec'[Worker].pc # "idle" => rec'[Worker].job \in Job
  BY <1>2, <1>5, <1>7, <1>8, <1>9, RecStep
<1> QED
  BY <1>5, <1>10, RecStepTypeInv DEF DecideRow, Quiet, TypeInv, TypeOK

LEMMA SkipRowTypeInv ==
    ASSUME TypeInv, NEW r \in Reconcilers, NEW j \in Jobs, SkipRow(r, j) PROVE TypeInv'
<1> USE DEF SkipRow, Quiet
<1> DEFINE x == [rec[r] EXCEPT !.todo = @ \ {j}, !.scored = @ \ {j}]
<1>1. /\ rec[r] \in Rec /\ rec[r].ctx \in Versions
      /\ rec[r].todo # {} => rec[r].by > 0
      /\ \A i \in rec[r].scored : match[rec[r].ctx][i] # None
  BY FieldTypes DEF RecOK
<1>2. /\ x \in Rec /\ x.pc = "work" /\ x.ctx = rec[r].ctx /\ x.by = rec[r].by
      /\ x.job = rec[r].job /\ x.scored \subseteq rec[r].scored
      /\ x.todo # {} => rec[r].todo # {}
      /\ x.scored \subseteq Jobs
  BY <1>1 DEF Rec
<1>3. rec' = [rec EXCEPT ![r] = x]
  BY DEF TypeInv, TypeOK
<1>4. (r = Worker) => x.job \in Job
  BY <1>2 DEF TypeInv, Grounded
<1>5. faults' \in 0 .. MaxFaults
  BY ResumeAssumption DEF TypeInv, TypeOK
<1>a. match' = match /\ match' \in [Versions -> [Jobs -> Match \cup {None}]]
  BY DEF TypeInv, TypeOK
<1> HIDE DEF x, SkipRow
<1>6. /\ rec' \in [Reconcilers -> Rec]
      /\ \A s \in Reconcilers : RecOK(s)'
      /\ rec'[Worker].pc # "idle" => rec'[Worker].job \in Job
  <2>1. \A i \in x.scored : match'[x.ctx][i] # None
    BY <1>1, <1>2, <1>a
  <2>2. x.todo # {} => x.by > 0
    BY <1>1, <1>2
  <2> QED
    BY <1>1, <1>2, <1>3, <1>4, <1>a, <2>1, <2>2, RecStep
<1> QED
  BY <1>5, <1>6, <1>a, RecStepTypeInv DEF SkipRow, TypeInv, TypeOK

\* A reconciler that ends.
LEMMA BackToIdle ==
    ASSUME TypeInv, NEW r \in Reconcilers, rec' = [rec EXCEPT ![r] = IdleRec], match' = match
    PROVE  /\ rec' \in [Reconcilers -> Rec]
           /\ \A s \in Reconcilers : RecOK(s)'
           /\ rec'[Worker].pc # "idle" => rec'[Worker].job \in Job
<1>1. /\ IdleRec \in Rec /\ IdleRec.pc = "idle" /\ IdleRec.todo = {}
      /\ IdleRec.scored = {}
  BY IdleTypes DEF IdleRec
<1> QED
  BY <1>1, RecStep DEF TypeInv, TypeOK

LEMMA StoreReportTypeInv == ASSUME TypeInv, StoreReport PROVE TypeInv'
<1> USE DEF StoreReport, Quiet
<1>1. /\ rec[Worker] \in Rec /\ rec[Worker].ctx \in Versions
      /\ rec[Worker].job \in Job
  BY FieldTypes, WorkerIsReconciler DEF RecOK, TypeInv, Grounded
<1>2. [status |-> "complete", of |-> rec[Worker].ctx, by |-> rec[Worker].by] \in Report
  BY <1>1 DEF Report, Rec
<1>3. report' \in [Versions -> Report]
  BY <1>1, <1>2 DEF TypeInv, TypeOK, Job
<1> QED
  BY <1>3, BackToIdle, WorkerIsReconciler, RecStepTypeInv DEF TypeInv, TypeOK

LEMMA StoreErrorTypeInv == ASSUME TypeInv, StoreError PROVE TypeInv'
<1> USE DEF StoreError, Quiet
<1>1. [NoReport EXCEPT !.status = "failed"] \in Report
  BY IdleTypes DEF Report, NoReport
<1>2. report' \in [Versions -> Report]
  BY <1>1 DEF TypeInv, TypeOK
<1> QED
  BY <1>2, BackToIdle, WorkerIsReconciler, RecStepTypeInv DEF TypeInv, TypeOK

LEMMA EndBeltTypeInv == ASSUME TypeInv, NEW b \in Belts, EndBelt(b) PROVE TypeInv'
<1> USE DEF EndBelt, Quiet
<1>1. b \in Reconcilers
  BY DEF Reconcilers
<1> QED
  BY <1>1, BackToIdle, RecStepTypeInv DEF TypeInv, TypeOK

LEMMA StartRescoreTypeInv ==
    ASSUME TypeInv, NEW b \in Belts, StartRescore(b) PROVE TypeInv'
<1>1. PICK v \in Versions, rows \in SUBSET Jobs :
         /\ rows = {j \in Jobs : match[v][j] # None}
         /\ rec' = [rec EXCEPT ![b] = [IdleRec EXCEPT !.pc = "work", !.ctx = v, !.scored = rows]]
  BY Zenon DEF StartRescore
<1>2. PICK x : x = [IdleRec EXCEPT !.pc = "work", !.ctx = v, !.scored = rows]
  OBVIOUS
<1>3. x \in Rec /\ x.pc = "work" /\ x.ctx = v /\ x.todo = {} /\ x.scored = rows
  <2>1. IdleRec \in Rec /\ IdleRec.todo = {}
    BY IdleTypes DEF IdleRec
  <2> QED
    BY <1>2, <2>1 DEF Rec
<1>4. rec' = [rec EXCEPT ![b] = x]
  BY <1>1, <1>2, Zenon
<1>5. b \in Reconcilers /\ b # Worker
  BY ResumeAssumption DEF Reconcilers
<1>6. /\ UNCHANGED <<active, profile, report, match, call, queue, calls, faults,
                      overlapped, lost>>
      /\ blurred' \subseteq Versions
  BY DEF StartRescore, TrackBlur, TypeInv, TypeOK
<1>7. \A j \in x.scored : x.ctx \in Versions /\ match'[x.ctx][j] # None
  <2>1. \A j \in rows : match[v][j] # None
    BY <1>1, Zenon
  <2> QED
    BY <2>1, <1>3, <1>6
<1>8. match' \in [Versions -> [Jobs -> Match \cup {None}]]
  BY <1>6 DEF TypeInv, TypeOK
<1>9. /\ rec' \in [Reconcilers -> Rec]
      /\ \A s \in Reconcilers : RecOK(s)'
      /\ rec'[Worker].pc # "idle" => rec'[Worker].job \in Job
  BY <1>3, <1>4, <1>5, <1>6, <1>7, <1>8, RecStep
<1> QED
  BY <1>6, <1>9, RecStepTypeInv DEF TypeInv, TypeOK

LEMMA RecFailsTypeInv ==
    ASSUME TypeInv, NEW r \in Reconcilers, RecFails(r) PROVE TypeInv'
<1> USE DEF RecFails, Quiet
<1> DEFINE x == [IdleRec EXCEPT !.pc = "error", !.job = rec[r].job]
<1>1. faults' \in 0 .. MaxFaults
  BY ResumeAssumption DEF TypeInv, TypeOK
<1>2. /\ rec' \in [Reconcilers -> Rec]
      /\ \A s \in Reconcilers : RecOK(s)'
      /\ rec'[Worker].pc # "idle" => rec'[Worker].job \in Job
  <2>1. CASE rec[r].job = None
    BY <2>1, BackToIdle
  <2>2. CASE rec[r].job # None
    <3>1. rec[r].job \in Job
      BY <2>2, FieldTypes DEF Rec
    <3>2. rec' = [rec EXCEPT ![r] = x]
      BY <2>2
    <3>3. x \in Rec /\ x.pc = "error" /\ x.job = rec[r].job /\ x.todo = {} /\ x.scored = {}
      BY <3>1, ErrorRecord
    <3> HIDE DEF x
    <3> QED
      BY <3>1, <3>2, <3>3, RecStep DEF TypeInv, TypeOK
  <2> QED
    BY <2>1, <2>2
<1> QED
  BY <1>1, <1>2, RecStepTypeInv DEF TypeInv, TypeOK

LEMMA ErrorLostTypeInv == ASSUME TypeInv, ErrorLost PROVE TypeInv'
<1> USE DEF ErrorLost
<1>1. faults' \in 0 .. MaxFaults
  BY ResumeAssumption DEF TypeInv, TypeOK
<1>2. rec[Worker].job.version \in Versions
  BY FieldTypes, WorkerIsReconciler DEF TypeInv, Grounded, Job
<1>3. lost' \subseteq Versions
  BY <1>2 DEF TypeInv, TypeOK
<1>4. /\ rec' \in [Reconcilers -> Rec]
      /\ \A s \in Reconcilers : RecOK(s)'
      /\ rec'[Worker].pc # "idle" => rec'[Worker].job \in Job
  BY BackToIdle, WorkerIsReconciler
<1> QED
  BY <1>1, <1>3, <1>4, RecStepTypeInv DEF TypeInv, TypeOK

LEMMA CrashTypeInv == ASSUME TypeInv, Crash PROVE TypeInv'
<1> USE DEF Crash
<1>1. /\ rec' \in [Reconcilers -> Rec] /\ call' \in [Requests -> Call]
      /\ faults' \in 0 .. MaxFaults
  BY IdleTypes, ResumeAssumption DEF TypeInv, TypeOK
<1>2. rec[Worker].job # None => rec[Worker].job \in Job
  BY FieldTypes, WorkerIsReconciler DEF Rec
<1>3. queue' \in Seq(Job)
  <2>1. CASE UNCHANGED queue
    BY <2>1 DEF TypeInv, TypeOK
  <2>2. CASE /\ rec[Worker].job # None
             /\ queue' = <<[rec[Worker].job EXCEPT !.stalled = TRUE]>> \o queue
    <3>1. [rec[Worker].job EXCEPT !.stalled = TRUE] \in Job
      BY <1>2, <2>2 DEF Job
    <3> QED
      BY <2>2, <3>1 DEF TypeInv, TypeOK
  <2> QED
    BY <2>1, <2>2
<1>4. \A q \in Requests : call[q].pc = "enqueue" => call[q].version \in Versions
  BY DEF TypeInv, Grounded, Confirmed
<1>5. lost' \subseteq Versions
  <2>1. rec[Worker].job # None => rec[Worker].job.version \in Versions
    BY <1>2 DEF Job
  <2> QED
    BY <1>4, <2>1 DEF TypeInv, TypeOK
<1>6. TypeOK'
  BY <1>1, <1>3, <1>5 DEF TypeInv, TypeOK
<1>7. Grounded'
  BY DEF TypeInv, Grounded, Confirmed, RecOK, IdleRec, IdleCall, Reconcilers
<1> QED
  BY <1>6, <1>7 DEF TypeInv

LEMMA StutterTypeInv == ASSUME TypeInv, UNCHANGED vars PROVE TypeInv'
BY DEF vars, TypeInv, TypeOK, Grounded, Confirmed, RecOK

\* Every step keeps TypeInv.
LEMMA NextTypeInv == TypeInv /\ [Next]_vars => TypeInv'
<1> SUFFICES ASSUME TypeInv, [Next]_vars PROVE TypeInv'
  OBVIOUS
<1>1. ASSUME NEW r \in Reconcilers, Reconcile(r) PROVE TypeInv'
  BY <1>1, ReadSinceTypeInv, ListCandidatesTypeInv, ScoreRowTypeInv, DecideRowTypeInv
     DEF Reconcile
<1>2. CASE UNCHANGED vars
  BY <1>2, StutterTypeInv
<1>3. CASE \E v \in Versions : SaveProfile(v)
  BY <1>3, SaveTypeInv
<1>4. CASE \E q \in Requests, v \in Versions : BeginActivate(q, v) \/ BeginRetry(q, v)
  BY <1>4, BeginActivateTypeInv, BeginRetryTypeInv
<1>5. CASE \E q \in Requests : CallStep(q) \/ CallFails(q)
  BY <1>5, CommitTypeInv, ResetTypeInv, EnqueueTypeInv, CallFailsTypeInv DEF CallStep
<1>6. CASE WorkerStep
  BY <1>6, <1>1, WorkerIsReconciler, TakeJobTypeInv, StoreReportTypeInv, StoreErrorTypeInv
     DEF WorkerStep
<1>7. CASE \E b \in Belts : BeltStep(b)
  <2>1. \A b \in Belts : b \in Reconcilers
    BY DEF Reconcilers
  <2> QED
    BY <1>7, <1>1, <2>1, StartBeltTypeInv, StartRescoreTypeInv, EndBeltTypeInv DEF BeltStep
<1>8. CASE \E r \in Reconcilers : RecFails(r) \/ \E j \in Jobs : SkipRow(r, j)
  BY <1>8, RecFailsTypeInv, SkipRowTypeInv
<1>9. CASE Crash
  BY <1>9, CrashTypeInv
<1>10. CASE ErrorLost
  BY <1>10, ErrorLostTypeInv
<1> QED
  BY <1>2, <1>3, <1>4, <1>5, <1>6, <1>7, <1>8, <1>9, <1>10 DEF Next

LEMMA AlwaysTypeInv == Spec => []TypeInv
<1> QED
  BY InitTypeInv, NextTypeInv, PTL DEF Spec

\* The state of a resume's versions, matches, calls and reconciliations stays
\* well formed, whatever fails: no reconciliation runs without a version.
THEOREM ResumeTypeCorrect == Spec => []TypeOK
<1>1. TypeInv => TypeOK
  BY DEF TypeInv
<1> QED
  BY <1>1, AlwaysTypeInv, PTL

-----------------------------------------------------------------------------
(***************************************************************************)
(* One active version.  While no two activations have been in their        *)
(* transactions at once, the transaction that is to commit knows of every  *)
(* version it has to clear, and it is the only one.                        *)
(***************************************************************************)
OneCommitter ==
    \A p, q \in Requests : (call[p].pc = "commit" /\ call[q].pc = "commit") => p = q

KnowsTheOthers ==
    \A q \in Requests :
        call[q].pc = "commit" => active \ {call[q].version} \subseteq call[q].others

ActiveInv ==
    \/ overlapped
    \/ /\ \A u, v \in active : u = v
       /\ OneCommitter
       /\ KnowsTheOthers

LEMMA InitActiveInv == Init => ActiveInv
BY DEF Init, ActiveInv, OneCommitter, KnowsTheOthers, IdleCall

\* A step that neither begins nor commits an activation.
LEMMA ActiveInvKept ==
    ASSUME ActiveInv, active' = active, overlapped' = overlapped,
           \A q \in Requests : call'[q].pc = "commit" => call'[q] = call[q]
    PROVE  ActiveInv'
BY DEF ActiveInv, OneCommitter, KnowsTheOthers

LEMMA NextActiveInv == TypeInv /\ ActiveInv /\ [Next]_vars => ActiveInv'
<1> SUFFICES ASSUME TypeInv, ActiveInv, [Next]_vars PROVE ActiveInv'
  OBVIOUS
<1>1. call \in [Requests -> Call]
  BY DEF TypeInv, TypeOK
<1>2. ASSUME UNCHANGED <<active, call, overlapped>> PROVE ActiveInv'
  BY <1>2, ActiveInvKept
<1>3. ASSUME NEW q \in Requests, NEW v \in Versions, BeginActivate(q, v) PROVE ActiveInv'
  <2>1. CASE overlapped'
    BY <2>1 DEF ActiveInv
  <2>2. CASE ~overlapped'
    <3>1. ~overlapped /\ \A p \in Requests : call[p].pc # "commit"
      BY <1>3, <2>2 DEF BeginActivate
    <3>2. \A p \in Requests :
             call'[p] = IF p = q THEN [pc |-> "commit", version |-> v, others |-> active \ {v}]
                        ELSE call[p]
      BY <1>1, <1>3 DEF BeginActivate
    <3>3. active' = active
      BY <1>3 DEF BeginActivate
    <3> QED
      BY <3>1, <3>2, <3>3 DEF ActiveInv, OneCommitter, KnowsTheOthers
  <2> QED
    BY <2>1, <2>2
<1>4. ASSUME NEW q \in Requests, CommitActivate(q) PROVE ActiveInv'
  <2>1. CASE overlapped
    BY <1>4, <2>1 DEF CommitActivate, Quiet, ActiveInv
  <2>2. CASE ~overlapped
    <3>1. active \ {call[q].version} \subseteq call[q].others
      BY <1>4, <2>2 DEF CommitActivate, ActiveInv, KnowsTheOthers
    <3>2. active' = {call[q].version}
      BY <1>4, <3>1 DEF CommitActivate
    <3>3. \A p \in Requests : call'[p].pc # "commit"
      BY <1>1, <1>4, <2>2 DEF CommitActivate, ActiveInv, OneCommitter, Call
    <3> QED
      BY <3>2, <3>3 DEF ActiveInv, OneCommitter, KnowsTheOthers
  <2> QED
    BY <2>1, <2>2
<1>5. ASSUME NEW q \in Requests, NEW v \in Versions, BeginRetry(q, v) PROVE ActiveInv'
  BY <1>1, <1>5, ActiveInvKept DEF BeginRetry, Quiet
<1>6. ASSUME NEW q \in Requests, ResetReport(q) \/ EnqueueReconcile(q) \/ CallFails(q)
      PROVE  ActiveInv'
  BY <1>1, <1>6, ActiveInvKept DEF ResetReport, EnqueueReconcile, CallFails, IdleCall, Quiet, Call
<1>7. ASSUME NEW v \in Versions, SaveProfile(v) PROVE ActiveInv'
  BY <1>2, <1>7 DEF SaveProfile, TrackBlur
<1>8. ASSUME NEW r \in Reconcilers, Reconcile(r) PROVE ActiveInv'
  BY <1>2, <1>8
     DEF Reconcile, ReadSince, ListCandidates, ScoreRow, DecideRow, Quiet
<1>9. ASSUME WorkerStep PROVE ActiveInv'
  BY <1>2, <1>8, <1>9, WorkerIsReconciler DEF WorkerStep, TakeJob, StoreReport, StoreError, Quiet
<1>10. ASSUME NEW b \in Belts, BeltStep(b) PROVE ActiveInv'
  BY <1>2, <1>8, <1>10 DEF BeltStep, StartBelt, StartRescore, EndBelt, Quiet, Reconcilers
<1>11. ASSUME NEW r \in Reconcilers, RecFails(r) \/ \E j \in Jobs : SkipRow(r, j)
       PROVE  ActiveInv'
  BY <1>2, <1>11 DEF RecFails, SkipRow, Quiet
<1>12. ASSUME Crash PROVE ActiveInv'
  BY <1>12, ActiveInvKept DEF Crash, IdleCall
<1>13. ASSUME UNCHANGED vars PROVE ActiveInv'
  BY <1>2, <1>13 DEF vars
<1>14. ASSUME ErrorLost PROVE ActiveInv'
  BY <1>2, <1>14 DEF ErrorLost
<1> QED
  BY <1>3, <1>4, <1>5, <1>6, <1>7, <1>9, <1>10, <1>11, <1>12, <1>13, <1>14 DEF Next, CallStep

\* "Exactly one active version per user, atomically" (resumes.service.ts:443) holds
\* unless two activations were in their transactions at once.
THEOREM OneActiveUnlessOverlapped == Spec => []TwoActiveOnlyIfOverlapped
<1>1. ActiveInv => TwoActiveOnlyIfOverlapped
  BY DEF ActiveInv, TwoActiveOnlyIfOverlapped
<1> QED
  BY <1>1, AlwaysTypeInv, InitActiveInv, NextActiveInv, PTL DEF Spec

-----------------------------------------------------------------------------
(***************************************************************************)
(* Current decisions.  For a version that met neither race: a row that     *)
(* looks current has the scores of the current profile, and so has         *)
(* whatever a reconciler at work on the version is about to write.         *)
(***************************************************************************)
RowCurrent(v, j) ==
    match[v][j] # None =>
        /\ profile[v] > 0
        /\ match[v][j].decided <= profile[v]
        /\ match[v][j].decided = profile[v] => match[v][j].by = profile[v]

WorkCurrent(v, r) ==
    rec[r].ctx = v =>
        /\ (rec[r].pc \in {"since", "list"} \/ rec[r].todo # {}) => rec[r].by = profile[v]
        /\ \A j \in rec[r].scored : match[v][j].by = profile[v]

CurrentInv ==
    \A v \in Versions \ blurred :
        /\ \A j \in Jobs : RowCurrent(v, j)
        /\ \A r \in Reconcilers : WorkCurrent(v, r)

LEMMA InitCurrentInv == Init => CurrentInv
BY ResumeAssumption DEF Init, CurrentInv, RowCurrent, WorkCurrent, IdleRec

\* A step that leaves the rows and the profiles alone, and brings one reconciler
\* to the state x.
LEMMA CurrentRecStep ==
    ASSUME TypeInv, CurrentInv, profile' = profile, match' = match, blurred \subseteq blurred',
           NEW r \in Reconcilers, NEW x, rec' = [rec EXCEPT ![r] = x],
           \A v \in Versions \ blurred' : x.ctx = v =>
               /\ (x.pc \in {"since", "list"} \/ x.todo # {}) => x.by = profile[v]
               /\ \A j \in x.scored : match[v][j].by = profile[v]
    PROVE  CurrentInv'
<1>1. \A s \in Reconcilers : rec'[s] = IF s = r THEN x ELSE rec[s]
  BY DEF TypeInv, TypeOK
<1>2. ASSUME NEW v \in Versions \ blurred', NEW s \in Reconcilers PROVE WorkCurrent(v, s)'
  <2>1. CASE s = r
    BY <1>1, <2>1 DEF WorkCurrent
  <2>2. CASE s # r
    BY <1>1, <2>2 DEF CurrentInv, WorkCurrent
  <2> QED
    BY <2>1, <2>2
<1> QED
  BY <1>2 DEF CurrentInv, RowCurrent

LEMMA CurrentKept ==
    ASSUME CurrentInv, UNCHANGED <<profile, match, rec, blurred>>
    PROVE  CurrentInv'
BY DEF CurrentInv, RowCurrent, WorkCurrent

\* Nothing is at work on any version.
LEMMA IdleIsCurrent ==
    ASSUME NEW x, x = IdleRec \/ \E job : x = [IdleRec EXCEPT !.pc = "error", !.job = job]
    PROVE  x.ctx \notin Versions
<1>1. IdleRec \in Rec /\ IdleRec.ctx = None
  BY IdleTypes DEF IdleRec
<1>2. CASE x = IdleRec
  BY <1>1, <1>2, ResumeAssumption
<1>3. CASE \E job : x = [IdleRec EXCEPT !.pc = "error", !.job = job]
  <2>1. PICK job : x = [IdleRec EXCEPT !.pc = "error", !.job = job]
    BY <1>3
  <2>2. x.ctx = None
    BY <1>1, <2>1 DEF Rec
  <2> QED
    BY <2>2, ResumeAssumption
<1> QED
  BY <1>2, <1>3

LEMMA SaveCurrent == ASSUME TypeInv, CurrentInv, NEW w \in Versions, SaveProfile(w)
                     PROVE  CurrentInv'
<1>1. profile \in [Versions -> Nat]
  BY ResumeAssumption DEF TypeInv, TypeOK, Saves
<1>2. /\ profile' = [profile EXCEPT ![w] = @ + 1] /\ match' = match /\ rec' = rec
      /\ blurred \subseteq blurred'
      /\ w \notin blurred' => \A r \in Reconcilers : rec[r].ctx # w
  BY DEF SaveProfile, TrackBlur
<1>3. ASSUME NEW v \in Versions \ blurred', NEW j \in Jobs PROVE RowCurrent(v, j)'
  <2>1. CASE match[v][j] = None
    BY <1>2, <2>1 DEF RowCurrent
  <2>2. CASE match[v][j] # None
    <3>1. match[v][j].decided \in Nat /\ RowCurrent(v, j)
      BY <1>2, <2>2, ResumeAssumption DEF TypeInv, TypeOK, Match, Saves, CurrentInv
    <3> QED
      BY <1>1, <1>2, <2>2, <3>1 DEF RowCurrent
  <2> QED
    BY <2>1, <2>2
<1>4. ASSUME NEW v \in Versions \ blurred', NEW r \in Reconcilers PROVE WorkCurrent(v, r)'
  BY <1>1, <1>2 DEF CurrentInv, WorkCurrent
<1> QED
  BY <1>3, <1>4 DEF CurrentInv

LEMMA StartCurrent ==
    ASSUME TypeInv, CurrentInv, UNCHANGED <<profile, match, blurred>>,
           NEW r \in Reconcilers, NEW job \in Job \cup {None}, NEW w, IsMatched(w),
           rec' = [rec EXCEPT ![r] = Started(job, w)]
    PROVE  CurrentInv'
<1>1. IdleRec \in Rec /\ IdleRec.scored = {}
  BY IdleTypes DEF IdleRec
<1>2. PICK x : x = Started(job, w)
  OBVIOUS
<1>3. x.ctx = w /\ x.by = profile[w] /\ x.scored = {}
  BY <1>1, <1>2 DEF Started, Rec
<1> QED
  BY <1>2, <1>3, CurrentRecStep

LEMMA TakeJobCurrent == ASSUME TypeInv, CurrentInv, TakeJob PROVE CurrentInv'
<1>1. /\ UNCHANGED <<profile, match, blurred>> /\ queue \in Seq(Job) /\ queue # <<>>
  BY DEF TakeJob, Quiet, TypeInv, TypeOK
<1>2. Head(queue) \in Job
  BY <1>1
<1>3. CASE \E v \in Versions : IsMatched(v)
  <2>1. PICK w : /\ w = CHOOSE v \in Versions : IsMatched(v)
                 /\ rec' = [rec EXCEPT ![Worker] = Started(Head(queue), w)]
    BY <1>3 DEF TakeJob
  <2>2. IsMatched(w)
    BY <1>3, <2>1
  <2> QED
    BY <1>1, <1>2, <2>1, <2>2, StartCurrent, WorkerIsReconciler
<1>4. CASE ~ \E v \in Versions : IsMatched(v)
  <2>1. PICK x : x = [IdleRec EXCEPT !.pc = "error", !.job = Head(queue)]
    OBVIOUS
  <2>2. rec' = [rec EXCEPT ![Worker] = x]
    BY <1>4, <2>1, Zenon DEF TakeJob
  <2>3. x.ctx \notin Versions
    BY <2>1, IdleIsCurrent, Zenon
  <2> QED
    BY <1>1, <2>2, <2>3, CurrentRecStep, WorkerIsReconciler
<1> QED
  BY <1>3, <1>4

LEMMA IdleCurrent ==
    ASSUME TypeInv, CurrentInv, UNCHANGED <<profile, match, blurred>>,
           NEW r \in Reconcilers, rec' = [rec EXCEPT ![r] = IdleRec]
    PROVE  CurrentInv'
<1>1. IdleRec.ctx \notin Versions
  BY IdleIsCurrent
<1> QED
  BY <1>1, CurrentRecStep

LEMMA ReadSinceCurrent ==
    ASSUME TypeInv, CurrentInv, NEW r \in Reconcilers, ReadSince(r) PROVE CurrentInv'
<1>1. rec[r] \in Rec /\ rec[r].pc = "since"
  BY FieldTypes DEF ReadSince
<1>2. PICK x : x = [rec[r] EXCEPT !.pc = "list", !.since = profile[rec[r].ctx]]
  OBVIOUS
<1>3. /\ rec' = [rec EXCEPT ![r] = x] /\ UNCHANGED <<profile, match, blurred>>
  BY <1>2 DEF ReadSince, Quiet, TypeInv, TypeOK
<1>4. x.ctx = rec[r].ctx /\ x.by = rec[r].by /\ x.scored = rec[r].scored
  BY <1>1, <1>2 DEF Rec
<1>5. \A v \in Versions \ blurred : WorkCurrent(v, r)
  BY DEF CurrentInv
<1>6. \A v \in Versions \ blurred' : x.ctx = v =>
         /\ (x.pc \in {"since", "list"} \/ x.todo # {}) => x.by = profile[v]
         /\ \A j \in x.scored : match[v][j].by = profile[v]
  BY <1>1, <1>3, <1>4, <1>5 DEF WorkCurrent
<1>7. blurred \subseteq blurred' /\ profile' = profile /\ match' = match
  BY <1>3
<1> QED
  BY <1>3, <1>6, <1>7, CurrentRecStep

LEMMA ListCandidatesCurrent ==
    ASSUME TypeInv, CurrentInv, NEW r \in Reconcilers, ListCandidates(r) PROVE CurrentInv'
<1>1. rec[r] \in Rec /\ rec[r].pc = "list"
  BY FieldTypes DEF ListCandidates
<1>2. PICK S : rec' = [rec EXCEPT ![r].pc = "work", ![r].todo = S]
  BY DEF ListCandidates
<1>3. PICK x : x = [rec[r] EXCEPT !.pc = "work", !.todo = S]
  OBVIOUS
<1>4. /\ rec' = [rec EXCEPT ![r] = x] /\ UNCHANGED <<profile, match, blurred>>
  BY <1>2, <1>3 DEF ListCandidates, Quiet, TypeInv, TypeOK
<1>5. x.ctx = rec[r].ctx /\ x.by = rec[r].by /\ x.scored = rec[r].scored
  BY <1>1, <1>3 DEF Rec
<1>6. \A v \in Versions \ blurred : WorkCurrent(v, r)
  BY DEF CurrentInv
<1>7. \A v \in Versions \ blurred' : x.ctx = v =>
         /\ (x.pc \in {"since", "list"} \/ x.todo # {}) => x.by = profile[v]
         /\ \A j \in x.scored : match[v][j].by = profile[v]
  BY <1>1, <1>4, <1>5, <1>6 DEF WorkCurrent
<1>8. blurred \subseteq blurred' /\ profile' = profile /\ match' = match
  BY <1>4
<1> QED
  BY <1>4, <1>7, <1>8, CurrentRecStep

LEMMA SkipRowCurrent ==
    ASSUME TypeInv, CurrentInv, NEW r \in Reconcilers, NEW i \in Jobs, SkipRow(r, i)
    PROVE  CurrentInv'
<1>1. rec[r] \in Rec /\ rec[r].pc = "work"
  BY FieldTypes DEF SkipRow
<1>2. PICK x : x = [rec[r] EXCEPT !.todo = @ \ {i}, !.scored = @ \ {i}]
  OBVIOUS
<1>3. /\ rec' = [rec EXCEPT ![r] = x] /\ UNCHANGED <<profile, match, blurred>>
  BY <1>2 DEF SkipRow, Quiet, TypeInv, TypeOK
<1>4. /\ x.pc = "work" /\ x.ctx = rec[r].ctx /\ x.by = rec[r].by
      /\ x.scored \subseteq rec[r].scored /\ (x.todo # {} => rec[r].todo # {})
  BY <1>1, <1>2 DEF Rec
<1>5. \A v \in Versions \ blurred : WorkCurrent(v, r)
  BY DEF CurrentInv
<1>6. \A v \in Versions \ blurred' : x.ctx = v =>
         /\ (x.pc \in {"since", "list"} \/ x.todo # {}) => x.by = profile[v]
         /\ \A j \in x.scored : match[v][j].by = profile[v]
  BY <1>1, <1>3, <1>4, <1>5 DEF WorkCurrent
<1>7. blurred \subseteq blurred' /\ profile' = profile /\ match' = match
  BY <1>3
<1> QED
  BY <1>3, <1>6, <1>7, CurrentRecStep

\* A step of r on a row of w: the row after it, and the state of r after it.
LEMMA CurrentRowStep ==
    ASSUME TypeInv, CurrentInv, UNCHANGED <<profile, blurred>>,
           NEW r \in Reconcilers, NEW w \in Versions, NEW i \in Jobs, NEW row \in Match, NEW x,
           match' = [match EXCEPT ![w] = [match[w] EXCEPT ![i] = row]],
           rec' = [rec EXCEPT ![r] = x],
           x.ctx = w,
           w \notin blurred =>
               /\ profile[w] > 0 /\ row.decided <= profile[w] /\ row.by = profile[w]
               /\ x.todo # {} => x.by = profile[w]
               /\ \A j \in x.scored : match'[w][j].by = profile[w],
           x.pc = "work"
    PROVE  CurrentInv'
<1>1. \A s \in Reconcilers : rec'[s] = IF s = r THEN x ELSE rec[s]
  BY DEF TypeInv, TypeOK
<1>2. \A v \in Versions, j \in Jobs :
         match'[v][j] = IF v = w /\ j = i THEN row ELSE match[v][j]
  BY DEF TypeInv, TypeOK
<1>3. ASSUME NEW v \in Versions \ blurred', NEW j \in Jobs PROVE RowCurrent(v, j)'
  BY <1>2 DEF CurrentInv, RowCurrent
<1>4. ASSUME NEW v \in Versions \ blurred', NEW s \in Reconcilers PROVE WorkCurrent(v, s)'
  <2>1. CASE s = r
    BY <1>1, <2>1 DEF WorkCurrent
  <2>2. CASE s # r
    <3>1. rec'[s] = rec[s] /\ WorkCurrent(v, s) /\ rec[s].scored \subseteq Jobs
      BY <1>1, <2>2, FieldTypes DEF CurrentInv, Rec
    <3>2. ASSUME rec[s].ctx = v, NEW j \in rec[s].scored PROVE match'[v][j].by = profile[v]
      <4>1. CASE v = w /\ j = i
        BY <1>2, <3>1, <3>2, <4>1
      <4>2. CASE ~(v = w /\ j = i)
        <5>1. match'[v][j] = match[v][j]
          BY <1>2, <3>1, <4>2
        <5> QED
          BY <3>1, <3>2, <5>1 DEF WorkCurrent
      <4> QED
        BY <4>1, <4>2
    <3> QED
      BY <3>1, <3>2 DEF WorkCurrent
  <2> QED
    BY <2>1, <2>2
<1> QED
  BY <1>3, <1>4 DEF CurrentInv

LEMMA ScoreRowCurrent ==
    ASSUME TypeInv, CurrentInv, NEW r \in Reconcilers, NEW i \in Jobs, ScoreRow(r, i)
    PROVE  CurrentInv'
<1>1. PICK w : w = rec[r].ctx
  OBVIOUS
<1>2. /\ rec[r] \in Rec /\ w \in Versions /\ rec[r].pc = "work" /\ i \in rec[r].todo
      /\ rec[r].by \in 1 .. MaxSaves /\ rec[r].by > 0 /\ rec[r].scored \subseteq Jobs
      /\ profile[w] \in Nat
  BY <1>1, FieldTypes, ResumeAssumption DEF ScoreRow, RecOK, Rec, Saves
<1>3. UNCHANGED <<profile, blurred>>
  BY DEF ScoreRow, Quiet
<1>4. PICK x : x = [rec[r] EXCEPT !.todo = @ \ {i}, !.scored = @ \cup {i}]
  OBVIOUS
<1>5. rec' = [rec EXCEPT ![r] = x]
  BY <1>4 DEF ScoreRow, TypeInv, TypeOK
<1>6. /\ x.pc = "work" /\ x.ctx = w /\ x.by = rec[r].by
      /\ x.scored = rec[r].scored \cup {i}
  BY <1>1, <1>2, <1>4 DEF Rec
<1>7. w \notin blurred =>
         /\ rec[r].by = profile[w]
         /\ \A j \in rec[r].scored : match[w][j].by = profile[w]
         /\ RowCurrent(w, i)
  BY <1>1, <1>2 DEF CurrentInv, WorkCurrent
<1>8. PICK row \in Match :
         /\ match' = [match EXCEPT ![w] = [match[w] EXCEPT ![i] = row]]
         /\ row.by = rec[r].by
         /\ w \notin blurred => row.decided <= profile[w]
  <2>1. CASE match[w][i] = None
    <3>1. PICK row : row = [by |-> rec[r].by, decided |-> 0]
      OBVIOUS
    <3>2. row \in Match /\ row.by = rec[r].by /\ row.decided <= profile[w]
      BY <1>2, <3>1, ResumeAssumption DEF Match, Saves
    <3>3. match' = [match EXCEPT ![w] = [match[w] EXCEPT ![i] = row]]
      BY <1>1, <1>2, <2>1, <3>1 DEF ScoreRow, TypeInv, TypeOK
    <3> QED
      BY <3>2, <3>3
  <2>2. CASE match[w][i] # None
    <3>1. match[w][i] \in Match
      BY <1>2, <2>2 DEF TypeInv, TypeOK
    <3>2. PICK row : row = [match[w][i] EXCEPT !.by = rec[r].by]
      OBVIOUS
    <3>3. row \in Match /\ row.by = rec[r].by /\ row.decided = match[w][i].decided
      BY <1>2, <3>1, <3>2 DEF Match
    <3>4. match' = [match EXCEPT ![w] = [match[w] EXCEPT ![i] = row]]
      BY <1>1, <1>2, <2>2, <3>1, <3>2 DEF ScoreRow, TypeInv, TypeOK, Match
    <3>5. w \notin blurred => row.decided <= profile[w]
      BY <1>7, <2>2, <3>3 DEF RowCurrent
    <3> QED
      BY <3>3, <3>4, <3>5
  <2> QED
    BY <2>1, <2>2
<1>9. \A j \in Jobs : match'[w][j] = IF j = i THEN row ELSE match[w][j]
  BY <1>2, <1>8 DEF TypeInv, TypeOK
<1>10. w \notin blurred => \A j \in x.scored : match'[w][j].by = profile[w]
  BY <1>2, <1>6, <1>7, <1>8, <1>9
<1> QED
  BY <1>2, <1>3, <1>5, <1>6, <1>7, <1>8, <1>10, CurrentRowStep

LEMMA DecideRowCurrent ==
    ASSUME TypeInv, CurrentInv, NEW r \in Reconcilers, NEW i \in Jobs, DecideRow(r, i)
    PROVE  CurrentInv'
<1>1. PICK w : w = rec[r].ctx
  OBVIOUS
<1>2. /\ rec[r] \in Rec /\ w \in Versions /\ rec[r].pc = "work" /\ rec[r].todo = {}
      /\ i \in rec[r].scored /\ rec[r].scored \subseteq Jobs
      /\ profile[w] \in Saves /\ profile[w] \in Nat /\ match[w][i] # None
  BY <1>1, FieldTypes, ResumeAssumption DEF DecideRow, RecOK, Rec, Saves
<1>3. UNCHANGED <<profile, blurred>>
  BY DEF DecideRow, Quiet
<1>4. PICK x : x = [rec[r] EXCEPT !.scored = @ \ {i}]
  OBVIOUS
<1>5. rec' = [rec EXCEPT ![r] = x]
  BY <1>4 DEF DecideRow, TypeInv, TypeOK
<1>6. x.pc = "work" /\ x.ctx = w /\ x.todo = {} /\ x.scored \subseteq rec[r].scored
  BY <1>1, <1>2, <1>4 DEF Rec
<1>7. w \notin blurred =>
         /\ \A j \in rec[r].scored : match[w][j].by = profile[w]
         /\ RowCurrent(w, i)
  BY <1>1, <1>2 DEF CurrentInv, WorkCurrent
<1>8. match[w][i] \in Match
  BY <1>2 DEF TypeInv, TypeOK
<1>9. PICK row : row = [match[w][i] EXCEPT !.decided = profile[w]]
  OBVIOUS
<1>10. row \in Match /\ row.by = match[w][i].by /\ row.decided = profile[w]
  BY <1>2, <1>8, <1>9 DEF Match
<1>11. match' = [match EXCEPT ![w] = [match[w] EXCEPT ![i] = row]]
  BY <1>1, <1>2, <1>8, <1>9 DEF DecideRow, TypeInv, TypeOK, Match
<1>12. \A j \in Jobs : match'[w][j] = IF j = i THEN row ELSE match[w][j]
  BY <1>2, <1>11 DEF TypeInv, TypeOK
<1>13. w \notin blurred => \A j \in x.scored : match'[w][j].by = profile[w]
  BY <1>2, <1>6, <1>7, <1>10, <1>12
<1>14. w \notin blurred =>
          profile[w] > 0 /\ row.decided <= profile[w] /\ row.by = profile[w]
  BY <1>2, <1>7, <1>10 DEF RowCurrent
<1> QED
  BY <1>2, <1>3, <1>5, <1>6, <1>10, <1>11, <1>13, <1>14, CurrentRowStep

LEMMA StartRescoreCurrent ==
    ASSUME TypeInv, CurrentInv, NEW b \in Belts, StartRescore(b) PROVE CurrentInv'
<1>1. PICK w \in Versions, rows \in SUBSET Jobs :
         /\ rec' = [rec EXCEPT ![b] = [IdleRec EXCEPT !.pc = "work", !.ctx = w, !.scored = rows]]
         /\ blurred' = blurred \cup {u \in {w} : \E j \in rows : match[w][j].by # profile[w]}
  BY Zenon DEF StartRescore, TrackBlur
<1>2. PICK x : x = [IdleRec EXCEPT !.pc = "work", !.ctx = w, !.scored = rows]
  OBVIOUS
<1>3. x.pc = "work" /\ x.ctx = w /\ x.todo = {} /\ x.scored = rows
  <2>1. IdleRec \in Rec /\ IdleRec.todo = {}
    BY IdleTypes DEF IdleRec
  <2> QED
    BY <1>2, <2>1 DEF Rec
<1>4. rec' = [rec EXCEPT ![b] = x]
  BY <1>1, <1>2, Zenon
<1>5. b \in Reconcilers
  BY DEF Reconcilers
<1>6. UNCHANGED <<profile, match>>
  BY DEF StartRescore
<1>7. blurred \subseteq blurred' /\ (w \notin blurred' => \A j \in rows : match[w][j].by = profile[w])
  <2>1. blurred' = blurred \cup {u \in {w} : \E j \in rows : match[w][j].by # profile[w]}
    BY <1>1, Zenon
  <2> QED
    BY <2>1
<1>8. \A v \in Versions \ blurred' : x.ctx = v =>
         /\ (x.pc \in {"since", "list"} \/ x.todo # {}) => x.by = profile[v]
         /\ \A j \in x.scored : match[v][j].by = profile[v]
  BY <1>3, <1>7
<1> QED
  BY <1>4, <1>5, <1>6, <1>7, <1>8, CurrentRecStep

LEMMA RecFailsCurrent ==
    ASSUME TypeInv, CurrentInv, NEW r \in Reconcilers, RecFails(r) PROVE CurrentInv'
<1>1. UNCHANGED <<profile, match, blurred>>
  BY DEF RecFails, Quiet
<1>2. CASE rec[r].job = None
  <2>1. rec' = [rec EXCEPT ![r] = IdleRec]
    BY <1>2 DEF RecFails
  <2> QED
    BY <1>1, <2>1, IdleCurrent
<1>3. CASE rec[r].job # None
  <2>1. PICK x : x = [IdleRec EXCEPT !.pc = "error", !.job = rec[r].job]
    OBVIOUS
  <2>2. rec' = [rec EXCEPT ![r] = x]
    BY <1>3, <2>1, Zenon DEF RecFails
  <2>3. x.ctx \notin Versions
    BY <2>1, IdleIsCurrent, Zenon
  <2> QED
    BY <1>1, <2>2, <2>3, CurrentRecStep
<1> QED
  BY <1>2, <1>3

LEMMA CrashCurrent == ASSUME CurrentInv, Crash PROVE CurrentInv'
<1>1. IdleRec.ctx \notin Versions
  BY IdleIsCurrent
<1>2. \A r \in Reconcilers : rec'[r] = IdleRec
  BY DEF Crash
<1>3. UNCHANGED <<profile, match, blurred>>
  BY DEF Crash
<1>4. ASSUME NEW v \in Versions \ blurred', NEW r \in Reconcilers PROVE WorkCurrent(v, r)'
  BY <1>1, <1>2 DEF WorkCurrent
<1> QED
  BY <1>3, <1>4 DEF CurrentInv, RowCurrent

LEMMA NextCurrentInv == TypeInv /\ CurrentInv /\ [Next]_vars => CurrentInv'
<1> SUFFICES ASSUME TypeInv, CurrentInv, [Next]_vars PROVE CurrentInv'
  OBVIOUS
<1>1. ASSUME NEW r \in Reconcilers, Reconcile(r) PROVE CurrentInv'
  BY <1>1, ReadSinceCurrent, ListCandidatesCurrent, ScoreRowCurrent, DecideRowCurrent
     DEF Reconcile
<1>2. CASE UNCHANGED vars
  BY <1>2, CurrentKept DEF vars
<1>3. CASE \E v \in Versions : SaveProfile(v)
  BY <1>3, SaveCurrent
<1>4. CASE \E q \in Requests, v \in Versions : BeginActivate(q, v) \/ BeginRetry(q, v)
  BY <1>4, CurrentKept DEF BeginActivate, BeginRetry, Quiet
<1>5. CASE \E q \in Requests : CallStep(q) \/ CallFails(q)
  BY <1>5, CurrentKept
     DEF CallStep, CommitActivate, ResetReport, EnqueueReconcile, CallFails, Quiet
<1>6. CASE WorkerStep
  <2>1. ASSUME StoreReport \/ StoreError PROVE CurrentInv'
    BY <2>1, IdleCurrent, WorkerIsReconciler DEF StoreReport, StoreError, Quiet
  <2> QED
    BY <1>6, <1>1, <2>1, WorkerIsReconciler, TakeJobCurrent DEF WorkerStep
<1>7. CASE \E b \in Belts : BeltStep(b)
  <2>1. PICK b \in Belts : BeltStep(b)
    BY <1>7
  <2>2. b \in Reconcilers
    BY DEF Reconcilers
  <2>3. ASSUME StartBelt(b) PROVE CurrentInv'
    <3>1. PICK w : IsMatched(w) /\ rec' = [rec EXCEPT ![b] = Started(None, w)]
      BY <2>3 DEF StartBelt
    <3> QED
      BY <2>2, <2>3, <3>1, StartCurrent DEF StartBelt, Quiet
  <2>4. ASSUME EndBelt(b) PROVE CurrentInv'
    BY <2>2, <2>4, IdleCurrent DEF EndBelt, Quiet
  <2> QED
    BY <1>1, <2>1, <2>2, <2>3, <2>4, StartRescoreCurrent DEF BeltStep
<1>8. CASE \E r \in Reconcilers : RecFails(r) \/ \E j \in Jobs : SkipRow(r, j)
  BY <1>8, RecFailsCurrent, SkipRowCurrent
<1>9. CASE Crash
  BY <1>9, CrashCurrent
<1>10. CASE ErrorLost
  BY <1>10, IdleCurrent, WorkerIsReconciler DEF ErrorLost
<1> QED
  BY <1>2, <1>3, <1>4, <1>5, <1>6, <1>7, <1>8, <1>9, <1>10 DEF Next

\* A decision that reconciliation takes for current was computed from the current
\* profile (matching.service.ts:434-437), but for the versions that met a save
\* under a scorer or a rescore of old scores.
THEOREM DecisionsAreCurrent == Spec => []CurrentFromCurrentProfile
<1>1. CurrentInv => CurrentFromCurrentProfile
  BY DEF CurrentInv, RowCurrent, CurrentFromCurrentProfile
<1> QED
  BY <1>1, AlwaysTypeInv, InitCurrentInv, NextCurrentInv, PTL DEF Spec

-----------------------------------------------------------------------------
(***************************************************************************)
(* Complete means evaluated.  Without a failure or an overlap, a report    *)
(* for the matched version is on its way until it is there: its job waits  *)
(* to be added or to be taken, or the worker has it with that very version *)
(* as its context.  And what the worker has passed, it has decided.        *)
(***************************************************************************)
Done(v, j, by) == match[v][j] # None /\ match[v][j].decided >= by

ReportsHold ==
    \A w \in Versions : report[w].status = "complete" =>
        /\ report[w].of \in Versions
        /\ report[w].by <= profile[report[w].of]
        /\ Cap >= Cardinality(Jobs) => \A j \in Jobs : Done(report[w].of, j, report[w].by)

Busy == rec[Worker].pc \in {"since", "list", "work"}

WorkHolds ==
    /\ Busy => rec[Worker].by <= profile[rec[Worker].ctx]
    /\ rec[Worker].pc \in {"list", "work"} => rec[Worker].by <= rec[Worker].since
    /\ (rec[Worker].pc = "work" /\ Cap >= Cardinality(Jobs)) =>
          \A j \in Jobs \ (rec[Worker].todo \cup rec[Worker].scored) :
              Done(rec[Worker].ctx, j, rec[Worker].by)

Awaited(v) ==
    \/ \E q \in Requests : call[q].pc = "enqueue" /\ call[q].version = v
    \/ \E i \in DOMAIN queue : queue[i].version = v

OnJobOf(v) == rec[Worker].pc # "idle" /\ rec[Worker].job.version = v

IsServed(v) ==
    \/ Awaited(v)
    \/ OnJobOf(v) /\ Busy /\ rec[Worker].ctx = v
    \/ ~OnJobOf(v) /\ report[v].status = "complete" /\ report[v].of = v

Served == \A v \in active \cap Primary : IsServed(v)

EvalInv == faults = 0 => ReportsHold /\ WorkHolds /\ (~overlapped => Served)

-----------------------------------------------------------------------------
LEMMA InitEvalInv == Init => EvalInv
BY DEF Init, EvalInv, ReportsHold, WorkHolds, Busy, Served, NoReport, IdleRec, Reconcilers

\* What is decided stays decided, no earlier than a profile there is.
LEMMA DoneKept ==
    ASSUME TypeInv, [Next]_vars, NEW v \in Versions, NEW j \in Jobs, NEW by \in Saves,
           by <= profile[v], Done(v, j, by)
    PROVE  Done(v, j, by)'
<1>1. match[v][j] \in Match /\ match \in [Versions -> [Jobs -> Match \cup {None}]]
  BY DEF TypeInv, TypeOK, Done
<1>2. CASE match' = match
  BY <1>2 DEF Done
<1>3. ASSUME NEW r \in Reconcilers, NEW i \in Jobs, ScoreRow(r, i) PROVE Done(v, j, by)'
  <2>1. PICK w : w = rec[r].ctx
    OBVIOUS
  <2>2. w \in Versions
    BY <1>3, <2>1, FieldTypes DEF ScoreRow, RecOK
  <2>3. CASE w = v /\ i = j
    <3>1. match'[v][j] = [match[v][j] EXCEPT !.by = rec[r].by]
      BY <1>1, <1>3, <2>1, <2>2, <2>3 DEF ScoreRow, Done
    <3>2. match'[v][j].decided = match[v][j].decided /\ match'[v][j] \in [by : {rec[r].by}, decided : Saves]
      BY <1>1, <3>1 DEF Match
    <3>3. match'[v][j] # None
      <4>1. rec[r].by \in 1 .. MaxSaves
        BY <1>3, FieldTypes, ResumeAssumption DEF ScoreRow, RecOK, Rec, Saves
      <4> QED
        BY <3>2, <4>1, MatchAssumption DEF Match
    <3> QED
      BY <3>2, <3>3 DEF Done
  <2>4. CASE w # v \/ i # j
    <3>1. match'[v][j] = match[v][j]
      BY <1>1, <1>3, <2>1, <2>2, <2>4 DEF ScoreRow
    <3> QED
      BY <3>1 DEF Done
  <2> QED
    BY <2>3, <2>4
<1>4. ASSUME NEW r \in Reconcilers, NEW i \in Jobs, DecideRow(r, i) PROVE Done(v, j, by)'
  <2>1. PICK w : w = rec[r].ctx
    OBVIOUS
  <2>2. w \in Versions /\ profile[v] \in Saves
    BY <1>4, <2>1, FieldTypes DEF DecideRow, RecOK, TypeInv, TypeOK
  <2>3. CASE w = v /\ i = j
    <3>1. match'[v][j] = [match[v][j] EXCEPT !.decided = profile[v]]
      BY <1>1, <1>4, <2>1, <2>2, <2>3 DEF DecideRow
    <3>2. match'[v][j].decided = profile[v] /\ match'[v][j] \in Match
      BY <1>1, <2>2, <3>1 DEF Match
    <3> QED
      BY <3>2, MatchAssumption DEF Done
  <2>4. CASE w # v \/ i # j
    <3>1. match'[v][j] = match[v][j]
      BY <1>1, <1>4, <2>1, <2>2, <2>4 DEF DecideRow
    <3> QED
      BY <3>1 DEF Done
  <2> QED
    BY <2>3, <2>4
<1>5. ASSUME NEW r \in Reconcilers, Reconcile(r) PROVE Done(v, j, by)'
  BY <1>2, <1>3, <1>4, <1>5 DEF Reconcile, ReadSince, ListCandidates
<1>6. CASE WorkerStep
  BY <1>2, <1>5, <1>6, WorkerIsReconciler DEF WorkerStep, TakeJob, StoreReport, StoreError
<1>7. ASSUME NEW b \in Belts, BeltStep(b) PROVE Done(v, j, by)'
  BY <1>2, <1>5, <1>7 DEF BeltStep, StartBelt, StartRescore, EndBelt, Reconcilers
<1>8. CASE \E u \in Versions : SaveProfile(u)
  BY <1>2, <1>8 DEF SaveProfile
<1>9. ASSUME NEW q \in Requests, \E u \in Versions : BeginActivate(q, u) \/ BeginRetry(q, u)
      PROVE  Done(v, j, by)'
  BY <1>2, <1>9 DEF BeginActivate, BeginRetry
<1>10. ASSUME NEW q \in Requests, CallStep(q) \/ CallFails(q) PROVE Done(v, j, by)'
  BY <1>2, <1>10 DEF CallStep, CommitActivate, ResetReport, EnqueueReconcile, CallFails
<1>11. ASSUME NEW r \in Reconcilers, RecFails(r) \/ \E i \in Jobs : SkipRow(r, i)
       PROVE  Done(v, j, by)'
  BY <1>2, <1>11 DEF RecFails, SkipRow
<1>12. CASE ErrorLost \/ Crash \/ UNCHANGED vars
  BY <1>2, <1>12 DEF ErrorLost, Crash, vars
<1> QED
  BY <1>6, <1>7, <1>8, <1>9, <1>10, <1>11, <1>12 DEF Next

\* Profiles are only saved, never taken back.
LEMMA ProfilesGrow ==
    ASSUME TypeInv, [Next]_vars, NEW v \in Versions
    PROVE  profile[v] \in Nat /\ profile'[v] \in Nat /\ profile[v] <= profile'[v]
<1>1. profile \in [Versions -> Nat]
  BY ResumeAssumption DEF TypeInv, TypeOK, Saves
<1>2. CASE profile' = profile
  BY <1>1, <1>2
<1>3. ASSUME NEW u \in Versions, SaveProfile(u)
      PROVE  profile'[v] \in Nat /\ profile[v] <= profile'[v]
  BY <1>1, <1>3 DEF SaveProfile
<1>4. ASSUME NEW r \in Reconcilers, Reconcile(r) PROVE profile' = profile
  BY <1>4 DEF Reconcile, ReadSince, ListCandidates, ScoreRow, DecideRow
<1>5. CASE WorkerStep
  BY <1>2, <1>4, <1>5, WorkerIsReconciler, <1>1 DEF WorkerStep, TakeJob, StoreReport, StoreError
<1>6. ASSUME NEW b \in Belts, BeltStep(b) PROVE profile' = profile
  BY <1>4, <1>6 DEF BeltStep, StartBelt, StartRescore, EndBelt, Reconcilers
<1>7. ASSUME NEW q \in Requests, \E u \in Versions : BeginActivate(q, u) \/ BeginRetry(q, u)
      PROVE  profile' = profile
  BY <1>7 DEF BeginActivate, BeginRetry
<1>8. ASSUME NEW q \in Requests, CallStep(q) \/ CallFails(q) PROVE profile' = profile
  BY <1>8 DEF CallStep, CommitActivate, ResetReport, EnqueueReconcile, CallFails
<1>9. ASSUME NEW r \in Reconcilers, RecFails(r) \/ \E i \in Jobs : SkipRow(r, i)
      PROVE  profile' = profile
  BY <1>9 DEF RecFails, SkipRow
<1>10. CASE ErrorLost \/ Crash \/ UNCHANGED vars
  BY <1>1, <1>10 DEF ErrorLost, Crash, vars
<1> QED
  BY <1>1, <1>2, <1>3, <1>5, <1>6, <1>7, <1>8, <1>9, <1>10 DEF Next

\* A step that completes no report.
LEMMA ReportsKept ==
    ASSUME TypeInv, [Next]_vars, ReportsHold,
           \A w \in Versions : report'[w] = report[w] \/ report'[w].status # "complete"
    PROVE  ReportsHold'
<1> SUFFICES ASSUME NEW w \in Versions, report'[w].status = "complete"
             PROVE  /\ report'[w].of \in Versions
                    /\ report'[w].by <= profile'[report'[w].of]
                    /\ Cap >= Cardinality(Jobs) =>
                         \A j \in Jobs : /\ match'[report'[w].of][j] # None
                                         /\ match'[report'[w].of][j].decided >= report'[w].by
  BY DEF ReportsHold, Done
<1>1. PICK v : v = report[w].of
  OBVIOUS
<1>2. PICK by : by = report[w].by
  OBVIOUS
<1>3. report'[w].of = v /\ report'[w].by = by /\ report[w] \in Report /\ v \in Versions
  BY <1>1, <1>2 DEF ReportsHold, TypeInv, TypeOK
<1>4. by \in Saves /\ by \in Nat /\ by <= profile[v] /\ profile[v] <= profile'[v]
      /\ profile[v] \in Nat /\ profile'[v] \in Nat
  BY <1>1, <1>2, <1>3, ProfilesGrow, ResumeAssumption DEF ReportsHold, Report, Saves
<1>5. ASSUME Cap >= Cardinality(Jobs), NEW j \in Jobs PROVE Done(v, j, by)'
  BY <1>1, <1>2, <1>3, <1>4, <1>5, DoneKept DEF ReportsHold
<1> QED
  BY <1>3, <1>4, <1>5 DEF Done

\* A step of others than the worker, or one that leaves it without work.
LEMMA WorkKept ==
    ASSUME TypeInv, [Next]_vars, WorkHolds,
           rec'[Worker] = rec[Worker] \/ rec'[Worker].pc \in {"idle", "error"}
    PROVE  WorkHolds'
<1>1. CASE rec'[Worker].pc \in {"idle", "error"}
  BY <1>1 DEF WorkHolds, Busy
<1>2. CASE rec'[Worker] = rec[Worker]
  <2>1. PICK x : x = rec[Worker]
    OBVIOUS
  <2>2. rec'[Worker] = x /\ x \in Rec /\ (x.pc \in {"since", "list", "work"} => x.ctx \in Versions)
    BY <1>2, <2>1, FieldTypes, WorkerIsReconciler DEF RecOK
  <2>3. ASSUME x.pc \in {"since", "list", "work"}
        PROVE  x.by \in Saves /\ x.by <= profile[x.ctx] /\ x.by <= profile'[x.ctx]
    <3>1. x.ctx \in Versions /\ x.by <= profile[x.ctx]
      BY <2>1, <2>2, <2>3 DEF WorkHolds, Busy
    <3>2. x.by \in Saves /\ x.by \in Nat
      BY <2>2, ResumeAssumption DEF Rec, Saves
    <3>3. /\ profile[x.ctx] \in Nat /\ profile'[x.ctx] \in Nat
          /\ profile[x.ctx] <= profile'[x.ctx]
      BY <3>1, ProfilesGrow
    <3> QED
      BY <3>1, <3>2, <3>3
  <2>4. x.pc \in {"list", "work"} => x.by <= x.since
    BY <2>1 DEF WorkHolds
  <2>5. ASSUME x.pc = "work", Cap >= Cardinality(Jobs), NEW j \in Jobs \ (x.todo \cup x.scored)
        PROVE  match'[x.ctx][j] # None /\ match'[x.ctx][j].decided >= x.by
    <3>0. PICK v, by : v = x.ctx /\ by = x.by
      OBVIOUS
    <3>1. Done(x.ctx, j, x.by)
      BY <2>1, <2>5 DEF WorkHolds
    <3> QED
      <4>1. v \in Versions /\ by \in Saves /\ by <= profile[v] /\ Done(v, j, by)
        BY <2>2, <2>3, <2>5, <3>0, <3>1
      <4>2. Done(v, j, by)'
        BY <4>1, DoneKept
      <4> QED
        BY <3>0, <4>2 DEF Done
  <2> QED
    BY <2>2, <2>3, <2>4, <2>5 DEF WorkHolds, Busy, Done
<1> QED
  BY <1>1, <1>2

\* What the worker's record is when it works for a context.
LEMMA WorkerAtWork ==
    ASSUME TypeInv, [Next]_vars, WorkHolds, rec[Worker].pc \in {"since", "list", "work"},
           NEW x, x = rec[Worker]
    PROVE  /\ x \in Rec /\ x.ctx \in Versions
           /\ x.by \in Saves /\ x.by \in Nat
           /\ x.by <= profile[x.ctx] /\ x.by <= profile'[x.ctx]
           /\ profile[x.ctx] \in Nat /\ profile'[x.ctx] \in Nat
<1>1. x \in Rec /\ x.ctx \in Versions
  BY FieldTypes, WorkerIsReconciler DEF RecOK
<1>2. x.by \in Saves /\ x.by \in Nat
  BY <1>1, ResumeAssumption DEF Rec, Saves
<1>3. /\ profile[x.ctx] \in Nat /\ profile'[x.ctx] \in Nat /\ profile[x.ctx] <= profile'[x.ctx]
  BY <1>1, ProfilesGrow
<1>4. x.by <= profile[x.ctx]
  BY DEF WorkHolds, Busy
<1> QED
  BY <1>1, <1>2, <1>3, <1>4

LEMMA ReadSinceWorks ==
    ASSUME TypeInv, [Next]_vars, WorkHolds, ReadSince(Worker)
    PROVE  WorkHolds'
<1>1. PICK x : x = rec[Worker]
  OBVIOUS
<1>2. PICK y : y = [x EXCEPT !.pc = "list", !.since = profile[x.ctx]]
  OBVIOUS
<1>3. x.pc = "since" /\ rec'[Worker] = y
  BY <1>1, <1>2, WorkerIsReconciler DEF ReadSince, TypeInv, TypeOK
<1>4. x \in Rec /\ x.by <= profile[x.ctx] /\ x.by <= profile'[x.ctx]
  BY <1>1, <1>3, WorkerAtWork
<1>5. y.pc = "list" /\ y.since = profile[x.ctx] /\ y.by = x.by /\ y.ctx = x.ctx
  BY <1>2, <1>4 DEF Rec
<1> QED
  BY <1>3, <1>4, <1>5 DEF WorkHolds, Busy

\* With room for every job, every candidate is listed.
LEMMA AllListed ==
    ASSUME NEW found \in SUBSET Jobs, NEW S \in SUBSET found,
           S # found => Cardinality(S) = Cap, Cap >= Cardinality(Jobs)
    PROVE  S = found
<1> SUFFICES ASSUME S # found PROVE FALSE
  OBVIOUS
<1>1. S \subseteq Jobs /\ S # Jobs /\ IsFiniteSet(Jobs)
  BY ResumeAssumption
<1>2. Cardinality(S) < Cardinality(Jobs) /\ Cardinality(S) \in Nat /\ Cardinality(Jobs) \in Nat
  BY <1>1, FS_Subset, FS_CardinalityType
<1>3. Cardinality(S) = Cap /\ Cap \in Nat
  BY ResumeAssumption
<1> QED
  BY <1>2, <1>3

LEMMA ListWorks ==
    ASSUME TypeInv, [Next]_vars, WorkHolds, ListCandidates(Worker)
    PROVE  WorkHolds'
<1>1. PICK x : x = rec[Worker]
  OBVIOUS
<1>2. PICK found : found = Candidates(x.ctx, x.since)
  OBVIOUS
<1>3. PICK S \in SUBSET found :
         /\ S # found => Cardinality(S) = Cap
         /\ rec' = [rec EXCEPT ![Worker].pc = "work", ![Worker].todo = S]
  BY <1>1, <1>2 DEF ListCandidates
<1>4. PICK y : y = [x EXCEPT !.pc = "work", !.todo = S]
  OBVIOUS
<1>5. x.pc = "list" /\ rec'[Worker] = y /\ match' = match
  BY <1>1, <1>3, <1>4, WorkerIsReconciler DEF ListCandidates, TypeInv, TypeOK
<1>6. /\ x \in Rec /\ x.ctx \in Versions /\ x.by \in Nat
      /\ x.by <= profile[x.ctx] /\ x.by <= profile'[x.ctx]
  BY <1>1, <1>5, WorkerAtWork
<1>7. x.by <= x.since /\ x.since \in Nat
  BY <1>1, <1>5, <1>6, ResumeAssumption DEF WorkHolds, Rec, Saves
<1>8. y.pc = "work" /\ y.since = x.since /\ y.by = x.by /\ y.ctx = x.ctx /\ y.todo = S
  BY <1>4, <1>6 DEF Rec
<1>9. ASSUME Cap >= Cardinality(Jobs), NEW j \in Jobs \ (y.todo \cup y.scored)
      PROVE  match'[y.ctx][j] # None /\ match'[y.ctx][j].decided >= y.by
  <2>1. found \in SUBSET Jobs
    BY <1>2 DEF Candidates
  <2>2. j \notin Candidates(x.ctx, x.since)
    BY <1>2, <1>3, <1>8, <1>9, <2>1, AllListed
  <2>3. match[x.ctx][j] # None /\ ~(match[x.ctx][j].decided < x.since)
    BY <2>2 DEF Candidates
  <2>4. match[x.ctx][j].decided \in Nat
    <3>1. match[x.ctx][j] \in Match
      BY <1>6, <1>9, <2>3 DEF TypeInv, TypeOK
    <3> QED
      BY <3>1, ResumeAssumption DEF Match, Saves
  <2> QED
    BY <1>5, <1>6, <1>7, <1>8, <2>3, <2>4
<1> QED
  BY <1>5, <1>6, <1>7, <1>8, <1>9 DEF WorkHolds, Busy, Done

LEMMA ScoreWorks ==
    ASSUME TypeInv, [Next]_vars, WorkHolds, NEW i \in Jobs, ScoreRow(Worker, i)
    PROVE  WorkHolds'
<1>1. PICK x : x = rec[Worker]
  OBVIOUS
<1>2. PICK y : y = [x EXCEPT !.todo = @ \ {i}, !.scored = @ \cup {i}]
  OBVIOUS
<1>3. x.pc = "work" /\ rec'[Worker] = y
  BY <1>1, <1>2, WorkerIsReconciler DEF ScoreRow, TypeInv, TypeOK
<1>4. /\ x \in Rec /\ x.ctx \in Versions /\ x.by \in Saves
      /\ x.by <= profile[x.ctx] /\ x.by <= profile'[x.ctx]
  BY <1>1, <1>3, WorkerAtWork
<1>5. /\ y.pc = "work" /\ y.since = x.since /\ y.by = x.by /\ y.ctx = x.ctx
      /\ y.todo = x.todo \ {i} /\ y.scored = x.scored \cup {i}
  BY <1>2, <1>3, <1>4 DEF Rec
<1>6. x.by <= x.since
  BY <1>1, <1>3 DEF WorkHolds
<1>7. ASSUME Cap >= Cardinality(Jobs), NEW j \in Jobs \ (y.todo \cup y.scored)
      PROVE  match'[y.ctx][j] # None /\ match'[y.ctx][j].decided >= y.by
  <2>1. PICK v, by : v = x.ctx /\ by = x.by
    OBVIOUS
  <2>2. Done(v, j, by)
    BY <1>1, <1>3, <1>5, <1>7, <2>1 DEF WorkHolds
  <2>3. Done(v, j, by)'
    BY <1>4, <2>1, <2>2, DoneKept
  <2> QED
    BY <1>5, <2>1, <2>3 DEF Done
<1> QED
  BY <1>3, <1>4, <1>5, <1>6, <1>7 DEF WorkHolds, Busy, Done

LEMMA DecideWorks ==
    ASSUME TypeInv, [Next]_vars, WorkHolds, NEW i \in Jobs, DecideRow(Worker, i)
    PROVE  WorkHolds'
<1>1. PICK x : x = rec[Worker]
  OBVIOUS
<1>2. PICK y : y = [x EXCEPT !.scored = @ \ {i}]
  OBVIOUS
<1>3. x.pc = "work" /\ i \in x.scored /\ rec'[Worker] = y
  BY <1>1, <1>2, WorkerIsReconciler DEF DecideRow, TypeInv, TypeOK
<1>4. /\ x \in Rec /\ x.ctx \in Versions /\ x.by \in Saves /\ x.by \in Nat
      /\ x.by <= profile[x.ctx] /\ x.by <= profile'[x.ctx] /\ profile[x.ctx] \in Nat
  BY <1>1, <1>3, WorkerAtWork
<1>5. /\ y.pc = "work" /\ y.since = x.since /\ y.by = x.by /\ y.ctx = x.ctx
      /\ y.todo = x.todo /\ y.scored = x.scored \ {i}
  BY <1>2, <1>3, <1>4 DEF Rec
<1>6. x.by <= x.since
  BY <1>1, <1>3 DEF WorkHolds
<1>7. ASSUME Cap >= Cardinality(Jobs), NEW j \in Jobs \ (y.todo \cup y.scored)
      PROVE  match'[y.ctx][j] # None /\ match'[y.ctx][j].decided >= y.by
  <2>1. PICK v, by : v = x.ctx /\ by = x.by
    OBVIOUS
  <2>2. CASE j = i
    <3>1. match[v][i] \in Match
      BY <1>1, <1>3, <1>4, <2>1, FieldTypes, WorkerIsReconciler DEF RecOK, TypeInv, TypeOK
    <3>2. match'[v][i] = [match[v][i] EXCEPT !.decided = profile[v]]
      BY <1>1, <1>4, <2>1 DEF DecideRow, TypeInv, TypeOK
    <3>3. profile[v] \in Saves
      BY <1>4, <2>1 DEF TypeInv, TypeOK
    <3>4. match'[v][i] \in Match /\ match'[v][i].decided = profile[v]
      BY <3>1, <3>2, <3>3 DEF Match
    <3>5. match'[v][i] # None
      BY <3>4, MatchAssumption
    <3> QED
      BY <1>4, <1>5, <2>1, <2>2, <3>4, <3>5
  <2>3. CASE j # i
    <3>1. Done(v, j, by)
      BY <1>1, <1>3, <1>5, <1>7, <2>1, <2>3 DEF WorkHolds
    <3>2. Done(v, j, by)'
      BY <1>4, <2>1, <3>1, DoneKept
    <3> QED
      BY <1>5, <2>1, <3>2 DEF Done
  <2> QED
    BY <2>2, <2>3
<1> QED
  BY <1>3, <1>4, <1>5, <1>6, <1>7 DEF WorkHolds, Busy, Done

\* A step that adds no failure is of these.
LEMMA NoFailure ==
    ASSUME TypeInv, [Next]_vars, faults' = 0
    PROVE  /\ faults = 0
           /\ \/ \E v \in Versions : SaveProfile(v)
              \/ \E q \in Requests, v \in Versions : BeginActivate(q, v) \/ BeginRetry(q, v)
              \/ \E q \in Requests : CallStep(q)
              \/ WorkerStep
              \/ \E b \in Belts : BeltStep(b)
              \/ UNCHANGED vars
<1>1. faults \in Nat
  BY ResumeAssumption DEF TypeInv, TypeOK
<1>2. ~ \E q \in Requests : CallFails(q)
  BY <1>1 DEF CallFails
<1>3. ~ \E r \in Reconcilers : RecFails(r) \/ \E j \in Jobs : SkipRow(r, j)
  <2>1. ASSUME NEW r \in Reconcilers, RecFails(r) PROVE FALSE
    BY <1>1, <2>1 DEF RecFails
  <2>2. ASSUME NEW r \in Reconcilers, NEW j \in Jobs, SkipRow(r, j) PROVE FALSE
    BY <1>1, <2>2 DEF SkipRow
  <2> QED
    BY <2>1, <2>2
<1>4. ~ Crash /\ ~ ErrorLost
  BY <1>1 DEF Crash, ErrorLost
<1>5. ASSUME NEW r \in Reconcilers, Reconcile(r) PROVE faults' = faults
  BY <1>5 DEF Reconcile, ReadSince, ListCandidates, ScoreRow, DecideRow
<1>6. WorkerStep => faults' = faults
  BY <1>5, WorkerIsReconciler DEF WorkerStep, TakeJob, StoreReport, StoreError
<1>7. (\E b \in Belts : BeltStep(b)) => faults' = faults
  BY <1>5 DEF BeltStep, StartBelt, StartRescore, EndBelt, Reconcilers
<1>8. (\E q \in Requests : CallStep(q)) => faults' = faults
  BY DEF CallStep, CommitActivate, ResetReport, EnqueueReconcile
<1>9. (\E q \in Requests, v \in Versions : BeginActivate(q, v) \/ BeginRetry(q, v))
        => faults' = faults
  BY DEF BeginActivate, BeginRetry
<1>10. (\E v \in Versions : SaveProfile(v)) => faults' = faults
  BY DEF SaveProfile
<1>11. UNCHANGED vars => faults' = faults
  BY DEF vars
<1> QED
  BY <1>2, <1>3, <1>4, <1>6, <1>7, <1>8, <1>9, <1>10, <1>11 DEF Next

\* A step that takes nothing from the calls, the queue or the worker.
LEMMA ServedKept ==
    ASSUME Served, active' \subseteq active, UNCHANGED report,
           \A v \in Versions : Awaited(v) => Awaited(v)',
           rec'[Worker] = rec[Worker], TypeInv
    PROVE  Served'
<1>1. \A v \in active' \cap Primary : v \in Versions /\ IsServed(v)
  BY DEF Served, TypeInv, TypeOK
<1> QED
  BY <1>1 DEF Served, IsServed, OnJobOf, Busy

LEMMA CallsServed ==
    ASSUME TypeInv, Served, NEW q \in Requests, CallStep(q)
    PROVE  Served'
<1>1. call \in [Requests -> Call] /\ report \in [Versions -> Report] /\ queue \in Seq(Job)
  BY DEF TypeInv, TypeOK
<1>2. PICK w : w = call[q].version
  OBVIOUS
<1>3. ASSUME call[q].pc \in {"commit", "reset"}, call'[q].pc = "enqueue", call'[q].version = w,
             \A p \in Requests \ {q} : call'[p] = call[p],
             UNCHANGED <<queue, rec>>, active' \subseteq active \cup {w},
             report' = [report EXCEPT ![w] = NoReport]
      PROVE  Served'
  <2>1. \A v \in Versions : (Awaited(v) => Awaited(v)') /\ Awaited(w)'
    BY <1>3 DEF Awaited
  <2> SUFFICES ASSUME NEW v \in active' \cap Primary PROVE IsServed(v)'
    BY DEF Served
  <2>2. CASE v = w
    <3>1. Awaited(v)'
      BY <1>3, <2>2 DEF Awaited
    <3> QED
      BY <3>1 DEF IsServed
  <2>3. CASE v # w
    <3>1. IsServed(v) /\ v \in Versions
      BY <1>3, <2>3 DEF Served, TypeInv, TypeOK
    <3>2. report'[v] = report[v]
      BY <1>1, <1>3, <2>3, <3>1
    <3> QED
      BY <1>3, <2>1, <3>1, <3>2 DEF IsServed, OnJobOf, Busy
  <2> QED
    BY <2>2, <2>3
<1>4. CASE CommitActivate(q)
  BY <1>1, <1>2, <1>3, <1>4 DEF CommitActivate, Call
<1>5. CASE ResetReport(q)
  BY <1>1, <1>2, <1>3, <1>5 DEF ResetReport, Call
<1>6. CASE EnqueueReconcile(q)
  <2>1. PICK job : job = [version |-> w, stalled |-> FALSE]
    OBVIOUS
  <2>2. queue' = Append(queue, job) /\ job.version = w /\ job \in Job
    BY <1>2, <1>6, <2>1 DEF EnqueueReconcile, TypeInv, Grounded, Confirmed, Job
  <2>3. /\ \A i \in DOMAIN queue : i \in DOMAIN queue' /\ queue'[i] = queue[i]
        /\ Len(queue) + 1 \in DOMAIN queue' /\ queue'[Len(queue) + 1] = job
    BY <1>1, <2>2
  <2>4. \A p \in Requests \ {q} : call'[p] = call[p]
    BY <1>1, <1>6 DEF EnqueueReconcile
  <2>5. \A v \in Versions : Awaited(v) => Awaited(v)'
    BY <1>2, <2>2, <2>3, <2>4 DEF Awaited
  <2> QED
    BY <1>6, <2>5, ServedKept DEF EnqueueReconcile
<1> QED
  BY <1>4, <1>5, <1>6 DEF CallStep

\* While there is one active version, the job that is taken for it has it as its
\* context.
LEMMA TakeServed ==
    ASSUME TypeInv, Served, \A u, v \in active : u = v, TakeJob
    PROVE  Served'
<1>1. queue \in Seq(Job) /\ queue # <<>> /\ rec \in [Reconcilers -> Rec]
  BY DEF TypeInv, TypeOK, TakeJob
<1>2. PICK job : job = Head(queue)
  OBVIOUS
<1>3. PICK y : y = rec'[Worker]
  OBVIOUS
<1>4. UNCHANGED <<active, report, call>> /\ queue' = Tail(queue)
  BY DEF TakeJob
<1>5. y.job = job /\ job \in Job
  <2>1. IdleRec.job = None /\ IdleRec \in Rec
    BY IdleTypes DEF IdleRec
  <2>2. \/ \E u : y = Started(job, u)
        \/ y = [IdleRec EXCEPT !.pc = "error", !.job = job]
    BY <1>1, <1>2, <1>3, WorkerIsReconciler DEF TakeJob
  <2> QED
    <3>1. job \in Job
      BY <1>1, <1>2
    <3>2. ASSUME NEW u, y = Started(job, u) PROVE y.job = job
      BY <3>2 DEF Started, IdleRec
    <3>3. ASSUME y = [IdleRec EXCEPT !.pc = "error", !.job = job] PROVE y.job = job
      BY <3>3 DEF IdleRec
    <3> QED
      BY <2>2, <3>1, <3>2, <3>3
<1>6. ASSUME NEW v \in active \cap Primary, job.version = v
      PROVE  y.pc = "since" /\ y.ctx = v
  <2>1. v \in Versions /\ \A u \in Versions : IsMatched(u) <=> u = v
    BY <1>6, ResumeAssumption DEF IsMatched, TypeInv, TypeOK
  <2>2. (CHOOSE u \in Versions : IsMatched(u)) = v /\ \E u \in Versions : IsMatched(u)
    BY <2>1
  <2>3. y = Started(job, v)
    BY <1>1, <1>2, <1>3, <2>2, WorkerIsReconciler DEF TakeJob
  <2> QED
    BY <2>3 DEF Started, IdleRec
<1>7. ASSUME NEW v, v # job.version, Awaited(v) PROVE Awaited(v)'
  <2>1. ASSUME NEW i \in DOMAIN queue, queue[i].version = v
        PROVE  \E k \in DOMAIN queue' : queue'[k].version = v
    <3>1. i # 1 /\ i \in 1 .. Len(queue)
      BY <1>1, <1>2, <1>7, <2>1
    <3>2. i - 1 \in DOMAIN queue' /\ queue'[i - 1] = queue[i]
      BY <1>1, <1>4, <3>1
    <3> QED
      BY <2>1, <3>2
  <2> QED
    BY <1>4, <1>7, <2>1 DEF Awaited
<1> SUFFICES ASSUME NEW v \in active \cap Primary PROVE IsServed(v)'
  BY <1>4 DEF Served
<1>8. CASE job.version = v
  BY <1>3, <1>5, <1>6, <1>8 DEF IsServed, OnJobOf, Busy
<1>9. CASE job.version # v
  <2>1. IsServed(v) /\ ~ OnJobOf(v)
    BY DEF Served, OnJobOf, TakeJob
  <2>2. Awaited(v) \/ (report'[v].status = "complete" /\ report'[v].of = v)
    <3>1. report' = report
      BY <1>4
    <3> QED
      BY <2>1, <3>1 DEF IsServed
  <2> QED
    BY <1>3, <1>5, <1>7, <1>9, <2>2 DEF IsServed, OnJobOf
<1> QED
  BY <1>8, <1>9

LEMMA StoreServed ==
    ASSUME TypeInv, Served, StoreReport \/ StoreError
    PROVE  Served'
<1>1. rec'[Worker].pc = "idle" /\ report \in [Versions -> Report]
  BY WorkerIsReconciler DEF StoreReport, StoreError, TypeInv, TypeOK, IdleRec
<1>2. PICK x : x = rec[Worker]
  OBVIOUS
<1>3. UNCHANGED <<active, call, queue>> /\ x.pc # "idle" /\ x.job \in Job /\ x.job.version \in Versions
  BY <1>2 DEF StoreReport, StoreError, TypeInv, Grounded, Job
<1>4. \A v \in Versions \ {x.job.version} : report'[v] = report[v]
  BY <1>1, <1>2, <1>3 DEF StoreReport, StoreError
<1>5. StoreReport => /\ x.pc = "work" /\ report'[x.job.version].status = "complete"
                     /\ report'[x.job.version].of = x.ctx
  BY <1>1, <1>2, <1>3 DEF StoreReport
<1>6. StoreError => x.pc = "error"
  BY <1>2 DEF StoreError
<1> SUFFICES ASSUME NEW v \in active \cap Primary PROVE IsServed(v)'
  BY <1>3 DEF Served
<1>7. IsServed(v) /\ v \in Versions
  BY DEF Served, TypeInv, TypeOK
<1>8. CASE Awaited(v)
  BY <1>3, <1>8 DEF IsServed, Awaited
<1>9. CASE ~Awaited(v) /\ x.job.version = v
  BY <1>1, <1>2, <1>3, <1>5, <1>6, <1>7, <1>9 DEF IsServed, OnJobOf, Busy
<1>10. CASE ~Awaited(v) /\ x.job.version # v
  BY <1>1, <1>2, <1>4, <1>7, <1>10 DEF IsServed, OnJobOf, Busy
<1> QED
  BY <1>8, <1>9, <1>10

LEMMA NextEvalInv == TypeInv /\ ActiveInv /\ EvalInv /\ [Next]_vars => EvalInv'
<1> SUFFICES ASSUME TypeInv, ActiveInv, EvalInv, [Next]_vars, faults' = 0
             PROVE  ReportsHold' /\ WorkHolds' /\ (~overlapped' => Served')
  BY DEF EvalInv
<1>1. ReportsHold /\ WorkHolds /\ (~overlapped => Served)
  BY NoFailure DEF EvalInv
<1>2. ASSUME UNCHANGED <<rec, report>> PROVE ReportsHold' /\ WorkHolds'
  BY <1>1, <1>2, ReportsKept, WorkKept
<1>3. ASSUME NEW v \in Versions, SaveProfile(v)
      PROVE  ReportsHold' /\ WorkHolds' /\ (~overlapped' => Served')
  <2>1. UNCHANGED <<active, report, call, queue, rec, overlapped>>
    BY <1>3 DEF SaveProfile
  <2> QED
    BY <1>1, <1>2, <2>1, ServedKept DEF Awaited
<1>4. ASSUME NEW q \in Requests, NEW v \in Versions, BeginActivate(q, v) \/ BeginRetry(q, v)
      PROVE  ReportsHold' /\ WorkHolds' /\ (~overlapped' => Served')
  <2>1. UNCHANGED <<active, report, queue, rec>> /\ (overlapped => overlapped')
    <3>1. UNCHANGED <<active, report, queue, rec>>
      BY <1>4 DEF BeginActivate, BeginRetry
    <3>2. BeginActivate(q, v) => (overlapped => overlapped')
      BY DEF BeginActivate
    <3>3. BeginRetry(q, v) => (overlapped => overlapped')
      BY DEF BeginRetry, Quiet
    <3> QED
      BY <1>4, <3>1, <3>2, <3>3
  <2>2. call[q].pc = "idle" /\ \A p \in Requests \ {q} : call'[p] = call[p]
    BY <1>4 DEF BeginActivate, BeginRetry, TypeInv, TypeOK
  <2>3. \A u \in Versions : Awaited(u) => Awaited(u)'
    BY <2>1, <2>2 DEF Awaited
  <2> QED
    BY <1>1, <1>2, <2>1, <2>3, ServedKept
<1>5. ASSUME NEW q \in Requests, CallStep(q)
      PROVE  ReportsHold' /\ WorkHolds' /\ (~overlapped' => Served')
  <2>1. rec' = rec /\ overlapped' = overlapped
    BY <1>5 DEF CallStep, CommitActivate, ResetReport, EnqueueReconcile, Quiet
  <2>2. \A w \in Versions : report'[w] = report[w] \/ report'[w].status # "complete"
    BY <1>5 DEF CallStep, CommitActivate, ResetReport, EnqueueReconcile, NoReport, TypeInv, TypeOK
  <2> QED
    BY <1>1, <1>5, <2>1, <2>2, ReportsKept, WorkKept, CallsServed
<1>6. CASE TakeJob
  <2>1. report' = report /\ overlapped' = overlapped
    BY <1>6 DEF TakeJob, Quiet
  <2>2. WorkHolds'
    <3>1. CASE \E u \in Versions : IsMatched(u)
      <4>1. PICK v \in Versions : v = (CHOOSE u \in Versions : IsMatched(u))
        BY <3>1
      <4>2. PICK job : job = Head(queue)
        OBVIOUS
      <4>3. rec'[Worker] = Started(job, v) /\ profile' = profile
        BY <1>6, <3>1, <4>1, <4>2, WorkerIsReconciler DEF TakeJob, TypeInv, TypeOK
      <4>4. /\ Started(job, v).pc = "since" /\ Started(job, v).ctx = v
            /\ Started(job, v).by = profile[v]
        BY DEF Started, IdleRec
      <4>5. profile[v] \in Nat
        BY ProfilesGrow
      <4> QED
        BY <4>3, <4>4, <4>5 DEF WorkHolds, Busy
    <3>2. CASE ~ \E u \in Versions : IsMatched(u)
      <4>1. rec'[Worker] = [IdleRec EXCEPT !.pc = "error", !.job = Head(queue)]
        BY <1>6, <3>2, WorkerIsReconciler DEF TakeJob, TypeInv, TypeOK
      <4>2. rec'[Worker].pc = "error"
        BY <4>1 DEF IdleRec
      <4> QED
        BY <1>1, <4>2, WorkKept
    <3> QED
      BY <3>1, <3>2
  <2> QED
    BY <1>1, <1>6, <2>1, <2>2, ReportsKept, TakeServed DEF ActiveInv
<1>7. CASE Reconcile(Worker)
  <2>1. UNCHANGED <<active, report, call, queue, overlapped>>
    BY <1>7 DEF Reconcile, ReadSince, ListCandidates, ScoreRow, DecideRow, Quiet
  <2>2. WorkHolds'
    BY <1>1, <1>7, ReadSinceWorks, ListWorks, ScoreWorks, DecideWorks DEF Reconcile
  <2>3. /\ rec[Worker].pc \in {"since", "list", "work"}
        /\ rec'[Worker].pc \in {"since", "list", "work"}
        /\ rec'[Worker].job = rec[Worker].job /\ rec'[Worker].ctx = rec[Worker].ctx
    <3>1. rec[Worker] \in Rec /\ rec \in [Reconcilers -> Rec]
      BY WorkerIsReconciler DEF TypeInv, TypeOK
    <3>2. PICK x : x = rec[Worker]
      OBVIOUS
    <3>3. ReadSince(Worker) => /\ x.pc = "since"
                               /\ \E n : rec'[Worker] = [x EXCEPT !.pc = "list", !.since = n]
      BY <3>1, <3>2, WorkerIsReconciler DEF ReadSince
    <3>4. ListCandidates(Worker) => /\ x.pc = "list"
                                    /\ \E S : rec'[Worker] = [x EXCEPT !.pc = "work", !.todo = S]
      BY <3>1, <3>2, WorkerIsReconciler DEF ListCandidates
    <3>5. (\E j \in Jobs : ScoreRow(Worker, j) \/ DecideRow(Worker, j)) =>
             /\ x.pc = "work"
             /\ \E S, T : rec'[Worker] = [x EXCEPT !.todo = S, !.scored = T]
                         \/ rec'[Worker] = [x EXCEPT !.scored = T]
      <4>1. ASSUME NEW j \in Jobs, ScoreRow(Worker, j)
            PROVE  rec'[Worker] = [x EXCEPT !.todo = x.todo \ {j}, !.scored = x.scored \cup {j}]
        BY <3>1, <3>2, <4>1, WorkerIsReconciler DEF ScoreRow
      <4>2. ASSUME NEW j \in Jobs, DecideRow(Worker, j)
            PROVE  rec'[Worker] = [x EXCEPT !.scored = x.scored \ {j}]
        BY <3>1, <3>2, <4>2, WorkerIsReconciler DEF DecideRow
      <4>3. \A j \in Jobs : ScoreRow(Worker, j) \/ DecideRow(Worker, j) => x.pc = "work"
        BY <3>2 DEF ScoreRow, DecideRow
      <4> QED
        BY <4>1, <4>2, <4>3
    <3>6. rec'[Worker].pc \in {"since", "list", "work"}
            /\ rec'[Worker].job = x.job /\ rec'[Worker].ctx = x.ctx
            /\ x.pc \in {"since", "list", "work"}
      BY <1>7, <3>1, <3>2, <3>3, <3>4, <3>5 DEF Reconcile, Rec
    <3> QED
      BY <3>2, <3>6
  <2>4. Served => Served'
    BY <2>1, <2>3 DEF Served, IsServed, Awaited, OnJobOf, Busy
  <2> QED
    BY <1>1, <2>1, <2>2, <2>4, ReportsKept
<1>8. CASE StoreReport
  <2>1. overlapped' = overlapped /\ rec'[Worker].pc = "idle" /\ profile' = profile /\ match' = match
    BY <1>8, WorkerIsReconciler DEF StoreReport, Quiet, IdleRec, TypeInv, TypeOK
  <2>2. PICK x : x = rec[Worker]
    OBVIOUS
  <2>3. x.pc = "work" /\ x.todo = {} /\ x.scored = {} /\ x.ctx \in Versions /\ x.by <= profile[x.ctx]
    BY <1>1, <1>8, <2>2, WorkerAtWork DEF StoreReport
  <2>4. PICK y : y = [status |-> "complete", of |-> x.ctx, by |-> x.by]
    OBVIOUS
  <2>5. y.of = x.ctx /\ y.by = x.by
    BY <2>4
  <2>6. \A w \in Versions : report'[w] = report[w] \/ report'[w] = y
    BY <1>8, <2>2, <2>4 DEF StoreReport, TypeInv, TypeOK
  <2>7. Cap >= Cardinality(Jobs) => \A j \in Jobs : Done(x.ctx, j, x.by)
    BY <1>1, <2>2, <2>3 DEF WorkHolds
  <2>8. ReportsHold'
    BY <1>1, <2>1, <2>3, <2>5, <2>6, <2>7 DEF ReportsHold, Done
  <2> QED
    BY <1>1, <1>8, <2>1, <2>8, WorkKept, StoreServed
<1>9. CASE StoreError
  <2>1. overlapped' = overlapped /\ rec'[Worker].pc = "idle"
    BY <1>9, WorkerIsReconciler DEF StoreError, Quiet, IdleRec, TypeInv, TypeOK
  <2>2. \A w \in Versions : report'[w] = report[w] \/ report'[w].status # "complete"
    BY <1>9 DEF StoreError, NoReport, TypeInv, TypeOK
  <2> QED
    BY <1>1, <1>9, <2>1, <2>2, ReportsKept, WorkKept, StoreServed
<1>10. ASSUME NEW b \in Belts, BeltStep(b)
       PROVE  ReportsHold' /\ WorkHolds' /\ (~overlapped' => Served')
  <2>1. UNCHANGED <<active, report, call, queue, overlapped>>
    BY <1>10 DEF BeltStep, StartBelt, StartRescore, EndBelt, Reconcile, ReadSince,
                 ListCandidates, ScoreRow, DecideRow, Quiet
  <2>2. rec'[Worker] = rec[Worker]
    <3>1. b # Worker /\ rec \in [Reconcilers -> Rec] /\ Worker \in Reconcilers
      BY ResumeAssumption, WorkerIsReconciler DEF TypeInv, TypeOK
    <3>2. \E f : rec' = [rec EXCEPT ![b] = f]
      BY <1>10 DEF BeltStep, StartBelt, StartRescore, EndBelt, Reconcile, ReadSince,
                   ListCandidates, ScoreRow, DecideRow
    <3> QED
      BY <3>1, <3>2
  <2>3. \A u \in Versions : Awaited(u) => Awaited(u)'
    BY <2>1 DEF Awaited
  <2> QED
    BY <1>1, <2>1, <2>2, <2>3, ReportsKept, WorkKept, ServedKept
<1>11. CASE UNCHANGED vars
  <2>1. UNCHANGED <<active, report, call, queue, rec, overlapped>>
    BY <1>11 DEF vars
  <2>2. \A u \in Versions : Awaited(u) => Awaited(u)'
    BY <2>1 DEF Awaited
  <2> QED
    BY <1>1, <1>2, <2>1, <2>2, ServedKept
<1>12. CASE WorkerStep
  BY <1>6, <1>7, <1>8, <1>9, <1>12 DEF WorkerStep
<1> QED
  BY <1>3, <1>4, <1>5, <1>10, <1>11, <1>12, NoFailure

\* Once everything has run without a failure or an overlap, the report of the
\* matched version is about that version, and every job was decided no earlier
\* than the profile it names, if the cap let them all in: for any number of
\* versions, jobs, requests and reconciliations beside the worker.
THEOREM CompleteReportsAreTrue == Spec => []CompleteMeansEvaluated
<1>1. TypeInv /\ EvalInv => CompleteMeansEvaluated
  <2> SUFFICES ASSUME TypeInv, EvalInv, AtRest, faults = 0, ~overlapped,
                      NEW v \in Versions, IsMatched(v)
               PROVE  /\ report[v].status = "complete" /\ report[v].of = v
                      /\ Cap >= Cardinality(Jobs) =>
                           \A j \in Jobs : match[v][j] # None /\ match[v][j].decided >= report[v].by
    BY DEF CompleteMeansEvaluated
  <2>1. ReportsHold /\ IsServed(v)
    BY DEF EvalInv, Served, IsMatched
  <2>2. ~ Awaited(v) /\ ~ OnJobOf(v)
    BY WorkerIsReconciler DEF AtRest, Awaited, OnJobOf
  <2>3. report[v].status = "complete" /\ report[v].of = v
    BY <2>1, <2>2 DEF IsServed
  <2> QED
    BY <2>1, <2>3 DEF ReportsHold, Done
<1> QED
  BY <1>1, AlwaysTypeInv, InitEvalInv, InitActiveInv, NextActiveInv, NextEvalInv, PTL DEF Spec
=============================================================================
