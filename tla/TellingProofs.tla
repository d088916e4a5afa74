--------------------------- MODULE TellingProofs ----------------------------
(***************************************************************************)
(* Theorems about what the user is told of the decisions: by the pushes    *)
(* and the digest (DailyBrief), for any matches, users, handlers and       *)
(* limits, and by the pages (Surfaces), for any jobs, decisions and rows.  *)
(* The two share no state; each part has its own specification.            *)
(***************************************************************************)
EXTENDS DailyBrief, Surfaces, FiniteSetTheorems, TLAPS

\* An abbreviation for the variables of the pushes.
USE DEF pushVars

(***************************************************************************)
(* Well formed: handlers, matches and counts are of their sets.            *)
(***************************************************************************)
Handlings == [pc : {"unused", "next", "send", "mark", "over"}, kind : Kinds \cup {"none"},
              todo : SUBSET Readers, user : Readers \cup {"none"}, batch : SUBSET Digested]

Pushes == [by : Evaluators, match : Digested]

BriefTypeOK ==
    /\ configured \in BOOLEAN
    /\ notifiedAt \subseteq Digested
    /\ pushing \subseteq Pushes /\ pushed \subseteq Pushes
    /\ told \in [Digested -> Nat]
    /\ work \in [job : Kinds \cup {"none"}, attempt : Nat, waits : BriefHandlers \cup {NoHandler}]
    /\ serving \in [BriefHandlers -> Handlings]

\* Between the message and the mark a batch has been named, and so has the match of
\* a push, unless it was refused.  This is what is missing to make MarkedMeansTold
\* inductive: a mark is made of what was read two steps earlier.
SentIsNamed ==
    /\ \A h \in BriefHandlers :
           configured /\ serving[h].pc = "mark" => \A m \in serving[h].batch : told[m] > 0
    /\ configured => \A p \in pushed : told[p.match] > 0 \/ p.match \in refused

BriefInv == BriefTypeOK /\ SentIsNamed /\ MarkedMeansTold

-----------------------------------------------------------------------------
LEMMA BriefInitInv == BriefInit => BriefInv
<1> SUFFICES ASSUME BriefInit PROVE BriefInv
    OBVIOUS
<1>1. BriefTypeOK
    BY DEF BriefInit, BriefTypeOK, Handlings, Unused, AtRest, Kinds
<1>2. SentIsNamed /\ MarkedMeansTold
    BY DEF BriefInit, SentIsNamed, MarkedMeansTold, Unused
<1> QED
    BY <1>1, <1>2 DEF BriefInv

\* The worker's record stays one whatever it is told.
LEMMA RepliedType ==
    ASSUME BriefTypeOK, NEW h \in BriefHandlers, NEW ok, Replied(h, ok)
    PROVE  work' \in [job : Kinds \cup {"none"}, attempt : Nat,
                      waits : BriefHandlers \cup {NoHandler}]
BY DEF BriefTypeOK, Replied, Attempted, AtRest

\* Naming a batch counts up, so what was named stays named.
LEMMA NamedProp ==
    ASSUME told \in [Digested -> Nat], NEW batch, NameThem(batch)
    PROVE  /\ told' \in [Digested -> Nat]
           /\ \A m \in Digested : told'[m] >= told[m] /\ (m \in batch => told'[m] > 0)
BY DEF NameThem

\* A step that leaves marks and messages alone keeps the invariant when it gives
\* no handler a batch to mark.
LEMMA NothingNamed ==
    ASSUME BriefInv, BriefTypeOK', UNCHANGED <<configured, notifiedAt, told, refused>>,
           pushed' \subseteq pushed,
           \A h \in BriefHandlers : serving'[h].pc = "mark" => serving'[h] = serving[h]
    PROVE  BriefInv'
BY DEF BriefInv, SentIsNamed, MarkedMeansTold

-----------------------------------------------------------------------------
LEMMA WorkerKeeps ==
    ASSUME BriefInv
    PROVE  /\ \A k \in Kinds : TakeJob(k) => BriefInv'
           /\ \A h \in BriefHandlers : Trigger(h) => BriefInv'
           /\ LoseAnswer \/ CrashApi => BriefInv'
<1> USE DEF BriefInv
<1>1. ASSUME NEW k \in Kinds, TakeJob(k)
      PROVE  BriefInv'
  <2>1. BriefTypeOK'
      BY <1>1 DEF TakeJob, BriefTypeOK
  <2> QED
      BY <2>1, <1>1, NothingNamed DEF TakeJob
<1>2. ASSUME NEW h \in BriefHandlers, Trigger(h)
      PROVE  BriefInv'
  <2> DEFINE Working == [job : Kinds \cup {"none"}, attempt : Nat,
                         waits : BriefHandlers \cup {NoHandler}]
  <2>1. work \in Working /\ work.job \in Kinds \cup {"none"} /\ work.attempt + 1 \in Nat
      BY DEF BriefTypeOK
  <2>2. [pc |-> "next", kind |-> work.job, todo |-> Readers, user |-> "none", batch |-> {}]
           \in Handlings
      BY <2>1 DEF Handlings
  <2>3. serving' \in [BriefHandlers -> Handlings]
      BY <2>2, <1>2 DEF Trigger, BriefTypeOK
  <2>4. work' = [work EXCEPT !.attempt = work.attempt + 1, !.waits = h]
      BY <1>2 DEF Trigger
  <2>5. work' \in Working
      BY <2>1, <2>4
  <2>6. BriefTypeOK'
      BY <2>3, <2>5, <1>2 DEF Trigger, BriefTypeOK
  <2>7. \A g \in BriefHandlers : serving'[g].pc = "mark" => serving'[g] = serving[g]
      BY <1>2 DEF Trigger, BriefTypeOK
  <2> QED
      BY <2>6, <2>7, <1>2, NothingNamed DEF Trigger
<1>3. CASE LoseAnswer
  <2>1. BriefTypeOK'
      BY <1>3 DEF LoseAnswer, Attempted, AtRest, BriefTypeOK
  <2> QED
      BY <2>1, <1>3, NothingNamed DEF LoseAnswer
<1>4. CASE CrashApi
  <2>1. BriefTypeOK'
      BY <1>4 DEF CrashApi, Attempted, AtRest, Unused, BriefTypeOK, Handlings
  <2>2. \A g \in BriefHandlers : serving'[g].pc = "mark" => serving'[g] = serving[g]
      BY <1>4 DEF CrashApi, Unused
  <2> QED
      BY <2>1, <2>2, <1>4, NothingNamed DEF CrashApi
<1> QED
    BY <1>1, <1>2, <1>3, <1>4

LEMMA HandlersKeep ==
    ASSUME BriefInv, NEW h \in BriefHandlers
    PROVE  /\ ReadDigest(h) \/ SendDigest(h) \/ SendFails(h) => BriefInv'
           /\ MarkDigest(h) \/ SendBrief(h) \/ Respond(h) => BriefInv'
<1> USE DEF BriefInv
<1>1. CASE ReadDigest(h)
  <2> DEFINE s == serving[h]
  <2>1. PICK u \in s.todo :
           LET batch == DigestBatch(u)
               rest == [s EXCEPT !.todo = @ \ {u}]
           IN serving' = [serving EXCEPT ![h] =
                IF batch = {} THEN rest
                ELSE [rest EXCEPT !.pc = "send", !.user = u, !.batch = batch]]
      BY <1>1 DEF ReadDigest
  <2>2. DigestBatch(u) \subseteq Digested
      BY DEF DigestBatch
  <2>3. s \in Handlings /\ s.pc = "next" /\ u \in Readers
      BY <1>1 DEF ReadDigest, BriefTypeOK, Handlings
  <2>4. /\ serving' \in [BriefHandlers -> Handlings]
        /\ \A g \in BriefHandlers : serving'[g].pc = "mark" => serving'[g] = serving[g]
    <3>1. CASE DigestBatch(u) = {}
        BY <2>1, <2>3, <3>1 DEF BriefTypeOK, Handlings
    <3>2. CASE DigestBatch(u) # {}
        BY <2>1, <2>2, <2>3, <3>2 DEF BriefTypeOK, Handlings
    <3> QED
        BY <3>1, <3>2
  <2>5. BriefTypeOK'
      BY <2>4, <1>1 DEF ReadDigest, BriefTypeOK
  <2> QED
      BY <2>4, <2>5, <1>1, NothingNamed DEF ReadDigest
<1>2. CASE SendDigest(h)
  <2>1. told' \in [Digested -> Nat] /\ \A m \in Digested : told'[m] >= told[m]
      BY <1>2, NamedProp DEF SendDigest, BriefTypeOK
  <2>2. configured => \A m \in serving[h].batch : told'[m] > 0
      BY <1>2, NamedProp DEF SendDigest, BriefTypeOK, Handlings
  <2>3. BriefTypeOK'
      BY <2>1, <1>2 DEF SendDigest, BriefTypeOK, Handlings
  <2>a. \A g \in BriefHandlers : configured' /\ serving'[g].pc = "mark" =>
           \A m \in serving'[g].batch : told'[m] > 0
      BY <2>1, <2>2, <1>2 DEF SendDigest, SentIsNamed, BriefTypeOK, Handlings
  <2>b. configured' => \A p \in pushed' : told'[p.match] > 0 \/ p.match \in refused'
      BY <2>1, <1>2 DEF SendDigest, SentIsNamed, BriefTypeOK, Pushes
  <2>4. SentIsNamed'
      BY <2>a, <2>b DEF SentIsNamed
  <2>5. MarkedMeansTold'
      BY <2>1, <1>2 DEF SendDigest, MarkedMeansTold, BriefTypeOK
  <2> QED
      BY <2>3, <2>4, <2>5
<1>3. CASE SendFails(h)
  <2>1. told' \in [Digested -> Nat] /\ \A m \in Digested : told'[m] >= told[m]
      BY <1>3, NamedProp DEF SendFails, BriefTypeOK
  <2>2. work' \in [job : Kinds \cup {"none"}, attempt : Nat, waits : BriefHandlers \cup {NoHandler}]
      BY <1>3, RepliedType DEF SendFails, Finish
  <2>3. /\ serving' \in [BriefHandlers -> Handlings]
        /\ \A g \in BriefHandlers : serving'[g].pc = "mark" => serving'[g] = serving[g]
      BY <1>3 DEF SendFails, Finish, Over, Unused, BriefTypeOK, Handlings
  <2>4. BriefTypeOK'
      BY <2>1, <2>2, <2>3, <1>3 DEF SendFails, BriefTypeOK
  <2>a. \A g \in BriefHandlers : configured' /\ serving'[g].pc = "mark" =>
           \A m \in serving'[g].batch : told'[m] > 0
      BY <2>1, <2>3, <1>3 DEF SendFails, SentIsNamed, BriefTypeOK, Handlings
  <2>b. configured' => \A p \in pushed' : told'[p.match] > 0 \/ p.match \in refused'
      BY <2>1, <1>3 DEF SendFails, SentIsNamed, BriefTypeOK, Pushes
  <2>5. SentIsNamed'
      BY <2>a, <2>b DEF SentIsNamed
  <2>6. MarkedMeansTold'
      BY <2>1, <1>3 DEF SendFails, MarkedMeansTold, BriefTypeOK
  <2> QED
      BY <2>4, <2>5, <2>6
<1>4. CASE MarkDigest(h)
  <2>1. BriefTypeOK'
      BY <1>4 DEF MarkDigest, MarkedNow, BriefTypeOK, Handlings
  <2>2. SentIsNamed'
      BY <1>4 DEF MarkDigest, SentIsNamed, BriefTypeOK, Handlings
  <2>3. MarkedMeansTold'
      BY <1>4 DEF MarkDigest, MarkedNow, SentIsNamed, MarkedMeansTold, BriefTypeOK
  <2> QED
      BY <2>1, <2>2, <2>3
<1>5. CASE SendBrief(h)
  <2>1. PICK u \in serving[h].todo : serving' = [serving EXCEPT ![h].todo = @ \ {u}]
      BY <1>5 DEF SendBrief
  <2>2. /\ serving' \in [BriefHandlers -> Handlings]
        /\ \A g \in BriefHandlers : serving'[g].pc = "mark" => serving'[g] = serving[g]
      BY <2>1, <1>5 DEF SendBrief, BriefTypeOK, Handlings
  <2>3. BriefTypeOK'
      BY <2>2, <1>5 DEF SendBrief, BriefTypeOK
  <2> QED
      BY <2>2, <2>3, <1>5, NothingNamed DEF SendBrief
<1>6. CASE Respond(h)
  <2>1. work' \in [job : Kinds \cup {"none"}, attempt : Nat, waits : BriefHandlers \cup {NoHandler}]
      BY <1>6, RepliedType DEF Respond, Finish
  <2>2. /\ serving' \in [BriefHandlers -> Handlings]
        /\ \A g \in BriefHandlers : serving'[g].pc = "mark" => serving'[g] = serving[g]
      BY <1>6 DEF Respond, Finish, Over, Unused, BriefTypeOK, Handlings
  <2>3. BriefTypeOK'
      BY <2>1, <2>2, <1>6 DEF Respond, BriefTypeOK
  <2> QED
      BY <2>2, <2>3, <1>6, NothingNamed DEF Respond
<1> QED
    BY <1>1, <1>2, <1>3, <1>4, <1>5, <1>6

LEMMA MeanwhileKeeps ==
    ASSUME BriefInv
    PROVE  /\ Change => BriefInv'
           /\ \A e \in Evaluators, m \in Digested : DecidePush(e, m) => BriefInv'
           /\ \A p \in pushing \cup pushed : SendPush(p) \/ MarkPush(p) => BriefInv'
<1> USE DEF BriefInv
<1>1. CASE Change
  <2>1. BriefTypeOK'
      BY <1>1 DEF Change, BriefTypeOK
  <2> QED
      BY <2>1, <1>1, NothingNamed DEF Change
<1>2. ASSUME NEW e \in Evaluators, NEW m \in Digested, DecidePush(e, m)
      PROVE  BriefInv'
  <2>1. BriefTypeOK'
      BY <1>2 DEF DecidePush, BriefTypeOK, Pushes
  <2> QED
      BY <2>1, <1>2, NothingNamed DEF DecidePush
<1>3. ASSUME NEW p \in pushing \cup pushed, SendPush(p)
      PROVE  BriefInv'
  <2>1. p.match \in Digested
      BY DEF BriefTypeOK, Pushes
  <2>2. /\ told' \in [Digested -> Nat] /\ \A n \in Digested : told'[n] >= told[n]
        /\ refused \subseteq refused'
        /\ configured => told'[p.match] > 0 \/ p.match \in refused'
      BY <2>1, <1>3, NamedProp DEF SendPush, BriefTypeOK
  <2>3. BriefTypeOK'
      BY <2>2, <1>3 DEF SendPush, BriefTypeOK
  <2>4. SentIsNamed'
      BY <2>2, <1>3 DEF SendPush, SentIsNamed, BriefTypeOK, Handlings, Pushes
  <2>5. MarkedMeansTold'
      BY <2>2, <1>3 DEF SendPush, MarkedMeansTold, BriefTypeOK
  <2> QED
      BY <2>3, <2>4, <2>5
<1>4. ASSUME NEW p \in pushing \cup pushed, MarkPush(p)
      PROVE  BriefInv'
  <2>1. BriefTypeOK'
      BY <1>4 DEF MarkPush, BriefTypeOK, Pushes
  <2>2. SentIsNamed'
      BY <1>4 DEF MarkPush, SentIsNamed
  <2>3. MarkedMeansTold'
      BY <1>4 DEF MarkPush, SentIsNamed, MarkedMeansTold
  <2> QED
      BY <2>1, <2>2, <2>3
<1> QED
    BY <1>1, <1>2, <1>3, <1>4

LEMMA BriefStep == BriefInv /\ [BriefNext]_briefVars => BriefInv'
<1> SUFFICES ASSUME BriefInv, [BriefNext]_briefVars
             PROVE  BriefInv'
    OBVIOUS
<1>1. CASE BriefNext
    BY <1>1, WorkerKeeps, HandlersKeep, MeanwhileKeeps DEF BriefNext
<1>2. CASE UNCHANGED briefVars
    BY <1>2 DEF briefVars, BriefInv, BriefTypeOK, SentIsNamed, MarkedMeansTold
<1> QED
    BY <1>1, <1>2

\* Whoever crosses whom, and whatever else fails, a match is marked as told only
\* after a message has named it or Telegram has refused its push.
THEOREM MarkedIsNeverLost == BriefSpec => []MarkedMeansTold
<1>1. BriefInv => MarkedMeansTold
    BY DEF BriefInv
<1> QED
    BY <1>1, BriefInitInv, BriefStep, PTL DEF BriefSpec

-----------------------------------------------------------------------------
(***************************************************************************)
(* Nobody is told twice.  While nothing has failed, the one request at     *)
(* work is the one the worker waits for, so a message and its mark are not *)
(* doubled by another digest; a push and a digest need different verdicts  *)
(* of a match.  Failed attempts are paid for by what has failed: a reader  *)
(* whom an attempt of a morning job has still to reach counts as reached.  *)
(***************************************************************************)
CountsOK ==
    /\ verdict \in [Digested -> {"APPLY", "CONSIDER"}]
    /\ jobsRun \in [Kinds -> Nat]
    /\ briefs \in [Readers -> Nat]
    /\ trouble \in Nat

Live == {"next", "send", "mark"}

\* Without a failure the worker waits for whatever is being served.
WaitedFor ==
    trouble = 0 => \A h \in BriefHandlers : serving[h].pc \in Live => work.waits = h

\* Only a digest carries a batch, from its query to its mark.
BatchInHand ==
    \A h \in BriefHandlers :
        /\ serving[h].pc \in {"send", "mark"} => serving[h].kind = "consider-digest"
        /\ serving[h].batch # {} => serving[h].pc \in {"send", "mark"}

Untold(m) == m \notin notifiedAt /\ told[m] = 0

\* What a match has been through when nothing failed and nothing doubled it.
OneTelling(m) ==
    /\ told[m] <= 1
    /\ told[m] = 1 => \/ m \in notifiedAt
                      \/ \E h \in BriefHandlers : serving[h].pc = "mark" /\ m \in serving[h].batch
                      \/ \E p \in pushed : p.match = m
    /\ \A h \in BriefHandlers :
           m \in serving[h].batch => /\ verdict[m] = "CONSIDER"
                                     /\ serving[h].pc = "send" => Untold(m)
    /\ \A p \in pushing \cup pushed :
           p.match = m => /\ verdict[m] = "APPLY"
                          /\ p \in pushing => Untold(m) /\ p \notin pushed
    /\ \A p, q \in pushing \cup pushed : p.match = m /\ q.match = m => p = q

ToldByOne == trouble = 0 => \A m \in Digested : m \notin overtaken \cup doubled => OneTelling(m)

\* The requests that have still to send u a brief, and the attempt not yet made.
ToBrief(s, u) == {h \in BriefHandlers : s[h].kind = "scheduled" /\ s[h].pc = "next" /\ u \in s[h].todo}
ToAttempt(w) == IF w.job = "scheduled" /\ w.waits = NoHandler THEN 1 ELSE 0

BriefsPaidFor ==
    \A u \in Readers :
        /\ IsFiniteSet(ToBrief(serving, u))
        /\ briefs[u] + Cardinality(ToBrief(serving, u)) + ToAttempt(work)
              <= jobsRun["scheduled"] + trouble

OnceInv == BriefInv /\ CountsOK /\ WaitedFor /\ BatchInHand /\ ToldByOne /\ BriefsPaidFor

LEMMA OnceInitInv == BriefInit => OnceInv
<1> SUFFICES ASSUME BriefInit PROVE OnceInv
    OBVIOUS
<1>1. BriefInv
    BY BriefInitInv
<1>2. CountsOK /\ WaitedFor /\ BatchInHand
    BY DEF BriefInit, CountsOK, WaitedFor, BatchInHand, Kinds, Unused, Live
<1>3. ToldByOne
    BY DEF BriefInit, ToldByOne, OneTelling, Unused
<1>4. ASSUME NEW u \in Readers
      PROVE  /\ IsFiniteSet(ToBrief(serving, u))
             /\ briefs[u] + Cardinality(ToBrief(serving, u)) + ToAttempt(work)
                   <= jobsRun["scheduled"] + trouble
  <2>1. ToBrief(serving, u) = {}
      BY DEF BriefInit, ToBrief, Unused
  <2>2. IsFiniteSet(ToBrief(serving, u)) /\ Cardinality(ToBrief(serving, u)) = 0
      BY <2>1, FS_EmptySet
  <2>3. ToAttempt(work) = 0 /\ briefs[u] = 0 /\ jobsRun["scheduled"] = 0 /\ trouble = 0
      BY DEF BriefInit, ToAttempt, AtRest, Kinds
  <2> QED
      BY <2>2, <2>3
<1>5. BriefsPaidFor
    BY <1>4 DEF BriefsPaidFor
<1> QED
    BY <1>1, <1>2, <1>3, <1>5 DEF OnceInv

\* What a step does to a request, and to the number of failures.
LEMMA CountsKeep == ASSUME BriefInv, CountsOK, BriefNext PROVE CountsOK' /\ trouble' >= trouble
<1> USE DEF CountsOK
<1>1. CASE LoseAnswer \/ CrashApi
    BY <1>1 DEF LoseAnswer, CrashApi, Hurt
<1>2. CASE Change
    BY <1>2 DEF Change
<1>3. ASSUME NEW k \in Kinds, TakeJob(k)
      PROVE  CountsOK' /\ trouble' >= trouble
    BY <1>3 DEF TakeJob
<1>4. ASSUME NEW h \in BriefHandlers,
             Trigger(h) \/ ReadDigest(h) \/ SendDigest(h) \/ MarkDigest(h) \/ Respond(h)
      PROVE  CountsOK' /\ trouble' >= trouble
  <2>1. UNCHANGED <<verdict, briefs, jobsRun, trouble>>
    <3>1. Trigger(h) => UNCHANGED <<verdict, briefs, jobsRun, trouble>>
        BY DEF Trigger
    <3>2. ReadDigest(h) => UNCHANGED <<verdict, briefs, jobsRun, trouble>>
        BY DEF ReadDigest
    <3>3. SendDigest(h) \/ MarkDigest(h) \/ Respond(h) => UNCHANGED <<verdict, briefs, jobsRun, trouble>>
        BY DEF SendDigest, MarkDigest, Respond
    <3> QED
        BY <1>4, <3>1, <3>2, <3>3
  <2> QED
      BY <2>1
<1>5. ASSUME NEW h \in BriefHandlers, SendFails(h)
      PROVE  CountsOK' /\ trouble' >= trouble
    BY <1>5 DEF SendFails, Hurt
<1>6. ASSUME NEW h \in BriefHandlers, SendBrief(h)
      PROVE  CountsOK' /\ trouble' >= trouble
  <2>1. PICK u \in Readers :
           \/ briefs' = [briefs EXCEPT ![u] = @ + IF configured THEN 1 ELSE 0] /\ UNCHANGED trouble
           \/ Hurt /\ UNCHANGED briefs
      BY <1>6 DEF SendBrief, BriefInv, BriefTypeOK, Handlings
  <2> QED
      BY <2>1, <1>6 DEF SendBrief, Hurt
<1>7. ASSUME NEW e \in Evaluators, NEW m \in Digested, DecidePush(e, m)
      PROVE  CountsOK' /\ trouble' >= trouble
    BY <1>7 DEF DecidePush
<1>8. ASSUME NEW p, SendPush(p) \/ MarkPush(p)
      PROVE  CountsOK' /\ trouble' >= trouble
    BY <1>8 DEF SendPush, MarkPush
<1> QED
    BY <1>1, <1>2, <1>3, <1>4, <1>5, <1>6, <1>7, <1>8 DEF BriefNext

-----------------------------------------------------------------------------
\* The requests: who is waited for, and what they have in hand.

\* A query leaves its request where it is or with a digest to send.
LEMMA DigestRead ==
    ASSUME BriefInv, NEW h \in BriefHandlers, ReadDigest(h)
    PROVE  \E u \in Readers :
              /\ \/ /\ DigestBatch(u) = {}
                    /\ serving'[h].pc = "next" /\ serving'[h].batch = serving[h].batch
                 \/ /\ DigestBatch(u) # {}
                    /\ serving'[h].pc = "send" /\ serving'[h].batch = DigestBatch(u)
              /\ serving'[h].kind = "consider-digest"
              /\ \A g \in BriefHandlers \ {h} : serving'[g] = serving[g]
<1> DEFINE s == serving[h]
<1>1. PICK u \in s.todo :
         LET batch == DigestBatch(u)
             rest == [s EXCEPT !.todo = @ \ {u}]
         IN serving' = [serving EXCEPT ![h] =
              IF batch = {} THEN rest
              ELSE [rest EXCEPT !.pc = "send", !.user = u, !.batch = batch]]
    BY DEF ReadDigest
<1>2. s \in Handlings /\ s.pc = "next" /\ s.kind = "consider-digest" /\ u \in Readers
    BY DEF ReadDigest, BriefInv, BriefTypeOK, Handlings
<1>3. CASE DigestBatch(u) = {}
    BY <1>1, <1>2, <1>3 DEF BriefInv, BriefTypeOK, Handlings
<1>4. CASE DigestBatch(u) # {}
    BY <1>1, <1>2, <1>4 DEF BriefInv, BriefTypeOK, Handlings
<1> QED
    BY <1>3, <1>4

LEMMA RequestsKeep ==
    ASSUME BriefInv, CountsOK, WaitedFor, BatchInHand, BriefNext
    PROVE  WaitedFor' /\ BatchInHand'
<1> USE DEF WaitedFor, BatchInHand, Live
<1>t. trouble \in Nat /\ trouble' \in Nat /\ trouble' >= trouble
    BY CountsKeep DEF CountsOK
<1>u. /\ work \in [job : Kinds \cup {"none"}, attempt : Nat, waits : BriefHandlers \cup {NoHandler}]
      /\ serving \in [BriefHandlers -> Handlings]
    BY DEF BriefInv, BriefTypeOK
<1>1. CASE LoseAnswer
    BY <1>1, <1>t DEF LoseAnswer, Hurt
<1>2. CASE CrashApi
  <2>1. \A g \in BriefHandlers : serving'[g].pc \in {"unused", "over"} /\ serving'[g].batch = {}
      BY <1>2 DEF CrashApi, Unused
  <2> QED
      BY <2>1, <1>2, <1>t DEF CrashApi, Hurt
<1>3. CASE Change
    BY <1>3 DEF Change
<1>4. ASSUME NEW k \in Kinds, TakeJob(k)
      PROVE  WaitedFor' /\ BatchInHand'
    BY <1>4, HandlerAssumption DEF TakeJob, AtRest
<1>5. ASSUME NEW h \in BriefHandlers, Trigger(h)
      PROVE  WaitedFor' /\ BatchInHand'
  <2>1. /\ serving'[h].pc = "next" /\ serving'[h].batch = {}
        /\ \A g \in BriefHandlers \ {h} : serving'[g] = serving[g]
        /\ work'.waits = h
      BY <1>5, <1>u DEF Trigger
  <2> QED
      BY <2>1, <1>5, HandlerAssumption DEF Trigger
<1>6. ASSUME NEW h \in BriefHandlers, ReadDigest(h)
      PROVE  WaitedFor' /\ BatchInHand'
  <2>1. work' = work /\ trouble' = trouble /\ serving[h].pc = "next"
      BY <1>6 DEF ReadDigest
  <2> QED
      BY <2>1, <1>6, DigestRead
<1>7. ASSUME NEW h \in BriefHandlers, SendDigest(h) \/ MarkDigest(h)
      PROVE  WaitedFor' /\ BatchInHand'
  <2>1. /\ work' = work /\ trouble' = trouble /\ serving[h].pc \in {"send", "mark"}
        /\ serving'[h].kind = serving[h].kind
        /\ \/ serving'[h].pc = "mark" /\ serving'[h].batch = serving[h].batch
           \/ serving'[h].pc = "next" /\ serving'[h].batch = {}
        /\ \A g \in BriefHandlers \ {h} : serving'[g] = serving[g]
    <3>1. CASE SendDigest(h)
        BY <3>1, <1>u DEF SendDigest, Handlings
    <3>2. CASE MarkDigest(h)
        BY <3>2, <1>u DEF MarkDigest, Handlings
    <3> QED
        BY <1>7, <3>1, <3>2
  <2> QED
      BY <2>1
<1>8. ASSUME NEW h \in BriefHandlers, SendFails(h) \/ Respond(h)
      PROVE  WaitedFor' /\ BatchInHand'
  <2>1. /\ serving'[h].pc = "over" /\ serving'[h].batch = {}
        /\ \A g \in BriefHandlers \ {h} : serving'[g] = serving[g]
        /\ work.waits # h => work' = work
      BY <1>8, <1>u DEF SendFails, Respond, Finish, Replied, Over, Unused
  <2> QED
      BY <2>1, <1>t
<1>9. ASSUME NEW h \in BriefHandlers, SendBrief(h)
      PROVE  WaitedFor' /\ BatchInHand'
  <2>1. PICK u : serving' = [serving EXCEPT ![h].todo = @ \ {u}]
      BY <1>9 DEF SendBrief
  <2>2. /\ serving'[h].pc = serving[h].pc /\ serving'[h].batch = serving[h].batch
        /\ serving'[h].kind = serving[h].kind
        /\ \A g \in BriefHandlers \ {h} : serving'[g] = serving[g]
      BY <2>1, <1>u DEF Handlings
  <2>3. work' = work
      BY <1>9 DEF SendBrief
  <2> QED
      BY <2>2, <2>3, <1>t
<1>10. ASSUME NEW e \in Evaluators, NEW m \in Digested, DecidePush(e, m)
       PROVE  WaitedFor' /\ BatchInHand'
    BY <1>10 DEF DecidePush
<1>11. ASSUME NEW p, SendPush(p) \/ MarkPush(p)
       PROVE  WaitedFor' /\ BatchInHand'
    BY <1>11 DEF SendPush, MarkPush
<1> QED
    BY <1>1, <1>2, <1>3, <1>4, <1>5, <1>6, <1>7, <1>8, <1>9, <1>10, <1>11 DEF BriefNext

-----------------------------------------------------------------------------
\* Without a failure the requests other than the one the worker waits for are idle
\* and empty-handed.
LEMMA OthersIdle ==
    ASSUME OnceInv, trouble = 0, NEW h \in BriefHandlers, serving[h].pc \in Live,
           NEW g \in BriefHandlers, g # h
    PROVE  serving[g].pc \notin Live /\ serving[g].batch = {}
BY DEF OnceInv, WaitedFor, BatchInHand, Live

\* A step that tells, marks, decides and hands out nothing keeps OneTelling.
LEMMA TellingKept ==
    ASSUME NEW m \in Digested, OneTelling(m), UNCHANGED <<notifiedAt, told, pushing, pushed>>,
           verdict'[m] = verdict[m],
           \A g \in BriefHandlers : serving'[g].batch # {} =>
              serving'[g].batch = serving[g].batch /\ serving'[g].pc = serving[g].pc,
           \A g \in BriefHandlers : serving[g].pc = "mark" => serving'[g] = serving[g]
    PROVE  OneTelling(m)'
BY DEF OneTelling, Untold

LEMMA WorkerTells ==
    ASSUME OnceInv, trouble' = 0
    PROVE  /\ \A k \in Kinds : TakeJob(k) => ToldByOne'
           /\ \A h \in BriefHandlers : Trigger(h) \/ SendBrief(h) \/ Respond(h) => ToldByOne'
<1>t. trouble \in Nat /\ (trouble = 0 => \A m \in Digested : m \notin overtaken \cup doubled => OneTelling(m))
    BY DEF OnceInv, CountsOK, ToldByOne
<1>u. serving \in [BriefHandlers -> Handlings] /\ BatchInHand
    BY DEF OnceInv, BriefInv, BriefTypeOK
<1>1. ASSUME NEW k \in Kinds, TakeJob(k)
      PROVE  ToldByOne'
  <2>1. UNCHANGED <<notifiedAt, told, pushVars, verdict, serving, trouble, overtaken>>
      BY <1>1 DEF TakeJob
  <2> QED
      BY <2>1, <1>t, TellingKept DEF ToldByOne
<1>2. ASSUME NEW h \in BriefHandlers, Trigger(h)
      PROVE  ToldByOne'
  <2>1. UNCHANGED <<notifiedAt, told, pushVars, verdict, trouble, overtaken>>
      BY <1>2 DEF Trigger
  <2>2. /\ serving'[h].batch = {} /\ serving[h].pc = "unused"
        /\ \A g \in BriefHandlers \ {h} : serving'[g] = serving[g]
      BY <1>2, <1>u DEF Trigger, Unused
  <2> QED
      BY <2>1, <2>2, <1>t, TellingKept DEF ToldByOne
<1>3. ASSUME NEW h \in BriefHandlers, Respond(h)
      PROVE  ToldByOne'
  <2>1. UNCHANGED <<notifiedAt, told, pushVars, verdict, trouble, overtaken>>
      BY <1>3 DEF Respond
  <2>2. /\ serving'[h].batch = {} /\ serving[h].pc = "next"
        /\ \A g \in BriefHandlers \ {h} : serving'[g] = serving[g]
      BY <1>3, <1>u DEF Respond, Finish, Over, Unused
  <2> QED
      BY <2>1, <2>2, <1>t, TellingKept DEF ToldByOne
<1>4. ASSUME NEW h \in BriefHandlers, SendBrief(h)
      PROVE  ToldByOne'
  <2>1. UNCHANGED <<notifiedAt, told, pushVars, verdict, overtaken>> /\ serving[h].pc = "next"
      BY <1>4 DEF SendBrief
  <2>2. trouble = 0
      BY <1>4, <1>t DEF SendBrief, Hurt
  <2>3. PICK u : serving' = [serving EXCEPT ![h].todo = @ \ {u}]
      BY <1>4 DEF SendBrief
  <2>4. /\ serving'[h].batch = serving[h].batch /\ serving'[h].pc = serving[h].pc
        /\ \A g \in BriefHandlers \ {h} : serving'[g] = serving[g]
      BY <2>3, <1>u DEF Handlings
  <2> QED
      BY <2>1, <2>2, <2>4, <1>t, TellingKept DEF ToldByOne
<1> QED
    BY <1>1, <1>2, <1>3, <1>4

LEMMA DigestTells ==
    ASSUME OnceInv, trouble' = 0, NEW h \in BriefHandlers,
           ReadDigest(h) \/ SendDigest(h) \/ MarkDigest(h)
    PROVE  ToldByOne'
<1>t. /\ trouble = 0
      /\ \A m \in Digested : m \notin overtaken \cup doubled => OneTelling(m)
      /\ UNCHANGED <<pushVars, verdict, trouble, overtaken>>
    BY DEF OnceInv, CountsOK, ToldByOne, ReadDigest, SendDigest, MarkDigest
<1>u. /\ serving \in [BriefHandlers -> Handlings]
      /\ verdict \in [Digested -> {"APPLY", "CONSIDER"}]
      /\ told \in [Digested -> Nat]
    BY DEF OnceInv, BriefInv, BriefTypeOK, CountsOK
<1>l. serving[h].pc \in Live
    BY DEF ReadDigest, SendDigest, MarkDigest, Live
<1>o. \A g \in BriefHandlers \ {h} : serving[g].pc \notin Live /\ serving[g].batch = {}
    BY <1>t, <1>l, OthersIdle
<1> SUFFICES ASSUME NEW m \in Digested, m \notin overtaken \cup doubled
             PROVE  OneTelling(m)'
    BY <1>t DEF ToldByOne
<1>m. OneTelling(m) /\ told[m] \in Nat
    BY <1>t, <1>u
<1>1. CASE ReadDigest(h)
  <2>1. UNCHANGED <<notifiedAt, told>> /\ serving[h].pc = "next"
      BY <1>1 DEF ReadDigest
  <2>2. serving[h].batch = {}
      BY <2>1 DEF OnceInv, BatchInHand
  <2>3. PICK u \in Readers :
           /\ \/ serving'[h].pc = "next" /\ serving'[h].batch = serving[h].batch
              \/ serving'[h].pc = "send" /\ serving'[h].batch = DigestBatch(u)
           /\ \A g \in BriefHandlers \ {h} : serving'[g] = serving[g]
      BY <1>1, DigestRead DEF OnceInv
  <2>4. m \in DigestBatch(u) => verdict[m] = "CONSIDER" /\ m \notin notifiedAt
      BY DEF DigestBatch, DigestQuery
  <2>5. told[m] = 1 => m \in notifiedAt \/ \E p \in pushed : p.match = m
      BY <1>m, <1>o, <2>1 DEF OneTelling, Live
  <2>6. m \in DigestBatch(u) => verdict[m] = "CONSIDER" /\ Untold(m)
      BY <2>4, <2>5, <1>m DEF OneTelling, Untold
  <2> QED
      BY <2>1, <2>2, <2>3, <2>5, <2>6, <1>m, <1>o, <1>t DEF OneTelling, Untold
<1>2. CASE SendDigest(h)
  <2>1. /\ serving[h].pc = "send" /\ serving'[h].pc = "mark" /\ serving'[h].batch = serving[h].batch
        /\ \A g \in BriefHandlers \ {h} : serving'[g] = serving[g]
        /\ notifiedAt' = notifiedAt
      BY <1>2, <1>u DEF SendDigest, Handlings
  <2>2. told'[m] = told[m] \/ (m \in serving[h].batch /\ told'[m] = told[m] + 1)
      BY <1>2, <1>m DEF SendDigest, NameThem
  <2>3. m \in serving[h].batch => verdict[m] = "CONSIDER" /\ Untold(m)
                                     /\ \A p \in pushing \cup pushed : p.match # m
      BY <2>1, <1>m DEF OneTelling
  <2>4. CASE m \in serving[h].batch
      BY <2>1, <2>2, <2>3, <2>4, <1>m, <1>o, <1>t DEF OneTelling, Untold
  <2>5. CASE m \notin serving[h].batch
      BY <2>1, <2>2, <2>5, <1>m, <1>o, <1>t DEF OneTelling, Untold, Live
  <2> QED
      BY <2>4, <2>5
<1>3. CASE MarkDigest(h)
  <2>1. /\ serving[h].pc = "mark" /\ serving'[h].pc = "next" /\ serving'[h].batch = {}
        /\ \A g \in BriefHandlers \ {h} : serving'[g] = serving[g]
        /\ notifiedAt' = notifiedAt \union serving[h].batch
        /\ told' = told
      BY <1>3, <1>u DEF MarkDigest, MarkedNow, Handlings
  <2>2. m \in serving[h].batch => \A p \in pushing \cup pushed : p.match # m
      BY <1>m DEF OneTelling
  <2> QED
      BY <2>1, <2>2, <1>m, <1>o, <1>t DEF OneTelling, Untold, Live
<1> QED
    BY <1>1, <1>2, <1>3

LEMMA MeanwhileTells ==
    ASSUME OnceInv, trouble' = 0
    PROVE  /\ Change => ToldByOne'
           /\ \A e \in Evaluators, n \in Digested : DecidePush(e, n) => ToldByOne'
           /\ \A p \in pushing \cup pushed : SendPush(p) \/ MarkPush(p) => ToldByOne'
<1>u. /\ verdict \in [Digested -> {"APPLY", "CONSIDER"}]
      /\ told \in [Digested -> Nat]
      /\ pushing \subseteq Pushes /\ pushed \subseteq Pushes
    BY DEF OnceInv, BriefInv, BriefTypeOK, CountsOK
<1>t. trouble' = trouble => \A m \in Digested : m \notin overtaken \cup doubled => OneTelling(m)
    BY DEF OnceInv, ToldByOne
<1>1. CASE Change
  <2> SUFFICES ASSUME NEW m \in Digested, m \notin overtaken' \cup doubled'
               PROVE  OneTelling(m)'
      BY DEF ToldByOne
  <2>1. UNCHANGED <<notifiedAt, told, pushVars, serving, trouble>>
      BY <1>1 DEF Change
  <2>2. m \notin overtaken \cup doubled /\ (InAMessage(m) => verdict'[m] = verdict[m])
      BY <1>1, <1>u DEF Change
  <2>3. OneTelling(m)
      BY <2>1, <2>2, <1>t
  <2>4. CASE InAMessage(m)
      BY <2>1, <2>2, <2>3, <2>4, TellingKept
  <2>5. CASE ~InAMessage(m)
      BY <2>1, <2>3, <2>5 DEF OneTelling, Untold, InAMessage
  <2> QED
      BY <2>4, <2>5
<1>2. ASSUME NEW e \in Evaluators, NEW n \in Digested, DecidePush(e, n)
      PROVE  ToldByOne'
  <2> DEFINE new == [by |-> e, match |-> n]
  <2>1. /\ UNCHANGED <<notifiedAt, told, verdict, serving, trouble, overtaken, pushed>>
        /\ pushing' = pushing \cup {new}
        /\ \A p \in pushing \cup pushed : p.by # e
        /\ doubled \subseteq doubled' /\ (InAMessage(n) => n \in doubled')
        /\ verdict[n] = "APPLY" /\ n \notin notifiedAt
      BY <1>2 DEF DecidePush
  <2> SUFFICES ASSUME NEW m \in Digested, m \notin overtaken \cup doubled'
               PROVE  OneTelling(m)'
      BY <2>1 DEF ToldByOne
  <2>2. OneTelling(m) /\ told[m] \in Nat
      BY <2>1, <1>t, <1>u
  <2>3. new \notin pushing \cup pushed /\ new.match = n
      BY <2>1
  <2> HIDE DEF new
  <2>4. CASE m = n
    <3>1. ~InAMessage(m)
        BY <2>1, <2>4
    <3>2. /\ \A p \in pushing \cup pushed : p.match # m
          /\ \A h \in BriefHandlers : m \notin serving[h].batch
        BY <3>1 DEF InAMessage
    <3>3. Untold(m)
        BY <2>1, <2>2, <2>4, <3>2 DEF OneTelling, Untold
    <3> QED
        BY <2>1, <2>2, <2>3, <2>4, <3>2, <3>3 DEF OneTelling, Untold
  <2>5. CASE m # n
      BY <2>1, <2>2, <2>3, <2>5 DEF OneTelling, Untold
  <2> QED
      BY <2>4, <2>5
<1>3. ASSUME NEW p \in pushing \cup pushed, SendPush(p)
      PROVE  ToldByOne'
  <2>1. /\ UNCHANGED <<verdict, notifiedAt, serving, trouble, overtaken, doubled>>
        /\ p \in pushing /\ pushing' = pushing \ {p} /\ pushed' = pushed \cup {p}
      BY <1>3 DEF SendPush
  <2> SUFFICES ASSUME NEW m \in Digested, m \notin overtaken \cup doubled
               PROVE  OneTelling(m)'
      BY <2>1 DEF ToldByOne
  <2>2. OneTelling(m) /\ told[m] \in Nat
      BY <2>1, <1>t, <1>u
  <2>3. told'[m] = told[m] \/ (m = p.match /\ told'[m] = told[m] + 1)
      BY <1>3, <2>2 DEF SendPush, NameThem
  <2>4. CASE m = p.match
    <3>1. verdict[m] = "APPLY" /\ Untold(m)
        BY <2>1, <2>2, <2>4 DEF OneTelling
    <3>2. \A h \in BriefHandlers : m \notin serving[h].batch
        BY <3>1, <2>2 DEF OneTelling
    <3>3. \A q \in pushing' \cup pushed' : q.match = m => q = p
        BY <2>1, <2>2, <2>4 DEF OneTelling
    <3> QED
        BY <2>1, <2>3, <2>4, <3>1, <3>2, <3>3 DEF OneTelling, Untold
  <2>5. CASE m # p.match
      BY <2>1, <2>2, <2>3, <2>5 DEF OneTelling, Untold
  <2> QED
      BY <2>4, <2>5
<1>4. ASSUME NEW p \in pushing \cup pushed, MarkPush(p)
      PROVE  ToldByOne'
  <2>1. /\ UNCHANGED <<verdict, told, serving, pushing, trouble, overtaken, doubled>>
        /\ p \in pushed /\ pushed' = pushed \ {p} /\ notifiedAt' = notifiedAt \cup {p.match}
      BY <1>4 DEF MarkPush
  <2> SUFFICES ASSUME NEW m \in Digested, m \notin overtaken \cup doubled
               PROVE  OneTelling(m)'
      BY <2>1 DEF ToldByOne
  <2>2. OneTelling(m)
      BY <2>1, <1>t
  <2>3. CASE m = p.match
    <3>1. \A q \in pushing' \cup pushed' : q.match # m
        BY <2>1, <2>2, <2>3 DEF OneTelling
    <3>2. verdict[m] = "APPLY"
        BY <2>1, <2>2, <2>3 DEF OneTelling
    <3> QED
        BY <2>1, <2>2, <2>3, <3>1, <3>2 DEF OneTelling, Untold
  <2>4. CASE m # p.match
      BY <2>1, <2>2, <2>4 DEF OneTelling, Untold
  <2> QED
      BY <2>3, <2>4
<1> QED
    BY <1>1, <1>2, <1>3, <1>4

LEMMA NextTells == ASSUME OnceInv, BriefNext PROVE ToldByOne'
<1> SUFFICES ASSUME trouble' = 0 PROVE ToldByOne'
    BY DEF ToldByOne
<1>h. ~Hurt
    BY DEF Hurt, OnceInv, CountsOK
<1>1. ~LoseAnswer /\ ~CrashApi /\ \A h \in BriefHandlers : ~SendFails(h)
    BY <1>h, Zenon DEF LoseAnswer, CrashApi, SendFails
<1> QED
    BY <1>1, WorkerTells, DigestTells, MeanwhileTells DEF BriefNext

-----------------------------------------------------------------------------
\* The briefs: what is still to be sent is accounted for.
Paid(u) ==
    /\ IsFiniteSet(ToBrief(serving, u))
    /\ briefs[u] + Cardinality(ToBrief(serving, u)) + ToAttempt(work)
          <= jobsRun["scheduled"] + trouble

\* A worker at rest, or one that waits, has no attempt to make; nobody else gives
\* it one but a failure.
LEMMA ToAttemptProp ==
    /\ \A w : ToAttempt(w) \in 0..1
    /\ ToAttempt(AtRest) = 0
    /\ \A w : w.waits # NoHandler => ToAttempt(w) = 0
BY DEF ToAttempt, AtRest

\* Enough that no more has to be sent than before.
LEMMA PaidKept ==
    ASSUME OnceInv, CountsOK', NEW u \in Readers, Paid(u),
           ToBrief(serving', u) = ToBrief(serving, u),
           briefs' = briefs, jobsRun' = jobsRun,
           \/ trouble' >= trouble /\ ToAttempt(work') <= ToAttempt(work)
           \/ trouble' = trouble + 1
    PROVE  Paid(u)'
<1>1. /\ briefs[u] \in Nat /\ jobsRun["scheduled"] \in Nat /\ trouble \in Nat /\ trouble' \in Nat
    BY DEF OnceInv, CountsOK, Kinds
<1>2. Cardinality(ToBrief(serving, u)) \in Nat
    BY FS_CardinalityType DEF Paid
<1>3. ToAttempt(work) \in 0..1 /\ ToAttempt(work') \in 0..1
    BY ToAttemptProp
<1> QED
    BY <1>1, <1>2, <1>3 DEF Paid

LEMMA WorkerPays ==
    ASSUME OnceInv, CountsOK', NEW u \in Readers, Paid(u)
    PROVE  /\ LoseAnswer \/ CrashApi \/ Change => Paid(u)'
           /\ \A k \in Kinds : TakeJob(k) => Paid(u)'
           /\ \A h \in BriefHandlers : Trigger(h) => Paid(u)'
<1>t. /\ briefs[u] \in Nat /\ jobsRun["scheduled"] \in Nat /\ trouble \in Nat
      /\ jobsRun \in [Kinds -> Nat]
    BY DEF OnceInv, CountsOK, Kinds
<1>c. IsFiniteSet(ToBrief(serving, u)) /\ Cardinality(ToBrief(serving, u)) \in Nat
    BY FS_CardinalityType DEF Paid
<1>u. /\ work \in [job : Kinds \cup {"none"}, attempt : Nat, waits : BriefHandlers \cup {NoHandler}]
      /\ serving \in [BriefHandlers -> Handlings]
    BY DEF OnceInv, BriefInv, BriefTypeOK
<1>1. CASE LoseAnswer
    BY <1>1, PaidKept DEF LoseAnswer, Hurt
<1>2. CASE CrashApi
  <2>1. ToBrief(serving', u) = {}
      BY <1>2 DEF CrashApi, ToBrief, Unused
  <2>2. IsFiniteSet(ToBrief(serving', u)) /\ Cardinality(ToBrief(serving', u)) = 0
      BY <2>1, FS_EmptySet
  <2>3. trouble' = trouble + 1 /\ briefs' = briefs /\ jobsRun' = jobsRun
      BY <1>2 DEF CrashApi, Hurt
  <2>4. ToAttempt(work') \in 0..1 /\ ToAttempt(work) \in 0..1
      BY ToAttemptProp
  <2> QED
      BY <2>2, <2>3, <2>4, <1>t, <1>c DEF Paid
<1>3. CASE Change
    BY <1>3, <1>t, PaidKept, ToAttemptProp DEF Change
<1>4. ASSUME NEW k \in Kinds, TakeJob(k)
      PROVE  Paid(u)'
  <2>1. /\ serving' = serving /\ briefs' = briefs /\ trouble' = trouble
        /\ ToAttempt(work) = 0
        /\ work' = [job |-> k, attempt |-> 0, waits |-> NoHandler]
        /\ jobsRun' = [jobsRun EXCEPT ![k] = @ + 1]
      BY <1>4, ToAttemptProp DEF TakeJob
  <2>2. CASE k = "scheduled"
    <3>1. jobsRun'["scheduled"] = jobsRun["scheduled"] + 1 /\ ToAttempt(work') \in 0..1
        BY <2>1, <2>2, <1>t, ToAttemptProp
    <3> QED
        BY <2>1, <3>1, <1>t, <1>c DEF Paid
  <2>3. CASE k # "scheduled"
    <3>1. jobsRun'["scheduled"] = jobsRun["scheduled"] /\ ToAttempt(work') = 0
        BY <2>1, <2>3, <1>t DEF ToAttempt, Kinds
    <3> QED
        BY <2>1, <3>1, <1>t, <1>c DEF Paid
  <2> QED
      BY <2>2, <2>3
<1>5. ASSUME NEW h \in BriefHandlers, Trigger(h)
      PROVE  Paid(u)'
  <2>1. UNCHANGED <<briefs, jobsRun, trouble>>
      BY <1>5 DEF Trigger
  <2>2. /\ serving'[h].kind = work.job /\ serving[h].pc = "unused"
        /\ \A g \in BriefHandlers \ {h} : serving'[g] = serving[g]
        /\ work.waits = NoHandler /\ work'.waits = h
      BY <1>5, <1>u DEF Trigger, Unused
  <2>3. ToAttempt(work') = 0
      BY <2>2, HandlerAssumption, ToAttemptProp
  <2>4. CASE work.job = "scheduled"
    <3>1. ToAttempt(work) = 1
        BY <2>2, <2>4 DEF ToAttempt
    <3>2. h \notin ToBrief(serving, u)
        BY <2>2 DEF ToBrief
    <3>3. ToBrief(serving', u) \subseteq ToBrief(serving, u) \cup {h}
        BY <2>2 DEF ToBrief
    <3>4. /\ IsFiniteSet(ToBrief(serving, u) \cup {h})
          /\ Cardinality(ToBrief(serving, u) \cup {h}) = Cardinality(ToBrief(serving, u)) + 1
        BY <3>2, <1>c, FS_AddElement
    <3>5. /\ IsFiniteSet(ToBrief(serving', u))
          /\ Cardinality(ToBrief(serving', u)) <= Cardinality(ToBrief(serving, u)) + 1
        BY <3>3, <3>4, FS_Subset
    <3>6. Cardinality(ToBrief(serving', u)) \in Nat
        BY <3>5, FS_CardinalityType
    <3> QED
        BY <2>1, <2>3, <3>1, <3>5, <3>6, <1>t, <1>c DEF Paid
  <2>5. CASE work.job # "scheduled"
    <3>1. ToBrief(serving', u) = ToBrief(serving, u)
        BY <2>2, <2>5 DEF ToBrief
    <3> QED
        BY <2>1, <2>3, <3>1, <1>t, PaidKept, ToAttemptProp
  <2> QED
      BY <2>4, <2>5
<1> QED
    BY <1>1, <1>2, <1>3, <1>4, <1>5

LEMMA HandlersPay ==
    ASSUME OnceInv, CountsOK', NEW u \in Readers, Paid(u), NEW h \in BriefHandlers
    PROVE  /\ ReadDigest(h) \/ SendDigest(h) \/ SendFails(h) => Paid(u)'
           /\ MarkDigest(h) \/ SendBrief(h) \/ Respond(h) => Paid(u)'
<1>t. /\ briefs \in [Readers -> Nat] /\ jobsRun["scheduled"] \in Nat /\ trouble \in Nat
    BY DEF OnceInv, CountsOK, Kinds
<1>c. IsFiniteSet(ToBrief(serving, u)) /\ Cardinality(ToBrief(serving, u)) \in Nat
    BY FS_CardinalityType DEF Paid
<1>u. /\ work \in [job : Kinds \cup {"none"}, attempt : Nat, waits : BriefHandlers \cup {NoHandler}]
      /\ serving \in [BriefHandlers -> Handlings]
      /\ serving[h].pc \in {"send", "mark"} => serving[h].kind = "consider-digest"
    BY DEF OnceInv, BriefInv, BriefTypeOK, BatchInHand
\* A step of a request that is and was no sender of briefs to u.
<1>s. ASSUME h \notin ToBrief(serving, u), h \notin ToBrief(serving', u),
             \A g \in BriefHandlers \ {h} : serving'[g] = serving[g]
      PROVE  ToBrief(serving', u) = ToBrief(serving, u)
    BY <1>s DEF ToBrief
<1>1. CASE ReadDigest(h)
  <2>1. UNCHANGED <<work, briefs, jobsRun, trouble>> /\ serving[h].kind = "consider-digest"
      BY <1>1 DEF ReadDigest
  <2>2. serving'[h].kind = "consider-digest" /\ \A g \in BriefHandlers \ {h} : serving'[g] = serving[g]
      BY <1>1, DigestRead DEF OnceInv
  <2>3. ToBrief(serving', u) = ToBrief(serving, u)
      BY <2>1, <2>2, <1>s DEF ToBrief
  <2> QED
      BY <2>1, <2>3, <1>t, PaidKept, ToAttemptProp
<1>2. CASE SendDigest(h)
  <2>1. UNCHANGED <<work, briefs, jobsRun, trouble>> /\ serving[h].pc = "send"
      BY <1>2 DEF SendDigest
  <2>2. serving'[h].pc = "mark" /\ \A g \in BriefHandlers \ {h} : serving'[g] = serving[g]
      BY <1>2, <1>u DEF SendDigest, Handlings
  <2>3. ToBrief(serving', u) = ToBrief(serving, u)
      BY <2>1, <2>2, <1>s DEF ToBrief
  <2> QED
      BY <2>1, <2>3, <1>t, PaidKept, ToAttemptProp
<1>3. CASE SendFails(h)
  <2>1. UNCHANGED <<briefs, jobsRun>> /\ trouble' = trouble + 1 /\ serving[h].pc = "send"
      BY <1>3 DEF SendFails, Hurt
  <2>2. serving'[h].pc = "over" /\ \A g \in BriefHandlers \ {h} : serving'[g] = serving[g]
      BY <1>3, <1>u DEF SendFails, Finish, Over, Unused
  <2>3. ToBrief(serving', u) = ToBrief(serving, u)
      BY <2>1, <2>2, <1>s DEF ToBrief
  <2> QED
      BY <2>1, <2>3, PaidKept
<1>4. CASE MarkDigest(h)
  <2>1. UNCHANGED <<work, briefs, jobsRun, trouble>> /\ serving[h].pc = "mark"
      BY <1>4 DEF MarkDigest
  <2>2. /\ serving'[h].kind = serving[h].kind
        /\ \A g \in BriefHandlers \ {h} : serving'[g] = serving[g]
      BY <1>4, <1>u DEF MarkDigest, Handlings
  <2>3. ToBrief(serving', u) = ToBrief(serving, u)
      BY <2>1, <2>2, <1>s, <1>u DEF ToBrief
  <2> QED
      BY <2>1, <2>3, <1>t, PaidKept, ToAttemptProp
<1>5. CASE Respond(h)
  <2>1. UNCHANGED <<briefs, jobsRun, trouble>> /\ serving[h].todo = {}
      BY <1>5 DEF Respond
  <2>2. serving'[h].pc = "over" /\ \A g \in BriefHandlers \ {h} : serving'[g] = serving[g]
      BY <1>5, <1>u DEF Respond, Finish, Over, Unused
  <2>3. ToBrief(serving', u) = ToBrief(serving, u)
      BY <2>1, <2>2, <1>s DEF ToBrief
  <2>4. work' = work \/ work' = AtRest
      BY <1>5 DEF Respond, Finish, Replied
  <2>5. ToAttempt(work') <= ToAttempt(work)
      BY <2>4, ToAttemptProp
  <2> QED
      BY <2>1, <2>3, <2>5, <1>t, PaidKept
<1>6. CASE SendBrief(h)
  <2>1. UNCHANGED <<work, jobsRun>> /\ serving[h].kind = "scheduled" /\ serving[h].pc = "next"
      BY <1>6 DEF SendBrief
  <2>2. PICK r \in serving[h].todo :
           /\ serving' = [serving EXCEPT ![h].todo = @ \ {r}]
           /\ \/ briefs' = [briefs EXCEPT ![r] = @ + IF configured THEN 1 ELSE 0] /\ UNCHANGED trouble
              \/ Hurt /\ UNCHANGED briefs
      BY <1>6 DEF SendBrief
  <2>3. /\ serving'[h].todo = serving[h].todo \ {r}
        /\ serving'[h].kind = "scheduled" /\ serving'[h].pc = "next"
        /\ \A g \in BriefHandlers \ {h} : serving'[g] = serving[g]
      BY <2>1, <2>2, <1>u DEF Handlings
  <2>4. trouble' >= trouble /\ trouble' \in Nat
      BY <2>2, <1>t DEF Hurt
  <2>5. CASE r = u
    <3>1. h \in ToBrief(serving, u) /\ ToBrief(serving', u) = ToBrief(serving, u) \ {h}
        BY <2>1, <2>2, <2>3, <2>5 DEF ToBrief
    <3>2. /\ IsFiniteSet(ToBrief(serving', u))
          /\ Cardinality(ToBrief(serving', u)) = Cardinality(ToBrief(serving, u)) - 1
        BY <3>1, <1>c, FS_RemoveElement
    <3>3. briefs'[u] \in Nat /\ briefs'[u] <= briefs[u] + 1 /\ briefs[u] \in Nat
        BY <2>2, <2>5, <1>t
    <3>4. ToAttempt(work) \in 0..1
        BY ToAttemptProp
    <3> QED
        BY <2>1, <2>4, <3>2, <3>3, <3>4, <1>t, <1>c DEF Paid
  <2>6. CASE r # u
    <3>1. ToBrief(serving', u) = ToBrief(serving, u)
        BY <2>1, <2>3, <2>6 DEF ToBrief
    <3>2. briefs'[u] = briefs[u] /\ briefs[u] \in Nat
        BY <2>2, <2>6, <1>t
    <3>3. ToAttempt(work) \in 0..1
        BY ToAttemptProp
    <3> QED
        BY <2>1, <2>4, <3>1, <3>2, <3>3, <1>t, <1>c DEF Paid
  <2> QED
      BY <2>5, <2>6
<1> QED
    BY <1>1, <1>2, <1>3, <1>4, <1>5, <1>6

LEMMA NextPays == ASSUME OnceInv, BriefNext PROVE BriefsPaidFor'
<1>1. CountsOK'
    BY CountsKeep DEF OnceInv
<1> SUFFICES ASSUME NEW u \in Readers PROVE Paid(u)'
    BY DEF Paid, BriefsPaidFor
<1>2. Paid(u)
    BY DEF OnceInv, BriefsPaidFor, Paid
<1>3. ASSUME UNCHANGED <<work, serving, briefs, jobsRun, trouble>>
      PROVE  Paid(u)'
    BY <1>2, <1>3 DEF Paid
<1>4. ASSUME NEW e \in Evaluators, NEW m \in Digested, DecidePush(e, m)
      PROVE  Paid(u)'
    BY <1>3, <1>4 DEF DecidePush
<1>5. ASSUME NEW p, SendPush(p) \/ MarkPush(p)
      PROVE  Paid(u)'
    BY <1>3, <1>5 DEF SendPush, MarkPush
<1> QED
    BY <1>1, <1>2, <1>4, <1>5, WorkerPays, HandlersPay DEF BriefNext

LEMMA OnceStep == OnceInv /\ [BriefNext]_briefVars => OnceInv'
<1> SUFFICES ASSUME OnceInv, [BriefNext]_briefVars
             PROVE  OnceInv'
    OBVIOUS
<1>0. BriefInv'
    BY BriefStep DEF OnceInv
<1>1. CASE BriefNext
  <2>1. CountsOK' /\ WaitedFor' /\ BatchInHand'
      BY <1>1, CountsKeep, RequestsKeep DEF OnceInv
  <2> QED
      BY <1>0, <1>1, <2>1, NextTells, NextPays DEF OnceInv
<1>2. CASE UNCHANGED briefVars
  <2>1. CountsOK' /\ WaitedFor' /\ BatchInHand'
      BY <1>2 DEF briefVars, OnceInv, CountsOK, WaitedFor, BatchInHand
  <2>2. ToldByOne'
      BY <1>2 DEF briefVars, OnceInv, ToldByOne, OneTelling, Untold
  <2>3. BriefsPaidFor'
      BY <1>2 DEF briefVars, OnceInv, BriefsPaidFor
  <2> QED
      BY <1>0, <2>1, <2>2, <2>3 DEF OnceInv
<1> QED
    BY <1>1, <1>2

\* A match is named twice only after a failure, or a verdict that changed or another
\* evaluation that announced it while a message about it was made, and nobody gets more briefs than there were morning
\* jobs and failures: retries, lost answers and handlers that outlive their request
\* cost no more than that.
THEOREM ToldOnce == BriefSpec => []ToldOnceUnlessCrossed
<1>1. OnceInv => ToldOnceUnlessCrossed
  <2> SUFFICES ASSUME OnceInv PROVE ToldOnceUnlessCrossed
      OBVIOUS
  <2>t. trouble \in Nat /\ briefs \in [Readers -> Nat] /\ jobsRun["scheduled"] \in Nat
        /\ told \in [Digested -> Nat]
      BY DEF OnceInv, BriefInv, BriefTypeOK, CountsOK, Kinds
  <2>1. ASSUME NEW m \in Digested, told[m] > 1, m \notin overtaken \cup doubled
        PROVE  trouble > 0
      BY <2>1, <2>t DEF OnceInv, ToldByOne, OneTelling
  <2>2. ASSUME NEW u \in Readers
        PROVE  briefs[u] <= jobsRun["scheduled"] + trouble
    <3>1. Paid(u)
        BY DEF OnceInv, BriefsPaidFor, Paid
    <3>2. Cardinality(ToBrief(serving, u)) \in Nat
        BY <3>1, FS_CardinalityType DEF Paid
    <3>3. ToAttempt(work) \in 0..1
        BY ToAttemptProp
    <3> QED
        BY <3>1, <3>2, <3>3, <2>t DEF Paid
  <2> QED
      BY <2>1, <2>2 DEF ToldOnceUnlessCrossed
<1> QED
    BY <1>1, OnceInitInv, OnceStep, PTL DEF BriefSpec

-----------------------------------------------------------------------------
(***************************************************************************)
(* Surfaces.  Whatever the rows are, a page is cut out of them by rank: of *)
(* a page it is enough to know what it leaves out.                         *)
(***************************************************************************)
SurfacesInv ==
    /\ row = [j \in Listed |-> row[j]] /\ \A j \in Listed : RowForm(row[j])
    /\ act \in [Listed -> Acts]

LEMMA SurfacesInitInv == SurfacesInit => SurfacesInv
BY SurfaceConstants DEF SurfacesInit, SurfacesInv, Acts

LEMMA DecideKeepsRows ==
    ASSUME SurfacesInv, NEW j \in Listed, NEW new, RowForm(new), Decide(j, new)
    PROVE  SurfacesInv'
<1>1. row' = [row EXCEPT ![j] = new] /\ UNCHANGED act
    BY DEF Decide
<1>2. \A k \in Listed : row'[k] = IF k = j THEN new ELSE row[k]
    BY <1>1 DEF SurfacesInv
<1>3. row' = [k \in Listed |-> row'[k]]
    BY <1>1 DEF SurfacesInv
<1>4. \A k \in Listed : RowForm(row'[k])
    BY <1>2 DEF SurfacesInv
<1> QED
    BY <1>1, <1>3, <1>4 DEF SurfacesInv

LEMMA SurfacesNextInv == SurfacesInv /\ [SurfacesNext]_surfaceVars => SurfacesInv'
<1> SUFFICES ASSUME SurfacesInv, [SurfacesNext]_surfaceVars PROVE SurfacesInv'
    OBVIOUS
<1>1. CASE UNCHANGED surfaceVars
    BY <1>1 DEF SurfacesInv, surfaceVars
<1>2. CASE UserActs
  <2>1. UNCHANGED row
      BY <1>2 DEF UserActs
  <2>2. act' \in [Listed -> Acts]
    <3>1. CASE UNCHANGED act
        BY <3>1 DEF SurfacesInv
    <3>2. CASE \E j \in OpenJobs, s \in Acts \ {"none"} : act' = [act EXCEPT ![j] = s]
        BY <3>2 DEF SurfacesInv
    <3> QED
        BY <1>2, <3>1, <3>2 DEF UserActs
  <2> QED
      BY <2>1, <2>2 DEF SurfacesInv
<1>3. ASSUME NEW j \in Listed, Gated(j) PROVE SurfacesInv'
  <2>1. PICK o \in GateOutcomes :
           Decide(j, [verdict |-> o.verdict, code |-> o.code,
                      opportunity |-> row[j].opportunity, decidedAt |-> TRUE])
      BY <1>3 DEF Gated
  <2>2. PICK v, c, n : v = o.verdict /\ c = o.code /\ n = row[j].opportunity
      OBVIOUS
  <2>3. v \in Verdicts /\ (c \in GATE_REFUSAL_CODES => v = "SKIP") /\ n \in Int
      BY <2>2, SurfaceConstants DEF Agrees, SurfacesInv, RowForm
  <2>4. PICK new : new = [verdict |-> v, code |-> c, opportunity |-> n, decidedAt |-> TRUE]
      OBVIOUS
  <2>5. RowForm(new)
      BY <2>3, <2>4 DEF RowForm, Agrees
  <2>6. Decide(j, new)
      BY <2>1, <2>2, <2>4
  <2> QED
      BY <2>5, <2>6, DecideKeepsRows
<1>4. ASSUME NEW j \in Listed, Upserted(j) PROVE SurfacesInv'
  <2>1. PICK new : new = [NoRow EXCEPT !.verdict = "undecided"]
      OBVIOUS
  <2>2. PICK v, c, n, no : v = "undecided" /\ c = "none" /\ n = NoScore /\ no = FALSE
      OBVIOUS
  <2>3. n \in Int
      BY <2>2 DEF NoScore
  <2>4. new = [verdict |-> v, code |-> c, opportunity |-> n, decidedAt |-> no]
      BY <2>1, <2>2 DEF NoRow
  <2>5. new.verdict = v /\ new.opportunity = n /\ new.decidedAt = no
      BY <2>4
  <2>6. RowForm(new)
      BY <2>2, <2>3, <2>5 DEF RowForm
  <2> QED
      BY <1>4, <2>1, <2>6, DecideKeepsRows DEF Upserted
<1>5. ASSUME NEW j \in Listed, Scored(j) PROVE SurfacesInv'
  <2>1. PICK d \in Decisions :
           Decide(j, [verdict |-> d.verdict, code |-> d.code,
                      opportunity |-> d.opportunity, decidedAt |-> TRUE])
      BY <1>5 DEF Scored
  <2>2. PICK v, c, n : v = d.verdict /\ c = d.code /\ n = d.opportunity
      OBVIOUS
  <2>3. v \in Verdicts /\ (c \in GATE_REFUSAL_CODES => v = "SKIP") /\ n \in Int
      BY <2>2, SurfaceConstants DEF Agrees
  <2>4. PICK new : new = [verdict |-> v, code |-> c, opportunity |-> n, decidedAt |-> TRUE]
      OBVIOUS
  <2>5. RowForm(new)
      BY <2>3, <2>4 DEF RowForm, Agrees
  <2>6. Decide(j, new)
      BY <2>1, <2>2, <2>4
  <2> QED
      BY <2>5, <2>6, DecideKeepsRows
<1> QED
    BY <1>1, <1>2, <1>3, <1>4, <1>5 DEF SurfacesNext

-----------------------------------------------------------------------------
\* What the label of a row says of its verdict.
LEMMA LabelTellsVerdict ==
    ASSUME NEW r, RowForm(r)
    PROVE  /\ recommendationState(r) = "REFUSED" <=> r.verdict = "SKIP"
           /\ recommendationState(r) = "APPLY" <=> r.decidedAt /\ r.verdict = "APPLY"
           /\ recommendationState(r) \in {"APPLY", "CONSIDER", "POTENTIAL", "REFUSED"}
BY DEF RowForm, Agrees, recommendationState, Verdicts, GATE_REFUSAL_CODES

\* Where a feed comes from.
Offers(selected) == {i \in {item(j) : j \in selected} : offered(i)}

\* selected is a pool out of scope, and feed is cut out of it.
ComesFrom(selected, scope, feed) ==
    /\ selected \subseteq scope
    /\ selected = scope \/ Cardinality(selected) = 3 * FEED
    /\ \A a \in selected, b \in scope \ selected : ~DecidedFirst(b, a)
    /\ feed \subseteq Offers(selected)
    /\ \A a \in feed, b \in Offers(selected) \ feed : ~byRecommendation(b, a)

LEMMA FeedComesFrom ==
    ASSUME NEW indiaOnly, NEW feed \in browseByFit(FEED, indiaOnly)
    PROVE  \E selected : ComesFrom(selected, inScope(indiaOnly), feed)
<1>1. FEED \in Nat /\ FEED >= 1 /\ FEED <= 66
    BY SurfaceConstants
<1>2. Clamp(FEED, 1, 120) = FEED /\ Clamp(3 * FEED, 0, 200) = 3 * FEED
    BY <1>1 DEF Clamp
<1>3. PICK selected \in FirstRows(3 * FEED, inScope(indiaOnly), DecidedFirst) :
         feed \in FirstRows(FEED, Offers(selected), byRecommendation)
    BY <1>2 DEF browseByFit, Offers
<1>4. /\ selected \subseteq inScope(indiaOnly)
      /\ \A a \in selected, b \in inScope(indiaOnly) \ selected : ~DecidedFirst(b, a)
      /\ Cardinality(selected) = IF 3 * FEED < Cardinality(inScope(indiaOnly)) THEN 3 * FEED
                                 ELSE Cardinality(inScope(indiaOnly))
    BY <1>3 DEF FirstRows
<1>5. /\ feed \subseteq Offers(selected)
      /\ \A a \in feed, b \in Offers(selected) \ feed :
            ~byRecommendation(b, a)
    BY <1>3 DEF FirstRows
<1>6. IsFiniteSet(inScope(indiaOnly))
    BY SurfaceConstants, FS_Subset DEF inScope, OpenJobs
<1>7. CASE Cardinality(selected) = Cardinality(inScope(indiaOnly))
  <2>1. selected = inScope(indiaOnly)
      BY <1>4, <1>6, <1>7, FS_Subset
  <2> QED
      BY <1>4, <1>5, <2>1 DEF ComesFrom
<1> QED
    BY <1>4, <1>5, <1>7 DEF ComesFrom

LEMMA RefusedStaysOut == ASSUME SurfacesInv PROVE RefusedIsShownAsExcluded
<1>1. ASSUME NEW feed \in browseByFit(FEED, FALSE), NEW i \in feed PROVE ~IsRefused(i.job)
  <2>1. PICK selected : feed \subseteq Offers(selected)
      BY FeedComesFrom DEF ComesFrom
  <2>2. PICK j : i = item(j) /\ offered(i)
      BY <2>1 DEF Offers
  <2>3. i.job = j /\ i.state = recommendationState(row[j])
      BY <2>2 DEF item
  <2> QED
      BY <2>2, <2>3 DEF offered, IsRefused
<1>2. ASSUME NEW plan \in today, NEW t \in plan, t.kind = "APPLY"
      PROVE  row[t.job].verdict = "APPLY" /\ notActedOn(t.job)
  <2>1. PICK feed \in browseByFit(FEED, TRUE) : plan \in plans(feed)
      BY DEF today
  <2>2. PICK apply, top, potential :
           /\ apply \in FirstRows(2, InState(feed, "APPLY"), byRecommendation)
           /\ plan \in FirstRows(7, planActions(apply, top, potential), Sooner)
      BY <2>1 DEF plans
  <2>3. t \in planActions(apply, top, potential) /\ apply \subseteq InState(feed, "APPLY")
      BY <2>2 DEF FirstRows
  <2>4. t \in {Task("APPLY", 5, i.job) : i \in apply}
      BY <1>2, <2>3, SurfaceConstants DEF planActions, Task, NoTask, When
  <2>5. PICK i \in apply : t.job = i.job
      BY <2>4 DEF Task
  <2>6. i \in feed /\ notActedOn(i.job) /\ i.state = "APPLY"
      BY <2>3, <2>5 DEF InState
  <2>7. PICK selected : ComesFrom(selected, inScope(TRUE), feed)
      BY <2>1, FeedComesFrom
  <2>8. PICK j \in Listed : i = item(j)
      BY <2>6, <2>7 DEF ComesFrom, inScope, OpenJobs, Offers
  <2>9. i.job = j /\ recommendationState(row[j]) = "APPLY"
      BY <2>6, <2>8 DEF item
  <2> QED
      BY <2>5, <2>6, <2>9, LabelTellsVerdict DEF SurfacesInv
<1>3. ASSUME NEW v \in {"APPLY", "CONSIDER"}, NEW list \in briefLists(v, 30), NEW j \in list
      PROVE  ~IsRefused(j)
  <2>1. j \in WithVerdict(v)
      BY <1>3 DEF briefLists, FirstRows
  <2>2. j \in Listed /\ row[j].verdict # "SKIP"
      BY <1>3, <2>1 DEF WithVerdict, OpenJobs
  <2> QED
      BY <2>2, LabelTellsVerdict DEF SurfacesInv, IsRefused
<1>4. ASSUME NEW j \in OpenJobs PROVE IsRefused(j) <=> j \in excluded
  <2>1. RowForm(row[j])
      BY DEF SurfacesInv, OpenJobs
  <2> QED
      BY <2>1, LabelTellsVerdict DEF IsRefused, excluded, excludedRow
<1> QED
    BY <1>1, <1>2, <1>3, <1>4 DEF RefusedIsShownAsExcluded

LEMMA ApprovalsComeFirst == ASSUME SurfacesInv PROVE ApprovalsReachTheFeed
<1> DEFINE Above(j) == {k \in inScope(TRUE) : row[k].decidedAt /\ k # j
                                              /\ row[k].opportunity >= row[j].opportunity}
<1> SUFFICES ASSUME NEW feed \in browseByFit(FEED, TRUE), NEW j \in inScope(TRUE),
                    row[j].decidedAt, row[j].verdict = "APPLY",
                    j \notin {i.job : i \in feed}
             PROVE  \/ Cardinality(Above(j)) >= 3 * FEED
                    \/ \A i \in feed : i.state = "APPLY" /\ i.opportunity >= row[j].opportunity
    BY DEF ApprovalsReachTheFeed
<1>0. PICK selected : ComesFrom(selected, inScope(TRUE), feed)
    BY FeedComesFrom
<1>1. /\ selected \subseteq inScope(TRUE)
      /\ selected = inScope(TRUE) \/ Cardinality(selected) = 3 * FEED
      /\ \A a \in selected, b \in inScope(TRUE) \ selected : ~DecidedFirst(b, a)
      /\ feed \subseteq Offers(selected)
      /\ \A a \in feed, b \in Offers(selected) \ feed : ~byRecommendation(b, a)
    BY <1>0 DEF ComesFrom
<1>2. /\ j \in Listed /\ RowForm(row[j]) /\ inScope(TRUE) \subseteq Listed
      /\ \A k \in Listed : RowForm(row[k])
    BY DEF SurfacesInv, inScope, OpenJobs
<1>3. recommendationState(row[j]) = "APPLY" /\ row[j].opportunity \in Int
    BY <1>2, LabelTellsVerdict DEF RowForm
<1>4. CASE j \notin selected
  <2>1. ASSUME NEW k \in selected PROVE k \in Above(j)
    <3>1. ~DecidedFirst(j, k) /\ k \in inScope(TRUE) /\ k # j /\ RowForm(row[k])
        BY <1>1, <1>2, <1>4
    <3>2. row[k].opportunity \in Int /\ row[k].decidedAt \in BOOLEAN
        BY <3>1 DEF RowForm
    <3>3. row[k].decidedAt
        BY <3>1, <3>2 DEF DecidedFirst
    <3>4. row[k].opportunity >= row[j].opportunity
        BY <1>3, <3>1, <3>2, <3>3 DEF DecidedFirst
    <3> QED
        BY <3>1, <3>3, <3>4
  <2>2. IsFiniteSet(Above(j))
      BY <1>2, SurfaceConstants, FS_Subset
  <2>3. selected \subseteq Above(j) /\ Cardinality(selected) = 3 * FEED
      BY <1>1, <1>4, <2>1
  <2>4. Cardinality(Above(j)) >= Cardinality(selected)
      BY <2>2, <2>3, FS_Subset, FS_CardinalityType
  <2> QED
      BY <2>3, <2>4
<1>5. CASE j \in selected
  <2>1. item(j).job = j /\ item(j).state = "APPLY" /\ item(j).opportunity = row[j].opportunity
      BY <1>3 DEF item
  <2>2. item(j) \in Offers(selected) \ feed
      BY <1>5, <2>1 DEF offered, Offers
  <2>3. ASSUME NEW a \in feed PROVE a.state = "APPLY" /\ a.opportunity >= row[j].opportunity
    <3>1. PICK k \in selected : a = item(k)
        BY <1>1 DEF Offers
    <3>2. RowForm(row[k]) /\ ~byRecommendation(item(j), a)
        BY <1>1, <1>2, <2>2
    <3>3. a.state \in {"APPLY", "CONSIDER", "POTENTIAL", "REFUSED"}
          /\ a.state = recommendationState(row[k])
        BY <3>1, <3>2, LabelTellsVerdict DEF item
    <3>4. a.state = "APPLY"
        BY <2>1, <3>2, <3>3 DEF byRecommendation, STATE_RANK
    <3>5. a.opportunity = row[k].opportunity /\ row[k].opportunity \in Int
        BY <3>1, <3>2, <3>3, <3>4 DEF item, RowForm
    <3>6. ~(item(j).opportunity > a.opportunity)
        BY <2>1, <3>2, <3>4 DEF byRecommendation
    <3> QED
        BY <1>3, <2>1, <3>4, <3>5, <3>6
  <2> QED
      BY <2>3
<1> QED
    BY <1>4, <1>5

LEMMA VerdictsHaveOnePage == ASSUME SurfacesInv PROVE EveryVerdictHasOnePage
<1> DEFINE d == dashboardDecisions
           pages == << d.applyNow, d.worthApplying, d.needsReview, excluded >>
           on(j) == {p \in DOMAIN pages : j \in pages[p]}
           done(j) == \/ act[j] = "APPLIED" /\ row[j].verdict \in {"APPLY", "CONSIDER"}
                      \/ j \in judged /\ row[j].verdict = "NEEDS_REVIEW"
<1>1. /\ DOMAIN pages = {1, 2, 3, 4}
      /\ pages[1] = {j \in OpenJobs : row[j].verdict = "APPLY" /\ notActedOn(j)}
      /\ pages[2] = {j \in OpenJobs : row[j].verdict = "CONSIDER" /\ notActedOn(j)}
      /\ pages[3] = {j \in OpenJobs : row[j].verdict = "NEEDS_REVIEW" /\ j \notin judged}
      /\ pages[4] = {j \in OpenJobs : row[j].verdict = "SKIP"}
    BY DEF dashboardDecisions, WithVerdict, needsReview, excluded, excludedRow
<1> HIDE DEF pages
<1>2. ASSUME NEW j \in OpenJobs, row[j].decidedAt
      PROVE  Cardinality(on(j)) = IF done(j) THEN 0 ELSE 1
  <2>1. /\ row[j].verdict \in Verdicts
        /\ notActedOn(j) <=> act[j] # "APPLIED"
      BY <1>2 DEF SurfacesInv, OpenJobs, RowForm, Agrees, notActedOn, Acts
  <2>2. on(j) = IF done(j) THEN {}
                ELSE {CASE row[j].verdict = "APPLY" -> 1
                        [] row[j].verdict = "CONSIDER" -> 2
                        [] row[j].verdict = "NEEDS_REVIEW" -> 3
                        [] row[j].verdict = "SKIP" -> 4}
    <3>1. CASE row[j].verdict = "APPLY"
        BY <1>1, <2>1, <3>1
    <3>2. CASE row[j].verdict = "CONSIDER"
        BY <1>1, <2>1, <3>2
    <3>3. CASE row[j].verdict = "NEEDS_REVIEW"
        BY <1>1, <2>1, <3>3
    <3>4. CASE row[j].verdict = "SKIP"
        BY <1>1, <2>1, <3>4
    <3> QED
        BY <2>1, <3>1, <3>2, <3>3, <3>4 DEF Verdicts
  <2> QED
      BY <2>2, FS_EmptySet, FS_Singleton
<1> QED
    BY <1>2 DEF EveryVerdictHasOnePage, pages

\* Whatever the gate, the scorer and the user do, and however rows rank alike: a
\* refused job is in no feed, plan or list and is shown as excluded, an approval is
\* left out only for others as good, and every verdict has one page.
THEOREM PagesAgree == SurfacesSpec => []PagesTellTheDecision
<1>1. SurfacesInv => PagesTellTheDecision
    BY RefusedStaysOut, ApprovalsComeFirst, VerdictsHaveOnePage DEF PagesTellTheDecision
<1> QED
    BY SurfacesInitInv, SurfacesNextInv, <1>1, PTL DEF SurfacesSpec
=============================================================================
