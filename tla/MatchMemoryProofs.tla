------------------------- MODULE MatchMemoryProofs --------------------------
(***************************************************************************)
(* Theorems about MatchMemory: what the user is told about a match, and    *)
(* what the match row remembers of it, for any number of jobs, resume      *)
(* versions and overlapping evaluators, whatever the classifier and the    *)
(* model answer.                                                           *)
(***************************************************************************)
EXTENDS MatchMemory, SequenceTheorems, FiniteSetTheorems, TLAPS

(***************************************************************************)
(* Types.  A record is told by its fields: what the fields that no theorem *)
(* is about may hold is left open.                                         *)
(***************************************************************************)
IsRow(r) ==
    r \in [exists : {r.exists}, scores : {r.scores}, opp : {r.opp}, verdict : {r.verdict},
           code : {r.code}, current : {r.current}, notified : {r.notified},
           notifiedScore : {r.notifiedScore}]

InWindowPc == {"check", "send", "recordSent"}

IsEvaluator(e) ==
    /\ e \in [kind : {e.kind}, pc : {e.pc}, version : Versions, todo : SUBSET Jobs,
              held : {e.held}, known : {e.known}, refused : {e.refused},
              before : {e.before}, at : {e.at}, opp : {e.opp}]
    /\ \A r \in e.refused : r.at \in Jobs
    /\ e.pc \in InWindowPc => e.at \in Jobs

IsMatch(m) ==
    /\ m = [v \in Versions |-> m[v]]
    /\ \A v \in Versions : m[v] = [j \in Jobs |-> m[v][j]] /\ \A j \in Jobs : IsRow(m[v][j])

Typed ==
    /\ active \in Versions
    /\ IsMatch(match)
    /\ ev = [p \in Evaluators |-> ev[p]]
    /\ \A p \in Evaluators : IsEvaluator(ev[p])
    /\ sent = [j \in Jobs |-> sent[j]]
    /\ \A j \in Jobs : \E S : sent[j] \in Seq(S)
    /\ \A j \in Jobs : \A k \in DOMAIN sent[j] : sent[j][k].version \in Versions

(***************************************************************************)
(* The inductive invariant speaks of the jobs whose announcements did not  *)
(* race.  At most one evaluator is at such a job between its decision and  *)
(* the memory of the message; there it has erased the score to compare     *)
(* with, so it announces only what was not announced before; and what was  *)
(* sent is remembered, or about to be by the evaluator that sent it.       *)
(***************************************************************************)
Alone ==
    \A j \in Jobs \ raced, p, q \in Evaluators :
        (InWindow(ev[p], j) /\ InWindow(ev[q], j)) => p = q

HasMessage(v, j) == \E k \in DOMAIN sent[j] : sent[j][k].version = v

Remembered ==
    \A j \in Jobs \ raced, v \in Versions :
        HasMessage(v, j) =>
            \/ match[v][j].notified
            \/ \E p \in Evaluators :
                  ev[p].pc = "recordSent" /\ ev[p].at = j /\ ev[p].version = v

Erased ==
    \A j \in Jobs \ raced, p \in Evaluators :
        /\ (ev[p].pc = "check" /\ ev[p].at = j) =>
              match[ev[p].version][j].notifiedScore = NoNumber
        /\ (ev[p].pc = "send" /\ ev[p].at = j) => ~HasMessage(ev[p].version, j)

OncePerVersion ==
    \A j \in Jobs \ raced : \A k, l \in DOMAIN sent[j] :
        sent[j][k].version = sent[j][l].version => k = l

WasBelow(score) == score # NoNumber /\ verdictOf(score) # "APPLY"

\* A reconciliation about to speak of a job speaks of it first, or for an upgrade.
SpeaksFirst ==
    \A j \in Jobs \ raced, p \in Evaluators :
        (ev[p].kind = "reconcile" /\ ev[p].pc \in {"check", "send"} /\ ev[p].at = j) =>
            sent[j] = <<>> \/ WasBelow(ev[p].before[j])

MemoryInv ==
    /\ Typed /\ Alone /\ Remembered /\ Erased /\ OncePerVersion /\ SpeaksFirst
    /\ SeenIsNotReannounced

-----------------------------------------------------------------------------
\* The evaluators and rows that the operations leave are typed.
LEMMA IdleTyped == IsEvaluator(Idle) /\ Idle.pc = "idle"
BY MatchConstants DEF Idle, IsEvaluator, InWindowPc, Versions

LEMMA OnwardTyped ==
    ASSUME NEW e, IsEvaluator(e)
    PROVE  IsEvaluator(Onward(e)) /\ Onward(e).pc \notin InWindowPc
<1>1. CASE e.todo = {}
  BY <1>1, IdleTyped DEF Onward, InWindowPc
<1>2. CASE e.todo # {}
  <2> DEFINE f == [e EXCEPT !.pc = "decide", !.at = "none", !.opp = NoNumber]
  <2>1. Onward(e) = f
    BY <1>2 DEF Onward
  <2>2. IsEvaluator(f) /\ f.pc = "decide"
    BY DEF IsEvaluator, InWindowPc
  <2> QED
    BY <2>1, <2>2 DEF InWindowPc
<1> QED
  BY <1>1, <1>2

\* What the memory theorems read of a row, and what the writers keep of it.
KeepsMemory(r, s) ==
    /\ s.notified = r.notified
    /\ s.notifiedScore \in {r.notifiedScore, NoNumber}

LEMMA RowsTyped ==
    ASSUME NEW row, IsRow(row)
    PROVE  /\ \A r : IsRow(Recorded(row, r)) /\ KeepsMemory(row, Recorded(row, r))
           /\ \A s : IsRow(Scored(row, s)) /\ KeepsMemory(row, Scored(row, s))
           /\ \A j : /\ IsRow(Decided(row, j)) /\ KeepsMemory(row, Decided(row, j))
                    /\ Decided(row, j).notifiedScore = NoNumber
           /\ LET s == [row EXCEPT !.current = FALSE] IN IsRow(s) /\ KeepsMemory(row, s)
<1>1. ASSUME NEW r PROVE IsRow(Recorded(row, r)) /\ KeepsMemory(row, Recorded(row, r))
  BY DEF IsRow, Recorded, KeepsMemory
<1>2. ASSUME NEW s PROVE IsRow(Scored(row, s)) /\ KeepsMemory(row, Scored(row, s))
  BY DEF IsRow, Scored, KeepsMemory
<1>3. ASSUME NEW j
      PROVE  /\ IsRow(Decided(row, j)) /\ KeepsMemory(row, Decided(row, j))
             /\ Decided(row, j).notifiedScore = NoNumber
  <2>1. PICK opp, verdict, code :
           Decided(row, j) = [row EXCEPT !.opp = opp, !.notifiedScore = NoNumber,
                                         !.verdict = verdict, !.code = code, !.current = TRUE]
    BY DEF Decided
  <2> QED
    BY <2>1 DEF IsRow, KeepsMemory
<1>4. LET s == [row EXCEPT !.current = FALSE] IN IsRow(s) /\ KeepsMemory(row, s)
  BY DEF IsRow, KeepsMemory
<1> QED
  BY <1>1, <1>2, <1>3, <1>4

-----------------------------------------------------------------------------
\* A race is noticed when it begins.
LEMMA RacesTracked ==
    ASSUME TrackRaces
    PROVE  Alone' /\ raced \subseteq raced'
BY DEF TrackRaces, Alone

RowsKeepMemory ==
    /\ IsMatch(match')
    /\ \A v \in Versions, j \in Jobs : KeepsMemory(match[v][j], match'[v][j])

\* An evaluator that is not about to remember a message, and sends none, goes on
\* as e: the invariant is kept if it holds of e.
LEMMA GoesOn ==
    ASSUME MemoryInv, NEW p \in Evaluators, NEW e, Becomes(p, e), IsEvaluator(e),
           ev[p].pc # "recordSent", e.pc # "recordSent",
           TrackRaces, RowsKeepMemory, UNCHANGED <<active, sent>>,
           e.pc = "check" => match'[e.version][e.at].notifiedScore = NoNumber,
           (e.pc = "send" /\ e.at \notin raced') => ~HasMessage(e.version, e.at),
           (e.kind = "reconcile" /\ e.pc \in {"check", "send"} /\ e.at \notin raced') =>
               sent[e.at] = <<>> \/ WasBelow(e.before[e.at])
    PROVE  MemoryInv'
<1>1. /\ ev' = [q \in Evaluators |-> IF q = p THEN e ELSE ev[q]]
      /\ raced \subseteq raced' /\ Alone'
  BY RacesTracked DEF Becomes, MemoryInv, Typed
<1>2. Typed'
  BY <1>1 DEF MemoryInv, Typed, RowsKeepMemory
<1>3. \A v, j : HasMessage(v, j)' <=> HasMessage(v, j)
  BY DEF HasMessage
<1>4. Remembered'
  <2> SUFFICES ASSUME NEW j \in Jobs \ raced', NEW v \in Versions, HasMessage(v, j)
               PROVE  \/ match'[v][j].notified
                      \/ \E q \in Evaluators :
                            ev'[q].pc = "recordSent" /\ ev'[q].at = j /\ ev'[q].version = v
    BY <1>3 DEF Remembered
  <2>1. CASE match[v][j].notified
    BY <2>1 DEF RowsKeepMemory, KeepsMemory
  <2>2. ASSUME NEW q \in Evaluators, ev[q].pc = "recordSent", ev[q].at = j, ev[q].version = v
        PROVE  ev'[q] = ev[q]
    BY <1>1, <2>2
  <2> QED
    BY <1>1, <2>1, <2>2 DEF MemoryInv, Remembered
<1>5. Erased'
  <2> SUFFICES ASSUME NEW j \in Jobs \ raced', NEW q \in Evaluators, ev'[q].at = j,
                      ev'[q].pc \in {"check", "send"}
               PROVE  /\ ev'[q].pc = "check" =>
                             match'[ev'[q].version][j].notifiedScore = NoNumber
                      /\ ev'[q].pc = "send" => ~HasMessage(ev'[q].version, j)
    BY <1>3 DEF Erased
  <2>1. CASE q = p
    BY <1>1, <2>1
  <2>2. CASE q # p
    <3>1. ev'[q] = ev[q] /\ ev[q].version \in Versions
      BY <1>1, <2>2 DEF MemoryInv, Typed, IsEvaluator
    <3> QED
      BY <1>1, <3>1 DEF MemoryInv, Erased, RowsKeepMemory, KeepsMemory
  <2> QED
    BY <2>1, <2>2
<1>6. OncePerVersion' /\ SeenIsNotReannounced'
  BY <1>1 DEF MemoryInv, OncePerVersion, SeenIsNotReannounced
<1>7. SpeaksFirst'
  BY <1>1 DEF MemoryInv, SpeaksFirst
<1> QED
  BY <1>1, <1>2, <1>4, <1>5, <1>6, <1>7 DEF MemoryInv

LEMMA QuietStep ==
    ASSUME MemoryInv, NEW p \in Evaluators, NEW e, Becomes(p, e), IsEvaluator(e),
           e.pc \notin InWindowPc, ev[p].pc # "recordSent",
           TrackRaces, RowsKeepMemory, UNCHANGED <<active, sent>>
    PROVE  MemoryInv'
BY GoesOn DEF InWindowPc

LEMMA BecomesProp ==
    ASSUME MemoryInv, NEW p \in Evaluators, NEW e, Becomes(p, e)
    PROVE  ev' = [q \in Evaluators |-> IF q = p THEN e ELSE ev[q]]
BY DEF Becomes, MemoryInv, Typed

LEMMA RowsUnchangedKeep ==
    ASSUME MemoryInv, match' = match
    PROVE  RowsKeepMemory
BY DEF MemoryInv, Typed, IsMatch, RowsKeepMemory, KeepsMemory

LEMMA StartKeeps ==
    ASSUME MemoryInv, NEW p \in Evaluators, NEW kind, NEW S \in SUBSET Jobs,
           Start(p, kind, S), TrackRaces
    PROVE  MemoryInv'
<1>1. PICK h : Becomes(p, [Idle EXCEPT !.kind = kind, !.version = active, !.todo = S,
                             !.pc = IF kind = "rescore" THEN "decide" ELSE "classify", !.held = h])
  BY DEF Start
<1> DEFINE pc == IF kind = "rescore" THEN "decide" ELSE "classify"
           e == [Idle EXCEPT !.kind = kind, !.version = active, !.todo = S, !.pc = pc, !.held = h]
<1>2. pc \notin InWindowPc
  BY DEF InWindowPc
<1>3. active \in Versions /\ Idle.refused = {}
  BY DEF MemoryInv, Typed, Idle
<1>4. IsEvaluator(e) /\ e.pc = pc
  <2> HIDE DEF pc
  <2>1. \E X : X = Idle /\ IsEvaluator(X) /\ X.refused = {}
    BY <1>3, IdleTyped
  <2>2. PICK X : X = Idle /\ IsEvaluator(X) /\ X.refused = {}
    BY <2>1
  <2>3. e = [X EXCEPT !.kind = kind, !.version = active, !.todo = S, !.pc = pc, !.held = h]
    BY <2>2
  <2> QED BY <1>2, <1>3, <2>2, <2>3 DEF IsEvaluator
<1>5. Becomes(p, e) /\ UNCHANGED <<active, sent, match>> /\ ev[p].pc = "idle"
  BY <1>1 DEF Start, userVars
<1> HIDE DEF e, pc
<1> QED
  BY <1>2, <1>4, <1>5, QuietStep, RowsUnchangedKeep

LEMMA ClassifyKeeps ==
    ASSUME MemoryInv, NEW p \in Evaluators, Classify(p) \/ ClassifyFails(p), TrackRaces
    PROVE  MemoryInv'
<1>1. PICK k : Becomes(p, [ev[p] EXCEPT !.pc = "judge", !.known = k])
  <2>1. CASE Classify(p)
    <3>1. PICK answer :
             LET fresh == [j \in Unclassified(p) |->
                             [class |-> normalize(answer[j]), evidence |-> evidenceOf(ev[p].held[j])]]
             IN Becomes(p, [ev[p] EXCEPT !.pc = "judge", !.known = fresh @@ Known(p)])
      BY <2>1 DEF Classify
    <3> QED
      BY <3>1
  <2>2. CASE ClassifyFails(p)
    BY <2>2 DEF ClassifyFails
  <2> QED
    BY <2>1, <2>2
<1> DEFINE e == [ev[p] EXCEPT !.pc = "judge", !.known = k]
<1>2. IsEvaluator(ev[p]) /\ UNCHANGED <<active, sent, match>> /\ ev[p].pc = "classify"
  <2>1. UNCHANGED <<match, userVars, sent>> /\ ev[p].pc = "classify"
    BY DEF Classify, ClassifyFails
  <2> QED
    BY <2>1 DEF MemoryInv, Typed, userVars
<1>3. IsEvaluator(e) /\ e.pc = "judge"
  BY <1>2 DEF InWindowPc, IsEvaluator
<1>4. "judge" \notin InWindowPc
  BY DEF InWindowPc
<1> HIDE DEF e
<1>5. Becomes(p, e)
  BY <1>1 DEF e
<1> QED
  BY <1>2, <1>3, <1>4, <1>5, QuietStep, RowsUnchangedKeep

LEMMA JudgeKeeps ==
    ASSUME MemoryInv, NEW p \in Evaluators, Judge(p), TrackRaces
    PROVE  MemoryInv'
<1> DEFINE T == {j \in Classified(p) : gateCode(p, j) \in EligibleCodes}
           b == [j \in Jobs |-> previousScore(ev[p].version, j)]
           e == [ev[p] EXCEPT !.pc = "score", !.todo = T, !.refused = Refusals(p), !.before = b]
<1>1. Becomes(p, e)
  BY DEF Judge
<1>2. IsEvaluator(ev[p]) /\ UNCHANGED <<active, sent, match>> /\ ev[p].pc = "judge"
  BY DEF MemoryInv, Typed, Judge, userVars
<1>3. Classified(p) \subseteq Jobs
  BY <1>2 DEF Classified, IsEvaluator
<1>4. T \in SUBSET Jobs /\ \A r \in Refusals(p) : r.at \in Jobs
  BY <1>3 DEF Refusals, Refusal
<1>5. "score" \notin InWindowPc
  BY DEF InWindowPc
<1>6. IsEvaluator(e) /\ e.pc = "score"
  <2> HIDE DEF T, b
  <2> QED BY <1>2, <1>4, <1>5 DEF IsEvaluator
<1> HIDE DEF e
<1> QED
  BY <1>1, <1>2, <1>5, <1>6, QuietStep, RowsUnchangedKeep

LEMMA RecordGateDecisionKeeps ==
    ASSUME MemoryInv, NEW p \in Evaluators, RecordGateDecision(p), TrackRaces
    PROVE  MemoryInv'
<1>1. PICK r \in ev[p].refused :
         /\ match' = [match EXCEPT ![ev[p].version][r.at] = Recorded(@, r)]
         /\ Becomes(p, [ev[p] EXCEPT !.refused = @ \ {r}])
  BY DEF RecordGateDecision
<1> DEFINE v == ev[p].version
           R == ev[p].refused \ {r}
           e == [ev[p] EXCEPT !.refused = R]
<1>2. IsEvaluator(ev[p]) /\ ev[p].pc = "score" /\ UNCHANGED <<active, sent>> /\ IsMatch(match)
  BY DEF RecordGateDecision, MemoryInv, Typed, userVars
<1>3. v \in Versions /\ r.at \in Jobs
  BY <1>2 DEF IsEvaluator
<1>4. Becomes(p, e)
  BY <1>1
<1>5. IsEvaluator(e) /\ e.pc = "score"
  <2>1. R \subseteq ev[p].refused
    OBVIOUS
  <2> HIDE DEF R
  <2> QED BY <1>2, <2>1 DEF IsEvaluator
<1>6. match' = [w \in Versions |-> [j \in Jobs |->
                   IF w = v /\ j = r.at THEN Recorded(match[w][j], r) ELSE match[w][j]]]
  BY <1>1, <1>2, <1>3 DEF IsMatch
<1>7. RowsKeepMemory
  <2>1. ASSUME NEW w \in Versions, NEW j \in Jobs
        PROVE  IsRow(match'[w][j]) /\ KeepsMemory(match[w][j], match'[w][j])
    <3>1. IsRow(match[w][j])
      BY <1>2 DEF IsMatch
    <3> QED
      BY <1>6, <3>1, RowsTyped DEF KeepsMemory
  <2> QED
    BY <1>6, <2>1 DEF RowsKeepMemory, IsMatch
<1>8. "score" \notin InWindowPc
  BY DEF InWindowPc
<1> HIDE DEF e
<1> QED
  BY <1>2, <1>4, <1>5, <1>7, <1>8, QuietStep

LEMMA ScoreAndUpsertKeeps ==
    ASSUME MemoryInv, NEW p \in Evaluators, ScoreAndUpsert(p), TrackRaces
    PROVE  MemoryInv'
<1> DEFINE v == ev[p].version
           T == ev[p].todo
           e == Onward(ev[p])
<1>1. PICK s : match' = [match EXCEPT ![v] =
                         [j \in Jobs |-> IF j \in T THEN Scored(@[j], s[j]) ELSE @[j]]]
  BY DEF ScoreAndUpsert
<1>2. /\ IsEvaluator(ev[p]) /\ ev[p].pc = "score" /\ UNCHANGED <<active, sent>>
      /\ IsMatch(match) /\ Becomes(p, e)
  BY DEF ScoreAndUpsert, MemoryInv, Typed, userVars
<1>3. v \in Versions /\ T \subseteq Jobs
  BY <1>2 DEF IsEvaluator
<1>4. match' = [w \in Versions |-> [j \in Jobs |->
                   IF w = v /\ j \in T THEN Scored(match[w][j], s[j]) ELSE match[w][j]]]
  BY <1>1, <1>2, <1>3 DEF IsMatch
<1>5. RowsKeepMemory
  <2>1. ASSUME NEW w \in Versions, NEW j \in Jobs
        PROVE  IsRow(match'[w][j]) /\ KeepsMemory(match[w][j], match'[w][j])
    <3>1. IsRow(match[w][j])
      BY <1>2 DEF IsMatch
    <3> QED
      BY <1>4, <3>1, RowsTyped DEF KeepsMemory
  <2> QED
    BY <1>4, <2>1 DEF RowsKeepMemory, IsMatch
<1>6. IsEvaluator(e) /\ e.pc \notin InWindowPc
  BY <1>2, OnwardTyped
<1> HIDE DEF e
<1> QED
  BY <1>2, <1>5, <1>6, QuietStep

LEMMA ScoreFailsKeeps ==
    ASSUME MemoryInv, NEW p \in Evaluators, ScoreFails(p), TrackRaces
    PROVE  MemoryInv'
<1>1. Becomes(p, Idle) /\ UNCHANGED <<active, sent, match>> /\ ev[p].pc = "score"
  BY DEF ScoreFails, userVars
<1>2. IsEvaluator(Idle) /\ Idle.pc \notin InWindowPc
  BY IdleTyped DEF InWindowPc
<1> QED
  BY <1>1, <1>2, QuietStep, RowsUnchangedKeep

\* The rest of a run, after the match j.
LEMMA RestTyped ==
    ASSUME NEW e, IsEvaluator(e), NEW j
    PROVE  LET f == [e EXCEPT !.todo = @ \ {j}]
           IN  /\ IsEvaluator(f) /\ f.pc = e.pc /\ f.version = e.version /\ f.kind = e.kind
               /\ f.before = e.before
<1> DEFINE T == e.todo \ {j}
           f == [e EXCEPT !.todo = T]
<1>1. T \in SUBSET Jobs
  BY DEF IsEvaluator
<1>2. /\ IsEvaluator(f) /\ f.pc = e.pc /\ f.version = e.version /\ f.kind = e.kind
      /\ f.before = e.before
  <2> HIDE DEF T
  <2> QED BY <1>1 DEF IsEvaluator
<1> QED
  BY <1>2

LEMMA DecideFailsKeeps ==
    ASSUME MemoryInv, NEW p \in Evaluators, NEW j \in Jobs, DecideFails(p, j), TrackRaces
    PROVE  MemoryInv'
<1> DEFINE f == [ev[p] EXCEPT !.todo = @ \ {j}]
           e == IF ev[p].kind = "reconcile" THEN Onward(f) ELSE Idle
<1>1. /\ Becomes(p, e) /\ UNCHANGED <<active, sent, match>> /\ ev[p].pc = "decide"
      /\ IsEvaluator(ev[p])
  BY DEF DecideFails, userVars, MemoryInv, Typed
<1>2. IsEvaluator(f)
  BY <1>1, RestTyped
<1>3. IsEvaluator(e) /\ e.pc \notin InWindowPc
  <2> HIDE DEF f
  <2> QED BY <1>2, OnwardTyped, IdleTyped DEF InWindowPc
<1> HIDE DEF e
<1> QED
  BY <1>1, <1>3, QuietStep, RowsUnchangedKeep

-----------------------------------------------------------------------------
\* The decision erases the score to compare with; a reconciliation that asks for
\* an announcement does so for a job nobody was told about, or for an upgrade.
LEMMA DecideKeeps ==
    ASSUME MemoryInv, NEW p \in Evaluators, NEW j \in Jobs, Decide(p, j), TrackRaces
    PROVE  MemoryInv'
<1> DEFINE v == ev[p].version
           row == Decided(match[v][j], j)
           rest == [ev[p] EXCEPT !.todo = @ \ {j}]
           c == [rest EXCEPT !.pc = "check", !.at = j]
           e == IF announces(ev[p], j, row.opp) THEN c ELSE Onward(rest)
<1>1. /\ match' = [match EXCEPT ![v][j] = row] /\ Becomes(p, e)
      /\ UNCHANGED <<active, sent>> /\ ev[p].pc = "decide"
  BY DEF Decide, userVars
<1>2. IsEvaluator(ev[p]) /\ IsMatch(match) /\ v \in Versions
  BY DEF MemoryInv, Typed, IsEvaluator
<1>3. IsEvaluator(rest) /\ rest.version = v /\ rest.kind = ev[p].kind /\ rest.before = ev[p].before
  BY <1>2, RestTyped
<1>4. /\ IsEvaluator(c) /\ c.pc = "check" /\ c.at = j /\ c.version = v
      /\ c.kind = ev[p].kind /\ c.before = ev[p].before
  <2> HIDE DEF rest, v
  <2> QED BY <1>3 DEF IsEvaluator, InWindowPc
<1>5. IsEvaluator(Onward(rest)) /\ Onward(rest).pc \notin InWindowPc
  BY <1>3, OnwardTyped
<1>6. match' = [w \in Versions |-> [i \in Jobs |-> IF w = v /\ i = j THEN row ELSE match[w][i]]]
  BY <1>1, <1>2 DEF IsMatch
<1>7. IsRow(row) /\ KeepsMemory(match[v][j], row) /\ row.notifiedScore = NoNumber
  BY <1>2, RowsTyped DEF IsMatch
<1>8. RowsKeepMemory
  BY <1>2, <1>6, <1>7 DEF RowsKeepMemory, IsMatch, KeepsMemory
<1>9. CASE ~announces(ev[p], j, row.opp)
  <2>1. Becomes(p, Onward(rest))
    BY <1>1, <1>9
  <2> QED
    BY <1>1, <1>5, <1>8, <2>1, QuietStep
<1>10. CASE announces(ev[p], j, row.opp)
  <2>1. Becomes(p, c)
    BY <1>1, <1>10
  <2>2. match'[c.version][c.at].notifiedScore = NoNumber
    BY <1>2, <1>4, <1>6, <1>7
  <2>3. ASSUME c.kind = "reconcile", j \notin raced'
        PROVE  sent[j] = <<>> \/ WasBelow(ev[p].before[j])
    <3>1. CASE ~jobEverNotified(j)
      <4> SUFFICES ASSUME sent[j] # <<>> PROVE FALSE
        OBVIOUS
      <4>1. \E S : sent[j] \in Seq(S)
        BY DEF MemoryInv, Typed
      <4>2. 1 \in DOMAIN sent[j]
        BY <4>1
      <4>3. sent[j][1].version \in Versions /\ HasMessage(sent[j][1].version, j)
        BY <4>2 DEF MemoryInv, Typed, HasMessage
      <4>4. j \in Jobs \ raced /\ Alone'
        BY <2>3, RacesTracked
      <4>5. PICK q \in Evaluators : ev[q].pc = "recordSent" /\ ev[q].at = j
        BY <3>1, <4>3, <4>4 DEF MemoryInv, Remembered, jobEverNotified
      <4>6. q # p /\ ev'[q] = ev[q] /\ ev'[p] = c
        <5>1. q # p
          BY <1>1, <4>5
        <5> HIDE DEF c
        <5>2. ev' = [o \in Evaluators |-> IF o = p THEN c ELSE ev[o]]
          BY <2>1, BecomesProp
        <5> QED
          BY <5>1, <5>2
      <4>7. c.pc = "check" /\ c.at = j
        BY <1>4
      <4> HIDE DEF c
      <4> QED
        BY <2>3, <4>4, <4>5, <4>6, <4>7 DEF Alone, InWindow
    <3>2. CASE ev[p].before[j] # NoNumber /\ verdictOf(ev[p].before[j]) # "APPLY"
      BY <3>2 DEF WasBelow
    <3> QED
      BY <1>4, <1>10, <2>3, <3>1, <3>2 DEF announces
  <2> HIDE DEF c
  <2> QED
    BY <1>1, <1>4, <1>8, <2>1, <2>2, <2>3, GoesOn
<1> QED
  BY <1>9, <1>10

\* What is worth announcing after the erasure was not announced: the message is
\* the first about this match.
LEMMA CheckKeeps ==
    ASSUME MemoryInv, NEW p \in Evaluators, Check(p), TrackRaces
    PROVE  MemoryInv'
<1> DEFINE v == ev[p].version
           j == ev[p].at
           opp == Row(p).opp
           s == [ev[p] EXCEPT !.pc = "send", !.opp = opp]
<1>1. /\ Becomes(p, IF worthAnnouncing(Row(p), j) THEN s ELSE Onward(ev[p]))
      /\ UNCHANGED <<active, sent, match>> /\ ev[p].pc = "check"
  BY DEF Check, userVars
<1>2. IsEvaluator(ev[p]) /\ v \in Versions /\ j \in Jobs
  BY <1>1 DEF MemoryInv, Typed, IsEvaluator, InWindowPc
<1>3. CASE ~worthAnnouncing(Row(p), j)
  <2>1. Becomes(p, Onward(ev[p]))
    BY <1>1, <1>3
  <2> QED
    BY <1>1, <1>2, <2>1, OnwardTyped, QuietStep, RowsUnchangedKeep
<1>4. CASE worthAnnouncing(Row(p), j)
  <2>1. Becomes(p, s)
    BY <1>1, <1>4
  <2>2. /\ IsEvaluator(s) /\ s.pc = "send" /\ s.at = j /\ s.version = v
        /\ s.kind = ev[p].kind /\ s.before = ev[p].before
    <3> HIDE DEF opp
    <3> QED BY <1>1, <1>2 DEF IsEvaluator, InWindowPc
  <2>3. raced \subseteq raced'
    BY RacesTracked
  <2>4. ASSUME j \notin raced' PROVE ~HasMessage(v, j)
    <3>1. match[v][j].notifiedScore = NoNumber
      BY <1>1, <1>2, <2>3, <2>4 DEF MemoryInv, Erased
    <3>2. ~match[v][j].notified
      BY <1>4, <3>1 DEF worthAnnouncing, Row
    <3>3. ASSUME NEW q \in Evaluators, ev[q].pc = "recordSent", ev[q].at = j PROVE FALSE
      BY <1>1, <1>2, <2>3, <2>4, <3>3 DEF MemoryInv, Alone, InWindow
    <3> QED
      BY <1>2, <2>3, <2>4, <3>2, <3>3 DEF MemoryInv, Remembered
  <2>5. (ev[p].kind = "reconcile" /\ j \notin raced') =>
           sent[j] = <<>> \/ WasBelow(ev[p].before[j])
    BY <1>1, <1>2, <2>3 DEF MemoryInv, SpeaksFirst
  <2> HIDE DEF s
  <2> QED
    BY <1>1, <2>1, <2>2, <2>4, <2>5, GoesOn, RowsUnchangedKeep
<1> QED
  BY <1>3, <1>4

\* The message: the only one about the match, so far.
LEMMA SendKeeps ==
    ASSUME MemoryInv, NEW p \in Evaluators, Send(p), TrackRaces
    PROVE  MemoryInv'
<1> DEFINE v == ev[p].version
           j == ev[p].at
           m == Message(p)
           e == [ev[p] EXCEPT !.pc = "recordSent"]
           n == Len(sent[j])
<1>1. /\ sent' = [sent EXCEPT ![j] = Append(@, m)] /\ Becomes(p, e)
      /\ UNCHANGED <<active, match>> /\ ev[p].pc = "send"
  BY DEF Send, userVars
<1>2. IsEvaluator(ev[p]) /\ v \in Versions /\ j \in Jobs
  BY <1>1 DEF MemoryInv, Typed, IsEvaluator, InWindowPc
<1>3. /\ IsEvaluator(e) /\ e.pc = "recordSent" /\ e.at = j /\ e.version = v
  BY <1>2 DEF IsEvaluator, InWindowPc
<1>4. /\ ev' = [q \in Evaluators |-> IF q = p THEN e ELSE ev[q]]
      /\ sent' = [i \in Jobs |-> IF i = j THEN Append(sent[j], m) ELSE sent[i]]
      /\ raced \subseteq raced' /\ Alone'
  <2> HIDE DEF e, m
  <2> QED BY <1>1, RacesTracked DEF Becomes, MemoryInv, Typed
<1>5. /\ m.version = v /\ m.by = ev[p].kind /\ m.before = ev[p].before[j]
  BY DEF Message
<1>6. /\ \E S : sent'[j] \in Seq(S)
      /\ n \in Nat /\ DOMAIN sent[j] = 1 .. n /\ Len(sent'[j]) = n + 1
      /\ DOMAIN sent'[j] = 1 .. (n + 1)
      /\ \A k \in 1 .. n : sent'[j][k] = sent[j][k]
      /\ sent'[j][n + 1] = m
  <2>1. PICK S : sent[j] \in Seq(S)
    BY <1>2 DEF MemoryInv, Typed
  <2>2. sent[j] \in Seq(S \cup {m})
    BY <2>1, SeqMonotonic
  <2>3. sent'[j] = Append(sent[j], m)
    BY <1>2, <1>4
  <2> HIDE DEF m
  <2> QED
    BY <2>2, <2>3, AppendProperties
<1> HIDE DEF e, m, n
<1>7. \A i \in Jobs \ {j} : sent'[i] = sent[i]
  BY <1>4
<1>8. ASSUME NEW q \in Evaluators, InWindow(ev[q], j), j \notin raced' PROVE q = p
  <2>1. j \in Jobs \ raced
    BY <1>2, <1>4, <1>8
  <2>2. InWindow(ev[p], j)
    BY <1>1 DEF InWindow
  <2> QED
    BY <1>8, <2>1, <2>2 DEF MemoryInv, Alone
<1>9. Typed'
  <2>1. sent' = [i \in Jobs |-> sent'[i]]
    BY <1>4
  <2>2. \A i \in Jobs : \E S : sent'[i] \in Seq(S)
    BY <1>6, <1>7 DEF MemoryInv, Typed
  <2>3. ASSUME NEW i \in Jobs, NEW k \in DOMAIN sent'[i] PROVE sent'[i][k].version \in Versions
    <3>1. CASE i = j
      <4>1. \A l \in 1 .. n : sent[j][l].version \in Versions
        BY <1>2, <1>6 DEF MemoryInv, Typed
      <4> QED
        BY <1>2, <1>5, <1>6, <3>1, <4>1
    <3>2. CASE i # j
      BY <1>7, <3>2 DEF MemoryInv, Typed
    <3> QED
      BY <3>1, <3>2
  <2>4. ev' = [q \in Evaluators |-> ev'[q]] /\ \A q \in Evaluators : IsEvaluator(ev'[q])
    BY <1>3, <1>4 DEF MemoryInv, Typed
  <2>5. (active \in Versions /\ IsMatch(match))'
    BY <1>1 DEF MemoryInv, Typed
  <2> QED
    BY <2>1, <2>2, <2>3, <2>4, <2>5 DEF Typed
<1>10. Remembered'
  <2> SUFFICES ASSUME NEW i \in Jobs \ raced', NEW w \in Versions, HasMessage(w, i)'
               PROVE  \/ match[w][i].notified
                      \/ \E q \in Evaluators :
                            ev'[q].pc = "recordSent" /\ ev'[q].at = i /\ ev'[q].version = w
    BY <1>1 DEF Remembered
  <2>1. CASE HasMessage(w, i)
    <3>1. ASSUME NEW q \in Evaluators, ev[q].pc = "recordSent"
          PROVE  ev'[q] = ev[q]
      BY <1>1, <1>4, <3>1
    <3> QED
      BY <1>4, <2>1, <3>1 DEF MemoryInv, Remembered
  <2>2. CASE ~HasMessage(w, i)
    <3>1. i = j
      BY <1>7, <2>2 DEF HasMessage
    <3>2. v = w
      BY <1>5, <1>6, <2>2, <3>1 DEF HasMessage
    <3> QED
      BY <1>3, <1>4, <3>1, <3>2
  <2> QED
    BY <2>1, <2>2
<1>11. Erased'
  <2> SUFFICES ASSUME NEW i \in Jobs \ raced', NEW q \in Evaluators, ev'[q].at = i,
                      ev'[q].pc \in {"check", "send"}
               PROVE  /\ ev'[q].pc = "check" =>
                             match[ev'[q].version][i].notifiedScore = NoNumber
                      /\ ev'[q].pc = "send" =>
                             \A k \in DOMAIN sent'[i] : sent'[i][k].version # ev'[q].version
    BY <1>1 DEF Erased, HasMessage
  <2>1. q # p /\ ev'[q] = ev[q]
    BY <1>3, <1>4
  <2>2. i # j
    BY <1>8, <2>1 DEF InWindow
  <2>3. sent'[i] = sent[i]
    BY <1>7, <2>2
  <2>4. i \in Jobs \ raced /\ ev[q].at = i
    BY <1>4, <2>1
  <2>5. /\ ev[q].pc = "check" => match[ev[q].version][i].notifiedScore = NoNumber
        /\ ev[q].pc = "send" => ~HasMessage(ev[q].version, i)
    BY <2>4 DEF MemoryInv, Erased
  <2> QED
    BY <2>1, <2>3, <2>5 DEF HasMessage
<1>12. OncePerVersion'
  <2> SUFFICES ASSUME NEW i \in Jobs \ raced', NEW k \in DOMAIN sent'[i], NEW l \in DOMAIN sent'[i],
                      sent'[i][k].version = sent'[i][l].version
               PROVE  k = l
    BY DEF OncePerVersion
  <2>1. CASE i # j
    BY <1>4, <1>7, <2>1 DEF MemoryInv, OncePerVersion
  <2>2. CASE i = j
    <3>1. \A o \in 1 .. n : sent[j][o].version # v
      BY <1>1, <1>2, <1>4, <1>6, <2>2 DEF MemoryInv, Erased, HasMessage
    <3>2. \A o \in 1 .. n : sent'[j][o].version # sent'[j][n + 1].version
      BY <1>5, <1>6, <3>1
    <3>3. CASE k \in 1 .. n /\ l \in 1 .. n
      <4>1. sent[j][k].version = sent[j][l].version
        BY <1>6, <2>2, <3>3
      <4>2. k \in DOMAIN sent[j] /\ l \in DOMAIN sent[j] /\ j \in Jobs \ raced
        BY <1>4, <1>6, <2>2, <3>3
      <4> QED
        BY <4>1, <4>2 DEF MemoryInv, OncePerVersion
    <3> QED
      BY <1>6, <2>2, <3>2, <3>3
  <2> QED
    BY <2>1, <2>2
<1>13. SpeaksFirst'
  <2> SUFFICES ASSUME NEW i \in Jobs \ raced', NEW q \in Evaluators, ev'[q].kind = "reconcile",
                      ev'[q].pc \in {"check", "send"}, ev'[q].at = i
               PROVE  sent'[i] = <<>> \/ WasBelow(ev'[q].before[i])
    BY DEF SpeaksFirst
  <2>1. q # p /\ ev'[q] = ev[q]
    BY <1>3, <1>4
  <2>2. i # j
    BY <1>8, <2>1 DEF InWindow
  <2> QED
    BY <1>4, <1>7, <2>1, <2>2 DEF MemoryInv, SpeaksFirst
<1>14. SeenIsNotReannounced'
  <2> SUFFICES ASSUME NEW i \in Jobs \ raced', NEW k \in 2 .. Len(sent'[i]),
                      sent'[i][k].by = "reconcile"
               PROVE  WasBelow(sent'[i][k].before)
    BY DEF SeenIsNotReannounced, WasBelow
  <2>1. CASE i # j
    BY <1>4, <1>7, <2>1 DEF MemoryInv, SeenIsNotReannounced, WasBelow
  <2>2. CASE i = j /\ k \in 2 .. n
    BY <1>4, <1>6, <2>2 DEF MemoryInv, SeenIsNotReannounced, WasBelow, n
  <2>3. CASE i = j /\ k = n + 1
    <3>1. sent[j] # <<>>
      BY <1>6, <2>3 DEF n
    <3>2. sent'[j][k] = m
      BY <1>6, <2>3
    <3> QED
      BY <1>1, <1>2, <1>4, <1>5, <2>3, <3>1, <3>2 DEF MemoryInv, SpeaksFirst
  <2> QED
    BY <1>6, <2>1, <2>2, <2>3
<1> QED
  BY <1>4, <1>9, <1>10, <1>11, <1>12, <1>13, <1>14 DEF MemoryInv

\* The memory of the message.
LEMMA RecordSentKeeps ==
    ASSUME MemoryInv, NEW p \in Evaluators, RecordSent(p), TrackRaces
    PROVE  MemoryInv'
<1> DEFINE v == ev[p].version
           j == ev[p].at
           e == Onward(ev[p])
           row == [match[v][j] EXCEPT !.notified = TRUE, !.notifiedScore = ev[p].opp]
<1>1. /\ Becomes(p, e) /\ UNCHANGED <<active, sent>> /\ ev[p].pc = "recordSent"
      /\ match' = [match EXCEPT ![v][j].notified = TRUE, ![v][j].notifiedScore = ev[p].opp]
  BY DEF RecordSent, userVars
<1>2. IsEvaluator(ev[p]) /\ v \in Versions /\ j \in Jobs /\ IsMatch(match)
  BY <1>1 DEF MemoryInv, Typed, IsEvaluator, InWindowPc
<1>3. IsEvaluator(e) /\ e.pc \notin InWindowPc
  BY <1>2, OnwardTyped
<1>4. match' = [w \in Versions |-> [i \in Jobs |-> IF w = v /\ i = j THEN row ELSE match[w][i]]]
  BY <1>1, <1>2 DEF IsMatch
<1>5. IsRow(row) /\ row.notified
  <2>1. IsRow(match[v][j])
    BY <1>2 DEF IsMatch
  <2>2. IsRow(row) /\ row.notified = TRUE
    BY <2>1 DEF IsRow
  <2> HIDE DEF row
  <2> QED
    BY <2>2
<1> HIDE DEF e, row
<1>6. /\ ev' = [q \in Evaluators |-> IF q = p THEN e ELSE ev[q]]
      /\ raced \subseteq raced' /\ Alone'
  BY <1>1, BecomesProp, RacesTracked
<1>7. Typed'
  <2>1. IsMatch(match')
    BY <1>2, <1>4, <1>5 DEF IsMatch
  <2> QED
    BY <1>1, <1>3, <1>6, <2>1 DEF MemoryInv, Typed
<1>8. ASSUME NEW q \in Evaluators, InWindow(ev[q], j), j \notin raced' PROVE q = p
  <2>1. j \in Jobs \ raced
    BY <1>2, <1>6, <1>8
  <2>2. InWindow(ev[p], j)
    BY <1>1 DEF InWindow
  <2> QED
    BY <1>8, <2>1, <2>2 DEF MemoryInv, Alone
<1>9. Remembered'
  <2>3. \A w, i : HasMessage(w, i)' <=> HasMessage(w, i)
    BY <1>1 DEF HasMessage
  <2> SUFFICES ASSUME NEW i \in Jobs \ raced', NEW w \in Versions, HasMessage(w, i)
               PROVE  \/ match'[w][i].notified
                      \/ \E q \in Evaluators :
                            ev'[q].pc = "recordSent" /\ ev'[q].at = i /\ ev'[q].version = w
    BY <2>3 DEF Remembered
  <2>1. CASE w = v /\ i = j
    BY <1>4, <1>5, <2>1
  <2>2. CASE ~(w = v /\ i = j)
    <3>1. match'[w][i] = match[w][i]
      BY <1>4, <2>2
    <3>2. ASSUME NEW q \in Evaluators, ev[q].pc = "recordSent", ev[q].at = i, ev[q].version = w
          PROVE  ev'[q] = ev[q]
      <4>1. q # p
        BY <2>2, <3>2
      <4> QED
        BY <1>6, <4>1
    <3> QED
      BY <1>6, <3>1, <3>2 DEF MemoryInv, Remembered
  <2> QED
    BY <2>1, <2>2
<1>10. ASSUME NEW i \in Jobs \ raced', NEW q \in Evaluators, ev'[q].at = i,
              ev'[q].pc \in {"check", "send"}
       PROVE  /\ i \in Jobs \ raced /\ i # j /\ ev'[q] = ev[q]
              /\ match'[ev[q].version][i] = match[ev[q].version][i]
  <2>1. q # p /\ ev'[q] = ev[q]
    BY <1>3, <1>6, <1>10 DEF InWindowPc
  <2>2. i # j
    BY <1>8, <1>10, <2>1 DEF InWindow
  <2>3. ev[q].version \in Versions
    BY DEF MemoryInv, Typed, IsEvaluator
  <2> QED
    BY <1>4, <1>6, <2>1, <2>2, <2>3
<1>11. Erased'
  <2>1. \A w, i : HasMessage(w, i)' <=> HasMessage(w, i)
    BY <1>1 DEF HasMessage
  <2> SUFFICES ASSUME NEW i \in Jobs \ raced', NEW q \in Evaluators, ev'[q].at = i,
                      ev'[q].pc \in {"check", "send"}
               PROVE  /\ ev'[q].pc = "check" =>
                             match'[ev'[q].version][i].notifiedScore = NoNumber
                      /\ ev'[q].pc = "send" => ~HasMessage(ev'[q].version, i)
    BY <2>1 DEF Erased
  <2>2. /\ i \in Jobs \ raced /\ ev'[q] = ev[q]
        /\ match'[ev[q].version][i] = match[ev[q].version][i]
    BY <1>10
  <2> QED
    BY <2>2 DEF MemoryInv, Erased
<1>12. OncePerVersion' /\ SeenIsNotReannounced'
  BY <1>1, <1>6 DEF MemoryInv, OncePerVersion, SeenIsNotReannounced
<1>13. SpeaksFirst'
  BY <1>1, <1>10 DEF MemoryInv, SpeaksFirst
<1> QED
  BY <1>6, <1>7, <1>9, <1>11, <1>12, <1>13 DEF MemoryInv

\* A crash between a message and its memory counts as a race.
LEMMA CrashKeeps ==
    ASSUME MemoryInv, Crash
    PROVE  MemoryInv'
<1>1. /\ ev' = [p \in Evaluators |-> Idle] /\ UNCHANGED <<active, sent, match>>
      /\ raced' = raced \cup {ev[p].at : p \in {q \in Evaluators : ev[q].pc = "recordSent"}}
  BY DEF Crash, userVars
<1>2. \A p \in Evaluators : ev'[p].pc = "idle"
  BY <1>1, IdleTyped
<1>3. Typed'
  BY <1>1, IdleTyped DEF MemoryInv, Typed
<1>4. Remembered'
  BY <1>1 DEF MemoryInv, Remembered, HasMessage
<1>5. Alone' /\ Erased' /\ SpeaksFirst'
  BY <1>2 DEF Alone, InWindow, Erased, SpeaksFirst
<1>6. OncePerVersion' /\ SeenIsNotReannounced'
  BY <1>1 DEF MemoryInv, OncePerVersion, SeenIsNotReannounced
<1> QED
  BY <1>3, <1>4, <1>5, <1>6 DEF MemoryInv

\* What happens beside the evaluators takes no memory from a row.
LEMMA OthersKeep ==
    ASSUME MemoryInv, UNCHANGED <<ev, sent, raced>>, active' \in Versions, RowsKeepMemory
    PROVE  MemoryInv'
<1>1. Typed'
  BY DEF MemoryInv, Typed, RowsKeepMemory
<1>2. Remembered'
  BY DEF MemoryInv, Remembered, HasMessage, RowsKeepMemory, KeepsMemory
<1>3. Erased'
  <2>1. \A p \in Evaluators : ev[p].version \in Versions
    BY DEF MemoryInv, Typed, IsEvaluator
  <2> QED
    BY <2>1 DEF MemoryInv, Erased, HasMessage, RowsKeepMemory, KeepsMemory
<1>4. Alone' /\ OncePerVersion' /\ SpeaksFirst' /\ SeenIsNotReannounced'
  BY DEF MemoryInv, Alone, OncePerVersion, SpeaksFirst, SeenIsNotReannounced
<1> QED
  BY <1>1, <1>2, <1>3, <1>4 DEF MemoryInv

LEMMA SaveProfileKeeps ==
    ASSUME MemoryInv, NEW y, SaveProfile(y)
    PROVE  MemoryInv'
<1>1. /\ UNCHANGED <<active, ev, sent, raced>> /\ IsMatch(match) /\ active \in Versions
      /\ match' = [match EXCEPT ![active] = [j \in Jobs |-> [@[j] EXCEPT !.current = FALSE]]]
  BY DEF SaveProfile, MemoryInv, Typed
<1>2. match' = [w \in Versions |-> [j \in Jobs |->
                   IF w = active THEN [match[w][j] EXCEPT !.current = FALSE] ELSE match[w][j]]]
  BY <1>1 DEF IsMatch
<1>3. RowsKeepMemory
  <2>1. ASSUME NEW w \in Versions, NEW j \in Jobs
        PROVE  IsRow(match'[w][j]) /\ KeepsMemory(match[w][j], match'[w][j])
    <3>1. IsRow(match[w][j])
      BY <1>1 DEF IsMatch
    <3> QED
      BY <1>2, <3>1, RowsTyped DEF KeepsMemory
  <2> QED
    BY <1>2, <2>1 DEF RowsKeepMemory, IsMatch
<1> QED
  BY <1>1, <1>3, OthersKeep

LEMMA UserStepKeeps ==
    ASSUME MemoryInv, UserStep
    PROVE  MemoryInv'
<1>1. CASE Activate
  <2>1. UNCHANGED <<ev, sent, raced, match>> /\ active' \in Versions
    BY <1>1, MatchConstants DEF Activate, MemoryInv, Typed, Versions
  <2> QED
    BY <2>1, OthersKeep, RowsUnchangedKeep
<1>2. ASSUME NEW d, NEW a, setCareerPreference(d, a) PROVE MemoryInv'
  <2>1. UNCHANGED <<ev, sent, raced, match, active>>
    BY <1>2 DEF setCareerPreference
  <2> QED
    BY <2>1, OthersKeep, RowsUnchangedKeep DEF MemoryInv, Typed
<1>3. ASSUME NEW j, Apply(j) PROVE MemoryInv'
  <2>1. UNCHANGED <<ev, sent, raced, match, active>>
    BY <1>3 DEF Apply
  <2> QED
    BY <2>1, OthersKeep, RowsUnchangedKeep DEF MemoryInv, Typed
<1> QED
  BY <1>1, <1>2, <1>3, SaveProfileKeeps DEF UserStep

LEMMA NextKeepsMemory ==
    ASSUME MemoryInv, [MatchNext]_matchVars
    PROVE  MemoryInv'
<1>1. CASE UNCHANGED matchVars
  BY <1>1, OthersKeep, RowsUnchangedKeep DEF matchVars, userVars, MemoryInv, Typed
<1>2. ASSUME NEW p \in Evaluators, BeltTick(p) \/ OtherStart(p) PROVE MemoryInv'
  BY <1>2, StartKeeps DEF BeltTick, OtherStart
<1>3. ASSUME NEW p \in Evaluators, EvaluatorStep(p) PROVE MemoryInv'
  BY <1>3, ClassifyKeeps, JudgeKeeps, RecordGateDecisionKeeps, ScoreAndUpsertKeeps, DecideKeeps,
     CheckKeeps, SendKeeps, RecordSentKeeps DEF EvaluatorStep
<1>4. ASSUME NEW p \in Evaluators, EvaluatorFault(p) PROVE MemoryInv'
  BY <1>4, ClassifyKeeps, ScoreFailsKeeps, DecideFailsKeeps DEF EvaluatorFault
<1>5. ASSUME NEW j, Hydrate(j) \/ FactsChange(j) PROVE MemoryInv'
  <2>1. UNCHANGED <<ev, sent, raced, match, active>>
    BY <1>5 DEF Hydrate, FactsChange, userVars
  <2> QED
    BY <2>1, OthersKeep, RowsUnchangedKeep DEF MemoryInv, Typed
<1> QED
  BY <1>1, <1>2, <1>3, <1>4, <1>5, UserStepKeeps, CrashKeeps DEF MatchNext

LEMMA InitMemory == MatchInit => MemoryInv
<1> SUFFICES ASSUME MatchInit PROVE MemoryInv
  OBVIOUS
<1>1. /\ match = [v \in Versions |-> [j \in Jobs |-> NoRow]] /\ active = 1
      /\ ev = [p \in Evaluators |-> Idle] /\ sent = [j \in Jobs |-> <<>>]
  BY DEF MatchInit
<1>2. IsRow(NoRow)
  BY DEF IsRow, NoRow
<1>3. Typed
  <2>1. active \in Versions
    BY <1>1, MatchConstants DEF Versions
  <2>2. IsMatch(match)
    BY <1>1, <1>2 DEF IsMatch
  <2>3. \A j \in Jobs : sent[j] = <<>> /\ sent[j] \in Seq({})
    BY <1>1
  <2> QED
    BY <1>1, <2>1, <2>2, <2>3, IdleTyped DEF Typed
<1>4. \A j \in Jobs : sent[j] = <<>>
  BY <1>1
<1>5. Remembered /\ OncePerVersion /\ SeenIsNotReannounced
  BY <1>4 DEF Remembered, HasMessage, OncePerVersion, SeenIsNotReannounced
<1>6. Alone /\ Erased /\ SpeaksFirst
  <2>1. \A p \in Evaluators : ev[p].pc = "idle"
    BY <1>1, IdleTyped
  <2> QED
    BY <2>1 DEF Alone, InWindow, Erased, SpeaksFirst
<1> QED
  BY <1>3, <1>5, <1>6 DEF MemoryInv

\* The memory of the announcements is sound for every job whose announcements
\* did not race.
THEOREM MemoryInvariance == MatchSpec => []MemoryInv
BY InitMemory, NextKeepsMemory, PTL DEF MatchSpec

\* Never twice for the same match, unless two evaluations of it overlapped or one
\* died between the message and the memory of it.
THEOREM ToldOncePerMatch == MatchSpec => []OnceUnlessRaced
<1>1. MemoryInv => OnceUnlessRaced
  <2> SUFFICES ASSUME MemoryInv, NEW j \in Jobs \ raced, NEW v \in Versions
               PROVE  Cardinality(MessagesOf(j, v)) <= 1
    BY DEF OnceUnlessRaced
  <2>1. \A k, l \in MessagesOf(j, v) : k = l
    BY DEF MemoryInv, OncePerVersion, MessagesOf
  <2>2. CASE MessagesOf(j, v) = {}
    BY <2>2, FS_EmptySet
  <2>3. ASSUME NEW k \in MessagesOf(j, v) PROVE Cardinality(MessagesOf(j, v)) <= 1
    <3>1. MessagesOf(j, v) = {k}
      BY <2>1, <2>3
    <3>2. Cardinality({k}) = 1
      BY FS_Singleton
    <3> QED
      BY <3>1, <3>2
  <2> QED
    BY <2>2, <2>3
<1> QED
  BY <1>1, MemoryInvariance, PTL

\* What was announced stays remembered, whatever is done to the row afterwards.
THEOREM AnnouncementsRemembered == MatchSpec => []AnnouncedIsRemembered
<1>1. MemoryInv => AnnouncedIsRemembered
  BY DEF MemoryInv, Remembered, HasMessage, AnnouncedIsRemembered, MessagesOf
<1> QED
  BY <1>1, MemoryInvariance, PTL

\* A reconciliation speaks of a job a second time only when the job was below
\* APPLY under the version before.
THEOREM NewVersionsDoNotRepeat == MatchSpec => []SeenIsNotReannounced
<1>1. MemoryInv => SeenIsNotReannounced
  BY DEF MemoryInv
<1> QED
  BY <1>1, MemoryInvariance, PTL

=============================================================================
