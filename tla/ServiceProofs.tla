--------------------------- MODULE ServiceProofs ----------------------------
(***************************************************************************)
(* Theorems about the services that act for the user: the mailbox          *)
(* (Mailbox), the money spent on models (AiSpend), the contacts asked for  *)
(* referrals (Outreach) and the applications (ApplicationTracker).  The    *)
(* four share no state; each part has its own specification.               *)
(***************************************************************************)
EXTENDS Mailbox, AiSpend, Outreach, ApplicationTracker, FiniteSetTheorems, TLAPS

Numbered == 0 .. issued

(***************************************************************************)
(* Well formed: every token that is stored, exchanged or about to be asked *)
(* with has been issued, so a grant still to come is none of them.         *)
(***************************************************************************)
MailTypeOK ==
    /\ issued \in Nat
    /\ grants \subseteq Numbered
    /\ connection \in [refresh : Numbered, status : {"none", "ACTIVE", "NEEDS_RECONSENT"}]
    /\ consent \in [Consents -> Numbered]
    /\ poll \in [Pollers -> [pc : {"calm", "ask", "dead"}, refresh : Numbered,
                              why : {"none", "unavailable", "token", "invalid_grant",
                                     "invalid_client"}]]

\* A request that was told invalid_grant holds a token that is no longer good, and
\* never will be again; the only other way to give up is invalid_client.
DeadStaysDead ==
    \A p \in Pollers :
        poll[p].pc = "dead" => poll[p].refresh \notin grants \/ poll[p].why = "invalid_client"

MailInv == MailTypeOK /\ DeadStaysDead

-----------------------------------------------------------------------------
LEMMA MailInitInv == MailInit => MailInv
BY DEF MailInit, MailInv, MailTypeOK, DeadStaysDead, NoConnection, Calm, Numbered

LEMMA MailNextInv == MailInv /\ [MailNext]_mailVars => MailInv'
<1> SUFFICES ASSUME MailInv, [MailNext]_mailVars
             PROVE  MailInv'
    OBVIOUS
<1> USE DEF MailInv, MailTypeOK, DeadStaysDead, Numbered
<1>1. CASE EndGrant
    BY <1>1 DEF EndGrant
<1>2. ASSUME NEW c \in Consents, Exchange(c)
      PROVE  MailInv'
    BY <1>2 DEF Exchange
<1>3. ASSUME NEW c \in Consents, StoreConnection(c)
      PROVE  MailInv'
    BY <1>3 DEF StoreConnection
<1>4. ASSUME NEW c \in Consents, ExchangeFails(c)
      PROVE  MailInv'
    BY <1>4 DEF ExchangeFails
<1>5. ASSUME NEW p \in Pollers, ReadConnection(p)
      PROVE  MailInv'
    BY <1>5 DEF ReadConnection
<1>6. ASSUME NEW p \in Pollers, AskGoogle(p)
      PROVE  MailInv'
  <2>1. PICK answer \in GoogleAnswers(poll[p].refresh) :
           poll' = [poll EXCEPT ![p] = IF isDeadGrant(answer)
                                       THEN [pc |-> "dead", refresh |-> poll[p].refresh,
                                             why |-> answer]
                                       ELSE Calm]
      BY <1>6 DEF AskGoogle
  <2>2. UNCHANGED <<client, grants, issued, connection, consent>>
      BY <1>6 DEF AskGoogle
  <2>3. isDeadGrant(answer) => poll[p].refresh \notin grants \/ answer = "invalid_client"
      BY DEF GoogleAnswers, isDeadGrant
  <2>4. answer \in {"unavailable", "token", "invalid_grant", "invalid_client"}
      BY DEF GoogleAnswers
  <2>5. CASE isDeadGrant(answer)
      BY <2>1, <2>2, <2>3, <2>4, <2>5
  <2>6. CASE ~isDeadGrant(answer)
      BY <2>1, <2>2, <2>6 DEF Calm
  <2> QED
      BY <2>5, <2>6
<1>7. ASSUME NEW p \in Pollers, MarkDead(p)
      PROVE  MailInv'
    BY <1>7 DEF MarkDead, Calm
<1>8. CASE UNCHANGED mailVars
    BY <1>8 DEF mailVars
<1>9. CASE ConfigureClient
    BY <1>9 DEF ConfigureClient
<1> QED
    BY <1>1, <1>2, <1>3, <1>4, <1>5, <1>6, <1>7, <1>8, <1>9 DEF MailNext

\* Whatever is stored or asked with has been issued, and what a dead grant's
\* request holds is not good: for any number of requests at once.
THEOREM MailboxInvariant == MailSpec => []MailInv
BY MailInitInv, MailNextInv, PTL DEF MailSpec

-----------------------------------------------------------------------------
\* Only MarkDead pauses an active mailbox.  If the stored token is good, the request
\* held another one, or was refused for the client's credentials.
LEMMA PausedByTheOvertaken ==
    ASSUME MailInv, MailNext,
           connection.status = "ACTIVE", connection.refresh \in grants,
           connection'.status = "NEEDS_RECONSENT"
    PROVE  \E p \in Pollers :
             /\ poll[p].pc = "dead"
             /\ poll[p].refresh # connection.refresh \/ poll[p].why = "invalid_client"
<1>1. CASE EndGrant \/ ConfigureClient
    BY <1>1 DEF EndGrant, ConfigureClient
<1>2. ASSUME NEW c \in Consents, Exchange(c) \/ StoreConnection(c) \/ ExchangeFails(c)
      PROVE  FALSE
    BY <1>2 DEF Exchange, StoreConnection, ExchangeFails
<1>3. ASSUME NEW p \in Pollers, ReadConnection(p) \/ AskGoogle(p)
      PROVE  FALSE
    BY <1>3 DEF ReadConnection, AskGoogle
<1>4. ASSUME NEW p \in Pollers, MarkDead(p)
      PROVE  /\ poll[p].pc = "dead"
             /\ poll[p].refresh # connection.refresh \/ poll[p].why = "invalid_client"
    BY <1>4 DEF MarkDead, MailInv, DeadStaysDead
<1> QED
    BY <1>1, <1>2, <1>3, <1>4 DEF MailNext

\* A mailbox whose grant is good is paused only by a request overtaken by a new
\* consent, or refused for our own credentials: its owner never loses it to a
\* transient failure, however many requests and consents interleave.
THEOREM MailboxKeptAlive == MailSpec => OnlyOvertakenPausesAMailbox
<1>1. MailInv /\ [MailNext]_mailVars =>
        [connection.status = "ACTIVE" /\ connection.refresh \in grants
           /\ connection'.status = "NEEDS_RECONSENT"
           => \E p \in Pollers :
                /\ poll[p].pc = "dead"
                /\ poll[p].refresh # connection.refresh
                   \/ poll[p].why = "invalid_client"]_mailVars
    BY PausedByTheOvertaken
<1> QED
    BY <1>1, MailboxInvariant, PTL DEF MailSpec, OnlyOvertakenPausesAMailbox

-----------------------------------------------------------------------------
(***************************************************************************)
(* AiSpend.  A unit of the bill is on a usage row, on its way to one, or   *)
(* lost; and what may still be spent is counted in tokens: the calls left  *)
(* to the ticks that have begun, the requests left to the calls that were  *)
(* under way when the circuit opened.                                      *)
(***************************************************************************)
SpendTypeOK ==
    /\ call \in [Spenders -> [pc : {"idle", "next", "request"}, left : 0 .. TickCalls,
                              attempt : 0 .. MAX_RETRIES]]
    /\ \A c \in Spenders : /\ call[c].pc # "idle" => call[c].left > 0
                           /\ call[c].pc = "request" => call[c].attempt > 0
    /\ circuit \in {"open", "closed"} /\ priced \in BOOLEAN
    /\ {spent, inflight, billed, unseen, others, late, hammered} \subseteq Nat

Accounted == billed = spent + inflight + unseen

\* The calls a belt has still to make.
CallsLeft(t) == {k \in Belts \X (1 .. TickCalls) : t[k[1]].pc # "idle" /\ k[2] <= t[k[1]].left}

Ceiling == IF Budget = 0 THEN 0 ELSE Budget - 1 + Cardinality(Belts) * TickCalls

SpendingAhead ==
    billed + Cardinality(CallsLeft(call)) <= Ceiling + late + unseen + others

\* The requests a caller may still send before it finds the circuit open.
RequestsLeft(t) ==
    {k \in Spenders \X (1 .. MAX_RETRIES) : t[k[1]].pc = "request" /\ t[k[1]].attempt <= k[2]}

RequestsAhead ==
    /\ circuit = "closed" => hammered = 0
    /\ circuit = "open" =>
          hammered + Cardinality(RequestsLeft(call)) <= (Cardinality(Spenders) - 1) * MAX_RETRIES

SpendInv == SpendTypeOK /\ Accounted /\ SpendingAhead /\ RequestsAhead

Slots == [pc : {"idle", "next", "request"}, left : 0 .. TickCalls, attempt : 0 .. MAX_RETRIES]

Callings == [Spenders -> Slots]

-----------------------------------------------------------------------------
\* Counting tokens: a part of a finite set without one of its elements is smaller.
LEMMA OneLess ==
    ASSUME NEW S, IsFiniteSet(S), NEW k \in S, NEW T, T \subseteq S \ {k}
    PROVE  Cardinality(T) \in Nat /\ Cardinality(T) + 1 <= Cardinality(S)
<1>1. IsFiniteSet(S \ {k}) /\ Cardinality(S \ {k}) = Cardinality(S) - 1
    BY FS_RemoveElement
<1>2. IsFiniteSet(T) /\ Cardinality(T) <= Cardinality(S \ {k})
    BY <1>1, FS_Subset
<1> QED
    BY <1>1, <1>2, FS_CardinalityType

LEMMA SpendersFinite ==
    /\ IsFiniteSet(Spenders) /\ IsFiniteSet(Belts)
    /\ Cardinality(Spenders) \in Nat \ {0} /\ Cardinality(Belts) \in Nat
    /\ TickCalls \in Nat \ {0} /\ MAX_RETRIES \in Nat \ {0} /\ Budget \in Nat
<1>1. IsFiniteSet(Spenders) /\ Belts \subseteq Spenders /\ Spenders # {}
    BY SpendConstants DEF Spenders
<1>2. IsFiniteSet(Belts)
    BY <1>1, FS_Subset
<1>3. Cardinality(Spenders) # 0
    BY <1>1, FS_EmptySet
<1> QED
    BY <1>1, <1>2, <1>3, FS_CardinalityType, SpendConstants

LEMMA TokensBounded ==
    ASSUME NEW t \in Callings
    PROVE  /\ IsFiniteSet(CallsLeft(t)) /\ Cardinality(CallsLeft(t)) \in Nat
           /\ Cardinality(CallsLeft(t)) <= Cardinality(Belts) * TickCalls
           /\ IsFiniteSet(RequestsLeft(t)) /\ Cardinality(RequestsLeft(t)) \in Nat
<1>1. /\ IsFiniteSet(1 .. TickCalls) /\ Cardinality(1 .. TickCalls) = TickCalls
      /\ IsFiniteSet(1 .. MAX_RETRIES)
  <2>1. 1 \in Int /\ TickCalls \in Int /\ MAX_RETRIES \in Int /\ TickCalls >= 1 /\ MAX_RETRIES >= 1
      BY SpendersFinite
  <2>2. Cardinality(1 .. TickCalls) = IF 1 > TickCalls THEN 0 ELSE TickCalls - 1 + 1
      BY <2>1, FS_Interval
  <2> QED
      BY <2>1, <2>2, FS_Interval
<1>2. /\ IsFiniteSet(Belts \X (1 .. TickCalls))
      /\ Cardinality(Belts \X (1 .. TickCalls)) = Cardinality(Belts) * TickCalls
      /\ IsFiniteSet(Spenders \X (1 .. MAX_RETRIES))
    BY <1>1, SpendersFinite, FS_Product
<1>3. CallsLeft(t) \in SUBSET (Belts \X (1 .. TickCalls))
      /\ RequestsLeft(t) \in SUBSET (Spenders \X (1 .. MAX_RETRIES))
    BY DEF CallsLeft, RequestsLeft
<1>4. /\ IsFiniteSet(CallsLeft(t)) /\ IsFiniteSet(RequestsLeft(t))
      /\ Cardinality(CallsLeft(t)) <= Cardinality(Belts) * TickCalls
    BY <1>2, <1>3, FS_Subset
<1> QED
    BY <1>4, FS_CardinalityType

LEMMA FewerTokens ==
    ASSUME NEW t \in Callings, NEW u \in Callings
    PROVE  /\ CallsLeft(u) \subseteq CallsLeft(t) =>
                 Cardinality(CallsLeft(u)) <= Cardinality(CallsLeft(t))
           /\ RequestsLeft(u) \subseteq RequestsLeft(t) =>
                 Cardinality(RequestsLeft(u)) <= Cardinality(RequestsLeft(t))
BY TokensBounded, FS_Subset

LEMMA CallsKept ==
    ASSUME NEW t \in Callings, NEW u \in Callings,
           \A d \in Belts : u[d].pc # "idle" => t[d].pc # "idle" /\ u[d].left <= t[d].left
    PROVE  CallsLeft(u) \subseteq CallsLeft(t)
<1> SUFFICES ASSUME NEW k \in CallsLeft(u) PROVE k \in CallsLeft(t)
    OBVIOUS
<1>1. k \in Belts \X (1 .. TickCalls) /\ u[k[1]].pc # "idle" /\ k[2] <= u[k[1]].left
    BY DEF CallsLeft
<1>2. k[1] \in Belts /\ k[1] \in Spenders /\ k[2] \in Nat
    BY <1>1 DEF Spenders
<1>3. u[k[1]].left \in Nat /\ t[k[1]].left \in Nat
    BY <1>2 DEF Callings, Slots
<1> QED
    BY <1>1, <1>2, <1>3 DEF CallsLeft

\* A caller whose call has ended has one call less to make and none to send.
LEMMA EndedCall ==
    ASSUME SpendTypeOK, NEW c \in Spenders, call[c].pc # "idle"
    PROVE  /\ ended(c) \in Callings
           /\ \A d \in Spenders : /\ ended(c)[d].pc # "idle" => ended(c)[d].left > 0
                                  /\ ended(c)[d].pc = "request" => ended(c)[d].attempt > 0
           /\ CallsLeft(ended(c)) \subseteq CallsLeft(call)
           /\ c \in Belts => /\ <<c, call[c].left>> \in CallsLeft(call)
                             /\ CallsLeft(ended(c)) \subseteq CallsLeft(call) \ {<<c, call[c].left>>}
           /\ RequestsLeft(ended(c)) \subseteq {k \in RequestsLeft(call) : k[1] # c}
<1> DEFINE u == ended(c)
<1>1. /\ call \in Callings /\ call[c].left \in 1 .. TickCalls /\ TickCalls \in Nat \ {0}
    BY SpendersFinite DEF SpendTypeOK, Callings, Slots
<1>2. /\ \/ call[c].left = 1 /\ u[c] = NoSpend
         \/ call[c].left > 1 /\ u[c] = [pc |-> "next", left |-> call[c].left - 1, attempt |-> 0]
      /\ \A d \in Spenders \ {c} : u[d] = call[d]
      /\ DOMAIN u = Spenders
    BY <1>1 DEF ended, Callings, Slots
<1>3. u[c] \in [pc : {"idle", "next", "request"}, left : 0 .. TickCalls, attempt : 0 .. MAX_RETRIES]
    BY <1>1, <1>2, SpendersFinite DEF NoSpend
<1>4. u = [d \in Spenders |-> IF d = c THEN u[c] ELSE call[d]]
    BY <1>1, <1>2 DEF ended, Callings, Slots
<1>5. u \in Callings
  <2> HIDE DEF u
  <2> QED
      BY <1>1, <1>3, <1>4 DEF Callings, Slots
<1>6. /\ u[c].pc \in {"idle", "next"} /\ (u[c].pc # "idle" => u[c].left = call[c].left - 1)
      /\ u[c].pc # "idle" => u[c].left > 0
    BY <1>1, <1>2 DEF NoSpend
<1> HIDE DEF u
<1>7. \A d \in Spenders : /\ u[d].pc # "idle" => u[d].left > 0
                          /\ u[d].pc = "request" => u[d].attempt > 0
    BY <1>2, <1>6 DEF SpendTypeOK
<1>8. CallsLeft(u) \subseteq CallsLeft(call)
    <2> SUFFICES ASSUME NEW k \in CallsLeft(u) PROVE k \in CallsLeft(call)
        OBVIOUS
    <2>1. k \in Belts \X (1 .. TickCalls) /\ u[k[1]].pc # "idle" /\ k[2] <= u[k[1]].left
        BY DEF CallsLeft
    <2>2. k[1] \in Spenders /\ k[2] \in 1 .. TickCalls
        BY <2>1 DEF Spenders
    <2>3. call[k[1]].pc # "idle" /\ k[2] <= call[k[1]].left
        BY <1>1, <1>2, <1>6, <2>1, <2>2
    <2> QED
        BY <2>1, <2>3 DEF CallsLeft
<1>9. ASSUME c \in Belts
      PROVE  /\ <<c, call[c].left>> \in CallsLeft(call)
             /\ <<c, call[c].left>> \notin CallsLeft(u)
    BY <1>1, <1>6, <1>9 DEF CallsLeft
<1>10. RequestsLeft(u) \subseteq {k \in RequestsLeft(call) : k[1] # c}
    BY <1>2, <1>6 DEF RequestsLeft
<1> QED
    BY <1>5, <1>7, <1>8, <1>9, <1>10 DEF u

-----------------------------------------------------------------------------
LEMMA SpendInitInv == SpendInit => SpendInv
<1> SUFFICES ASSUME SpendInit PROVE SpendInv
    OBVIOUS
<1>1. SpendTypeOK
    BY SpendersFinite DEF SpendInit, SpendTypeOK, NoSpend
<1>2. CallsLeft(call) = {} /\ RequestsLeft(call) = {}
    BY DEF SpendInit, CallsLeft, RequestsLeft, NoSpend, Spenders
<1>3. Cardinality(CallsLeft(call)) = 0
    BY <1>2, FS_EmptySet
<1>4. Ceiling \in Nat
    BY SpendersFinite DEF Ceiling
<1>5. Accounted /\ SpendingAhead /\ RequestsAhead
    BY <1>3, <1>4 DEF SpendInit, Accounted, SpendingAhead, RequestsAhead
<1> QED
    BY <1>1, <1>5 DEF SpendInv

\* What the arithmetic of a step needs.
LEMMA SpendNumbers ==
    ASSUME SpendInv
    PROVE  /\ spent \in Nat /\ inflight \in Nat /\ billed \in Nat /\ unseen \in Nat
           /\ others \in Nat /\ late \in Nat /\ hammered \in Nat /\ Ceiling \in Nat
           /\ call \in Callings
           /\ Cardinality(CallsLeft(call)) \in Nat /\ Cardinality(RequestsLeft(call)) \in Nat
           /\ billed = spent + inflight + unseen
           /\ billed + Cardinality(CallsLeft(call)) <= Ceiling + late + unseen + others
<1>1. call \in Callings
    BY DEF SpendInv, SpendTypeOK, Callings, Slots
<1>2. Ceiling \in Nat
    BY SpendersFinite DEF Ceiling
<1> QED
    BY <1>1, <1>2, TokensBounded DEF SpendInv, SpendTypeOK, Accounted, SpendingAhead

LEMMA StartTickKeeps == ASSUME SpendInv, NEW c \in Spenders, StartTick(c) PROVE SpendInv'
<1>n. /\ spent \in Nat /\ inflight \in Nat /\ billed \in Nat /\ unseen \in Nat
      /\ others \in Nat /\ late \in Nat /\ Ceiling \in Nat /\ call \in Callings
      /\ Cardinality(CallsLeft(call)) \in Nat
      /\ billed = spent + inflight + unseen
      /\ billed + Cardinality(CallsLeft(call)) <= Ceiling + late + unseen + others
    BY SpendNumbers
<1>1. /\ call' = [call EXCEPT ![c] = [pc |-> "next", left |-> TickCalls, attempt |-> 0]]
      /\ late' = IF c \in Belts THEN inflight ELSE late
      /\ c \in Belts => ~(spent >= Budget)
      /\ UNCHANGED <<circuit, priced, spent, inflight, billed, unseen, others, hammered>>
    BY DEF StartTick, ceilingReached
<1>2. /\ call' \in Callings /\ call'[c].pc = "next" /\ call'[c].left = TickCalls
      /\ \A d \in Spenders \ {c} : call'[d] = call[d]
  <2> DEFINE r == [pc |-> "next", left |-> TickCalls, attempt |-> 0]
  <2>2. TickCalls \in 0 .. TickCalls /\ 0 \in 0 .. MAX_RETRIES
      BY SpendersFinite
  <2>3. r \in Slots /\ r.pc = "next" /\ r.left = TickCalls
      BY <2>2 DEF Slots
  <2>4. call' = [call EXCEPT ![c] = r]
      BY <1>1
  <2> HIDE DEF r
  <2> QED
      BY <1>n, <2>3, <2>4 DEF Callings
<1>3. SpendTypeOK'
    BY <1>n, <1>1, <1>2, SpendersFinite DEF SpendInv, SpendTypeOK, Callings, Slots
<1>4. RequestsLeft(call') \subseteq RequestsLeft(call)
    BY <1>2 DEF RequestsLeft
<1>5. Cardinality(RequestsLeft(call')) <= Cardinality(RequestsLeft(call))
      /\ Cardinality(RequestsLeft(call')) \in Nat /\ Cardinality(RequestsLeft(call)) \in Nat
      /\ Cardinality(CallsLeft(call')) \in Nat
    BY <1>4, <1>2, <1>n, FewerTokens, TokensBounded
<1>6. RequestsAhead'
  <2>1. CASE circuit = "closed"
      BY <2>1, <1>1 DEF SpendInv, RequestsAhead
  <2>2. CASE circuit # "closed"
    <3>1. hammered \in Nat /\ (Cardinality(Spenders) - 1) * MAX_RETRIES \in Nat
        BY SpendersFinite DEF SpendInv, SpendTypeOK
    <3> QED
        BY <2>2, <3>1, <1>1, <1>5 DEF SpendInv, RequestsAhead
  <2> QED
      BY <2>1, <2>2
<1>7. SpendingAhead'
  <2>1. CASE c \in Belts
    <3>1. spent <= Budget - 1 /\ late' = inflight /\ Budget # 0
        BY <1>1, <1>n, <2>1, SpendersFinite
    <3>2. Ceiling = Budget - 1 + Cardinality(Belts) * TickCalls
        BY <3>1 DEF Ceiling
    <3>3. Cardinality(CallsLeft(call')) <= Cardinality(Belts) * TickCalls
          /\ Cardinality(Belts) * TickCalls \in Nat
        BY <1>2, TokensBounded, SpendersFinite
    <3> HIDE DEF Ceiling
    <3> QED
        BY <1>1, <1>n, <1>5, <3>1, <3>2, <3>3, SpendersFinite DEF SpendingAhead
  <2>2. CASE c \notin Belts
    <3>1. CallsLeft(call') \subseteq CallsLeft(call)
        BY <1>2, <2>2 DEF CallsLeft, Spenders
    <3>2. Cardinality(CallsLeft(call')) <= Cardinality(CallsLeft(call))
        BY <3>1, <1>2, <1>n, FewerTokens
    <3> QED
        BY <1>1, <1>n, <1>5, <2>2, <3>2 DEF SpendingAhead
  <2> QED
      BY <2>1, <2>2
<1> QED
    BY <1>1, <1>3, <1>6, <1>7 DEF SpendInv, Accounted

\* A call that ends without a charge: on the open circuit, or refused for good.
LEMMA CallEnds ==
    ASSUME SpendInv, NEW c \in Spenders, call[c].pc # "idle",
           call' = ended(c),
           UNCHANGED <<priced, spent, inflight, billed, unseen, others, late>>,
           circuit' \in {"open", "closed"}, hammered' \in Nat,
           RequestsAhead'
    PROVE  SpendInv'
<1>1. /\ ended(c) \in Callings /\ CallsLeft(ended(c)) \subseteq CallsLeft(call)
      /\ \A d \in Spenders : /\ ended(c)[d].pc # "idle" => ended(c)[d].left > 0
                             /\ ended(c)[d].pc = "request" => ended(c)[d].attempt > 0
    BY EndedCall DEF SpendInv
<1>2. Cardinality(CallsLeft(call')) <= Cardinality(CallsLeft(call))
      /\ Cardinality(CallsLeft(call')) \in Nat
    BY <1>1, SpendNumbers, FewerTokens, TokensBounded
<1>3. SpendTypeOK'
    BY <1>1 DEF SpendInv, SpendTypeOK, Callings, Slots
<1>4. SpendingAhead'
    BY <1>2, SpendNumbers DEF SpendingAhead
<1> QED
    BY <1>3, <1>4 DEF SpendInv, Accounted

LEMMA BeginKeeps == ASSUME SpendInv, NEW c \in Spenders, Begin(c) PROVE SpendInv'
<1>1. UNCHANGED <<circuit, priced, spent, inflight, billed, unseen, others, late, hammered>>
      /\ call[c].pc = "next" /\ circuit \in {"open", "closed"} /\ hammered \in Nat
    BY DEF Begin, SpendInv, SpendTypeOK
<1>2. CASE circuit = "closed"
  <2>1. call' = [call EXCEPT ![c] = [pc |-> "request", left |-> call[c].left, attempt |-> 1]]
      BY <1>2 DEF Begin, admitted
  <2>2. call \in Callings
      BY SpendNumbers
  <2>3. /\ call' \in Callings /\ call'[c].pc = "request" /\ call'[c].attempt = 1
        /\ call'[c].left = call[c].left
        /\ \A d \in Spenders \ {c} : call'[d] = call[d]
    <3>1. call[c] = [pc |-> call[c].pc, left |-> call[c].left, attempt |-> call[c].attempt]
          /\ call[c].left \in 0 .. TickCalls
        BY <2>2 DEF Callings, Slots
    <3>2. 1 \in 0 .. MAX_RETRIES
        BY SpendersFinite
    <3> DEFINE r == [pc |-> "request", left |-> call[c].left, attempt |-> 1]
    <3>3. r \in Slots /\ r.pc = "request" /\ r.left = call[c].left /\ r.attempt = 1
        BY <3>1, <3>2 DEF Slots
    <3>4. call' = [call EXCEPT ![c] = r]
        BY <2>1
    <3> HIDE DEF r
    <3> QED
        BY <2>2, <3>3, <3>4 DEF Callings
  <2>4. CallsLeft(call') \subseteq CallsLeft(call)
    <3>1. \A d \in Spenders : call[d].left \in Nat
        BY <2>2 DEF Callings, Slots
    <3> QED
        BY <1>1, <2>2, <2>3, <3>1, CallsKept DEF Spenders
  <2>5. Cardinality(CallsLeft(call')) <= Cardinality(CallsLeft(call))
        /\ Cardinality(CallsLeft(call')) \in Nat
      BY <2>2, <2>3, <2>4, FewerTokens, TokensBounded
  <2>6. SpendTypeOK'
      BY <1>1, <2>3 DEF SpendInv, SpendTypeOK, Callings, Slots
  <2>7. SpendingAhead'
      BY <1>1, <2>5, SpendNumbers DEF SpendingAhead
  <2>8. RequestsAhead'
      BY <1>1, <1>2 DEF SpendInv, RequestsAhead
  <2> QED
      BY <1>1, <2>6, <2>7, <2>8 DEF SpendInv, Accounted
<1>3. CASE circuit # "closed"
  <2>1. call' = ended(c)
      BY <1>3 DEF Begin, admitted
  <2>2. RequestsLeft(ended(c)) \subseteq RequestsLeft(call) /\ ended(c) \in Callings
      BY <1>1, EndedCall DEF SpendInv
  <2>3. Cardinality(RequestsLeft(call')) <= Cardinality(RequestsLeft(call))
        /\ Cardinality(RequestsLeft(call')) \in Nat /\ Cardinality(RequestsLeft(call)) \in Nat
      BY <2>1, <2>2, SpendNumbers, FewerTokens, TokensBounded
  <2>4. (Cardinality(Spenders) - 1) * MAX_RETRIES \in Nat
      BY SpendersFinite
  <2>5. RequestsAhead'
      BY <1>1, <1>3, <2>3, <2>4 DEF SpendInv, RequestsAhead
  <2> QED
      BY <1>1, <2>1, <2>5, CallEnds
<1> QED
    BY <1>2, <1>3

LEMMA AnsweredKeeps == ASSUME SpendInv, NEW c \in Spenders, Answered(c) PROVE SpendInv'
<1>1. /\ circuit' = "closed" /\ call[c].pc = "request" /\ call' = ended(c)
      /\ hammered' = 0 /\ billed' = billed + 1
      /\ others' = IF c \in Unguarded THEN others + 1 ELSE others
      /\ \/ inflight' = inflight + 1 /\ unseen' = unseen
         \/ inflight' = inflight /\ unseen' = unseen + 1
      /\ UNCHANGED <<priced, spent, late>>
    BY DEF Answered, Sends, Charge
<1>2. /\ ended(c) \in Callings /\ CallsLeft(ended(c)) \subseteq CallsLeft(call)
      /\ \A d \in Spenders : /\ ended(c)[d].pc # "idle" => ended(c)[d].left > 0
                             /\ ended(c)[d].pc = "request" => ended(c)[d].attempt > 0
      /\ c \in Belts => /\ <<c, call[c].left>> \in CallsLeft(call)
                        /\ CallsLeft(ended(c)) \subseteq CallsLeft(call) \ {<<c, call[c].left>>}
    BY <1>1, EndedCall DEF SpendInv
<1>3. /\ call \in Callings /\ IsFiniteSet(CallsLeft(call))
      /\ Cardinality(CallsLeft(call')) \in Nat
    BY <1>1, <1>2, SpendNumbers, TokensBounded
<1>n. /\ spent \in Nat /\ inflight \in Nat /\ billed \in Nat /\ unseen \in Nat
      /\ others \in Nat /\ late \in Nat /\ Ceiling \in Nat
      /\ Cardinality(CallsLeft(call)) \in Nat
      /\ billed = spent + inflight + unseen
      /\ billed + Cardinality(CallsLeft(call)) <= Ceiling + late + unseen + others
    BY SpendNumbers
<1>4. SpendTypeOK'
    BY <1>1, <1>2, <1>n DEF SpendInv, SpendTypeOK, Callings, Slots
<1>5. SpendingAhead'
  <2>1. CASE c \in Belts
    <3>1. Cardinality(CallsLeft(call')) + 1 <= Cardinality(CallsLeft(call))
        BY <1>1, <1>2, <1>3, <2>1, OneLess
    <3> QED
        BY <1>1, <1>3, <1>n, <3>1 DEF SpendingAhead
  <2>2. CASE c \notin Belts
    <3>1. c \in Unguarded /\ Cardinality(CallsLeft(call')) <= Cardinality(CallsLeft(call))
        BY <1>1, <1>2, <1>3, <2>2, FewerTokens DEF Spenders
    <3> QED
        BY <1>1, <1>3, <1>n, <3>1 DEF SpendingAhead
  <2> QED
      BY <2>1, <2>2
<1>6. Accounted' /\ RequestsAhead'
    BY <1>1, <1>n DEF Accounted, RequestsAhead
<1> QED
    BY <1>4, <1>5, <1>6 DEF SpendInv

LEMMA RefusedKeeps ==
    ASSUME SpendInv, NEW c \in Spenders, NEW status, Refused(c, status) PROVE SpendInv'
<1> DEFINE again == status # "4xx" /\ call[c].attempt < MAX_RETRIES
<1>1. /\ circuit' = IF ~again /\ status = "429" THEN "open" ELSE circuit
      /\ call[c].pc = "request"
      /\ hammered' = IF circuit' = "open" THEN (IF circuit = "open" THEN hammered + 1 ELSE 0) ELSE 0
      /\ call' = IF again THEN [call EXCEPT ![c].attempt = @ + 1] ELSE ended(c)
      /\ UNCHANGED <<priced, spent, inflight, billed, unseen, others, late>>
    BY DEF Refused, Sends
<1>2. /\ call \in Callings /\ IsFiniteSet(RequestsLeft(call)) /\ hammered \in Nat
      /\ Cardinality(RequestsLeft(call)) \in Nat /\ call[c].attempt \in 1 .. MAX_RETRIES
      /\ circuit \in {"open", "closed"} /\ (Cardinality(Spenders) - 1) * MAX_RETRIES \in Nat
      /\ MAX_RETRIES \in Nat
    BY SpendNumbers, TokensBounded, SpendersFinite, <1>1 DEF SpendInv, SpendTypeOK, Callings, Slots
<1>3. <<c, call[c].attempt>> \in RequestsLeft(call)
    BY <1>1, <1>2 DEF RequestsLeft
<1>t. hammered' \in Nat /\ circuit' \in {"open", "closed"}
    BY <1>1, <1>2
<1>4. CASE again
  <2>1. /\ circuit' = circuit /\ call' = [call EXCEPT ![c].attempt = @ + 1]
        /\ call[c].attempt < MAX_RETRIES
      BY <1>1, <1>4
  <2>2. /\ call' \in Callings /\ call'[c].pc = "request"
        /\ call'[c].attempt = call[c].attempt + 1 /\ call'[c].left = call[c].left
        /\ \A d \in Spenders \ {c} : call'[d] = call[d]
    <3>1. call[c] = [pc |-> call[c].pc, left |-> call[c].left, attempt |-> call[c].attempt]
          /\ call[c].left \in 0 .. TickCalls
        BY <1>2 DEF Callings, Slots
    <3>2. call[c].attempt + 1 \in 0 .. MAX_RETRIES
        BY <1>2, <2>1
    <3> DEFINE r == [pc |-> "request", left |-> call[c].left, attempt |-> call[c].attempt + 1]
    <3>3. r \in Slots /\ r.pc = "request" /\ r.left = call[c].left
          /\ r.attempt = call[c].attempt + 1
        BY <3>1, <3>2 DEF Slots
    <3>4. [call[c] EXCEPT !.attempt = call[c].attempt + 1] = r
        BY <3>1, <1>1
    <3>5. call' = [call EXCEPT ![c] = [call[c] EXCEPT !.attempt = call[c].attempt + 1]]
        BY <2>1, <1>2 DEF Callings
    <3> HIDE DEF r
    <3> QED
        BY <1>2, <3>3, <3>4, <3>5 DEF Callings
  <2>3. CallsLeft(call') \subseteq CallsLeft(call)
    <3>1. \A d \in Spenders : call[d].left \in Nat
        BY <1>2 DEF Callings, Slots
    <3>2. \A d \in Belts : call'[d].pc # "idle" => call[d].pc # "idle" /\ call'[d].left <= call[d].left
      <4> TAKE d \in Belts
      <4>1. d \in Spenders
          BY DEF Spenders
      <4>2. CASE d = c
          BY <4>1, <4>2, <1>1, <2>2, <3>1
      <4>3. CASE d # c
          BY <4>1, <4>3, <2>2, <3>1
      <4> QED
          BY <4>2, <4>3
    <3> QED
        BY <1>2, <2>2, <3>2, CallsKept
  <2>4. RequestsLeft(call') \subseteq RequestsLeft(call) \ {<<c, call[c].attempt>>}
    <3> SUFFICES ASSUME NEW k \in RequestsLeft(call')
                 PROVE  k \in RequestsLeft(call) /\ k # <<c, call[c].attempt>>
        OBVIOUS
    <3>1. /\ k \in Spenders \X (1 .. MAX_RETRIES) /\ call'[k[1]].pc = "request"
          /\ call'[k[1]].attempt <= k[2]
        BY DEF RequestsLeft
    <3>2. k[1] \in Spenders /\ k[2] \in Nat /\ call[c].attempt \in Nat
        BY <3>1, <1>2
    <3>3. CASE k[1] = c
        BY <3>1, <3>2, <3>3, <2>2, <1>1 DEF RequestsLeft
    <3>4. CASE k[1] # c
        BY <3>1, <3>2, <3>4, <2>2 DEF RequestsLeft
    <3> QED
        BY <3>3, <3>4
  <2>5. /\ Cardinality(RequestsLeft(call')) \in Nat
        /\ Cardinality(RequestsLeft(call')) + 1 <= Cardinality(RequestsLeft(call))
      BY <2>4, <1>2, <1>3, OneLess
  <2>6. /\ Cardinality(CallsLeft(call')) <= Cardinality(CallsLeft(call))
        /\ Cardinality(CallsLeft(call')) \in Nat
      BY <2>2, <2>3, <1>2, FewerTokens, TokensBounded
  <2>7. SpendTypeOK'
      BY <1>1, <1>2, <1>t, <2>2 DEF SpendInv, SpendTypeOK, Callings, Slots
  <2>8. SpendingAhead'
      BY <1>1, <2>6, SpendNumbers DEF SpendingAhead
  <2>9. RequestsAhead'
      BY <1>1, <1>2, <2>1, <2>5 DEF SpendInv, RequestsAhead
  <2> QED
      BY <1>1, <2>7, <2>8, <2>9 DEF SpendInv, Accounted
<1>5. CASE ~again
  <2>1. call' = ended(c)
      BY <1>1, <1>5
  <2>2. /\ ended(c) \in Callings
        /\ RequestsLeft(ended(c)) \subseteq {k \in RequestsLeft(call) : k[1] # c}
      BY <1>1, EndedCall DEF SpendInv
  <2>3. Cardinality(RequestsLeft(call')) \in Nat
      BY <2>1, <2>2, TokensBounded
  <2>4. CASE circuit' = "open" /\ circuit = "open"
    <3>1. Cardinality(RequestsLeft(call')) + 1 <= Cardinality(RequestsLeft(call))
        BY <2>1, <2>2, <1>2, <1>3, OneLess
    <3>2. RequestsAhead'
        BY <1>1, <1>2, <2>3, <2>4, <3>1 DEF SpendInv, RequestsAhead
    <3> QED
        BY <1>1, <1>t, <2>1, <3>2, CallEnds
  <2>5. CASE circuit' = "open" /\ circuit # "open"
    <3>1. IsFiniteSet(Spenders \ {c}) /\ Cardinality(Spenders \ {c}) = Cardinality(Spenders) - 1
        BY SpendersFinite, FS_RemoveElement
    <3>2. IsFiniteSet(1 .. MAX_RETRIES) /\ Cardinality(1 .. MAX_RETRIES) = MAX_RETRIES
        BY <1>2, SpendersFinite, FS_Interval
    <3>3. /\ IsFiniteSet((Spenders \ {c}) \X (1 .. MAX_RETRIES))
          /\ Cardinality((Spenders \ {c}) \X (1 .. MAX_RETRIES))
                = (Cardinality(Spenders) - 1) * MAX_RETRIES
      <4>1. /\ IsFiniteSet((Spenders \ {c}) \X (1 .. MAX_RETRIES))
            /\ Cardinality((Spenders \ {c}) \X (1 .. MAX_RETRIES))
                  = Cardinality(Spenders \ {c}) * Cardinality(1 .. MAX_RETRIES)
          BY <3>1, <3>2, FS_Product
      <4> QED
          BY <3>1, <3>2, <4>1
    <3>4. RequestsLeft(call') \subseteq (Spenders \ {c}) \X (1 .. MAX_RETRIES)
        BY <2>1, <2>2 DEF RequestsLeft
    <3>5. Cardinality(RequestsLeft(call')) <= (Cardinality(Spenders) - 1) * MAX_RETRIES
        BY <3>3, <3>4, FS_Subset
    <3>6. hammered' = 0
        BY <1>1, <2>5
    <3>7. RequestsAhead'
        BY <1>2, <2>3, <2>5, <3>5, <3>6 DEF RequestsAhead
    <3> QED
        BY <1>1, <1>t, <2>1, <3>7, CallEnds
  <2>6. CASE circuit' # "open"
    <3>1. RequestsAhead'
        BY <1>1, <1>t, <2>6 DEF RequestsAhead
    <3> QED
        BY <1>1, <1>t, <2>1, <3>1, CallEnds
  <2> QED
      BY <2>4, <2>5, <2>6
<1> QED
    BY <1>4, <1>5

LEMMA SpendStep == SpendInv /\ [SpendNext]_spendVars => SpendInv'
<1> SUFFICES ASSUME SpendInv, [SpendNext]_spendVars
             PROVE  SpendInv'
    OBVIOUS
<1>n. /\ spent \in Nat /\ inflight \in Nat /\ billed \in Nat /\ unseen \in Nat
      /\ others \in Nat /\ late \in Nat /\ Ceiling \in Nat
      /\ Cardinality(CallsLeft(call)) \in Nat
      /\ billed = spent + inflight + unseen
      /\ billed + Cardinality(CallsLeft(call)) <= Ceiling + late + unseen + others
    BY SpendNumbers
<1>1. CASE CooldownPasses
  <2>1. SpendTypeOK'
      BY <1>1, <1>n DEF CooldownPasses, SpendInv, SpendTypeOK
  <2> QED
      BY <2>1, <1>1 DEF CooldownPasses, SpendInv, Accounted, SpendingAhead, RequestsAhead
<1>2. ASSUME NEW ok \in BOOLEAN, RowWritten(ok)
      PROVE  SpendInv'
  <2>1. /\ inflight > 0 /\ inflight' = inflight - 1
        /\ \/ spent' = spent + 1 /\ unseen' = unseen
           \/ spent' = spent /\ unseen' = unseen + 1
        /\ UNCHANGED <<call, circuit, priced, billed, others, late, hammered>>
      BY <1>2 DEF RowWritten
  <2>2. SpendTypeOK'
      BY <2>1, <1>n DEF SpendInv, SpendTypeOK
  <2>3. Accounted' /\ SpendingAhead'
      BY <2>1, <1>n DEF Accounted, SpendingAhead
  <2> QED
      BY <2>1, <2>2, <2>3 DEF SpendInv, RequestsAhead
<1>3. CASE Crash
  <2>1. /\ call' = [c \in Spenders |-> NoSpend] /\ circuit' = "closed" /\ hammered' = 0
        /\ inflight' = 0 /\ unseen' = unseen + inflight
        /\ UNCHANGED <<priced, spent, billed, others, late>>
      BY <1>3 DEF Crash
  <2>2. SpendTypeOK'
      BY <2>1, <1>n, SpendersFinite DEF SpendInv, SpendTypeOK, NoSpend
  <2>3. CallsLeft(call') = {}
      BY <2>1 DEF CallsLeft, NoSpend, Spenders
  <2>4. Cardinality(CallsLeft(call')) = 0
      BY <2>3, FS_EmptySet
  <2>5. Accounted' /\ SpendingAhead' /\ RequestsAhead'
      BY <2>1, <2>4, <1>n DEF Accounted, SpendingAhead, RequestsAhead
  <2> QED
      BY <2>2, <2>5 DEF SpendInv
<1>4. CASE UNCHANGED spendVars
    BY <1>4 DEF spendVars, SpendInv, SpendTypeOK, Accounted, SpendingAhead, RequestsAhead
<1> QED
    BY <1>1, <1>2, <1>3, <1>4, StartTickKeeps, BeginKeeps, AnsweredKeeps, RefusedKeeps DEF SpendNext

\* The bill exceeds the ceiling by no more than one tick of each belt, the rows in
\* flight when the last tick looked, what no row carries and what is spent without a
\* budget; and an open circuit lets through no more than what was under way: for any
\* number of belts and callers, any budget, any retries and any crashes.
THEOREM SpendingStaysContained == SpendSpec => []SpendingIsContained
<1>1. SpendInv => SpendingIsContained
  <2> SUFFICES ASSUME SpendInv PROVE SpendingIsContained
      OBVIOUS
  <2>1. OverspendIsBounded
      BY SpendNumbers DEF OverspendIsBounded, Ceiling
  <2>2. /\ hammered \in Nat /\ Cardinality(RequestsLeft(call)) \in Nat
        /\ circuit \in {"open", "closed"}
      BY SpendNumbers DEF SpendInv, SpendTypeOK
  <2>3. OpenCircuitIsQuiet
    <3>1. (Cardinality(Spenders) - 1) * MAX_RETRIES \in Nat
        BY SpendersFinite
    <3> QED
        BY <2>2, <3>1 DEF SpendInv, RequestsAhead, OpenCircuitIsQuiet
  <2> QED
      BY <2>1, <2>3 DEF SpendingIsContained
<1> QED
    BY <1>1, SpendInitInv, SpendStep, PTL DEF SpendSpec

-----------------------------------------------------------------------------
(***************************************************************************)
(* Outreach.  A date, once written, is never cleared; so what a request    *)
(* has read of a contact (that it was written to, that it answered) still  *)
(* holds of its dates when the request comes to write.                     *)
(***************************************************************************)
Writing == {"draft", "set", "follow"}

IsContact(r) ==
    r \in [status : ReferralStatus, contactedAt : Int, repliedAt : Int, followUps : Nat,
           lastFollowUp : Int, createdAt : {r.createdAt}, who : {r.who}]

\* What the dates of a contact owe its status.
Dates(r) ==
    /\ r.status = "CONTACTED" => r.contactedAt # NoDay
    /\ r.status = "REPLIED" => r.repliedAt # NoDay
    /\ r.followUps > 0 => r.contactedAt # NoDay

\* A row that still has what a request has seen of it.
StillHas(r, seen) ==
    /\ r # NoContact
    /\ seen.status \in ReferralStatus
    /\ seen.status = "CONTACTED" => r.contactedAt # NoDay
    /\ seen.status = "REPLIED" => r.repliedAt # NoDay
    /\ seen.contactedAt # NoDay => r.contactedAt # NoDay
    /\ seen.repliedAt # NoDay => r.repliedAt # NoDay

IsRequest(r) ==
    \/ r = Nobody
    \/ r = [op |-> "look"]
    \/ r \in [op : Writing, h : Logins, status : ReferralStatus, seen : {r.seen}]

OutreachForms ==
    /\ day \in Nat
    /\ DOMAIN contacts = Logins /\ contacts = [h \in Logins |-> contacts[h]]
    /\ \A h \in Logins : contacts[h] = NoContact \/ IsContact(contacts[h])
    /\ asked = [c \in Askers |-> asked[c]]
    /\ \A c \in Askers : IsRequest(asked[c])

ContactsDated == \A h \in Logins : contacts[h] # NoContact => Dates(contacts[h])

SeenHolds ==
    \A c \in Askers : asked[c].op \in Writing => StillHas(contacts[asked[c].h], asked[c].seen)

OutreachInv == OutreachForms /\ ContactsDated /\ SeenHolds

-----------------------------------------------------------------------------
\* A row written over another one.
Keeps(r, s) ==
    /\ r.contactedAt # NoDay => s.contactedAt # NoDay
    /\ r.repliedAt # NoDay => s.repliedAt # NoDay

Follows(r, s) == IsContact(s) /\ Dates(s) /\ (r # NoContact => Keeps(r, s))

LEMMA ContactsAreRows ==
    ASSUME NEW r, IsContact(r)
    PROVE  r # NoContact /\ r.status \in ReferralStatus /\ r.contactedAt \in Int
           /\ r.repliedAt \in Int /\ r.followUps \in Nat
BY DEF IsContact, NoContact, ReferralStatus

LEMMA StillAfter ==
    ASSUME NEW r, NEW s, NEW seen, StillHas(r, seen), Follows(r, s)
    PROVE  StillHas(s, seen)
<1>1. s # NoContact
    BY ContactsAreRows DEF Follows
<1> QED
    BY <1>1 DEF StillHas, Follows, Keeps

\* A request that has written, and is over.
LEMMA RowsFollow ==
    ASSUME OutreachInv, NEW c \in Askers,
           contacts' = [h \in Logins |-> contacts'[h]],
           \A h \in Logins : contacts'[h] = contacts[h] \/ Follows(contacts[h], contacts'[h]),
           asked' = [asked EXCEPT ![c] = Nobody], day' = day
    PROVE  OutreachInv'
<1>1. /\ asked' = [d \in Askers |-> asked'[d]] /\ asked'[c] = Nobody
      /\ \A d \in Askers \ {c} : asked'[d] = asked[d]
    BY DEF OutreachInv, OutreachForms
<1>2. OutreachForms'
  <2>1. \A h \in Logins : contacts'[h] = NoContact \/ IsContact(contacts'[h])
      BY DEF OutreachInv, OutreachForms, Follows
  <2>2. \A d \in Askers : IsRequest(asked'[d])
      BY <1>1 DEF OutreachInv, OutreachForms, IsRequest
  <2> QED
      BY <1>1, <2>1, <2>2 DEF OutreachInv, OutreachForms
<1>3. ContactsDated'
    BY DEF OutreachInv, ContactsDated, Follows
<1>4. SeenHolds'
  <2> SUFFICES ASSUME NEW d \in Askers, asked'[d].op \in Writing
               PROVE  StillHas(contacts'[asked'[d].h], asked'[d].seen)
      BY DEF SeenHolds
  <2>1. asked'[d] = asked[d]
      BY <1>1 DEF Nobody, Writing
  <2>2. asked[d].h \in Logins /\ StillHas(contacts[asked[d].h], asked[d].seen)
      BY <2>1 DEF OutreachInv, OutreachForms, SeenHolds, IsRequest, Nobody, Writing
  <2> QED
      BY <2>1, <2>2, StillAfter
<1> QED
    BY <1>2, <1>3, <1>4 DEF OutreachInv

LEMMA OneFollows ==
    ASSUME OutreachInv, NEW c \in Askers, NEW h \in Logins, NEW row, Follows(contacts[h], row),
           contacts' = [contacts EXCEPT ![h] = row],
           asked' = [asked EXCEPT ![c] = Nobody], day' = day
    PROVE  OutreachInv'
<1>1. /\ contacts' = [g \in Logins |-> contacts'[g]] /\ contacts'[h] = row
      /\ \A g \in Logins \ {h} : contacts'[g] = contacts[g]
    BY DEF OutreachInv, OutreachForms
<1>2. \A g \in Logins : contacts'[g] = contacts[g] \/ Follows(contacts[g], contacts'[g])
    BY <1>1
<1> QED
    BY <1>1, <1>2, RowsFollow

-----------------------------------------------------------------------------
\* What a request in hand has of its contact.
LEMMA InHand ==
    ASSUME OutreachInv, NEW c \in Askers, asked[c].op \in Writing
    PROVE  /\ asked[c].h \in Logins /\ asked[c].status \in ReferralStatus
           /\ IsContact(contacts[asked[c].h]) /\ Dates(contacts[asked[c].h])
           /\ StillHas(contacts[asked[c].h], asked[c].seen)
<1>1. asked[c].h \in Logins /\ asked[c].status \in ReferralStatus
    BY DEF OutreachInv, OutreachForms, IsRequest, Nobody, Writing
<1>2. StillHas(contacts[asked[c].h], asked[c].seen)
    BY DEF OutreachInv, SeenHolds
<1>3. contacts[asked[c].h] # NoContact
    BY <1>2 DEF StillHas
<1> QED
    BY <1>1, <1>2, <1>3 DEF OutreachInv, OutreachForms, ContactsDated

LEMMA ReadKeeps ==
    ASSUME OutreachInv, NEW c \in Askers, NEW op \in Writing, NEW h \in Logins,
           NEW status \in ReferralStatus, Read(c, op, h, status)
    PROVE  OutreachInv'
<1> DEFINE seen == Restrict(contacts[h], {"status", "contactedAt", "repliedAt"})
           request == [op |-> op, h |-> h, status |-> status, seen |-> seen]
<1>1. /\ asked' = [asked EXCEPT ![c] = request] /\ contacts[h] # NoContact
      /\ UNCHANGED <<contacts, day>>
    BY DEF Read, Ask, Known
<1>2. /\ seen.status = contacts[h].status /\ seen.contactedAt = contacts[h].contactedAt
      /\ seen.repliedAt = contacts[h].repliedAt
    BY DEF Restrict
<1>3. IsContact(contacts[h]) /\ Dates(contacts[h])
    BY <1>1 DEF OutreachInv, OutreachForms, ContactsDated
<1>4. StillHas(contacts[h], seen)
    BY <1>1, <1>2, <1>3, ContactsAreRows DEF StillHas, Dates
<1> HIDE DEF seen
<1>5. /\ IsRequest(request) /\ request.op = op /\ request.h = h /\ request.seen = seen
    BY DEF IsRequest
<1> HIDE DEF request
<1>6. /\ asked' = [d \in Askers |-> asked'[d]] /\ asked'[c] = request
      /\ \A d \in Askers \ {c} : asked'[d] = asked[d]
    BY <1>1 DEF OutreachInv, OutreachForms
<1>7. OutreachForms'
    BY <1>1, <1>5, <1>6 DEF OutreachInv, OutreachForms
<1>8. SeenHolds'
    BY <1>1, <1>4, <1>5, <1>6 DEF OutreachInv, SeenHolds
<1>9. ContactsDated'
    BY <1>1 DEF OutreachInv, ContactsDated
<1> QED
    BY <1>7, <1>8, <1>9 DEF OutreachInv

LEMMA DraftKeeps == ASSUME OutreachInv, NEW c \in Askers, GenerateDraft(c) PROVE OutreachInv'
<1> DEFINE r == contacts[asked[c].h]
           s == [r EXCEPT !.status = draftStatus(asked[c].seen)]
<1>1. /\ asked[c].op \in Writing /\ asked' = [asked EXCEPT ![c] = Nobody] /\ day' = day
      /\ contacts' = [contacts EXCEPT ![asked[c].h].status = draftStatus(asked[c].seen)]
    BY DEF GenerateDraft, Answer, Writing
<1>2. /\ asked[c].h \in Logins /\ IsContact(r) /\ Dates(r) /\ StillHas(r, asked[c].seen)
    BY <1>1, InHand
<1>3. contacts' = [contacts EXCEPT ![asked[c].h] = s]
    BY <1>1, <1>2 DEF OutreachInv, OutreachForms
<1>4. Follows(r, s)
  <2>1. draftStatus(asked[c].seen) \in {"CONTACTED", "REPLIED", "DRAFTED"}
      BY DEF draftStatus
  <2>2. /\ s.status = draftStatus(asked[c].seen) /\ s.contactedAt = r.contactedAt
        /\ s.repliedAt = r.repliedAt /\ s.followUps = r.followUps /\ IsContact(s)
      BY <1>2, <2>1 DEF IsContact, ReferralStatus
  <2>3. s.status = "CONTACTED" => asked[c].seen.status = "CONTACTED"
      BY <2>2 DEF draftStatus
  <2>4. s.status = "REPLIED" => asked[c].seen.status = "REPLIED"
      BY <2>2 DEF draftStatus
  <2> HIDE DEF r, s
  <2> QED
      BY <1>2, <2>2, <2>3, <2>4 DEF Follows, Dates, Keeps, StillHas
<1> HIDE DEF r, s
<1> QED
    BY <1>1, <1>2, <1>3, <1>4, OneFollows DEF r

LEMMA SetKeeps == ASSUME OutreachInv, NEW c \in Askers, SetStatus(c) PROVE OutreachInv'
<1> DEFINE q == asked[c]
           r == contacts[q.h]
           s == [r EXCEPT !.status = q.status,
                          !.contactedAt = Dated(q.status = "CONTACTED", q.seen.contactedAt, @),
                          !.repliedAt = Dated(q.status = "REPLIED", q.seen.repliedAt, @)]
<1>1. /\ q.op \in Writing /\ asked' = [asked EXCEPT ![c] = Nobody] /\ day' = day
      /\ contacts' = [contacts EXCEPT
            ![q.h].status = q.status,
            ![q.h].contactedAt = Dated(q.status = "CONTACTED", q.seen.contactedAt, @),
            ![q.h].repliedAt = Dated(q.status = "REPLIED", q.seen.repliedAt, @)]
    BY DEF SetStatus, Answer, Writing
<1>2. /\ q.h \in Logins /\ q.status \in ReferralStatus /\ IsContact(r) /\ Dates(r)
      /\ StillHas(r, q.seen) /\ day \in Nat
    BY <1>1, InHand DEF OutreachInv, OutreachForms
<1>3. contacts' = [contacts EXCEPT ![q.h] = s]
    BY <1>1, <1>2 DEF OutreachInv, OutreachForms
<1>4. Follows(r, s)
  <2>1. /\ Dated(q.status = "CONTACTED", q.seen.contactedAt, r.contactedAt) \in Int
        /\ Dated(q.status = "REPLIED", q.seen.repliedAt, r.repliedAt) \in Int
      BY <1>2, ContactsAreRows DEF Dated
  <2>2. /\ s.status = q.status /\ IsContact(s) /\ s.followUps = r.followUps
        /\ s.contactedAt = Dated(q.status = "CONTACTED", q.seen.contactedAt, r.contactedAt)
        /\ s.repliedAt = Dated(q.status = "REPLIED", q.seen.repliedAt, r.repliedAt)
      BY <1>2, <2>1 DEF IsContact
  <2>3. day # NoDay
      BY <1>2 DEF NoDay
  <2>4. Keeps(r, s)
      BY <2>2, <2>3 DEF Keeps, Dated
  <2>5. Dates(s)
      BY <1>2, <2>2, <2>3 DEF Dates, Dated, StillHas
  <2> QED
      BY <2>2, <2>4, <2>5 DEF Follows
<1> HIDE DEF r, s
<1> QED
    BY <1>1, <1>2, <1>3, <1>4, OneFollows DEF r

LEMMA FollowKeeps == ASSUME OutreachInv, NEW c \in Askers, LogFollowUp(c) PROVE OutreachInv'
<1> DEFINE q == asked[c]
           r == contacts[q.h]
           s == afterFollowUp(r, q.seen)
<1>1. /\ q.op \in Writing /\ asked' = [asked EXCEPT ![c] = Nobody] /\ day' = day
      /\ contacts' = [contacts EXCEPT ![q.h] = s]
    BY DEF LogFollowUp, Answer, Writing
<1>2. /\ q.h \in Logins /\ IsContact(r) /\ Dates(r) /\ StillHas(r, q.seen) /\ day \in Nat
    BY <1>1, InHand DEF OutreachInv, OutreachForms
<1>4. Follows(r, s)
  <2>1. /\ Dated(TRUE, q.seen.contactedAt, r.contactedAt) \in Int /\ r.followUps + 1 \in Nat
        /\ r.status \in ReferralStatus
      BY <1>2, ContactsAreRows DEF Dated
  <2>2. /\ s.status = IF q.seen.status = "REPLIED" THEN r.status ELSE "CONTACTED"
        /\ s.contactedAt = Dated(TRUE, q.seen.contactedAt, r.contactedAt)
        /\ s.repliedAt = r.repliedAt /\ s.followUps = r.followUps + 1
      BY <1>2 DEF IsContact, afterFollowUp
  <2>3. IsContact(s)
    <3>1. /\ day \in Int
          /\ (IF q.seen.status = "REPLIED" THEN r.status ELSE "CONTACTED") \in ReferralStatus
        BY <1>2, <2>1 DEF ReferralStatus
    <3>2. s = [r EXCEPT !.followUps = r.followUps + 1, !.lastFollowUp = day,
                        !.status = IF q.seen.status = "REPLIED" THEN r.status ELSE "CONTACTED",
                        !.contactedAt = Dated(TRUE, q.seen.contactedAt, r.contactedAt)]
        BY DEF afterFollowUp
    <3> HIDE DEF s, r, q
    <3> QED
        BY <1>2, <2>1, <3>1, <3>2 DEF IsContact
  <2>4. day # NoDay
      BY <1>2 DEF NoDay
  <2>5. s.contactedAt # NoDay
      BY <1>2, <2>2, <2>4 DEF Dated, StillHas
  <2>6. s.status = "REPLIED" => s.repliedAt # NoDay
      BY <1>2, <2>2 DEF StillHas
  <2> HIDE DEF r, s
  <2> QED
      BY <2>2, <2>3, <2>5, <2>6 DEF Follows, Keeps, Dates
<1> HIDE DEF r, s
<1> QED
    BY <1>1, <1>2, <1>4, OneFollows DEF r

LEMMA DiscoverKeeps == ASSUME OutreachInv, NEW c \in Askers, Discover(c) PROVE OutreachInv'
<1>1. asked' = [asked EXCEPT ![c] = Nobody] /\ day' = day
    BY DEF Discover, Answer
<1>2. PICK quota \in Quotas :
        LET ranked == rankReferrals(discoverGithubPeople(quota).people)
        IN contacts' = [h \in Logins |->
             LET his == {i \in DOMAIN ranked : ranked[i].login = h}
             IN IF his = {} THEN contacts[h] ELSE Refreshed(h, ranked[Min(his)])]
    BY DEF Discover
<1> DEFINE ranked == rankReferrals(discoverGithubPeople(quota).people)
<1>3. /\ contacts' = [h \in Logins |-> contacts'[h]]
      /\ \A h \in Logins : contacts'[h] = contacts[h] \/ \E who : contacts'[h] = Refreshed(h, who)
  <2> HIDE DEF ranked
  <2>1. contacts' = [h \in Logins |->
             LET his == {i \in DOMAIN ranked : ranked[i].login = h}
             IN IF his = {} THEN contacts[h] ELSE Refreshed(h, ranked[Min(his)])]
      BY <1>2 DEF ranked
  <2> QED
      BY <2>1
<1>4. ASSUME NEW h \in Logins, NEW who PROVE Follows(contacts[h], Refreshed(h, who))
  <2> DEFINE s == Refreshed(h, who)
  <2>1. CASE contacts[h] # NoContact
    <3>1. IsContact(contacts[h]) /\ Dates(contacts[h])
        BY <2>1 DEF OutreachInv, OutreachForms, ContactsDated
    <3>2. s = [contacts[h] EXCEPT !.who = who]
        BY <2>1 DEF Refreshed, Known
    <3>3. /\ s.status = contacts[h].status /\ s.contactedAt = contacts[h].contactedAt
          /\ s.repliedAt = contacts[h].repliedAt /\ s.followUps = contacts[h].followUps
          /\ IsContact(s)
        BY <3>1, <3>2 DEF IsContact
    <3>4. Follows(contacts[h], s)
      <4> HIDE DEF s
      <4> QED
          BY <3>1, <3>3 DEF Follows, Dates, Keeps
    <3> QED
        BY <3>4
  <2>2. CASE contacts[h] = NoContact
    <3>1. s = [status |-> "SUGGESTED", contactedAt |-> NoDay, repliedAt |-> NoDay,
               followUps |-> 0, lastFollowUp |-> NoDay, createdAt |-> day, who |-> who]
        BY <2>2 DEF Refreshed, Known
    <3>2. IsContact(s) /\ Dates(s)
        BY <3>1 DEF IsContact, Dates, ReferralStatus, NoDay
    <3>3. Follows(contacts[h], s)
      <4> HIDE DEF s
      <4> QED
          BY <2>2, <3>2 DEF Follows
    <3> QED
        BY <3>3
  <2> QED
      BY <2>1, <2>2
<1>5. \A h \in Logins : contacts'[h] = contacts[h] \/ Follows(contacts[h], contacts'[h])
    BY <1>3, <1>4
<1> QED
    BY <1>1, <1>3, <1>5, RowsFollow

\* A request that begins, fails, or looks on, and a day that passes.
LEMMA QuietKeeps ==
    ASSUME OutreachInv, UNCHANGED contacts, day' \in Nat,
           \/ UNCHANGED asked
           \/ \E c \in Askers : \E r \in {Nobody, [op |-> "look"]} : asked' = [asked EXCEPT ![c] = r]
    PROVE  OutreachInv'
<1>1. /\ asked' = [d \in Askers |-> asked'[d]]
      /\ \A d \in Askers : \/ asked'[d] = asked[d]
                           \/ asked'[d] = Nobody \/ asked'[d] = [op |-> "look"]
    BY DEF OutreachInv, OutreachForms
<1>2. OutreachForms'
    BY <1>1 DEF OutreachInv, OutreachForms, IsRequest
<1>3. SeenHolds'
    BY <1>1 DEF OutreachInv, SeenHolds, Nobody, Writing
<1> QED
    BY <1>2, <1>3 DEF OutreachInv, ContactsDated

LEMMA OutreachInitInv == OutreachInit => OutreachInv
BY DEF OutreachInit, OutreachInv, OutreachForms, ContactsDated, SeenHolds, IsRequest, Nobody, Writing

LEMMA OutreachStepInv == ASSUME OutreachInv, [OutreachNext]_outreachVars PROVE OutreachInv'
<1>0. day \in Nat
    BY DEF OutreachInv, OutreachForms
<1>1. CASE UNCHANGED outreachVars
    BY <1>0, <1>1, QuietKeeps DEF outreachVars
<1>2. CASE NextDay
    BY <1>0, <1>2, QuietKeeps DEF NextDay
<1>3. ASSUME NEW c \in Askers, ForJob(c) PROVE OutreachInv'
    BY <1>0, <1>3, QuietKeeps DEF ForJob, Ask
<1>4. ASSUME NEW c \in Askers, DraftFails(c) PROVE OutreachInv'
    BY <1>0, <1>4, QuietKeeps DEF DraftFails, Answer
<1>5. ASSUME NEW c \in Askers, Drafting(c) \/ SettingStatus(c) \/ LoggingFollowUp(c)
      PROVE OutreachInv'
    BY <1>5, ReadKeeps DEF Drafting, SettingStatus, LoggingFollowUp, Writing, ReferralStatus
<1> QED
    BY <1>1, <1>2, <1>3, <1>4, <1>5, DiscoverKeeps, DraftKeeps, SetKeeps, FollowKeeps
       DEF OutreachNext

-----------------------------------------------------------------------------
\* What a step may cost a contact's standing, and who may do it.
Undone(c, h) ==
    /\ asked[c] # Nobody /\ asked[c].op # "look" /\ asked[c].h = h
    /\ asked'[c] = Nobody
    /\ \/ asked[c].op = "set"
       \/ Standing[asked[c].seen.status] < Standing[contacts[h].status]

LEMMA Standings ==
    /\ Standing["none"] = 0 /\ Standing["SUGGESTED"] = 0 /\ Standing["ARCHIVED"] = 0
    /\ Standing["DRAFTED"] = 0 /\ Standing["CONTACTED"] = 1 /\ Standing["REPLIED"] = 2
BY DEF Standing

\* A request that writes one row: the others keep their standing.
LEMMA OneRowStands ==
    ASSUME OutreachInv, NEW c \in Askers, NEW g \in Logins, NEW row,
           contacts' = [contacts EXCEPT ![g] = row],
           asked' = [asked EXCEPT ![c] = Nobody], asked[c].op \in Writing, asked[c].h = g,
           Standing[row.status] < Standing[contacts[g].status] =>
              \/ asked[c].op = "set"
              \/ Standing[asked[c].seen.status] < Standing[contacts[g].status],
           NEW h \in Logins, Standing[contacts'[h].status] < Standing[contacts[h].status]
    PROVE  \E d \in Askers : Undone(d, h)
<1>1. /\ asked'[c] = Nobody /\ contacts'[g] = row
      /\ h # g => contacts'[h] = contacts[h]
    BY DEF OutreachInv, OutreachForms
<1>2. Standing[contacts[h].status] \in Int
  <2>1. contacts[h].status \in ReferralStatus \cup {"none"}
      BY ContactsAreRows DEF OutreachInv, OutreachForms, NoContact
  <2> QED
      BY <2>1, Standings DEF ReferralStatus
<1>3. h = g
    BY <1>1, <1>2
<1> QED
    BY <1>1, <1>3 DEF Undone, Nobody, Writing

LEMMA StepStands ==
    ASSUME OutreachInv, [OutreachNext]_outreachVars, NEW h \in Logins,
           Standing[contacts'[h].status] < Standing[contacts[h].status]
    PROVE  \E c \in Askers : Undone(c, h)
<1>0. /\ contacts[h].status \in ReferralStatus \cup {"none"}
      /\ Standing[contacts[h].status] \in 0 .. 2
  <2>1. contacts[h].status \in ReferralStatus \cup {"none"}
      BY ContactsAreRows DEF OutreachInv, OutreachForms, NoContact
  <2> QED
      BY <2>1, Standings DEF ReferralStatus
<1>1. CASE contacts' = contacts
    BY <1>0, <1>1
<1>2. ASSUME NEW c \in Askers, Discover(c) PROVE FALSE
  <2>1. contacts'[h] = contacts[h] \/ \E who : contacts'[h] = Refreshed(h, who)
      BY <1>2 DEF Discover
  <2>2. PICK who : contacts'[h] = Refreshed(h, who)
      BY <1>0, <2>1
  <2>3. CASE contacts[h] # NoContact
    <3>1. contacts'[h] = [contacts[h] EXCEPT !.who = who] /\ IsContact(contacts[h])
        BY <2>2, <2>3 DEF Refreshed, Known, OutreachInv, OutreachForms
    <3>2. contacts'[h].status = contacts[h].status
        BY <3>1 DEF IsContact
    <3> QED
        BY <1>0, <3>2
  <2>4. CASE contacts[h] = NoContact
    <3>1. contacts'[h].status = "SUGGESTED" /\ contacts[h].status = "none"
        BY <2>2, <2>4 DEF Refreshed, Known, NoContact
    <3> QED
        BY <3>1, Standings
  <2> QED
      BY <2>3, <2>4
<1>3. ASSUME NEW c \in Askers, GenerateDraft(c) PROVE \E d \in Askers : Undone(d, h)
  <2> DEFINE r == contacts[asked[c].h]
             s == [r EXCEPT !.status = draftStatus(asked[c].seen)]
  <2>1. /\ asked[c].op \in Writing /\ asked' = [asked EXCEPT ![c] = Nobody]
        /\ contacts' = [contacts EXCEPT ![asked[c].h].status = draftStatus(asked[c].seen)]
      BY <1>3 DEF GenerateDraft, Answer, Writing
  <2>2. /\ asked[c].h \in Logins /\ IsContact(r) /\ asked[c].seen.status \in ReferralStatus
      BY <2>1, InHand DEF StillHas
  <2>3. contacts' = [contacts EXCEPT ![asked[c].h] = s]
        /\ s.status = draftStatus(asked[c].seen) /\ r.status \in ReferralStatus
      BY <2>1, <2>2, ContactsAreRows DEF OutreachInv, OutreachForms, IsContact
  <2>4. Standing[s.status] = Standing[asked[c].seen.status]
      BY <2>2, <2>3, Standings DEF draftStatus, ReferralStatus
  <2> HIDE DEF s
  <2> QED
      BY <2>1, <2>2, <2>3, <2>4, OneRowStands
<1>4. ASSUME NEW c \in Askers, SetStatus(c) PROVE \E d \in Askers : Undone(d, h)
  <2> DEFINE q == asked[c]
             r == contacts[q.h]
             s == [r EXCEPT !.status = q.status,
                            !.contactedAt = Dated(q.status = "CONTACTED", q.seen.contactedAt, @),
                            !.repliedAt = Dated(q.status = "REPLIED", q.seen.repliedAt, @)]
  <2>1. /\ q.op = "set" /\ asked' = [asked EXCEPT ![c] = Nobody]
        /\ contacts' = [contacts EXCEPT
              ![q.h].status = q.status,
              ![q.h].contactedAt = Dated(q.status = "CONTACTED", q.seen.contactedAt, @),
              ![q.h].repliedAt = Dated(q.status = "REPLIED", q.seen.repliedAt, @)]
      BY <1>4 DEF SetStatus, Answer
  <2>2. q.h \in Logins /\ q.op \in Writing
      BY <2>1, InHand DEF Writing
  <2>3. contacts' = [contacts EXCEPT ![q.h] = s]
      BY <2>1, <2>2 DEF OutreachInv, OutreachForms
  <2> HIDE DEF s
  <2> QED
      BY <2>1, <2>2, <2>3, OneRowStands
<1>5. ASSUME NEW c \in Askers, LogFollowUp(c) PROVE \E d \in Askers : Undone(d, h)
  <2> DEFINE r == contacts[asked[c].h]
             s == afterFollowUp(r, asked[c].seen)
  <2>1. /\ asked[c].op \in Writing /\ asked' = [asked EXCEPT ![c] = Nobody]
        /\ contacts' = [contacts EXCEPT ![asked[c].h] = s]
      BY <1>5 DEF LogFollowUp, Answer, Writing
  <2>2. /\ asked[c].h \in Logins /\ IsContact(r) /\ asked[c].seen.status \in ReferralStatus
      BY <2>1, InHand DEF StillHas
  <2>3. s.status = (IF asked[c].seen.status = "REPLIED" THEN r.status ELSE "CONTACTED")
        /\ r.status \in ReferralStatus
      BY <2>2, ContactsAreRows DEF IsContact, afterFollowUp
  <2>4. Standing[s.status] < Standing[r.status] =>
            Standing[asked[c].seen.status] < Standing[r.status]
      BY <2>2, <2>3, Standings DEF ReferralStatus
  <2> HIDE DEF s
  <2> QED
      BY <2>1, <2>2, <2>4, OneRowStands
<1>6. CASE UNCHANGED outreachVars
    BY <1>1, <1>6 DEF outreachVars
<1>7. CASE NextDay
    BY <1>1, <1>7 DEF NextDay
<1>8. ASSUME NEW c \in Askers,
             \/ ForJob(c) \/ Drafting(c) \/ SettingStatus(c) \/ LoggingFollowUp(c) \/ DraftFails(c)
      PROVE  contacts' = contacts
    BY <1>8 DEF ForJob, Drafting, SettingStatus, LoggingFollowUp, DraftFails, Read
<1> QED
    BY <1>1, <1>2, <1>3, <1>4, <1>5, <1>6, <1>7, <1>8 DEF OutreachNext

-----------------------------------------------------------------------------
(* The ladder: the rungs of a list apart, and one more.                    *)
Apart(s) ==
    \A i, j \in DOMAIN s : i # j /\ s[i].who # "company" => s[i].who # s[j].who

LEMMA RungAdded ==
    ASSUME NEW R, NEW s \in Seq(R), NEW r \in R, Apart(s),
           r.who = "company" \/ \A i \in DOMAIN s : s[i].who # r.who
    PROVE  s \o <<r>> \in Seq(R) /\ Apart(s \o <<r>>)
<1>1. /\ s \o <<r>> \in Seq(R) /\ Len(s \o <<r>>) = Len(s) + 1 /\ Len(s) \in Nat
      /\ \A i \in 1 .. Len(s) : (s \o <<r>>)[i] = s[i]
      /\ (s \o <<r>>)[Len(s) + 1] = r
    OBVIOUS
<1> DEFINE t == s \o <<r>>
<1> HIDE DEF t
<1>2. t \in Seq(R) /\ DOMAIN t = 1 .. Len(s) + 1 /\ DOMAIN s = 1 .. Len(s)
    BY <1>1 DEF t
<1>3. /\ \A i \in 1 .. Len(s) : t[i] = s[i]
      /\ t[Len(s) + 1] = r
    BY <1>1 DEF t
<1>4. ASSUME NEW i \in DOMAIN t, NEW j \in DOMAIN t, i # j, t[i].who # "company"
      PROVE  t[i].who # t[j].who
  <2>1. CASE i \in 1 .. Len(s) /\ j \in 1 .. Len(s)
      BY <1>2, <1>3, <1>4, <2>1 DEF Apart
  <2>2. CASE i = Len(s) + 1
    <3>1. j \in 1 .. Len(s)
        BY <1>1, <1>2, <1>4, <2>2
    <3> QED
        BY <1>2, <1>3, <1>4, <2>2, <3>1
  <2>3. CASE j = Len(s) + 1 /\ i \in 1 .. Len(s)
      BY <1>2, <1>3, <1>4, <2>3
  <2> QED
      BY <1>1, <1>2, <2>1, <2>2, <2>3
<1>5. Apart(t)
    BY <1>4 DEF Apart
<1> QED
    BY <1>2, <1>5 DEF t

\* A list of rungs of R, apart, whose people are of W.
Ladder(s, R, W) ==
    /\ s \in Seq(R) /\ Apart(s)
    /\ \A i \in DOMAIN s : s[i].who \in W \cup {"company"}

LEMMA LadderGrows ==
    ASSUME NEW R, NEW W, NEW s, Ladder(s, R, W), NEW r \in R,
           r.who = "company" \/ r.who \notin W
    PROVE  Ladder(s \o <<r>>, R, W \cup {r.who})
<1>1. s \o <<r>> \in Seq(R) /\ Apart(s \o <<r>>)
    BY RungAdded DEF Ladder
<1>2. /\ DOMAIN (s \o <<r>>) = 1 .. Len(s) + 1 /\ DOMAIN s = 1 .. Len(s) /\ Len(s) \in Nat
      /\ \A i \in 1 .. Len(s) : (s \o <<r>>)[i] = s[i]
      /\ (s \o <<r>>)[Len(s) + 1] = r
    BY DEF Ladder
<1>3. \A i \in 1 .. Len(s) + 1 : i \in 1 .. Len(s) \/ i = Len(s) + 1
    BY <1>2
<1>4. ASSUME NEW i \in 1 .. Len(s) + 1
      PROVE  (s \o <<r>>)[i].who \in (W \cup {r.who}) \cup {"company"}
  <2>1. CASE i \in 1 .. Len(s)
      BY <1>2, <2>1 DEF Ladder
  <2>2. CASE i = Len(s) + 1
      BY <1>2, <2>2
  <2> QED
      BY <1>3, <2>1, <2>2
<1> QED
    BY <1>1, <1>2, <1>4 DEF Ladder

LEMMA OneRung == ASSUME NEW R, NEW r \in R PROVE Ladder(<<r>>, R, {r.who})
<1>1. <<r>> \in Seq(R) /\ DOMAIN <<r>> = {1} /\ <<r>>[1] = r
    OBVIOUS
<1> QED
    BY <1>1 DEF Ladder, Apart

LEMMA WayAdded ==
    ASSUME NEW R, NEW W, NEW s, Ladder(s, R, W), NEW kind, NEW open,
           [kind |-> kind, who |-> "company"] \in R
    PROVE  Ladder(s \o Way(kind, open), R, W)
<1> DEFINE r == [kind |-> kind, who |-> "company"]
<1>1. CASE open
  <2>1. Way(kind, open) = <<r>> /\ r.who = "company"
      BY <1>1 DEF Way
  <2>2. Ladder(s \o <<r>>, R, W \cup {"company"})
      BY <2>1, LadderGrows
  <2> HIDE DEF r
  <2> QED
      BY <2>1, <2>2 DEF Ladder
<1>2. CASE ~open
  <2>1. Way(kind, open) = <<>> /\ s \o <<>> = s
      BY <1>2 DEF Way, Ladder
  <2> QED
      BY <2>1
<1> QED
    BY <1>1, <1>2

LEMMA PersonAdded ==
    ASSUME NEW R, NEW W, NEW s, Ladder(s, R, W), NEW kind, NEW c, Rung(kind, c) \in R,
           Found(c) => c.login \notin W
    PROVE  Ladder(s \o Person(kind, c), R, W \cup {c.login})
<1>1. CASE Found(c)
  <2>1. Person(kind, c) = <<Rung(kind, c)>> /\ Rung(kind, c).who = c.login
      BY <1>1 DEF Person, Rung
  <2>2. Ladder(s \o <<Rung(kind, c)>>, R, W \cup {Rung(kind, c).who})
      BY <1>1, <2>1, LadderGrows
  <2> QED
      BY <2>1, <2>2
<1>2. CASE ~Found(c)
  <2>1. Person(kind, c) = <<>> /\ s \o <<>> = s
      BY <1>2 DEF Person, Ladder
  <2> QED
      BY <2>1 DEF Ladder
<1> QED
    BY <1>1, <1>2

\* The ladder of any list of people asks nobody twice and ends in the application.
LEMMA LadderApart ==
    ASSUME NEW people, NEW ch
    PROVE  /\ Apart(buildContactLadder(people, ch))
           /\ Last(buildContactLadder(people, ch)).kind = "APPLY"
<1> DEFINE referrer  == FirstSuch(people, LAMBDA c : c.role # "RECRUITER")
           recruiter == FirstSuch(people, LAMBDA c : c.role = "RECRUITER"
                                                     /\ c.login # referrer.login)
           manager   == FirstSuch(people, LAMBDA c : c.role = "HIRING_MANAGER"
                                    /\ c.login \notin {referrer.login, recruiter.login})
           Mail(Of(_)) == \E i \in DOMAIN ch.emails : Of(ch.emails[i].kind)
           blog == ch.blogAuthors > 0
           mail == Mail(LAMBDA k : k = "RECRUITING")
           page == Site[1].exists
           form == ch.contactPage \/ Mail(LAMBDA k : k # "RECRUITING")
<1>1. buildContactLadder(people, ch) =
        Person("REFERRAL", referrer) \o Person("RECRUITER", recruiter)
        \o Person("HIRING_MANAGER", manager)
        \o Way("ENG_BLOG", blog) \o Way("COMPANY_EMAIL", mail) \o Way("CAREERS_PAGE", page)
        \o Way("CONTACT_PAGE", form) \o Way("APPLY", TRUE)
    BY DEF buildContactLadder
<1>2. Found(recruiter) => recruiter.login # referrer.login
  <2> HIDE DEF referrer
  <2> QED
      BY DEF FirstSuch, Found
<1>3. Found(manager) => manager.login \notin {referrer.login, recruiter.login}
  <2> HIDE DEF referrer, recruiter
  <2> QED
      BY DEF FirstSuch, Found
<1> DEFINE Kinds == {"REFERRAL", "RECRUITER", "HIRING_MANAGER", "ENG_BLOG", "COMPANY_EMAIL",
                     "CAREERS_PAGE", "CONTACT_PAGE", "APPLY"}
           R == [kind : Kinds, who : {referrer.login, recruiter.login, manager.login, "company"}]
<1>4. /\ Rung("REFERRAL", referrer) \in R /\ Rung("RECRUITER", recruiter) \in R
      /\ Rung("HIRING_MANAGER", manager) \in R
      /\ \A kind \in Kinds : [kind |-> kind, who |-> "company"] \in R
  <2> HIDE DEF referrer, recruiter, manager
  <2> QED
      BY DEF Rung
<1>k. /\ "ENG_BLOG" \in Kinds /\ "COMPANY_EMAIL" \in Kinds /\ "CAREERS_PAGE" \in Kinds
      /\ "CONTACT_PAGE" \in Kinds /\ "APPLY" \in Kinds
    OBVIOUS
<1> HIDE DEF referrer, recruiter, manager, R, Kinds, blog, mail, page, form
<1> DEFINE s1 == Person("REFERRAL", referrer)
           s2 == s1 \o Person("RECRUITER", recruiter)
           s3 == s2 \o Person("HIRING_MANAGER", manager)
           s4 == s3 \o Way("ENG_BLOG", blog)
           s5 == s4 \o Way("COMPANY_EMAIL", mail)
           s6 == s5 \o Way("CAREERS_PAGE", page)
           s7 == s6 \o Way("CONTACT_PAGE", form)
           W  == {referrer.login, recruiter.login, manager.login}
<1>5. Ladder(s1, R, {referrer.login})
  <2>1. CASE Found(referrer)
    <3>1. s1 = <<Rung("REFERRAL", referrer)>> /\ Rung("REFERRAL", referrer).who = referrer.login
        BY <2>1 DEF Person, Rung
    <3>2. Ladder(<<Rung("REFERRAL", referrer)>>, R, {Rung("REFERRAL", referrer).who})
        BY <1>4, OneRung
    <3> QED
        BY <3>1, <3>2
  <2>2. CASE ~Found(referrer)
      BY <2>2 DEF Person, Ladder, Apart
  <2> QED
      BY <2>1, <2>2
<1>6. Ladder(s2, R, {referrer.login} \cup {recruiter.login})
  <2> HIDE DEF s1
  <2> QED
      BY <1>2, <1>4, <1>5, PersonAdded
<1>7. Ladder(s3, R, ({referrer.login} \cup {recruiter.login}) \cup {manager.login})
  <2> HIDE DEF s2
  <2> QED
      BY <1>3, <1>4, <1>6, PersonAdded
<1>8. Ladder(s3, R, W)
  <2>1. W = ({referrer.login} \cup {recruiter.login}) \cup {manager.login}
      OBVIOUS
  <2> HIDE DEF W, s3
  <2> QED
      BY <1>7, <2>1
<1> HIDE DEF W
<1>9. Ladder(s4, R, W)
  <2> HIDE DEF s3
  <2> QED
      BY <1>4, <1>k, <1>8, WayAdded
<1>10. Ladder(s5, R, W)
  <2> HIDE DEF s4
  <2> QED
      BY <1>4, <1>k, <1>9, WayAdded
<1>11. Ladder(s6, R, W)
  <2> HIDE DEF s5
  <2> QED
      BY <1>4, <1>k, <1>10, WayAdded
<1>12. Ladder(s7, R, W)
  <2> HIDE DEF s6
  <2> QED
      BY <1>4, <1>k, <1>11, WayAdded
<1>13. Ladder(s7 \o Way("APPLY", TRUE), R, W)
  <2> HIDE DEF s7
  <2> QED
      BY <1>4, <1>k, <1>12, WayAdded
<1>14. Last(s7 \o Way("APPLY", TRUE)).kind = "APPLY"
  <2> DEFINE r == [kind |-> "APPLY", who |-> "company"]
  <2>1. Way("APPLY", TRUE) = <<r>> /\ r \in R
      BY <1>4, <1>k DEF Way
  <2> HIDE DEF s7
  <2>2. s7 \in Seq(R)
      BY <1>12 DEF Ladder
  <2>3. r.kind = "APPLY"
      OBVIOUS
  <2> HIDE DEF r
  <2>4. Last(s7 \o <<r>>) = r
      BY <2>1, <2>2 DEF Last
  <2> QED
      BY <2>1, <2>3, <2>4
<1>15. buildContactLadder(people, ch) = s7 \o Way("APPLY", TRUE)
    BY <1>1
<1> HIDE DEF s7
<1> QED
    BY <1>13, <1>14, <1>15 DEF Ladder

LEMMA LadderAsksOnceAlways == LadderAsksOnce
<1> DEFINE l == buildContactLadder(Shortlist(contacts), channels)
<1>1. Apart(l) /\ Last(l).kind = "APPLY"
    BY LadderApart
<1> HIDE DEF l
<1> QED
    BY <1>1 DEF LadderAsksOnce, Apart, l

\* A contact that waits, dated, has a last touch, and is due when it is old enough.
LEMMA NudgeComesDue ==
    ASSUME NEW r, IsContact(r), r.status = "CONTACTED", r.contactedAt # NoDay,
           r.followUps < MAX_NUDGES
    PROVE  nextOutreachAction(r, lastTouch(r, day) + Wait(r)).due
<1> DEFINE last == lastTouch(r, day)
           now == last + Wait(r)
<1>1. r.lastFollowUp \in Int /\ r.contactedAt \in Int
    BY DEF IsContact
<1>2. last \in Int /\ lastTouch(r, now) = last
    BY <1>1 DEF lastTouch
<1>3. Wait(r) \in Nat
    BY OutreachConstants DEF Wait
<1>4. now - lastTouch(r, now) >= Wait(r)
  <2> HIDE DEF last
  <2> QED
      BY <1>2, <1>3
<1> HIDE DEF now
<1> QED
    BY <1>4 DEF nextOutreachAction, now, last

(* A contact that waits has the date of its silence and comes due for the  *)
(* nudge it still has coming, the ladder asks nobody twice and ends in the *)
(* application, and what was logged of the real world is undone only by    *)
(* the user or by a request that had read the contact earlier (setStatus,  *)
(* logFollowUp, generateDraft, nextOutreachAction, buildContactLadder).    *)
THEOREM OutreachKeepsFaith == OutreachSpec => ContactsKeepFaith
<1>1. OutreachInv => SilenceIsDated
    BY NudgeComesDue
       DEF OutreachInv, OutreachForms, ContactsDated, Dates, SilenceIsDated, Known
<1>2. OutreachInv /\ [OutreachNext]_outreachVars
      => [\A h \in Logins :
            Standing[contacts'[h].status] < Standing[contacts[h].status] =>
              \E c \in Askers :
                 /\ asked[c] # Nobody /\ asked[c].op # "look" /\ asked[c].h = h
                 /\ asked'[c] = Nobody
                 /\ \/ asked[c].op = "set"
                    \/ Standing[asked[c].seen.status] < Standing[contacts[h].status]]_outreachVars
    BY StepStands DEF Undone
<1> QED
    BY <1>1, <1>2, OutreachInitInv, OutreachStepInv, LadderAsksOnceAlways, PTL
       DEF OutreachSpec, ContactsKeepFaith, LoggedContactSurvives

-----------------------------------------------------------------------------
(***************************************************************************)
(* ApplicationTracker.  A request that is about to write an application    *)
(* holds the row as it is, unless another was about to write it too; so    *)
(* the event it appends starts where the last one ended, and it reports an *)
(* application sent only when none was.                                    *)
(***************************************************************************)
Statuses == ApplicationStatus \cup {"none"}
Moves == [from : Statuses, to : Statuses]
Applications == [status : Statuses, appliedAt : BOOLEAN, events : Seq(Moves)]
Outcomes == [type : {"APPLIED", "SHOWN", "CLICKED", "DISMISSED"}, job : TrackedJobs,
             opportunityScore : ShownScores, displayedScore : ShownScores]
Short == [pc : {"tapped", "record"}, job : TrackedJobs]
Full == [pc : {"create", "move", "update"}, job : TrackedJobs, to : ApplicationStatus,
         note : BOOLEAN, held : Applications]
Requests == {NoRequest} \cup Short \cup Full

Writes(r, j) == r.pc \in {"create", "update"} /\ r.job = j

TrackForms ==
    /\ app \in [TrackedJobs -> Applications]
    /\ outcomes \in Seq(Outcomes)
    /\ appCall \in [Callers -> Requests]
    /\ silent \in Nat

\* The events of an application, from its creation to the status it has.
Told(a) ==
    /\ a.events = <<>> => a.status = "none" /\ ~a.appliedAt
    /\ \A i \in DOMAIN a.events :
          a.events[i].from = IF i = 1 THEN "none" ELSE a.events[i - 1].to
    /\ a.events # <<>> => a.status = a.events[Len(a.events)].to

EventsTold == \A j \in TrackedJobs \ crossed : Told(app[j])

AloneUnlessCrossed ==
    \A c, d \in Callers, j \in TrackedJobs :
        c # d /\ Writes(appCall[c], j) /\ Writes(appCall[d], j) => j \in crossed

HeldIsCurrent ==
    \A c \in Callers : appCall[c].pc = "update" /\ appCall[c].job \notin crossed
                         => appCall[c].held = app[appCall[c].job]

Pending(calls, j) == {c \in Callers : calls[c].pc = "record" /\ calls[c].job = j}
Recorded(log, j) == {i \in DOMAIN log : log[i].type = "APPLIED" /\ log[i].job = j}

\* An application that was sent is in the log, or on its way there, once.
Counted(calls, log, j, sent) ==
    IF sent THEN \/ Recorded(log, j) = {} /\ \E c \in Callers : Pending(calls, j) = {c}
                 \/ Pending(calls, j) = {} /\ \E i \in DOMAIN log : Recorded(log, j) = {i}
    ELSE Pending(calls, j) = {} /\ Recorded(log, j) = {}

SentIsCounted ==
    silent = 0 => \A j \in TrackedJobs \ crossed :
                     Counted(appCall, outcomes, j, app[j].appliedAt)

TrackInv == TrackForms /\ EventsTold /\ AloneUnlessCrossed /\ HeldIsCurrent /\ SentIsCounted

-----------------------------------------------------------------------------
LEMMA NoRequestIs ==
    /\ NoRequest.pc = "idle" /\ NoRequest \in Requests
    /\ NoApp \in Applications /\ NoApp.events = <<>> /\ NoApp.status = "none" /\ ~NoApp.appliedAt
BY DEF NoRequest, Requests, NoApp, Applications, Statuses

\* A request of one caller: the others keep theirs.
LEMMA RequestMade ==
    ASSUME TrackForms, AloneUnlessCrossed, NEW c \in Callers, NEW r \in Requests, Request(c, r)
    PROVE  /\ appCall' \in [Callers -> Requests] /\ appCall'[c] = r
           /\ \A d \in Callers \ {c} : appCall'[d] = appCall[d]
           /\ crossed \subseteq crossed'
           /\ AloneUnlessCrossed'
<1>1. /\ appCall' \in [Callers -> Requests] /\ appCall'[c] = r
      /\ \A d \in Callers \ {c} : appCall'[d] = appCall[d]
    BY DEF Request, TrackForms
<1>2. crossed \subseteq crossed'
    BY DEF Request
<1>3. ASSUME NEW d \in Callers, d # c, NEW j \in TrackedJobs, Writes(r, j), Writes(appCall[d], j)
      PROVE  j \in crossed'
    BY <1>3 DEF Request, Writes
<1>4. AloneUnlessCrossed'
  <2> SUFFICES ASSUME NEW d \in Callers, NEW e \in Callers, NEW j \in TrackedJobs, d # e,
                      Writes(appCall'[d], j), Writes(appCall'[e], j)
               PROVE  j \in crossed'
      BY DEF AloneUnlessCrossed
  <2>1. CASE d = c
      BY <1>1, <1>3, <2>1
  <2>2. CASE e = c
      BY <1>1, <1>3, <2>2
  <2>3. CASE d # c /\ e # c
      BY <1>1, <1>2, <2>3 DEF AloneUnlessCrossed
  <2> QED
      BY <2>1, <2>2, <2>3
<1> QED
    BY <1>1, <1>2, <1>4

\* A request that neither writes nor records.
LEMMA OnlyAsks ==
    ASSUME TrackInv, NEW c \in Callers, NEW r \in Requests, Request(c, r),
           appCall[c].pc # "record", r.pc # "record",
           r.pc = "update" => r.held = app[r.job],
           UNCHANGED <<app, outcomes, silent>>
    PROVE  TrackInv'
<1>1. /\ appCall' \in [Callers -> Requests] /\ appCall'[c] = r
      /\ \A d \in Callers \ {c} : appCall'[d] = appCall[d]
      /\ crossed \subseteq crossed' /\ AloneUnlessCrossed'
    BY RequestMade DEF TrackInv
<1>2. TrackForms' /\ EventsTold'
    BY <1>1 DEF TrackInv, TrackForms, EventsTold
<1>3. HeldIsCurrent'
    BY <1>1 DEF TrackInv, HeldIsCurrent
<1>4. ASSUME NEW j \in TrackedJobs PROVE Pending(appCall', j) = Pending(appCall, j)
    BY <1>1 DEF Pending
<1>5. SentIsCounted'
  <2> SUFFICES ASSUME silent = 0, NEW j \in TrackedJobs \ crossed'
               PROVE  Counted(appCall', outcomes, j, app[j].appliedAt)
      BY DEF SentIsCounted
  <2>1. Counted(appCall, outcomes, j, app[j].appliedAt)
      BY <1>1 DEF TrackInv, SentIsCounted
  <2> QED
      BY <1>4, <2>1 DEF Counted
<1> QED
    BY <1>1, <1>2, <1>3, <1>5 DEF TrackInv

LEMMA Asked ==
    ASSUME TrackInv, NEW j \in TrackedJobs, NEW s \in ApplicationStatus, NEW note \in BOOLEAN,
           NEW pc \in {"create", "move", "update"}
    PROVE  LET r == [pc |-> pc, job |-> j, to |-> s, note |-> note, held |-> app[j]]
           IN r \in Requests /\ r.pc = pc /\ r.held = app[r.job]
<1>1. app[j] \in Applications
    BY DEF TrackInv, TrackForms
<1> QED
    BY <1>1 DEF Requests, Full

LEMMA CreateFromJobKeeps ==
    ASSUME TrackInv, NEW c \in Callers, NEW j \in TrackedJobs, NEW s \in ApplicationStatus,
           NEW note \in BOOLEAN, CreateFromJob(c, j, s, note), appCall[c].pc # "record",
           UNCHANGED <<app, outcomes, silent>>
    PROVE  TrackInv'
<1> DEFINE pc == IF app[j] = NoApp THEN "create" ELSE "move"
           r == [pc |-> pc, job |-> j, to |-> s, note |-> note, held |-> app[j]]
<1>1. r \in Requests /\ r.pc = pc
    BY Asked
<1>2. Request(c, r)
    BY DEF CreateFromJob
<1>3. r.pc # "record" /\ r.pc # "update"
    BY <1>1
<1> HIDE DEF r
<1> QED
    BY <1>1, <1>2, <1>3, OnlyAsks

LEMMA TransitionKeeps ==
    ASSUME TrackInv, NEW c \in Callers, NEW j \in TrackedJobs, NEW s \in ApplicationStatus,
           NEW note \in BOOLEAN, Transition(c, j, s, note), appCall[c].pc # "record",
           UNCHANGED <<app, outcomes, silent>>
    PROVE  TrackInv'
<1> DEFINE r == [pc |-> "update", job |-> j, to |-> s, note |-> note, held |-> app[j]]
<1>1. r \in Requests /\ r.pc = "update" /\ r.held = app[r.job]
    BY Asked
<1>2. Request(c, NoRequest) \/ Request(c, r)
    BY DEF Transition
<1> HIDE DEF r
<1> QED
    BY <1>1, <1>2, NoRequestIs, OnlyAsks

-----------------------------------------------------------------------------
\* What a caller in the middle of a request holds.
LEMMA RequestForm ==
    ASSUME TrackInv, NEW c \in Callers
    PROVE  /\ appCall[c].pc \in {"create", "move", "update"} => appCall[c] \in Full
           /\ appCall[c].pc \in {"tapped", "record"} => appCall[c] \in Short
<1>1. appCall[c] \in Requests
    BY DEF TrackInv, TrackForms
<1> QED
    BY <1>1 DEF Requests, Short, Full, NoRequest

LEMMA FullForm ==
    ASSUME NEW r \in Full
    PROVE  /\ r.job \in TrackedJobs /\ r.to \in ApplicationStatus /\ r.note \in BOOLEAN
           /\ r.held \in Applications
BY DEF Full

\* Nobody else writes the application a caller writes, unless it is crossed.
LEMMA OthersHoldOther ==
    ASSUME TrackInv, NEW c \in Callers, NEW d \in Callers, d # c,
           appCall[c].pc \in {"create", "update"}, appCall[d].pc = "update",
           appCall[d].job = appCall[c].job
    PROVE  appCall[d].job \in crossed
<1>1. appCall[c].job \in TrackedJobs
    BY RequestForm, FullForm
<1> QED
    BY <1>1 DEF TrackInv, AloneUnlessCrossed, Writes

\* A row is written, and the outcome of an application first sent is on its way.
LEMMA RowWrittenKeeps ==
    ASSUME TrackInv, NEW c \in Callers, appCall[c].pc \in {"create", "update"},
           NEW j, j = appCall[c].job, NEW a \in Applications, NEW first \in BOOLEAN,
           app' = [app EXCEPT ![j] = a],
           Request(c, IF first THEN [pc |-> "record", job |-> j] ELSE NoRequest),
           UNCHANGED <<outcomes, silent>>,
           j \notin crossed => /\ Told(app[j]) => Told(a)
                               /\ a.appliedAt <=> app[j].appliedAt \/ first
                               /\ first => ~app[j].appliedAt
    PROVE  TrackInv'
<1> DEFINE r == IF first THEN [pc |-> "record", job |-> j] ELSE NoRequest
<1>0. j \in TrackedJobs
    BY RequestForm, FullForm
<1>1. /\ r \in Requests /\ r.pc \in {"record", "idle"} /\ (r.pc = "record" <=> first)
      /\ first => r.job = j
    BY <1>0, NoRequestIs DEF Requests, Short
<1> HIDE DEF r
<1>2. Request(c, r)
    BY DEF r
<1>3. /\ appCall' \in [Callers -> Requests] /\ appCall'[c] = r
      /\ \A d \in Callers \ {c} : appCall'[d] = appCall[d]
      /\ crossed \subseteq crossed' /\ AloneUnlessCrossed'
    BY <1>1, <1>2, RequestMade DEF TrackInv
<1>4. /\ app' \in [TrackedJobs -> Applications] /\ app'[j] = a
      /\ \A k \in TrackedJobs \ {j} : app'[k] = app[k]
    BY <1>0 DEF TrackInv, TrackForms
<1>5. TrackForms'
    BY <1>3, <1>4 DEF TrackInv, TrackForms
<1>6. EventsTold'
    BY <1>0, <1>3, <1>4 DEF TrackInv, EventsTold
<1>7. HeldIsCurrent'
  <2> SUFFICES ASSUME NEW d \in Callers, appCall'[d].pc = "update", appCall'[d].job \notin crossed'
               PROVE  appCall'[d].held = app'[appCall'[d].job]
      BY DEF HeldIsCurrent
  <2>1. d # c /\ appCall'[d] = appCall[d]
      BY <1>1, <1>3
  <2>2. appCall[d].job # j
      BY <1>3, <2>1, OthersHoldOther
  <2>3. appCall[d].job \in TrackedJobs
      BY <2>1, RequestForm, FullForm
  <2> QED
      BY <1>3, <1>4, <2>1, <2>2, <2>3 DEF TrackInv, HeldIsCurrent
<1>8. SentIsCounted'
  <2> SUFFICES ASSUME silent = 0, NEW k \in TrackedJobs \ crossed'
               PROVE  Counted(appCall', outcomes, k, app'[k].appliedAt)
      BY DEF SentIsCounted
  <2>1. Counted(appCall, outcomes, k, app[k].appliedAt)
      BY <1>3 DEF TrackInv, SentIsCounted
  <2>2. CASE k # j \/ ~first
    <3>1. Pending(appCall', k) = Pending(appCall, k)
        BY <1>1, <1>3, <2>2 DEF Pending
    <3>2. app'[k].appliedAt <=> app[k].appliedAt
        BY <1>3, <1>4, <2>2
    <3> QED
        BY <2>1, <3>1, <3>2 DEF Counted
  <2>3. CASE k = j /\ first
    <3>1. ~app[k].appliedAt /\ app'[k].appliedAt
        BY <1>3, <1>4, <2>3
    <3>2. Pending(appCall, k) = {} /\ Recorded(outcomes, k) = {}
        BY <2>1, <3>1 DEF Counted
    <3>3. Pending(appCall', k) = {c}
        BY <1>1, <1>3, <2>3, <3>2 DEF Pending
    <3> QED
        BY <3>1, <3>2, <3>3 DEF Counted
  <2> QED
      BY <2>2, <2>3
<1> QED
    BY <1>3, <1>5, <1>6, <1>7, <1>8 DEF TrackInv

LEMMA CreateKeeps == ASSUME TrackInv, NEW c \in Callers, Create(c) PROVE TrackInv'
<1> DEFINE j == appCall[c].job
           s == appCall[c].to
           a == [status |-> s, appliedAt |-> s = "APPLIED", events |-> <<[from |-> "none", to |-> s]>>]
<1>1. appCall[c].pc = "create" /\ UNCHANGED <<outcomes, silent>>
    BY DEF Create
<1>2. j \in TrackedJobs /\ s \in ApplicationStatus
    BY <1>1, RequestForm, FullForm
<1>3. CASE app[j] # NoApp
  <2>1. Request(c, NoRequest) /\ UNCHANGED app
      BY <1>3 DEF Create
  <2> QED
      BY <1>1, <2>1, NoRequestIs, OnlyAsks
<1>4. CASE app[j] = NoApp
  <2>1. /\ app' = [app EXCEPT ![j] = a]
        /\ Request(c, IF s = "APPLIED" THEN [pc |-> "record", job |-> j] ELSE NoRequest)
      BY <1>4 DEF Create
  <2> DEFINE e == [from |-> "none", to |-> s]
  <2>2. e \in Moves /\ e.from = "none" /\ e.to = s
      BY <1>2 DEF Moves, Statuses
  <2> HIDE DEF e
  <2>3. /\ <<e>> \in Seq(Moves) /\ <<e>> # <<>> /\ DOMAIN <<e>> = {1} /\ <<e>>[1] = e
        /\ Len(<<e>>) = 1
      BY <2>2
  <2> DEFINE es == <<e>>
  <2>4. a.events = es /\ a.status = s /\ (a.appliedAt <=> s = "APPLIED")
      BY DEF e
  <2> HIDE DEF es
  <2>5. a \in Applications
    <3>1. a = [status |-> s, appliedAt |-> s = "APPLIED", events |-> es]
        BY DEF es, e
    <3> HIDE DEF a
    <3>2. es \in Seq(Moves) /\ s \in Statuses
        BY <1>2, <2>3 DEF es, Statuses
    <3> QED
        BY <3>1, <3>2 DEF Applications
  <2>6. Told(a)
    <3>1. /\ es # <<>> /\ DOMAIN es = {1} /\ es[1].from = "none" /\ es[1].to = s /\ Len(es) = 1
        BY <2>2, <2>3 DEF es
    <3> HIDE DEF a
    <3> QED
        BY <2>4, <3>1 DEF Told
  <2>7. ~app[j].appliedAt
      BY <1>4, NoRequestIs
  <2>8. (s = "APPLIED") \in BOOLEAN
      OBVIOUS
  <2> HIDE DEF a
  <2> QED
      BY <1>1, <2>1, <2>4, <2>5, <2>6, <2>7, RowWrittenKeeps
<1> QED
    BY <1>3, <1>4

\* A history with one event more, that starts where the last one ended.
LEMMA OneMoreEvent ==
    ASSUME NEW old \in Seq(Moves), NEW e \in Moves,
           \A i \in DOMAIN old : old[i].from = IF i = 1 THEN "none" ELSE old[i - 1].to,
           e.from = IF old = <<>> THEN "none" ELSE old[Len(old)].to
    PROVE  /\ Append(old, e) # <<>> /\ Append(old, e)[Len(Append(old, e))].to = e.to
           /\ \A i \in DOMAIN Append(old, e) :
                 Append(old, e)[i].from = IF i = 1 THEN "none" ELSE Append(old, e)[i - 1].to
<1>0. PICK es : es = Append(old, e)
    OBVIOUS
<1>1. /\ es \in Seq(Moves) /\ es # <<>> /\ Len(old) \in Nat /\ Len(es) = Len(old) + 1
      /\ DOMAIN es = 1 .. Len(old) + 1 /\ DOMAIN old = 1 .. Len(old)
      /\ \A i \in 1 .. Len(old) : es[i] = old[i]
      /\ es[Len(old) + 1] = e
      /\ Len(old) = 0 => old = <<>>
    BY <1>0
<1>2. ASSUME NEW i \in DOMAIN es
      PROVE  es[i].from = IF i = 1 THEN "none" ELSE es[i - 1].to
  <2>1. CASE i \in 1 .. Len(old)
    <3>1. es[i] = old[i] /\ (i # 1 => i - 1 \in 1 .. Len(old))
        BY <1>1, <2>1
    <3> QED
        BY <1>1, <2>1, <3>1
  <2>2. CASE i = Len(old) + 1 /\ Len(old) = 0
      BY <1>1, <2>2
  <2>3. CASE i = Len(old) + 1 /\ Len(old) # 0
    <3>1. i # 1 /\ i - 1 = Len(old) /\ Len(old) \in 1 .. Len(old) /\ old # <<>>
        BY <1>1, <2>3
    <3> QED
        BY <1>1, <2>3, <3>1
  <2> QED
      BY <1>1, <2>1, <2>2, <2>3
<1>3. es # <<>> /\ es[Len(es)].to = e.to
    BY <1>1
<1> QED
    BY <1>0, <1>2, <1>3

LEMMA UpdateKeeps == ASSUME TrackInv, NEW c \in Callers, Update(c) PROVE TrackInv'
<1> DEFINE j == appCall[c].job
           s == appCall[c].to
           held == appCall[c].held
           first == FirstApplied(held, s)
           old == app[j].events
           e == StatusEvent(held, s)
           es == Append(old, e)
           a == [status |-> s, appliedAt |-> app[j].appliedAt \/ first, events |-> es]
<1>1. /\ appCall[c].pc = "update" /\ UNCHANGED <<outcomes, silent>>
      /\ Request(c, IF first THEN [pc |-> "record", job |-> j] ELSE NoRequest)
      /\ app' = [app EXCEPT ![j] = [status |-> s, appliedAt |-> @.appliedAt \/ first,
                                    events |-> Append(@.events, e)]]
    BY DEF Update
<1>2. j \in TrackedJobs /\ s \in ApplicationStatus /\ held \in Applications
    BY <1>1, RequestForm, FullForm
<1>3. app[j] \in Applications /\ old \in Seq(Moves) /\ app[j].appliedAt \in BOOLEAN
      /\ app[j].status \in Statuses /\ held.appliedAt \in BOOLEAN /\ held.status \in Statuses
    BY <1>2 DEF TrackInv, TrackForms, Applications
<1>4. app' = [app EXCEPT ![j] = a]
    BY <1>1, <1>2 DEF TrackInv, TrackForms
<1>5. j \notin crossed => held = app[j]
    BY <1>1 DEF TrackInv, HeldIsCurrent
<1>6. first \in BOOLEAN /\ (first <=> s = "APPLIED" /\ ~held.appliedAt)
    BY <1>3 DEF FirstApplied
<1>7. e \in Moves /\ e.from = held.status /\ e.to = s
    BY <1>2, <1>3 DEF StatusEvent, Moves, Statuses
<1> HIDE DEF e, first
<1>8. es \in Seq(Moves)
    BY <1>3, <1>7
<1>9. a \in Applications /\ a.status = s /\ a.events = es
      /\ (a.appliedAt <=> app[j].appliedAt \/ first)
  <2> HIDE DEF es
  <2> QED
      BY <1>2, <1>3, <1>6, <1>8 DEF Applications, Statuses
<1>10. ASSUME Told(app[j]), held = app[j] PROVE Told(a)
  <2>1. /\ es # <<>> /\ es[Len(es)].to = e.to
        /\ \A i \in DOMAIN es : es[i].from = IF i = 1 THEN "none" ELSE es[i - 1].to
    <3>1. /\ old = <<>> => app[j].status = "none"
          /\ \A i \in DOMAIN old : old[i].from = IF i = 1 THEN "none" ELSE old[i - 1].to
          /\ old # <<>> => app[j].status = old[Len(old)].to
        BY <1>10 DEF Told
    <3>2. e.from = app[j].status
        BY <1>7, <1>10
    <3>3. e.from = IF old = <<>> THEN "none" ELSE old[Len(old)].to
        BY <3>1, <3>2
    <3> HIDE DEF old
    <3> QED
        BY <1>3, <1>7, <3>1, <3>3, OneMoreEvent
  <2> HIDE DEF a, es
  <2> QED
      BY <1>7, <1>9, <2>1 DEF Told
<1> HIDE DEF a
<1> QED
    BY <1>1, <1>4, <1>5, <1>6, <1>9, <1>10, RowWrittenKeeps

-----------------------------------------------------------------------------
LEMMA RecordKeeps == ASSUME TrackInv, NEW c \in Callers, RecordApplied(c) PROVE TrackInv'
<1>1. /\ appCall[c].pc = "record" /\ Request(c, NoRequest) /\ app' = app
      /\ \/ /\ silent' = silent
            /\ \E score \in ShownScores :
                 outcomes' = Append(outcomes, OutcomeEvent("APPLIED", appCall[c].job, score, score))
         \/ silent' = silent + 1 /\ outcomes' = outcomes
    BY DEF RecordApplied
<1>2. /\ appCall' \in [Callers -> Requests] /\ appCall'[c] = NoRequest
      /\ \A d \in Callers \ {c} : appCall'[d] = appCall[d]
      /\ crossed \subseteq crossed' /\ AloneUnlessCrossed'
    BY <1>1, NoRequestIs, RequestMade DEF TrackInv
<1>3. appCall[c].job \in TrackedJobs
    BY <1>1, RequestForm DEF Short
<1>4. EventsTold' /\ HeldIsCurrent'
    BY <1>1, <1>2, NoRequestIs DEF TrackInv, EventsTold, HeldIsCurrent
<1>5. CASE silent' = silent + 1 /\ outcomes' = outcomes
    BY <1>1, <1>2, <1>4, <1>5 DEF TrackInv, TrackForms, SentIsCounted
<1>6. ASSUME NEW score \in ShownScores, silent' = silent,
             outcomes' = Append(outcomes, OutcomeEvent("APPLIED", appCall[c].job, score, score))
      PROVE  TrackInv'
  <2> DEFINE o == OutcomeEvent("APPLIED", appCall[c].job, score, score)
  <2>1. o \in Outcomes /\ o.type = "APPLIED" /\ o.job = appCall[c].job
      BY <1>3 DEF OutcomeEvent, Outcomes
  <2> HIDE DEF o
  <2>2. outcomes' = Append(outcomes, o) /\ outcomes \in Seq(Outcomes)
      BY <1>6 DEF o, TrackInv, TrackForms
  <2>3. /\ outcomes' \in Seq(Outcomes) /\ Len(outcomes) \in Nat
        /\ DOMAIN outcomes = 1 .. Len(outcomes) /\ DOMAIN outcomes' = 1 .. Len(outcomes) + 1
        /\ \A i \in 1 .. Len(outcomes) : outcomes'[i] = outcomes[i]
        /\ outcomes'[Len(outcomes) + 1] = o
      BY <2>1, <2>2
  <2>4. TrackForms'
      BY <1>1, <1>2, <1>6, <2>3 DEF TrackInv, TrackForms
  <2>5. SentIsCounted'
    <3> SUFFICES ASSUME silent = 0, NEW k \in TrackedJobs \ crossed'
                 PROVE  Counted(appCall', outcomes', k, app[k].appliedAt)
        BY <1>1, <1>6 DEF SentIsCounted
    <3>1. Counted(appCall, outcomes, k, app[k].appliedAt)
        BY <1>2 DEF TrackInv, SentIsCounted
    <3>2. CASE k = appCall[c].job
      <4>1. c \in Pending(appCall, k)
          BY <1>1, <3>2 DEF Pending
      <4>2. /\ app[k].appliedAt /\ Recorded(outcomes, k) = {} /\ Pending(appCall, k) = {c}
          BY <3>1, <4>1 DEF Counted
      <4>3. Pending(appCall', k) = {}
          BY <1>2, <4>2, NoRequestIs DEF Pending
      <4>4. Recorded(outcomes', k) = {Len(outcomes) + 1}
        <5>1. \A i \in 1 .. Len(outcomes) : i \notin Recorded(outcomes', k)
            BY <2>3, <4>2 DEF Recorded
        <5>2. Len(outcomes) + 1 \in Recorded(outcomes', k)
            BY <2>1, <2>3, <3>2 DEF Recorded
        <5>3. \A i \in 1 .. Len(outcomes) + 1 : i \in 1 .. Len(outcomes) \/ i = Len(outcomes) + 1
            BY <2>3
        <5>4. Recorded(outcomes', k) \subseteq 1 .. Len(outcomes) + 1
            BY <2>3 DEF Recorded
        <5> QED
            BY <5>1, <5>2, <5>3, <5>4
      <4>5. Len(outcomes) + 1 \in DOMAIN outcomes'
          BY <2>3
      <4> QED
          BY <4>2, <4>3, <4>4, <4>5 DEF Counted
    <3>3. CASE k # appCall[c].job
      <4>1. Pending(appCall', k) = Pending(appCall, k)
          BY <1>2, <3>3, NoRequestIs DEF Pending
      <4>2. Recorded(outcomes', k) = Recorded(outcomes, k)
        <5>1. \A i \in 1 .. Len(outcomes) + 1 : i \in 1 .. Len(outcomes) \/ i = Len(outcomes) + 1
            BY <2>3
        <5>2. Len(outcomes) + 1 \notin Recorded(outcomes', k)
            BY <2>1, <2>3, <3>3 DEF Recorded
        <5>3. \A i \in 1 .. Len(outcomes) : i \in Recorded(outcomes', k) <=> i \in Recorded(outcomes, k)
            BY <2>3 DEF Recorded
        <5>4. Recorded(outcomes', k) \subseteq 1 .. Len(outcomes) + 1
              /\ Recorded(outcomes, k) \subseteq 1 .. Len(outcomes)
            BY <2>3 DEF Recorded
        <5> QED
            BY <5>1, <5>2, <5>3, <5>4
      <4>3. DOMAIN outcomes \subseteq DOMAIN outcomes'
          BY <2>3
      <4> QED
          BY <3>1, <4>1, <4>2, <4>3 DEF Counted
    <3> QED
        BY <3>2, <3>3
  <2> QED
      BY <1>2, <1>4, <2>4, <2>5 DEF TrackInv
<1> QED
    BY <1>1, <1>5, <1>6

LEMMA ReportKeeps ==
    ASSUME TrackInv, NEW type \in {"SHOWN", "CLICKED", "DISMISSED"}, NEW j \in TrackedJobs,
           NEW s \in ShownScores, NEW d \in ShownScores, Report(type, j, s, d)
    PROVE  TrackInv'
<1> DEFINE o == OutcomeEvent(type, j, s, d)
<1>1. /\ outcomes' = Append(outcomes, o) /\ UNCHANGED <<app, appCall, silent, crossed>>
      /\ outcomes \in Seq(Outcomes)
    BY DEF Report, TrackInv, TrackForms
<1>2. o \in Outcomes /\ o.type # "APPLIED"
    BY DEF OutcomeEvent, Outcomes
<1> HIDE DEF o
<1>3. /\ outcomes' \in Seq(Outcomes) /\ Len(outcomes) \in Nat
      /\ DOMAIN outcomes = 1 .. Len(outcomes) /\ DOMAIN outcomes' = 1 .. Len(outcomes) + 1
      /\ \A i \in 1 .. Len(outcomes) : outcomes'[i] = outcomes[i]
      /\ outcomes'[Len(outcomes) + 1] = o
    BY <1>1, <1>2
<1>4. ASSUME NEW k PROVE Recorded(outcomes', k) = Recorded(outcomes, k)
  <2>1. \A i \in 1 .. Len(outcomes) + 1 : i \in 1 .. Len(outcomes) \/ i = Len(outcomes) + 1
      BY <1>3
  <2>2. Len(outcomes) + 1 \notin Recorded(outcomes', k)
      BY <1>2, <1>3 DEF Recorded
  <2>3. \A i \in 1 .. Len(outcomes) : i \in Recorded(outcomes', k) <=> i \in Recorded(outcomes, k)
      BY <1>3 DEF Recorded
  <2>4. Recorded(outcomes', k) \subseteq 1 .. Len(outcomes) + 1
        /\ Recorded(outcomes, k) \subseteq 1 .. Len(outcomes)
      BY <1>3 DEF Recorded
  <2> QED
      BY <2>1, <2>2, <2>3, <2>4
<1>5. SentIsCounted'
  <2> SUFFICES ASSUME silent = 0, NEW k \in TrackedJobs \ crossed
               PROVE  Counted(appCall, outcomes', k, app[k].appliedAt)
      BY <1>1 DEF SentIsCounted
  <2>1. Counted(appCall, outcomes, k, app[k].appliedAt)
      BY DEF TrackInv, SentIsCounted
  <2>2. DOMAIN outcomes \subseteq DOMAIN outcomes'
      BY <1>3
  <2> QED
      BY <1>4, <2>1, <2>2 DEF Counted
<1> QED
    BY <1>1, <1>3, <1>5
       DEF TrackInv, TrackForms, EventsTold, AloneUnlessCrossed, HeldIsCurrent

LEMMA TrackInitInv == TrackInit => TrackInv
<1> SUFFICES ASSUME TrackInit PROVE TrackInv
    OBVIOUS
<1>1. /\ app = [j \in TrackedJobs |-> NoApp] /\ outcomes = <<>> /\ silent = 0 /\ crossed = {}
      /\ appCall = [c \in Callers |-> NoRequest]
    BY DEF TrackInit
<1>2. TrackForms
    BY <1>1, NoRequestIs DEF TrackForms
<1>3. EventsTold
    BY <1>1, NoRequestIs DEF EventsTold, Told
<1>4. AloneUnlessCrossed /\ HeldIsCurrent
    BY <1>1, NoRequestIs DEF AloneUnlessCrossed, HeldIsCurrent, Writes
<1>5. \A j \in TrackedJobs : Pending(appCall, j) = {} /\ Recorded(outcomes, j) = {}
                             /\ ~app[j].appliedAt
    BY <1>1, NoRequestIs DEF Pending, Recorded
<1> QED
    BY <1>2, <1>3, <1>4, <1>5 DEF TrackInv, SentIsCounted, Counted

LEMMA TrackStepInv == ASSUME TrackInv, [TrackNext]_trackVars PROVE TrackInv'
<1>1. CASE UNCHANGED trackVars
    BY <1>1 DEF trackVars, TrackInv, TrackForms, EventsTold, AloneUnlessCrossed, HeldIsCurrent,
                SentIsCounted
<1>2. ASSUME NEW c \in Callers, NEW j \in TrackedJobs, NEW s \in UsedStatuses, NEW note \in BOOLEAN,
             Post(c, j, s, note) \/ Patch(c, j, s, note)
      PROVE  TrackInv'
  <2>1. s \in ApplicationStatus
      BY TrackerConstants
  <2>2. appCall[c].pc # "record"
      BY <1>2, NoRequestIs DEF Post, Patch
  <2> QED
      BY <1>2, <2>1, <2>2, CreateFromJobKeeps, TransitionKeeps DEF Post, Patch
<1>3. ASSUME NEW c \in Callers, NEW n \in DOMAIN Notifications, Tap(c, n) PROVE TrackInv'
  <2> DEFINE r == [pc |-> "tapped", job |-> Notifications[n]]
  <2>1. r \in Requests /\ r.pc = "tapped"
      BY TrackerConstants DEF Requests, Short
  <2>2. Request(c, r) /\ appCall[c].pc # "record" /\ UNCHANGED <<app, outcomes, silent>>
      BY <1>3, NoRequestIs DEF Tap
  <2> HIDE DEF r
  <2> QED
      BY <2>1, <2>2, OnlyAsks
<1>4. ASSUME NEW c \in Callers, TapRecords(c) PROVE TrackInv'
  <2>1. appCall[c].pc = "tapped" /\ appCall[c].job \in TrackedJobs
      BY <1>4, RequestForm DEF TapRecords, Short
  <2>2. "APPLIED" \in ApplicationStatus /\ FALSE \in BOOLEAN
      BY DEF ApplicationStatus
  <2> QED
      BY <1>4, <2>1, <2>2, CreateFromJobKeeps DEF TapRecords
<1>5. ASSUME NEW c \in Callers, Move(c) PROVE TrackInv'
  <2>1. appCall[c].pc = "move"
      BY <1>5 DEF Move
  <2>2. /\ appCall[c].job \in TrackedJobs /\ appCall[c].to \in ApplicationStatus
        /\ appCall[c].note \in BOOLEAN
      BY <2>1, RequestForm, FullForm
  <2> QED
      BY <1>5, <2>1, <2>2, TransitionKeeps DEF Move
<1> QED
    BY <1>1, <1>2, <1>3, <1>4, <1>5, CreateKeeps, UpdateKeeps, RecordKeeps, ReportKeeps
       DEF TrackNext, CallerStep

(* The events of an application tell its history from its creation to its  *)
(* status, and an application that was sent is in the outcome log, or on   *)
(* its way there, exactly once; but for two requests that wrote the same   *)
(* application at once, and inserts that failed (applications.service.ts). *)
THEOREM LogsTellTheTruth == TrackSpec => []LogsTellTheHistory
<1>1. TrackInv => EventsTellTheHistory
    BY DEF TrackInv, EventsTold, Told, EventsTellTheHistory
<1>2. TrackInv => AppliedIsCountedOnce
  <2> SUFFICES ASSUME TrackInv, silent = 0, NEW j \in TrackedJobs \ crossed
               PROVE  LET recorded == Cardinality({i \in OfType(outcomes, {"APPLIED"}) : outcomes[i].job = j})
                          pending == Cardinality({c \in Callers : appCall[c].pc = "record" /\ appCall[c].job = j})
                      IN recorded + pending = IF app[j].appliedAt THEN 1 ELSE 0
      BY DEF AppliedIsCountedOnce
  <2>1. {i \in OfType(outcomes, {"APPLIED"}) : outcomes[i].job = j} = Recorded(outcomes, j)
      BY DEF OfType, Recorded
  <2>2. {c \in Callers : appCall[c].pc = "record" /\ appCall[c].job = j} = Pending(appCall, j)
      BY DEF Pending
  <2>3. Counted(appCall, outcomes, j, app[j].appliedAt)
      BY DEF TrackInv, SentIsCounted
  <2>4. Cardinality({}) = 0 /\ \A x : Cardinality({x}) = 1
      BY FS_EmptySet, FS_Singleton
  <2>5. Cardinality(Recorded(outcomes, j)) + Cardinality(Pending(appCall, j))
           = IF app[j].appliedAt THEN 1 ELSE 0
    <3>1. CASE app[j].appliedAt
        BY <2>3, <2>4, <3>1 DEF Counted
    <3>2. CASE ~app[j].appliedAt
        BY <2>3, <2>4, <3>2 DEF Counted
    <3> QED
        BY <3>1, <3>2
  <2> QED
      BY <2>1, <2>2, <2>5
<1> QED
    BY <1>1, <1>2, TrackInitInv, TrackStepInv, PTL DEF TrackSpec, LogsTellTheHistory
=============================================================================
