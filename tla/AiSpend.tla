------------------------------ MODULE AiSpend -------------------------------
(***************************************************************************)
(* What the model calls cost and what keeps them in bounds: the retries and *)
(* the quota circuit of the providers (gemini.provider.ts,                 *)
(* vertex-gemini.provider.ts), the usage records (ai-usage.service.ts) and *)
(* the ceiling the evaluation belt checks before a tick (reconcileAll,     *)
(* matching.service.ts).  The circuit is one variable of one process, the  *)
(* records are written behind the answer.  A call costs one unit.          *)
(***************************************************************************)
EXTENDS Integers, FiniteSets

CONSTANTS
    Belts,          \* ticks of the belt that may run at once
    Unguarded,      \* callers that do not look at the budget (incremental matcher, parsing)
    Budget,         \* dailyBudgetUsd of the day
    TickCalls,      \* calls of one tick
    MAX_RETRIES,
    MaxBill, MaxCrashes

Spenders == Belts \cup Unguarded

ASSUME SpendConstants ==
    /\ Belts \cap Unguarded = {} /\ IsFiniteSet(Spenders) /\ Spenders # {}
    /\ {Budget, MaxBill, MaxCrashes} \subseteq Nat
    /\ {TickCalls, MAX_RETRIES} \subseteq Nat \ {0}

VARIABLES
    call,      \* the caller's tick and its call: [pc, left, attempt]
    circuit,   \* circuitOpenUntil lies ahead: "open"
    priced,    \* the configured model is in PRICE_PER_MTOK
    spent,     \* what the usage rows of the day add up to
    inflight,  \* usage rows not yet written
    billed,    \* history: what the provider charges for
    unseen,    \* history: charges no usage row will ever carry
    others,    \* history: charges of the callers without a budget
    late,      \* history: usage rows in flight when the latest tick began
    hammered,  \* history: requests sent since the circuit opened
    crashes

spendVars == <<call, circuit, priced, spent, inflight, billed, unseen, others, late,
               hammered, crashes>>

NoSpend == [pc |-> "idle", left |-> 0, attempt |-> 0]

-----------------------------------------------------------------------------
\* MUTANT of ceilingReached: the ceiling is noticed one unit late
overBudget(sum) == sum > Budget

\* reconcileAll does nothing once the ceiling is reached.
ceilingReached(sum) == sum >= Budget

\* A tick of the belt (a turn of another caller) begins.
StartTick(c) ==
    /\ call[c].pc = "idle"
    /\ c \in Belts => ~ceilingReached(spent)
    /\ late' = IF c \in Belts THEN inflight ELSE late
    /\ call' = [call EXCEPT ![c] = [pc |-> "next", left |-> TickCalls, attempt |-> 0]]
    /\ UNCHANGED <<circuit, priced, spent, inflight, billed, unseen, others, hammered, crashes>>

\* request: no HTTP call while the circuit is open.
admitted == circuit = "closed"

ended(c) ==
    [call EXCEPT ![c] = IF call[c].left = 1 THEN NoSpend
                        ELSE [pc |-> "next", left |-> call[c].left - 1, attempt |-> 0]]

\* The next call passes the circuit, or fails on it (QuotaExhaustedError).
Begin(c) ==
    /\ call[c].pc = "next"
    /\ IF admitted
       THEN call' = [call EXCEPT ![c] = [pc |-> "request", left |-> call[c].left, attempt |-> 1]]
       ELSE call' = ended(c)
    /\ UNCHANGED <<circuit, priced, spent, inflight, billed, unseen, others, late, hammered,
                   crashes>>

Sends(c) ==
    /\ call[c].pc = "request"
    /\ hammered' = IF circuit' = "open" THEN (IF circuit = "open" THEN hammered + 1 ELSE 0) ELSE 0

\* Charges counted: a row is on its way where the answer had text and the model
\* has a price.
Charge(c, row) ==
    /\ billed < MaxBill
    /\ billed' = billed + 1
    /\ others' = IF c \in Unguarded THEN others + 1 ELSE others
    /\ inflight' = IF row /\ priced THEN inflight + 1 ELSE inflight
    /\ unseen' = IF row /\ priced THEN unseen ELSE unseen + 1

\* An answer closes the circuit, whoever opened it.  An answer without text is an
\* error, recorded without its tokens.
Answered(c) ==
    /\ circuit' = "closed"
    /\ Sends(c)
    /\ \E text \in BOOLEAN : Charge(c, text)
    /\ call' = ended(c)
    /\ UNCHANGED <<priced, spent, late, crashes>>

\* 429 and 5xx are tried again, after a pause, up to MAX_RETRIES; the last 429
\* opens the circuit; any other status ends the call.
Refused(c, status) ==
    LET again == status # "4xx" /\ call[c].attempt < MAX_RETRIES
    IN /\ circuit' = IF ~again /\ status = "429" THEN "open" ELSE circuit
       /\ Sends(c)
       /\ call' = IF again THEN [call EXCEPT ![c].attempt = @ + 1] ELSE ended(c)
       /\ UNCHANGED <<priced, spent, inflight, billed, unseen, others, late, crashes>>

CooldownPasses ==
    /\ circuit = "open"
    /\ circuit' = "closed" /\ hammered' = 0
    /\ UNCHANGED <<call, priced, spent, inflight, billed, unseen, others, late, crashes>>

\* record: fire and forget.
RowWritten(ok) ==
    /\ inflight > 0
    /\ inflight' = inflight - 1
    /\ spent' = IF ok THEN spent + 1 ELSE spent
    /\ unseen' = IF ok THEN unseen ELSE unseen + 1
    /\ UNCHANGED <<call, circuit, priced, billed, others, late, hammered, crashes>>

\* The process restarts: the circuit and the rows in flight are gone.
Crash ==
    /\ crashes < MaxCrashes
    /\ crashes' = crashes + 1
    /\ call' = [c \in Spenders |-> NoSpend]
    /\ circuit' = "closed" /\ hammered' = 0
    /\ inflight' = 0 /\ unseen' = unseen + inflight
    /\ UNCHANGED <<priced, spent, billed, others, late>>

SpendInit ==
    /\ call = [c \in Spenders |-> NoSpend]
    /\ circuit = "closed" /\ priced \in BOOLEAN
    /\ spent = 0 /\ inflight = 0 /\ billed = 0 /\ unseen = 0 /\ others = 0 /\ late = 0
    /\ hammered = 0 /\ crashes = 0

SpendNext ==
    \/ \E c \in Spenders :
          \/ StartTick(c) \/ Begin(c) \/ Answered(c)
          \/ \E status \in {"429", "5xx", "4xx"} : Refused(c, status)
    \/ CooldownPasses \/ Crash
    \/ \E ok \in BOOLEAN : RowWritten(ok)

SpendSpec == SpendInit /\ [][SpendNext]_spendVars

-----------------------------------------------------------------------------
\* Once the quota is known to be gone, no more requests are sent than the calls
\* already under way had attempts left: queued work does not hammer the API
\* (request, gemini.provider.ts and vertex-gemini.provider.ts).
OpenCircuitIsQuiet == hammered <= (Cardinality(Spenders) - 1) * MAX_RETRIES

\* The bill of a day exceeds the ceiling by no more than one tick of each belt,
\* the rows in flight when the last tick looked, what no row ever carries (a lost
\* row, an answer without text, a model without a price) and what the callers
\* without a budget spend (reconcileAll, AiUsageService.record).
OverspendIsBounded ==
    LET ceiling == IF Budget = 0 THEN 0 ELSE Budget - 1 + Cardinality(Belts) * TickCalls
    IN billed <= ceiling + late + unseen + others

\* The two brakes hold: the ceiling of the day and the open circuit.
SpendingIsContained == OverspendIsBounded /\ OpenCircuitIsQuiet
=============================================================================
