---------------------------- MODULE CorpusProofs ----------------------------
(***************************************************************************)
(* Theorems about the services that bring postings into the corpus and keep *)
(* them: the descriptions of the rows (Hydration), the cards of an alert   *)
(* mail (LinkedInAlert), the boards guessed for a company (Prober), the    *)
(* companies themselves (CompanyRegistry), the career pages read without a *)
(* board (CareerPages) and the walks of the boards (BoardWalk).  They      *)
(* share no state; each part has its own specification.                    *)
(***************************************************************************)
EXTENDS Hydration, LinkedInAlert, Prober, CompanyRegistry, CareerPages, BoardWalk,
        WellFoundedInduction, FiniteSetTheorems, TLAPS

\* A set of indices has a least one, which is what the readers of lists choose.
LEMMA LeastIndex ==
    ASSUME NEW S, S \subseteq Nat, S # {}
    PROVE  \E i \in S : \A k \in S : i <= k
<1> DEFINE R == OpToRel(<, Nat)
<1>1. IsWellFoundedOn(R, Nat)
    BY NatLessThanWellFounded
<1>2. \A x, y \in Nat : y < x => <<y, x>> \in R
    BY DEF OpToRel
<1> HIDE DEF R
<1>3. PICK i \in S : \A k \in S : <<k, i>> \notin R
    BY <1>1, WFMin
<1>4. \A k \in S : i \in Nat /\ k \in Nat /\ ~(k < i)
    BY <1>2, <1>3
<1>5. \A k \in S : i <= k
    BY <1>4
<1> QED
    BY <1>5

LEMMA ChosenLeast ==
    ASSUME NEW S, S \subseteq Nat, S # {}
    PROVE  LET i == CHOOSE i \in S : \A k \in S : i <= k
           IN i \in S /\ \A k \in S : i <= k
BY LeastIndex

-----------------------------------------------------------------------------
(***************************************************************************)
(* Hydration.  The claim, the pages and the repair are minutes apart, so   *)
(* what the two properties need is a record of what has been carried over  *)
(* from one to the next: of which row an update is, that it is stronger    *)
(* than the body claimed, and that nobody but a crawl or a twin has        *)
(* written the row since.                                                  *)
(***************************************************************************)
HydrationForms ==
    /\ DOMAIN body = Postings
    /\ hyd \in [pc : {"rest", "fetch", "repair", "update"}, claimed : {hyd.claimed},
                todo : SUBSET Postings, updates : {hyd.updates}, writes : {hyd.writes}]
    /\ hyd.pc \in {"repair", "update"} => hyd.todo = {}
    /\ hyd.writes # {} => hyd.pc = "update"

\* A text of r, or of a row under its very key.
IsOf(b, r) == b.of \in Postings /\ sameKey(b.of, r)

\* What decideHydration found.
Stronger(u) ==
    /\ charsOf(u) > charsOf(hyd.claimed[u.of])
    /\ charsOf(u) >= MIN_CHARS

BodiesAreOwn == \A r \in Postings : IsOf(body[r], r)

UpdatesAreStronger ==
    /\ \A u \in hyd.updates : u.of \in Postings /\ Stronger(u)
    /\ \A w \in hyd.writes : w = <<w[1], w[2]>> /\ w[1] \in Postings
                             /\ IsOf(w[2], w[1]) /\ Stronger(w[2])

\* Rows whose page is still to be read, matched or written.
Pending == hyd.todo \cup {u.of : u \in hyd.updates} \cup {w[2].of : w \in hyd.writes}

\* A source is repaired once: what is being written is not written again.
RepairedOnce == \A u \in hyd.updates, w \in hyd.writes : u.of # w[2].of

ClaimedIsStored ==
    \A r \in Pending : r \notin touched /\ ~HasTwin(r) => hyd.claimed[r] = body[r]

HydrationInv ==
    /\ HydrationForms /\ BodiesAreOwn /\ UpdatesAreStronger
    /\ RepairedOnce /\ ClaimedIsStored

-----------------------------------------------------------------------------
LEMMA HydrationInitInv == HydrationInit => HydrationInv
<1> SUFFICES ASSUME HydrationInit PROVE HydrationInv
    OBVIOUS
<1>1. /\ DOMAIN body = Postings /\ hyd = Resting
      /\ \A r \in Postings : body[r].of = r
    BY DEF HydrationInit
<1>2. HydrationForms
    BY <1>1 DEF HydrationForms, Resting
<1>3. BodiesAreOwn
    BY <1>1 DEF BodiesAreOwn, IsOf, sameKey
<1>4. UpdatesAreStronger /\ RepairedOnce /\ ClaimedIsStored
    BY <1>1 DEF UpdatesAreStronger, RepairedOnce, ClaimedIsStored, Pending, Resting
<1> QED
    BY <1>2, <1>3, <1>4 DEF HydrationInv

LEMMA CrawlKeeps == ASSUME HydrationInv, NEW r \in Postings, Crawl(r) PROVE HydrationInv'
<1>1. PICK b \in Brings[r] : body' = [body EXCEPT ![r] = [of |-> r, form |-> b.form]]
    BY DEF Crawl
<1>2. /\ body'[r] = [of |-> r, form |-> b.form]
      /\ \A s \in Postings \ {r} : body'[s] = body[s]
      /\ DOMAIN body' = Postings
    BY <1>1 DEF HydrationInv, HydrationForms
<1>3. touched' = touched \cup {r} /\ hyd' = hyd
    BY DEF Crawl
<1>4. HydrationForms'
    BY <1>2, <1>3 DEF HydrationInv, HydrationForms
<1>5. BodiesAreOwn'
    BY <1>2 DEF HydrationInv, BodiesAreOwn, IsOf, sameKey
<1>6. UpdatesAreStronger' /\ RepairedOnce'
    BY <1>3 DEF HydrationInv, UpdatesAreStronger, Stronger, RepairedOnce
<1>7. ClaimedIsStored'
  <2>1. Pending' = Pending /\ Pending \subseteq Postings
      BY <1>3 DEF Pending, HydrationInv, HydrationForms, UpdatesAreStronger, IsOf
  <2> QED
      BY <2>1, <1>2, <1>3 DEF HydrationInv, ClaimedIsStored
<1> QED
    BY <1>4, <1>5, <1>6, <1>7 DEF HydrationInv

LEMMA ClaimKeeps == ASSUME HydrationInv, Claim PROVE HydrationInv'
<1>1. PICK batch \in SUBSET due :
         hyd' = [Resting EXCEPT
             !.pc = "fetch", !.todo = batch,
             !.claimed = [r \in Postings |-> IF r \in batch THEN body[r] ELSE NoBody]]
    BY DEF Claim
<1>2. /\ hyd'.pc = "fetch" /\ hyd'.todo = batch /\ hyd'.updates = {} /\ hyd'.writes = {}
      /\ \A r \in batch : hyd'.claimed[r] = body[r]
      /\ hyd' \in [pc : {"rest", "fetch", "repair", "update"}, claimed : {hyd'.claimed},
                   todo : SUBSET Postings, updates : {hyd'.updates}, writes : {hyd'.writes}]
    BY <1>1 DEF Resting, due
<1>3. body' = body
    BY DEF Claim
<1>4. HydrationForms'
    BY <1>2, <1>3 DEF HydrationInv, HydrationForms
<1>5. BodiesAreOwn' /\ UpdatesAreStronger' /\ RepairedOnce'
    BY <1>2, <1>3 DEF HydrationInv, BodiesAreOwn, UpdatesAreStronger, RepairedOnce
<1>6. ClaimedIsStored'
    BY <1>2, <1>3 DEF ClaimedIsStored, Pending
<1> QED
    BY <1>4, <1>5, <1>6 DEF HydrationInv

LEMMA FetchKeeps ==
    ASSUME HydrationInv, NEW r \in Postings, NEW form, FetchPage(r, form) PROVE HydrationInv'
<1> DEFINE page == [of |-> r, form |-> form]
           written == decideHydration(hyd.claimed[r], page) = "WRITE"
<1>1. /\ hyd.pc = "fetch" /\ r \in hyd.todo
      /\ UNCHANGED <<body, touched>>
      /\ hyd' = [hyd EXCEPT !.todo = @ \ {r},
                            !.updates = @ \cup (IF written THEN {page} ELSE {}),
                            !.pc = IF hyd.todo = {r} THEN "repair" ELSE "fetch"]
    BY DEF FetchPage
<1>2. /\ hyd'.todo = hyd.todo \ {r} /\ hyd'.claimed = hyd.claimed /\ hyd'.writes = hyd.writes
      /\ hyd'.updates = hyd.updates \cup (IF written THEN {page} ELSE {})
      /\ hyd'.pc = IF hyd.todo = {r} THEN "repair" ELSE "fetch"
      /\ hyd' \in [pc : {"rest", "fetch", "repair", "update"}, claimed : {hyd'.claimed},
                   todo : SUBSET Postings, updates : {hyd'.updates}, writes : {hyd'.writes}]
  <2> HIDE DEF written, page
  <2>1. hyd \in [pc : {"rest", "fetch", "repair", "update"}, claimed : {hyd.claimed},
                 todo : SUBSET Postings, updates : {hyd.updates}, writes : {hyd.writes}]
      BY DEF HydrationInv, HydrationForms
  <2> QED
      BY <1>1, <2>1
<1>3. hyd.writes = {} /\ hyd'.writes = {}
    BY <1>1, <1>2 DEF HydrationInv, HydrationForms
<1>4. written => charsOf(page) > charsOf(hyd.claimed[page.of]) /\ charsOf(page) >= MIN_CHARS
    BY DEF decideHydration, isJobDescription, charsOf
<1>5. \A u \in hyd'.updates : u \in hyd.updates \/ (written /\ u = page)
    BY <1>2
<1>6. page.of = r
    OBVIOUS
<1> HIDE DEF written, page
<1>7. HydrationForms'
    BY <1>1, <1>2, <1>3 DEF HydrationInv, HydrationForms
<1>8. UpdatesAreStronger'
    BY <1>2, <1>3, <1>4, <1>5, <1>6 DEF HydrationInv, UpdatesAreStronger, Stronger
<1>9. BodiesAreOwn' /\ RepairedOnce'
    BY <1>1, <1>3 DEF HydrationInv, BodiesAreOwn, RepairedOnce
<1>10. ClaimedIsStored'
  <2>1. Pending' \subseteq Pending
    <3>1. \A u \in hyd'.updates : u.of \in Pending
        BY <1>1, <1>5, <1>6 DEF Pending
    <3>2. hyd'.todo \subseteq Pending
        BY <1>2 DEF Pending
    <3> QED
        BY <1>3, <3>1, <3>2 DEF Pending
  <2> QED
      BY <2>1, <1>1, <1>2 DEF HydrationInv, ClaimedIsStored, HasTwin
<1> QED
    BY <1>7, <1>8, <1>9, <1>10 DEF HydrationInv

\* The rows an update may be for are read source by source.
LEMMA RepairReads ==
    ASSUME HydrationInv, RepairRead
    PROVE  \E source :
              LET done == {w \in hyd.updates : KeyOfRow[w.of].source = source}
              IN /\ hyd'.updates = hyd.updates \ done
                 /\ \A w \in hyd'.writes : /\ w = <<w[1], w[2]>> /\ w[1] \in Postings
                                           /\ w[2] \in done /\ sameKey(w[2].of, w[1])
                 /\ hyd'.pc \in {"repair", "update"} /\ (hyd'.writes # {} => hyd'.pc = "update")
                 /\ hyd'.todo = hyd.todo /\ hyd'.claimed = hyd.claimed
                 /\ hyd' \in [pc : {"rest", "fetch", "repair", "update"}, claimed : {hyd'.claimed},
                              todo : SUBSET Postings, updates : {hyd'.updates},
                              writes : {hyd'.writes}]
<1>1. PICK u \in hyd.updates :
         LET source  == KeyOfRow[u.of].source
             updates == {w \in hyd.updates : KeyOfRow[w.of].source = source}
         IN \E rowOf \in [updates -> Postings] :
              /\ \A w \in updates : sameKey(w.of, rowOf[w])
              /\ LET written == {<<rowOf[w], w>> : w \in {x \in updates : body[rowOf[x]] # x}}
                 IN hyd' = [hyd EXCEPT
                        !.updates = @ \ updates, !.writes = written,
                        !.pc = IF written = {} THEN "repair" ELSE "update"]
    BY DEF RepairRead
<1> DEFINE done == {w \in hyd.updates : KeyOfRow[w.of].source = KeyOfRow[u.of].source}
<1>2. PICK rowOf \in [done -> Postings] :
         /\ \A w \in done : sameKey(w.of, rowOf[w])
         /\ LET written == {<<rowOf[w], w>> : w \in {x \in done : body[rowOf[x]] # x}}
            IN hyd' = [hyd EXCEPT
                   !.updates = @ \ done, !.writes = written,
                   !.pc = IF written = {} THEN "repair" ELSE "update"]
    BY <1>1
<1> DEFINE written == {<<rowOf[w], w>> : w \in {x \in done : body[rowOf[x]] # x}}
<1>3. \A w \in written : /\ w = <<w[1], w[2]>> /\ w[1] \in Postings
                        /\ w[2] \in done /\ sameKey(w[2].of, w[1])
    BY <1>2
<1>4. hyd' = [hyd EXCEPT !.updates = @ \ done, !.writes = written,
                         !.pc = IF written = {} THEN "repair" ELSE "update"]
    BY <1>2
<1>5. hyd \in [pc : {"rest", "fetch", "repair", "update"}, claimed : {hyd.claimed},
               todo : SUBSET Postings, updates : {hyd.updates}, writes : {hyd.writes}]
    BY DEF HydrationInv, HydrationForms
<1> HIDE DEF written, done
<1>6. /\ hyd'.updates = hyd.updates \ done /\ hyd'.writes = written
      /\ hyd'.pc \in {"repair", "update"} /\ (hyd'.writes # {} => hyd'.pc = "update")
      /\ hyd'.todo = hyd.todo /\ hyd'.claimed = hyd.claimed
      /\ hyd' \in [pc : {"rest", "fetch", "repair", "update"}, claimed : {hyd'.claimed},
                   todo : SUBSET Postings, updates : {hyd'.updates}, writes : {hyd'.writes}]
    BY <1>4, <1>5
<1>7. WITNESS KeyOfRow[u.of].source
<1> QED
    BY <1>3, <1>4, <1>6 DEF done

LEMMA RepairReadKeeps == ASSUME HydrationInv, RepairRead PROVE HydrationInv'
<1>1. PICK source :
              LET done == {w \in hyd.updates : KeyOfRow[w.of].source = source}
              IN /\ hyd'.updates = hyd.updates \ done
                 /\ \A w \in hyd'.writes : /\ w = <<w[1], w[2]>> /\ w[1] \in Postings
                                           /\ w[2] \in done /\ sameKey(w[2].of, w[1])
                 /\ hyd'.pc \in {"repair", "update"} /\ (hyd'.writes # {} => hyd'.pc = "update")
                 /\ hyd'.todo = hyd.todo /\ hyd'.claimed = hyd.claimed
                 /\ hyd' \in [pc : {"rest", "fetch", "repair", "update"}, claimed : {hyd'.claimed},
                              todo : SUBSET Postings, updates : {hyd'.updates},
                              writes : {hyd'.writes}]
    BY RepairReads
<1> DEFINE done == {w \in hyd.updates : KeyOfRow[w.of].source = source}
<1>2. /\ hyd.pc = "repair" /\ UNCHANGED <<body, touched>>
    BY DEF RepairRead
<1>3. hyd.todo = {} /\ hyd'.todo = {} /\ hyd'.claimed = hyd.claimed
    BY <1>1, <1>2 DEF HydrationInv, HydrationForms
<1>4. /\ hyd'.updates = hyd.updates \ done /\ done \subseteq hyd.updates
      /\ \A w \in hyd'.writes : /\ w = <<w[1], w[2]>> /\ w[1] \in Postings
                                /\ w[2] \in done /\ sameKey(w[2].of, w[1])
    BY <1>1
<1>5. HydrationForms'
    BY <1>1, <1>2, <1>3 DEF HydrationInv, HydrationForms
<1>6. BodiesAreOwn'
    BY <1>2 DEF HydrationInv, BodiesAreOwn
<1>7. RepairedOnce'
    BY <1>1 DEF RepairedOnce
<1> HIDE DEF done
<1>8. UpdatesAreStronger'
    BY <1>3, <1>4 DEF HydrationInv, UpdatesAreStronger, Stronger, IsOf
<1>9. ClaimedIsStored'
  <2>1. Pending' \subseteq Pending
      BY <1>3, <1>4 DEF Pending
  <2> QED
      BY <2>1, <1>2, <1>3 DEF HydrationInv, ClaimedIsStored, HasTwin
<1> QED
    BY <1>5, <1>6, <1>7, <1>8, <1>9 DEF HydrationInv

\* Of two updates of a row either may be taken, and nothing else is written.
LEMMA RepairWrites ==
    ASSUME HydrationInv, RepairUpdate
    PROVE  /\ DOMAIN body' = Postings
           /\ \A r \in Postings :
                 \/ body'[r] = body[r]
                 \/ \E w \in hyd.writes : w[1] = r /\ body'[r] = w[2]
<1>1. PICK taken :
         /\ \A r \in {w[1] : w \in hyd.writes} : <<r, taken[r]>> \in hyd.writes
         /\ body' = [r \in Postings |->
                        IF r \in {w[1] : w \in hyd.writes} THEN taken[r] ELSE body[r]]
    BY DEF RepairUpdate
<1>2. ASSUME NEW r \in Postings, body'[r] # body[r]
      PROVE  \E w \in hyd.writes : w[1] = r /\ body'[r] = w[2]
  <2>1. <<r, taken[r]>> \in hyd.writes /\ body'[r] = taken[r]
      BY <1>1, <1>2
  <2> QED
      BY <2>1
<1> QED
    BY <1>1, <1>2

LEMMA RepairUpdateKeeps == ASSUME HydrationInv, RepairUpdate PROVE HydrationInv'
<1>1. /\ hyd.pc = "update" /\ touched' = touched
      /\ hyd' = [hyd EXCEPT !.pc = "repair", !.writes = {}]
    BY DEF RepairUpdate
<1>2. /\ hyd'.pc = "repair" /\ hyd'.writes = {} /\ hyd'.updates = hyd.updates
      /\ hyd'.claimed = hyd.claimed /\ hyd'.todo = hyd.todo /\ hyd.todo = {}
      /\ hyd' \in [pc : {"rest", "fetch", "repair", "update"}, claimed : {hyd'.claimed},
                   todo : SUBSET Postings, updates : {hyd'.updates}, writes : {hyd'.writes}]
    BY <1>1 DEF HydrationInv, HydrationForms
<1>3. /\ DOMAIN body' = Postings
      /\ \A r \in Postings : \/ body'[r] = body[r]
                             \/ \E w \in hyd.writes : w[1] = r /\ body'[r] = w[2]
    BY RepairWrites
<1>4. HydrationForms'
    BY <1>1, <1>2, <1>3 DEF HydrationInv, HydrationForms
<1>5. BodiesAreOwn'
    BY <1>3 DEF HydrationInv, BodiesAreOwn, UpdatesAreStronger
<1>6. UpdatesAreStronger' /\ RepairedOnce'
    BY <1>2 DEF HydrationInv, UpdatesAreStronger, Stronger, RepairedOnce
<1>7. ClaimedIsStored'
  <2> SUFFICES ASSUME NEW u \in hyd.updates, u.of \notin touched, ~HasTwin(u.of)
               PROVE  hyd.claimed[u.of] = body'[u.of]
      BY <1>1, <1>2 DEF ClaimedIsStored, Pending, HasTwin
  <2>1. u.of \in Postings
      BY DEF HydrationInv, UpdatesAreStronger
  <2>2. hyd.claimed[u.of] = body[u.of]
      BY DEF HydrationInv, ClaimedIsStored, Pending
  <2>3. ASSUME NEW w \in hyd.writes, w[1] = u.of
        PROVE  FALSE
    <3>1. w[2].of \in Postings /\ KeyOfRow[w[2].of] = KeyOfRow[u.of]
        BY <2>3 DEF HydrationInv, UpdatesAreStronger, IsOf, sameKey
    <3>2. w[2].of = u.of
        BY <3>1 DEF HasTwin
    <3> QED
        BY <3>2 DEF HydrationInv, RepairedOnce
  <2> QED
      BY <1>3, <2>1, <2>2, <2>3
<1> QED
    BY <1>4, <1>5, <1>6, <1>7 DEF HydrationInv

LEMMA HydrationStep == HydrationInv /\ [HydrationNext]_hydVars => HydrationInv'
<1> SUFFICES ASSUME HydrationInv, [HydrationNext]_hydVars
             PROVE  HydrationInv'
    OBVIOUS
<1>1. CASE HydrationEnds
  <2>1. hyd' = Resting /\ UNCHANGED <<body, touched>>
      BY <1>1 DEF HydrationEnds
  <2>2. /\ hyd'.pc = "rest" /\ hyd'.todo = {} /\ hyd'.updates = {} /\ hyd'.writes = {}
        /\ hyd' \in [pc : {"rest", "fetch", "repair", "update"}, claimed : {hyd'.claimed},
                     todo : SUBSET Postings, updates : {hyd'.updates}, writes : {hyd'.writes}]
      BY <2>1 DEF Resting
  <2> QED
      BY <2>1, <2>2 DEF HydrationInv, HydrationForms, BodiesAreOwn, UpdatesAreStronger,
                        RepairedOnce, ClaimedIsStored, Pending
<1>2. ASSUME UNCHANGED <<body, hyd, touched>>
      PROVE  HydrationInv'
  <2>1. Pending' = Pending
      BY <1>2 DEF Pending
  <2> QED
      BY <1>2, <2>1 DEF HydrationInv, HydrationForms, BodiesAreOwn, UpdatesAreStronger, Stronger,
                        RepairedOnce, ClaimedIsStored
<1>3. CASE \E r \in Postings : RetryDue(r)
    BY <1>2, <1>3 DEF RetryDue
<1>4. CASE UNCHANGED hydVars
    BY <1>2, <1>4 DEF hydVars
<1> QED
    BY <1>1, <1>3, <1>4, CrawlKeeps, ClaimKeeps, FetchKeeps, RepairReadKeeps,
       RepairUpdateKeeps DEF HydrationNext

\* Wherever a hydration and the crawls beside it meet, a row tells of its own posting
\* or of one of its very source and externalId.
THEOREM RowsKeepTheirOwn == HydrationSpec => []RowsTellTheirOwn
<1>1. HydrationInv => RowsTellTheirOwn
    BY DEF HydrationInv, BodiesAreOwn, IsOf, sameKey, RowsTellTheirOwn, HasTwin
<1> QED
    BY <1>1, HydrationInitInv, HydrationStep, PTL DEF HydrationSpec

\* A repair never weakens a body that only the hydration has written since its claim.
THEOREM RepairsOnlyStrengthen == HydrationSpec => RepairsStrengthen
<1> DEFINE Strengthens ==
      \A r \in Postings :
         hyd.pc = "update" /\ body'[r] # body[r] /\ r \notin touched' /\ ~HasTwin(r) =>
            charsOf(body'[r]) > charsOf(body[r]) /\ charsOf(body'[r]) >= MIN_CHARS
<1>1. HydrationInv /\ [HydrationNext]_hydVars => [Strengthens]_hydVars
  <2> SUFFICES ASSUME HydrationInv, HydrationNext, NEW r \in Postings,
                      hyd.pc = "update", body'[r] # body[r], r \notin touched', ~HasTwin(r)
               PROVE  charsOf(body'[r]) > charsOf(body[r]) /\ charsOf(body'[r]) >= MIN_CHARS
      BY DEF hydVars
  <2>1. CASE RepairUpdate
    <3>1. PICK w \in hyd.writes : w[1] = r /\ body'[r] = w[2]
        BY <2>1, RepairWrites
    <3>2. w[2].of \in Postings /\ sameKey(w[2].of, r) /\ Stronger(w[2])
        BY <3>1 DEF HydrationInv, UpdatesAreStronger, IsOf
    <3>3. w[2].of = r
        BY <3>2 DEF HasTwin, sameKey
    <3>4. r \notin touched
        BY <2>1 DEF RepairUpdate
    <3>5. hyd.claimed[r] = body[r]
        BY <3>3, <3>4 DEF HydrationInv, ClaimedIsStored, Pending
    <3> QED
        BY <3>1, <3>2, <3>3, <3>5 DEF Stronger
  <2>2. CASE \E s \in Postings : Crawl(s)
    <3>1. PICK s \in Postings : Crawl(s)
        BY <2>2
    <3>2. s = r
        BY <3>1 DEF Crawl, HydrationInv, HydrationForms
    <3> QED
        BY <3>1, <3>2 DEF Crawl
  <2>3. CASE ~RepairUpdate /\ ~\E s \in Postings : Crawl(s)
    <3>1. body' = body
        BY <2>3 DEF HydrationNext, RetryDue, FetchPage, Claim, RepairRead, HydrationEnds
    <3> QED
        BY <3>1
  <2> QED
      BY <2>1, <2>2, <2>3
<1> QED
    BY <1>1, HydrationInitInv, HydrationStep, PTL DEF HydrationSpec, RepairsStrengthen

-----------------------------------------------------------------------------
(***************************************************************************)
(* LinkedInAlert.  A job is what JobAt reads at its link, so it is enough  *)
(* to say what stands where it reads: first the lines of the card, and     *)
(* behind them only lines of no card or of one whose link is still to      *)
(* come.  And a job that was parsed is not parsed again.                   *)
(***************************************************************************)
Line == [is : {"link", "line"}, says : STRING, of : Nat, pos : Nat]

AlertForm == alert \in Seq(Line) /\ InOrder(alert)

Readable == {JobAt(at) : at \in Links}

JobsOwn ==
    /\ jobs \in Seq(Readable)
    /\ \A i, k \in DOMAIN jobs : jobs[i].id = jobs[k].id => i = k

AlertInv == AlertForm /\ JobsOwn

-----------------------------------------------------------------------------
LEMMA ForemostIs ==
    ASSUME NEW S, S \subseteq Nat
    PROVE  /\ S = {} => Foremost(S) = Nowhere
           /\ S # {} => Foremost(S) \in S /\ \A k \in S : Foremost(S) <= k
BY LeastIndex DEF Foremost

\* The foremost of some lines behind a link is its card's, or a stray line; and its
\* card's when one of them is.
LEMMA FieldIsOwn ==
    ASSUME AlertForm, NEW at \in Links, NEW S, S \subseteq linesAfterTitle(at)
    PROVE  /\ (\E i \in Behind(at) : i \in S) => alert[Foremost(S)].of = alert[at].of
           /\ Foremost(S) # Nowhere => \/ alert[Foremost(S)].of = alert[at].of
                                       \/ Stray(Foremost(S))
<1> DEFINE f == Foremost(S)
<1>1. /\ DOMAIN alert \subseteq Nat /\ at \in DOMAIN alert /\ alert[at].is = "link"
      /\ \A i \in DOMAIN alert : alert[i].of \in Nat
  <2>1. DOMAIN alert = 1 .. Len(alert) /\ \A i \in DOMAIN alert : alert[i] \in Line
      BY DEF AlertForm
  <2>2. \A i \in DOMAIN alert : alert[i].of \in Nat
      BY <2>1 DEF Line
  <2> QED
      BY <2>1, <2>2 DEF Links
<1>2. S \subseteq Nat /\ S \subseteq DOMAIN alert
    BY <1>1 DEF linesAfterTitle, cardHtml
<1>3. /\ S = {} => f = Nowhere
      /\ S # {} => f \in S /\ \A k \in S : f <= k
    BY <1>2, ForemostIs
<1> HIDE DEF f
<1>4. ASSUME f \in S, f # at
      PROVE  at < f /\ \A k \in Links : k <= at \/ f < k
    BY <1>4 DEF linesAfterTitle, cardHtml
<1>5. ASSUME NEW i \in Behind(at), i \in S
      PROVE  alert[f].of = alert[at].of
  <2>1. f \in S /\ f <= i /\ f \in DOMAIN alert
      BY <1>2, <1>3, <1>5
  <2>2. CASE f = at
      BY <2>2
  <2>3. CASE f # at
      BY <1>4, <1>5, <2>1, <2>3 DEF Behind
  <2> QED
      BY <2>2, <2>3
<1>6. ASSUME f # Nowhere, alert[f].of # alert[at].of, ~Stray(f)
      PROVE  FALSE
  <2>1. f \in S /\ f # at /\ f \in DOMAIN alert
      BY <1>2, <1>3, <1>6
  <2>2. PICK k \in Links : alert[k].of = alert[f].of /\ ~(f < k)
      BY <1>6 DEF Stray
  <2>3. at < f /\ k <= at /\ k # at
      BY <1>4, <1>6, <2>1, <2>2
  <2>4. k \in DOMAIN alert /\ k < at
      BY <1>1, <2>3 DEF Links
  <2>5. /\ alert[f].of # 0 /\ alert[at].of # 0
        /\ alert[k].of <= alert[at].of /\ alert[at].of <= alert[f].of
      BY <1>1, <1>6, <2>1, <2>2, <2>3, <2>4 DEF AlertForm, InOrder, Stray, Links
  <2> QED
      BY <1>1, <1>6, <2>1, <2>2, <2>5
<1> QED
    BY <1>5, <1>6 DEF f

\* What the theorem says of a job.
OwnFields(j) ==
    /\ (\E i \in Behind(j.at) : NamesCompany(alert[i])) => alert[j.company].of = j.id
    /\ (\E i \in Behind(j.at) : NamesPlace(alert[i])) => alert[j.location].of = j.id
    /\ (\E i \in Behind(j.at) : NamesDate(alert[i])) => alert[j.postedAt].of = j.id
    /\ \A f \in {j.company, j.location, j.postedAt} :
          f # Nowhere => alert[f].of = j.id \/ Stray(f)

LEMMA JobIsItsOwn ==
    ASSUME AlertForm, NEW at \in Links
    PROVE  OwnFields(JobAt(at))
<1> DEFINE fields    == linesAfterTitle(at)
           companies == {i \in fields : NamesCompany(alert[i])}
           places    == {i \in fields : NamesPlace(alert[i])}
           dates     == {i \in fields : NamesDate(alert[i])}
<1>1. JobAt(at) = [at |-> at, id |-> alert[at].of, company |-> Foremost(companies),
                   location |-> Foremost(places), postedAt |-> Foremost(dates)]
    BY DEF JobAt, pickCompany, pickLocation, pickPostedAt
<1>2. Behind(at) \subseteq fields
    BY DEF Behind, linesAfterTitle
<1>3. /\ companies \subseteq linesAfterTitle(at) /\ places \subseteq linesAfterTitle(at)
      /\ dates \subseteq linesAfterTitle(at)
    OBVIOUS
<1>4. /\ \A i \in Behind(at) : NamesCompany(alert[i]) => i \in companies
      /\ \A i \in Behind(at) : NamesPlace(alert[i]) => i \in places
      /\ \A i \in Behind(at) : NamesDate(alert[i]) => i \in dates
    BY <1>2
<1> HIDE DEF fields, companies, places, dates
<1>5. /\ (\E i \in Behind(at) : i \in companies) => alert[Foremost(companies)].of = alert[at].of
      /\ Foremost(companies) # Nowhere =>
            alert[Foremost(companies)].of = alert[at].of \/ Stray(Foremost(companies))
    BY <1>3, FieldIsOwn
<1>6. /\ (\E i \in Behind(at) : i \in places) => alert[Foremost(places)].of = alert[at].of
      /\ Foremost(places) # Nowhere =>
            alert[Foremost(places)].of = alert[at].of \/ Stray(Foremost(places))
    BY <1>3, FieldIsOwn
<1>7. /\ (\E i \in Behind(at) : i \in dates) => alert[Foremost(dates)].of = alert[at].of
      /\ Foremost(dates) # Nowhere =>
            alert[Foremost(dates)].of = alert[at].of \/ Stray(Foremost(dates))
    BY <1>3, FieldIsOwn
<1> QED
    BY <1>1, <1>4, <1>5, <1>6, <1>7 DEF OwnFields

-----------------------------------------------------------------------------
LEMMA AlertStepInv == ASSUME AlertInv, [AlertNext]_alertVars PROVE AlertInv'
<1>1. CASE UNCHANGED alertVars
    BY <1>1 DEF AlertInv, AlertForm, JobsOwn, Readable, JobAt, Links, linesAfterTitle, cardHtml,
                pickCompany, pickLocation, pickPostedAt, alertVars
<1>2. CASE ParseLink
  <2> DEFINE ahead == {i \in Links : link < i}
             at == Foremost(ahead)
             job == JobAt(at)
  <2>1. /\ at # Nowhere /\ alert' = alert
        /\ jobs' = IF \/ \E j \in ToSet(jobs) : j.id = job.id
                      \/ alert[at].says = "nothing" \/ job.company = Nowhere
                   THEN jobs ELSE Append(jobs, job)
      BY <1>2 DEF ParseLink
  <2>2. ahead \subseteq Nat /\ ahead \subseteq Links
      BY DEF Links, AlertInv, AlertForm
  <2>3. at \in Links
      BY <2>1, <2>2, ForemostIs
  <2>4. job \in Readable
      BY <2>3 DEF Readable
  <2>5. Readable' = Readable
    <3>1. alert' = alert
        BY <2>1
    <3>2. Links' = Links
        BY <3>1 DEF Links
    <3>3. ASSUME NEW k \in Links
          PROVE  JobAt(k)' = JobAt(k)
      <4>1. linesAfterTitle(k)' = linesAfterTitle(k)
          BY <3>1 DEF linesAfterTitle, cardHtml, Links
      <4> QED
          BY <3>1, <4>1 DEF JobAt, pickCompany, pickLocation, pickPostedAt
    <3> QED
        BY <3>2, <3>3 DEF Readable
  <2>6. AlertForm'
      BY <2>1 DEF AlertInv, AlertForm
  <2> HIDE DEF job, at
  <2>7. CASE jobs' = jobs
      BY <2>5, <2>6, <2>7 DEF AlertInv, JobsOwn
  <2>8. CASE jobs' # jobs
    <3>1. jobs' = Append(jobs, job) /\ \A j \in ToSet(jobs) : j.id # job.id
        BY <2>1, <2>8
    <3>2. \A i \in DOMAIN jobs : jobs[i].id # job.id
        BY <3>1 DEF ToSet
    <3>3. jobs \in Seq(Readable) /\ Len(jobs) \in Nat /\ DOMAIN jobs = 1 .. Len(jobs)
        BY DEF AlertInv, JobsOwn
    <3>4. /\ jobs' \in Seq(Readable) /\ DOMAIN jobs' = 1 .. Len(jobs) + 1
          /\ \A i \in 1 .. Len(jobs) : jobs'[i] = jobs[i]
          /\ jobs'[Len(jobs) + 1] = job
        BY <2>4, <3>1, <3>3
    <3>5. \A i \in 1 .. Len(jobs) + 1 : i \in 1 .. Len(jobs) \/ i = Len(jobs) + 1
        BY <3>3
    <3>6. \A i, k \in DOMAIN jobs' : jobs'[i].id = jobs'[k].id => i = k
        BY <3>2, <3>3, <3>4, <3>5 DEF AlertInv, JobsOwn
    <3> QED
        BY <2>5, <2>6, <3>4, <3>6 DEF AlertInv, JobsOwn
  <2> QED
      BY <2>7, <2>8
<1> QED
    BY <1>1, <1>2 DEF AlertNext

(* A job of an alert has the company, the place and the date its card shows *)
(* behind its link, and otherwise none or a stray line's, whatever stands  *)
(* between the cards and however long they are; and it comes of one        *)
(* posting (linkedin-alert.parser.ts).                                     *)
THEOREM AlertFieldsAreOwn == AlertSpec => []FieldsAreTheCardsOwn
<1>1. AlertInit => AlertInv
    BY AlertConstants DEF AlertInit, AlertInv, AlertForm, JobsOwn, Line
<1>2. AlertInv => FieldsAreTheCardsOwn
  <2> SUFFICES ASSUME AlertInv PROVE FieldsAreTheCardsOwn
      OBVIOUS
  <2>1. ASSUME NEW j \in ToSet(jobs) PROVE OwnFields(j)
    <3>1. j \in Readable
        BY <2>1 DEF AlertInv, JobsOwn, ToSet
    <3>2. PICK at \in Links : j = JobAt(at)
        BY <3>1 DEF Readable
    <3> QED
        BY <3>2, JobIsItsOwn DEF AlertInv
  <2> QED
      BY <2>1 DEF AlertInv, JobsOwn, OwnFields, FieldsAreTheCardsOwn
<1> QED
    BY <1>1, <1>2, AlertStepInv, PTL DEF AlertSpec

-----------------------------------------------------------------------------
(***************************************************************************)
(* Prober.  A probe is judged by what the web of the company said: the     *)
(* spellings are read in order, each by its first live board and only then *)
(* by its first shell.                                                     *)
(***************************************************************************)
ProbeInv == web \in Webs /\ (probed = NotProbed \/ probed = probeCompany(web))

Slugs == [DOMAIN Providers7 -> {"none", "empty", "live"}]

LEMMA Provided ==
    /\ DOMAIN Providers7 = 1 .. 7
    /\ \A k \in 1 .. 7 : Providers7[k] # NoBoard
BY DEF Providers7, NoBoard

\* The first provider with a given answer, of those the answer counts for.
LEMMA FirstAnswers ==
    ASSUME NEW slug \in Slugs, NEW answer, FirstWith(slug, answer) # NoBoard
    PROVE  \E k \in DOMAIN slug : slug[k] = answer /\ Providers7[k] = FirstWith(slug, answer)
<1> DEFINE S == {i \in DOMAIN slug : slug[i] = answer /\ validate(Providers7[i], answer)}
<1>1. S # {} /\ S \subseteq Nat
    BY Provided DEF FirstWith, Slugs
<1>2. FirstWith(slug, answer) = Providers7[CHOOSE i \in S : \A k \in S : i <= k]
    BY <1>1 DEF FirstWith
<1>3. (CHOOSE i \in S : \A k \in S : i <= k) \in S
    BY <1>1, ChosenLeast
<1> QED
    BY <1>2, <1>3

LEMMA LiveIsAnswered ==
    ASSUME NEW slug \in Slugs, IsLive(slug)
    PROVE  FirstWith(slug, "live") # NoBoard
<1> DEFINE S == {i \in DOMAIN slug : slug[i] = "live" /\ validate(Providers7[i], "live")}
<1>1. S # {} /\ S \subseteq 1 .. 7
    BY Provided DEF IsLive, validate, Slugs
<1>2. FirstWith(slug, "live") = Providers7[CHOOSE i \in S : \A k \in S : i <= k]
    BY <1>1 DEF FirstWith
<1>3. (CHOOSE i \in S : \A k \in S : i <= k) \in S
  <2>1. S \subseteq Nat
      BY <1>1
  <2> HIDE DEF S
  <2> QED
      BY <1>1, <2>1, ChosenLeast
<1> QED
    BY <1>1, <1>2, <1>3, Provided

\* A spelling with a live board is answered by a live board.
LEMMA LiveBeatsShell ==
    ASSUME NEW slug \in Slugs, IsLive(slug)
    PROVE  guessSlug(slug) # NoBoard /\ IsLiveAt(slug, guessSlug(slug))
<1>1. guessSlug(slug) = FirstWith(slug, "live") /\ guessSlug(slug) # NoBoard
    BY LiveIsAnswered DEF guessSlug
<1> QED
    BY <1>1, FirstAnswers DEF IsLiveAt

\* The guess is that of the first spelling that has one.
LEMMA GuessIsTheFirst ==
    ASSUME NEW slugs \in Seq(Slugs), NEW i \in DOMAIN slugs, IsLive(slugs[i])
    PROVE  \E k \in 1 .. i : /\ guessSlug(slugs[k]) = guessAtsToken(slugs)
                             /\ k = i => IsLiveAt(slugs[k], guessAtsToken(slugs))
<1> DEFINE S == {j \in DOMAIN slugs : guessSlug(slugs[j]) # NoBoard}
<1>1. /\ DOMAIN slugs = 1 .. Len(slugs) /\ Len(slugs) \in Nat /\ slugs[i] \in Slugs
    OBVIOUS
<1>2. guessSlug(slugs[i]) # NoBoard /\ IsLiveAt(slugs[i], guessSlug(slugs[i]))
    BY <1>1, LiveBeatsShell
<1>3. i \in S /\ S \subseteq Nat /\ S \subseteq 1 .. Len(slugs)
    BY <1>1, <1>2
<1> DEFINE k == CHOOSE j \in S : \A l \in S : j <= l
<1>4. guessAtsToken(slugs) = guessSlug(slugs[k])
    BY <1>3 DEF guessAtsToken
<1>5. k \in S /\ k <= i
  <2> HIDE DEF S
  <2> QED
      BY <1>3, ChosenLeast
<1>6. k \in 1 .. i
    BY <1>1, <1>3, <1>5
<1> HIDE DEF k
<1> QED
    BY <1>2, <1>4, <1>6

\* Only a company that says nothing of its board is guessed at.
LEMMA GuessedAtLast ==
    ASSUME NEW w, probeCompany(w).guessed
    PROVE  /\ ~w.hint.alive \/ w.hint.board = NoBoard
           /\ probeCompany(w).board = guessAtsToken(w.slugs)
<1> DEFINE hinted == IF w.hint.alive THEN w.hint.board ELSE NoBoard
           home == IF w.home.alive /\ hinted = NoBoard THEN HomeLinks(w.home) ELSE <<>>
           linked == FirstBoard(home)
           careerLink == \E i \in DOMAIN home : home[i].career \/ home[i].board # NoBoard
           pathTried == w.home.alive /\ hinted = NoBoard /\ linked = NoBoard /\ ~careerLink
           onPath == IF pathTried /\ w.path.alive THEN w.path.board ELSE NoBoard
           page == hinted # NoBoard \/ careerLink \/ (pathTried /\ w.path.alive)
           known == CHOOSE b \in {hinted, linked, onPath} :
                       \/ b # NoBoard
                       \/ {hinted, linked, onPath} = {NoBoard}
           inCareer == IF known = NoBoard /\ page /\ w.career.alive
                       THEN FirstBoard(Tried(w.career)) ELSE NoBoard
           found == CASE known # NoBoard -> known
                      [] inCareer # NoBoard -> inCareer
                      [] OTHER -> guessAtsToken(w.slugs)
           was == known = NoBoard /\ inCareer = NoBoard /\ found # NoBoard
<1>1. probeCompany(w) = [websiteVerified |-> w.home.alive, careerPage |-> page,
                         board |-> found, guessed |-> was]
    BY DEF probeCompany
<1>2. probeCompany(w).board = found /\ (probeCompany(w).guessed <=> was)
  <2> HIDE DEF page, found, was
  <2> QED
      BY <1>1
<1>3. known = NoBoard /\ inCareer = NoBoard
    BY <1>2
<1>4. found = guessAtsToken(w.slugs)
  <2> HIDE DEF known, inCareer
  <2> QED
      BY <1>3
<1>5. hinted = NoBoard
  <2> HIDE DEF hinted, linked, onPath
  <2>1. CASE hinted # NoBoard
      BY <1>3, <2>1
  <2> QED
      BY <2>1
<1> QED
    BY <1>2, <1>4, <1>5

(* A live board beats an empty shell within a spelling, the spellings are  *)
(* tried in order, and only a company that says nothing of its board is    *)
(* guessed at (probeCompany, guessAtsToken, guessSlug; prober.ts).         *)
THEOREM GuessesAreLive == ProbeSpec => []LivePostingsBeatShells
<1>1. ProbeInit => ProbeInv
    BY DEF ProbeInit, ProbeInv
<1>2. ProbeInv /\ [ProbeNext]_probeVars => ProbeInv'
    BY DEF ProbeInv, ProbeNext, probeVars
<1>3. ProbeInv => LivePostingsBeatShells
  <2> SUFFICES ASSUME ProbeInv, probed.guessed PROVE LivePostingsBeatShells
      BY DEF LivePostingsBeatShells
  <2>1. probed = probeCompany(web)
      BY DEF ProbeInv, NotProbed
  <2>2. /\ ~web.hint.alive \/ web.hint.board = NoBoard
        /\ probed.board = guessAtsToken(web.slugs)
      BY <2>1, GuessedAtLast
  <2>3. web.slugs \in Seq(Slugs)
      BY WebConstants DEF ProbeInv, Slugs
  <2> QED
      BY <2>2, <2>3, GuessIsTheFirst DEF LivePostingsBeatShells
<1> QED
    BY <1>1, <1>2, <1>3, PTL DEF ProbeSpec

-----------------------------------------------------------------------------
(***************************************************************************)
(* CompanyRegistry.  A row keeps its name and its maker; while a board is  *)
(* about to insert one, whoever inserts the same identity does so under    *)
(* its eyes; a monitored row, and one being crawled, has a board that can  *)
(* be crawled, unless that was replaced; and an alias leads to a company   *)
(* that carried more jobs when the resolution began.                       *)
(***************************************************************************)
Stages == ProbeStages \cup {"MONITORED"}

IsCompany(x) ==
    /\ x \in [name : Names, site : {x.site}, board : {x.board}, stage : Stages, by : {x.by},
              alias : {x.alias}, token : {x.token}, urls : Seq(Urls)]
    /\ Len(x.urls) <= MaxUrls

\* A monitored row is crawled, unless it lost its board.
Followed(x, lost) == x.stage = "MONITORED" => monitorable(x.board) \/ lost

\* Nobody that a board job for n could have found.
Unseen(n) ==
    \A s \in Row : Key(company[s].name) = Key(n) =>
        ~company[s].name.plain \/ Crowded(s, Key(n)) \/ s \in overlapped

\* A request that is about to insert a row, and the two that go through a list.
IsInsert(w) ==
    /\ w.row.name = w.name /\ w.row.alias = 0
    /\ IsCompany(w.row) /\ Followed(w.row, FALSE)
    /\ w.row.by = "board" => Unseen(w.name)

IsWrite(w) ==
    /\ w.pc = "name" => w.name \in Names
    /\ w.pc = "crawl" => w.row \in Row /\ (Crawled(w.row) \/ w.row \in replaced)
    /\ w.pc = "insert" => IsInsert(w)
    /\ w.pc = "correct" => w \in [pc : {"correct"}, todo : {w.todo}, stored : {w.stored}]
    /\ w.pc = "resolve" => w \in [pc : {"resolve"}, todo : {w.todo}]

RegistryInv ==
    /\ \E S : company \in Seq(S)
    /\ \A r \in Row : IsCompany(company[r]) /\ Followed(company[r], r \in replaced)
    /\ write = [p \in Writers |-> write[p]]
    /\ \A p \in Writers : IsWrite(write[p])
    /\ BoardsFindTheirCompany

-----------------------------------------------------------------------------
LEMMA NewRowIs ==
    ASSUME NEW n \in Names, NEW w, NEW b, NEW stage \in Stages, NEW by,
           NEW x, x = NewRow(n, w, b, stage, by)
    PROVE  /\ IsCompany(x)
           /\ x.name = n /\ x.board = b /\ x.stage = stage /\ x.by = by /\ x.alias = 0
<1>1. <<>> \in Seq(Urls) /\ Len(<<>>) = 0 /\ MaxUrls \in Nat
    BY RegistryConstants
<1> QED
    BY <1>1 DEF NewRow, IsCompany

\* A row with one field written is still that row.
IsStill(y, x) == IsCompany(y) /\ y.name = x.name /\ y.by = x.by

LEMMA BoardWritten ==
    ASSUME NEW x, IsCompany(x), NEW v, NEW y, y = [x EXCEPT !.board = v]
    PROVE  IsStill(y, x) /\ y.stage = x.stage /\ y.board = v /\ y.alias = x.alias
BY DEF IsCompany, IsStill

LEMMA SiteWritten ==
    ASSUME NEW x, IsCompany(x), NEW v, NEW y, y = [x EXCEPT !.site = v]
    PROVE  IsStill(y, x) /\ y.stage = x.stage /\ y.board = x.board /\ y.alias = x.alias
BY DEF IsCompany, IsStill

LEMMA TokenWritten ==
    ASSUME NEW x, IsCompany(x), NEW v, NEW y, y = [x EXCEPT !.token = v]
    PROVE  IsStill(y, x) /\ y.stage = x.stage /\ y.board = x.board /\ y.alias = x.alias
BY DEF IsCompany, IsStill

LEMMA AliasWritten ==
    ASSUME NEW x, IsCompany(x), NEW v, NEW y, y = [x EXCEPT !.alias = v]
    PROVE  IsStill(y, x) /\ y.stage = x.stage /\ y.board = x.board /\ y.alias = v
BY DEF IsCompany, IsStill

LEMMA StageWritten ==
    ASSUME NEW x, IsCompany(x), NEW v, v \in Stages, NEW y, y = [x EXCEPT !.stage = v]
    PROVE  IsStill(y, x) /\ y.stage = v /\ y.board = x.board /\ y.alias = x.alias
BY DEF IsCompany, IsStill

LEMMA UrlsWritten ==
    ASSUME NEW x, IsCompany(x), NEW v, v \in Seq(Urls), Len(v) <= MaxUrls, NEW y, y = [x EXCEPT !.urls = v]
    PROVE  IsStill(y, x) /\ y.stage = x.stage /\ y.board = x.board /\ y.alias = x.alias
BY DEF IsCompany, IsStill

\* A set of rows has one that no other is above.
LEMMA TopOf ==
    ASSUME NEW V, V \subseteq Nat, V # {}, NEW m \in Nat, NEW n, \A v \in V : n[v] \in 0 .. m
    PROVE  \E t \in V : \A s \in V : n[t] > n[s] \/ (n[t] = n[s] /\ t <= s)
<1>1. PICK C : C = {m - n[v] : v \in V}
    OBVIOUS
<1>2. C \subseteq Nat /\ C # {}
  <2>1. ASSUME NEW v \in V PROVE m - n[v] \in Nat
    <3>1. n[v] \in 0 .. m
        OBVIOUS
    <3> QED
        BY <3>1
  <2> QED
      BY <1>1, <2>1
<1>3. PICK c \in C : \A d \in C : c <= d
    BY <1>2, LeastIndex
<1>4. PICK W : W = {v \in V : m - n[v] = c}
    OBVIOUS
<1>5. W \subseteq Nat /\ W # {}
    BY <1>1, <1>3, <1>4
<1>6. PICK t \in W : \A s \in W : t <= s
    BY <1>5, LeastIndex
<1>7. ASSUME NEW s \in V PROVE n[t] > n[s] \/ (n[t] = n[s] /\ t <= s)
  <2>1. m - n[t] = c /\ c <= m - n[s] /\ t \in V
      BY <1>1, <1>3, <1>4
  <2>2. n[t] \in 0 .. m /\ n[s] \in 0 .. m
      BY <2>1
  <2>3. n[t] = n[s] => m - n[s] = c
      BY <2>1, <2>2
  <2>4. n[t] = n[s] => t <= s
      BY <1>4, <1>6, <2>3
  <2> QED
      BY <2>1, <2>2, <2>4
<1> QED
    BY <1>4, <1>6, <1>7

\* The key of a name is one of its prefixes.
LEMMA KeyStarts ==
    ASSUME NEW n \in Names
    PROVE  IsPrefix(Key(n), n.words)
<1>1. PICK w : w = n.words
    OBVIOUS
<1>2. w \in Seq(STRING) /\ w # <<>>
    BY <1>1, RegistryConstants
<1>3. PICK k \in Nat : k = Len(w) /\ k > 0 /\ DOMAIN w = 1 .. k
    BY <1>2
<1>4. PICK V : V = {1} \cup {i \in DOMAIN w : w[i] \notin LEGAL_SUFFIXES}
    OBVIOUS
<1>5. V \subseteq 1 .. k /\ V # {}
    BY <1>3, <1>4
<1>6. PICK v : v = [i \in V |-> i]
    OBVIOUS
<1>7. V \subseteq Nat /\ \A i \in V : v[i] \in 0 .. k
    BY <1>5, <1>6
<1>8. PICK t \in V : \A i \in V : v[t] > v[i] \/ (v[t] = v[i] /\ t <= i)
    BY <1>5, <1>7, TopOf
<1>9. \A i \in V : t >= i
    BY <1>5, <1>6, <1>8
<1>10. Max(V) \in V
    BY <1>9 DEF Max
<1>11. PICK m \in 1 .. k : m = Max(V)
    BY <1>5, <1>10
<1>12. normalizeCompanyName(w) = w \/ normalizeCompanyName(w) = SubSeq(w, 1, m)
    BY <1>4, <1>11 DEF normalizeCompanyName
<1>13. IsPrefix(w, w)
    BY <1>2 DEF IsPrefix
<1>14. IsPrefix(SubSeq(w, 1, m), w)
  <2>1. PICK b : b = SubSeq(w, 1, m)
      OBVIOUS
  <2>2. b \in Seq(STRING) /\ Len(b) = m /\ \A i \in 1 .. m : b[i] = w[i]
      BY <1>2, <1>3, <2>1
  <2>3. SubSeq(b, 1, m) = b
      BY <2>2
  <2> QED
      BY <1>3, <2>1, <2>2, <2>3 DEF IsPrefix
<1> QED
    BY <1>1, <1>12, <1>13, <1>14 DEF Key, KeyOf

\* Where the older names stay, so does the crowd before a row.
LEMMA CrowdStays ==
    ASSUME NEW r, \A s : s < r => (s \in Row' <=> s \in Row),
           \A s \in Row : s < r => company'[s].name = company[s].name, NEW k
    PROVE  Crowded(r, k)' <=> Crowded(r, k)
<1>1. PICK A, B : /\ A = {s \in Row : s < r /\ StartsWith(s, k)}
                  /\ B = {s \in Row' : s < r /\ StartsWith(s, k)'}
    OBVIOUS
<1>2. A = B
    BY <1>1 DEF StartsWith
<1>3. Crowded(r, k) <=> Cardinality(A) >= CANDIDATES
    BY <1>1 DEF Crowded
<1>4. Crowded(r, k)' <=> Cardinality(B) >= CANDIDATES
    BY <1>1 DEF Crowded
<1> QED
    BY <1>2, <1>3, <1>4

\* A list of rows with one row written.
LEMMA RowWritten ==
    ASSUME NEW c, NEW S, c \in Seq(S), NEW r, NEW v,
           NEW d, d = [c EXCEPT ![r] = v]
    PROVE  /\ d \in Seq(S \cup {v}) /\ DOMAIN d = DOMAIN c
           /\ \A s \in DOMAIN c : d[s] = IF s = r THEN v ELSE c[s]
<1>1. PICK k \in Nat : k = Len(c) /\ DOMAIN c = 1 .. k
    OBVIOUS
<1>2. DOMAIN d = 1 .. k /\ \A s \in 1 .. k : d[s] \in S \cup {v}
    BY <1>1
<1>3. d \in [1 .. k -> S \cup {v}]
    BY <1>2
<1> QED
    BY <1>1, <1>2, <1>3

\* A step that leaves the names, and asks for nothing it may not.
LEMMA Rewritten ==
    ASSUME RegistryInv,
           \E S : company' \in Seq(S), DOMAIN company' = Row,
           \A r \in Row : /\ IsCompany(company'[r])
                          /\ company'[r].name = company[r].name /\ company'[r].by = company[r].by
                          /\ Followed(company'[r], r \in replaced')
                          /\ Crawled(r) \/ r \in replaced =>
                                monitorable(company'[r].board) \/ r \in replaced',
           write' = [p \in Writers |-> write'[p]],
           \A p \in Writers : write'[p] = write[p] \/ IsWrite(write'[p]),
           overlapped' = overlapped
    PROVE  RegistryInv'
<1>1. Row' = Row
    BY DEF Row
<1>2. \A r, k : Crowded(r, k)' <=> Crowded(r, k)
    BY <1>1, CrowdStays
<1>3. \A n : Unseen(n) => Unseen(n)'
    BY <1>1, <1>2 DEF Unseen
<1>4. ASSUME NEW p \in Writers PROVE IsWrite(write'[p])
    BY DEF RegistryInv
<1>5. ASSUME NEW p \in Writers PROVE IsWrite(write[p])'
  <2>1. PICK w : w = write'[p]
      OBVIOUS
  <2>2. IsInsert(w) => IsInsert(w)'
      BY <1>3 DEF IsInsert
  <2>3. w.row \in Row /\ (Crawled(w.row) \/ w.row \in replaced) =>
            w.row \in Row' /\ (monitorable(company'[w.row].board) \/ w.row \in replaced')
      BY <1>1
  <2>4. IsWrite(w)
      BY <1>4, <2>1
  <2>5. IsWrite(w)'
      BY <2>2, <2>3, <2>4 DEF IsWrite, Crawled
  <2> QED
      BY <2>1, <2>5
<1>6. BoardsFindTheirCompany'
  <2>1. ASSUME NEW r \in Row, NEW s \in Row, s < r, company'[r].by = "board",
               Key(company'[s].name) = Key(company'[r].name)
        PROVE  \/ ~company'[s].name.plain \/ Crowded(s, Key(company[s].name))'
               \/ r \in overlapped' \/ s \in overlapped'
    <3>1. PICK k : k = Key(company[s].name)
        OBVIOUS
    <3>2. \/ ~company[s].name.plain \/ Crowded(s, k)
          \/ r \in overlapped \/ s \in overlapped
        BY <2>1, <3>1 DEF RegistryInv, BoardsFindTheirCompany
    <3>3. Crowded(s, k)' <=> Crowded(s, Key(company[s].name))'
        BY <3>1
    <3> QED
        BY <1>2, <3>2, <3>3
  <2> QED
      BY <1>1, <2>1 DEF BoardsFindTheirCompany
<1>7. \A r \in Row' : IsCompany(company'[r]) /\ Followed(company'[r], r \in replaced')
    BY <1>1
<1> QED
    BY <1>5, <1>6, <1>7 DEF RegistryInv

\* One row written, and the request that wrote it over.
LEMMA RowTaken ==
    ASSUME RegistryInv, NEW r, NEW x, IsCompany(x),
           company' = company \/ company' = [company EXCEPT ![r] = x],
           company' # company /\ r \in Row => /\ x.name = company[r].name /\ x.by = company[r].by
                                              /\ Followed(x, r \in replaced')
                                              /\ Crawled(r) => \/ monitorable(x.board)
                                                              \/ r \in replaced',
           replaced \subseteq replaced',
           write' = [q \in Writers |-> write'[q]],
           \A q \in Writers : write'[q] = write[q] \/ IsWrite(write'[q]),
           overlapped' = overlapped
    PROVE  RegistryInv'
<1>1. PICK S : company \in Seq(S)
    BY DEF RegistryInv
<1>2. \A s \in Row : /\ IsCompany(company[s])
                     /\ Followed(company[s], s \in replaced')
    BY DEF RegistryInv, Followed
<1>3. PICK d : d = [company EXCEPT ![r] = x]
    OBVIOUS
<1>4. /\ d \in Seq(S \cup {x}) /\ DOMAIN d = Row
      /\ \A s \in Row : d[s] = IF s = r THEN x ELSE company[s]
    BY <1>1, <1>3, RowWritten DEF Row
<1>5. (\E T : company' \in Seq(T)) /\ DOMAIN company' = Row
    BY <1>1, <1>3, <1>4 DEF Row
<1>6. ASSUME NEW s \in Row
      PROVE  /\ IsCompany(company'[s])
             /\ company'[s].name = company[s].name /\ company'[s].by = company[s].by
             /\ Followed(company'[s], s \in replaced')
             /\ Crawled(s) \/ s \in replaced =>
                   monitorable(company'[s].board) \/ s \in replaced'
  <2>1. CASE company' = company
      BY <2>1, <1>2 DEF Crawled
  <2>2. CASE company' # company /\ s # r
      BY <2>2, <1>2, <1>3, <1>4 DEF Crawled
  <2>3. CASE company' # company /\ s = r
      BY <2>3, <1>3, <1>4
  <2> QED
      BY <2>1, <2>2, <2>3
<1> QED
    BY <1>5, <1>6, Rewritten

\* The request of one writer goes on.
LEMMA OneGoesOn ==
    ASSUME RegistryInv, NEW p \in Writers, NEW w, IsWrite(w), write' = [write EXCEPT ![p] = w]
    PROVE  /\ write' = [q \in Writers |-> write'[q]]
           /\ \A q \in Writers : write'[q] = write[q] \/ IsWrite(write'[q])
BY DEF RegistryInv

\* What is written to a row that does not exist is lost.
LEMMA NoSuchRow ==
    ASSUME RegistryInv, NEW r, r \notin Row, NEW v, NEW d, d = [company EXCEPT ![r] = v]
    PROVE  d = company
BY DEF RegistryInv, Row

\* A request begins, or goes on, and no row is written.
LEMMA OnlyAsked ==
    ASSUME RegistryInv, NEW p \in Writers, NEW w, IsWrite(w), write' = [write EXCEPT ![p] = w],
           UNCHANGED <<company, overlapped, replaced>>
    PROVE  RegistryInv'
<1>1. /\ write' = [q \in Writers |-> write'[q]]
      /\ \A q \in Writers : write'[q] = write[q] \/ IsWrite(write'[q])
    BY DEF RegistryInv
<1>2. (\E S : company' \in Seq(S)) /\ DOMAIN company' = Row
    BY DEF RegistryInv, Row
<1>3. \A r \in Row : /\ IsCompany(company'[r])
                     /\ company'[r].name = company[r].name /\ company'[r].by = company[r].by
                     /\ Followed(company'[r], r \in replaced')
                     /\ Crawled(r) \/ r \in replaced =>
                           monitorable(company'[r].board) \/ r \in replaced'
    BY DEF RegistryInv, Crawled
<1> QED
    BY <1>1, <1>2, <1>3, Rewritten

\* An idle request holds nothing, and nor does one that only goes on to read.
LEMMA IdleIsWrite == IsWrite(NoWrite)
BY DEF IsWrite, NoWrite

LEMMA PlainWrite ==
    ASSUME NEW w, w.pc \notin {"name", "crawl", "insert", "correct", "resolve"}
    PROVE  IsWrite(w)
BY DEF IsWrite

LEMMA BoardByAtsKept ==
    ASSUME RegistryInv, NEW p \in Writers, NEW n \in Names, NEW u, BoardByAts(p, n, u)
    PROVE  RegistryInv'
<1>1. PICK v : v = [pc |-> "name", name |-> n, board |-> detectAts(u)]
    OBVIOUS
<1>2. IsWrite(v)
    BY <1>1 DEF IsWrite
<1>3. PICK w : write' = [write EXCEPT ![p] = w] /\ (w = NoWrite \/ w = v)
    BY <1>1 DEF BoardByAts, BeginWrite
<1>4. UNCHANGED <<company, overlapped, replaced>>
    BY DEF BoardByAts
<1> QED
    BY <1>2, <1>3, <1>4, IdleIsWrite, OnlyAsked

LEMMA BoardByNameKept ==
    ASSUME RegistryInv, NEW p \in Writers, BoardByName(p)
    PROVE  RegistryInv'
<1> DEFINE n == write[p].name
           b == write[p].board
<1>1. UNCHANGED <<company, overlapped, replaced>>
    BY DEF BoardByName
<1>2. CASE ByName(n) = {}
  <2>1. PICK x : x = NewRow(n, "none", IF identified(b) THEN b ELSE UNKNOWN,
                            "DISCOVERED", "board")
      OBVIOUS
  <2>2. "DISCOVERED" \in Stages
      BY DEF Stages, ProbeStages
  <2>9. n \in Names
      BY DEF RegistryInv, IsWrite, BoardByName
  <2>3. IsCompany(x) /\ x.name = n /\ x.alias = 0 /\ x.stage = "DISCOVERED"
      BY <2>1, <2>2, <2>9, NewRowIs
  <2>4. PICK w : w = [pc |-> "insert", name |-> n, row |-> x]
      OBVIOUS
  <2>5. w.pc = "insert" /\ w.name = n /\ w.row = x
      BY <2>4
  <2>6. write' = [write EXCEPT ![p] = w]
      BY <1>2, <2>1, <2>4 DEF BoardByName, Then
  <2>7. Unseen(n)
    <3>1. ASSUME NEW s \in Row, Key(company[s].name) = Key(n), company[s].name.plain
          PROVE  Crowded(s, Key(n))
      <4>1. company[s].name \in Names
          BY DEF RegistryInv, IsCompany
      <4>2. StartsWith(s, Key(n))
          BY <3>1, <4>1, KeyStarts DEF StartsWith
      <4> QED
          BY <1>2, <3>1, <4>2 DEF ByName, findByNormalizedName
    <3> QED
        BY <3>1 DEF Unseen
  <2>8. IsWrite(w)
      BY <2>3, <2>5, <2>7 DEF IsWrite, IsInsert, Followed
  <2> QED
      BY <1>1, <2>6, <2>8, OnlyAsked
<1>3. CASE ByName(n) # {}
  <2>1. PICK w : /\ write' = [write EXCEPT ![p] = w]
                 /\ w = NoWrite \/ \E r \in ByName(n) : w = [pc |-> "upgrade", row |-> r, board |-> b]
      BY <1>3 DEF BoardByName, Then
  <2>2. IsWrite(w)
      BY <2>1, IdleIsWrite, PlainWrite
  <2> QED
      BY <1>1, <2>1, <2>2, OnlyAsked
<1> QED
    BY <1>2, <1>3

LEMMA CreateByHandKept ==
    ASSUME RegistryInv, NEW p \in Writers, NEW n \in Names, NEW s, NEW u, CreateByHand(p, n, s, u)
    PROVE  RegistryInv'
<1>1. PICK x : x = NewRow(n, s, detectAts(u), "DISCOVERED", "hand")
    OBVIOUS
<1>2. "DISCOVERED" \in Stages
    BY DEF Stages, ProbeStages
<1>3. IsCompany(x) /\ x.name = n /\ x.alias = 0 /\ x.stage = "DISCOVERED" /\ x.by = "hand"
    BY <1>1, <1>2, NewRowIs
<1>4. PICK v : v = [pc |-> "insert", name |-> n, row |-> x]
    OBVIOUS
<1>5. v.pc = "insert" /\ v.name = n /\ v.row = x
    BY <1>4
<1>6. IsWrite(v)
    BY <1>3, <1>5 DEF IsWrite, IsInsert, Followed
<1>7. PICK w : write' = [write EXCEPT ![p] = w] /\ (w = NoWrite \/ w = v)
    BY <1>1, <1>4 DEF CreateByHand, BeginWrite
<1>8. UNCHANGED <<company, overlapped, replaced>>
    BY DEF CreateByHand
<1> QED
    BY <1>6, <1>7, <1>8, IdleIsWrite, OnlyAsked

LEMMA BulkDiscoverKept ==
    ASSUME RegistryInv, NEW p \in Writers, NEW n \in Names, NEW s, NEW u, BulkDiscover(p, n, s, u)
    PROVE  RegistryInv'
<1> DEFINE b == detectAts(u)
           stage == IF monitorable(b) THEN "MONITORED" ELSE "DISCOVERED"
<1>1. PICK x : x = NewRow(n, s, IF identified(b) THEN b ELSE UNKNOWN, stage, "directory")
    OBVIOUS
<1>2. stage \in Stages
    BY DEF Stages, ProbeStages
<1>3. /\ IsCompany(x) /\ x.name = n /\ x.alias = 0 /\ x.stage = stage /\ x.by = "directory"
      /\ x.board = IF identified(b) THEN b ELSE UNKNOWN
    BY <1>1, <1>2, NewRowIs
<1>4. Followed(x, FALSE)
    BY <1>3 DEF Followed, monitorable
<1>5. PICK v : v = [pc |-> "insert", name |-> n, row |-> x]
    OBVIOUS
<1>6. v.pc = "insert" /\ v.name = n /\ v.row = x
    BY <1>5
<1>7. IsWrite(v)
    BY <1>3, <1>4, <1>6 DEF IsWrite, IsInsert
<1>8. PICK w : /\ write' = [write EXCEPT ![p] = w]
               /\ w = v \/ w.pc = "enrich"
    BY <1>1, <1>5 DEF BulkDiscover, BeginWrite
<1>9. UNCHANGED <<company, overlapped, replaced>>
    BY DEF BulkDiscover
<1> QED
    BY <1>7, <1>8, <1>9, PlainWrite, OnlyAsked

LEMMA BoardUpgradeKept ==
    ASSUME RegistryInv, NEW p \in Writers, BoardUpgrade(p)
    PROVE  RegistryInv'
<1> DEFINE r == write[p].row
           b == write[p].board
<1>1. write' = [write EXCEPT ![p] = NoWrite] /\ overlapped' = overlapped
    BY DEF BoardUpgrade, Then
<1>2. /\ write' = [q \in Writers |-> write'[q]]
      /\ \A q \in Writers : write'[q] = write[q] \/ IsWrite(write'[q])
    BY <1>1, IdleIsWrite, OneGoesOn
<1>3. CASE UNCHANGED <<company, replaced>>
    BY <1>1, <1>3, IdleIsWrite, OnlyAsked
<1>4. CASE ~(UNCHANGED <<company, replaced>>)
  <2> PICK x0, v : x0 = company[r] /\ v = b
      OBVIOUS
  <2>1. PICK x : x = [x0 EXCEPT !.board = v]
      OBVIOUS
  <2>3. company' = [company EXCEPT ![r] = x]
      BY <1>4, <2>1 DEF BoardUpgrade
  <2>4. replaced' = IF company[r].board = UNKNOWN THEN replaced ELSE replaced \cup {r}
      BY <1>4 DEF BoardUpgrade
  <2>5. CASE r \notin Row
    <3>1. company' = company
        BY <2>3, <2>5, NoSuchRow
    <3>2. replaced \subseteq replaced' /\ \A s \in Row : s \in replaced' <=> s \in replaced
        BY <2>4, <2>5
    <3>3. \A s \in Row : /\ IsCompany(company'[s])
                         /\ company'[s].name = company[s].name /\ company'[s].by = company[s].by
                         /\ Followed(company'[s], s \in replaced')
                         /\ Crawled(s) \/ s \in replaced =>
                               monitorable(company'[s].board) \/ s \in replaced'
        BY <3>1, <3>2 DEF RegistryInv, Crawled
    <3> QED
        BY <1>1, <1>2, <3>1, <3>3, Rewritten DEF RegistryInv, Row
  <2>6. CASE r \in Row
    <3>1. IsCompany(x0) /\ Followed(x0, r \in replaced)
        BY <2>6 DEF RegistryInv
    <3>2. IsStill(x, x0) /\ x.stage = x0.stage
        BY <2>1, <3>1, BoardWritten
    <3>3. monitorable(x0.board) => r \in replaced'
        BY <2>4 DEF monitorable, identified, UNKNOWN
    <3>4. Followed(x, r \in replaced')
        BY <2>4, <3>1, <3>2, <3>3 DEF Followed
    <3> QED
        BY <1>1, <1>2, <2>3, <2>4, <3>2, <3>3, <3>4, RowTaken DEF IsStill, Crawled
  <2> QED
      BY <2>5, <2>6
<1> QED
    BY <1>3, <1>4

LEMMA EnrichKept ==
    ASSUME RegistryInv, NEW p \in Writers, Enrich(p)
    PROVE  RegistryInv'
<1> DEFINE r == write[p].row
<1>1. write' = [write EXCEPT ![p] = NoWrite] /\ UNCHANGED <<overlapped, replaced>>
    BY DEF Enrich, Then
<1> PICK x0, v : x0 = company[r] /\ v = write[p].site
    OBVIOUS
<1>2. PICK x : x = [x0 EXCEPT !.site = v]
    OBVIOUS
<1>3. company' = company \/ company' = [company EXCEPT ![r] = x]
    BY <1>2 DEF Enrich
<1>4. CASE company' = company
    BY <1>1, <1>4, IdleIsWrite, OnlyAsked
<1>5. CASE company' # company
  <2>1. r \in Row
      BY <1>3, <1>5, NoSuchRow
  <2>2. IsCompany(x0) /\ Followed(x0, r \in replaced)
      BY <2>1 DEF RegistryInv
  <2>3. IsStill(x, x0) /\ x.stage = x0.stage /\ x.board = x0.board
      BY <1>2, <2>2, SiteWritten
  <2>4. Followed(x, r \in replaced')
      BY <1>1, <2>2, <2>3 DEF Followed
  <2>5. /\ write' = [q \in Writers |-> write'[q]]
        /\ \A q \in Writers : write'[q] = write[q] \/ IsWrite(write'[q])
      BY <1>1, IdleIsWrite, OneGoesOn
  <2> QED
      BY <1>1, <1>3, <2>3, <2>4, <2>5, RowTaken DEF IsStill, Crawled
<1> QED
    BY <1>4, <1>5

LEMMA ApplyResultKept ==
    ASSUME RegistryInv, NEW p \in Writers, NEW r, NEW s, NEW b, NEW page,
           ApplyResult(p, r, s, b, page)
    PROVE  RegistryInv'
<1> PICK t : t = (monitorable(b) /\ BoardTaken(b, r))
    OBVIOUS
<1> PICK w : w = [pc |-> "apply", row |-> r, site |-> s, board |-> b, page |-> page,
                  held |-> company[r].site, claimed |-> t]
    OBVIOUS
<1>1. write' = [write EXCEPT ![p] = w] /\ w.pc = "apply"
    BY DEF ApplyResult, BeginWrite
<1>2. UNCHANGED <<company, overlapped, replaced>>
    BY DEF ApplyResult
<1> QED
    BY <1>1, <1>2, PlainWrite, OnlyAsked

LEMMA ApplyWriteKept ==
    ASSUME RegistryInv, NEW p \in Writers, ApplyWrite(p)
    PROVE  RegistryInv'
<1> DEFINE r == write[p].row
           w == write[p]
<1>1. write' = [write EXCEPT ![p] = NoWrite] /\ overlapped' = overlapped
    BY DEF ApplyWrite, Then
<1>2. /\ write' = [q \in Writers |-> write'[q]]
      /\ \A q \in Writers : write'[q] = write[q] \/ IsWrite(write'[q])
    BY <1>1, IdleIsWrite, OneGoesOn
<1>6. PICK x0, b0, stage, v, g :
       /\ x0 = company[r] /\ b0 = w.board
       /\ stage = stageOf(w.board, w.page, w.site)
       /\ v = (IF w.site = "none" \/ SiteTaken(w.site, r) THEN w.held ELSE w.site)
       /\ g = (IF identified(b0) THEN b0 ELSE x0.board)
    OBVIOUS
<1>3. PICK a : a = [x0 EXCEPT !.stage = "UNRESOLVABLE"]
    OBVIOUS
<1>5. PICK e : e = [x0 EXCEPT !.stage = stage, !.site = v, !.board = g]
    OBVIOUS
<1>7. PICK claimed, refused \in BOOLEAN :
         /\ company' = IF claimed THEN [company EXCEPT ![r] = a]
                       ELSE IF refused THEN company ELSE [company EXCEPT ![r] = e]
         /\ replaced' = IF claimed \/ refused \/ x0.board = UNKNOWN \/ e.board = x0.board
                        THEN replaced ELSE replaced \cup {r}
  <2>1. PICK refused \in BOOLEAN :
           refused = (~w.claimed /\ identified(w.board) /\ BoardTaken(w.board, r))
      OBVIOUS
  <2>2. PICK claimed \in BOOLEAN : claimed <=> w.claimed
      OBVIOUS
  <2> QED
      BY <1>3, <1>5, <1>6, <2>1, <2>2 DEF ApplyWrite
<1>8. replaced \subseteq replaced' /\ \A s : s # r => (s \in replaced' <=> s \in replaced)
    BY <1>7
<1>9. CASE r \notin Row
  <2>1. company' = company
      BY <1>7, <1>9, NoSuchRow
  <2>2. \A s \in Row : /\ IsCompany(company'[s])
                       /\ company'[s].name = company[s].name /\ company'[s].by = company[s].by
                       /\ Followed(company'[s], s \in replaced')
                       /\ Crawled(s) \/ s \in replaced =>
                             monitorable(company'[s].board) \/ s \in replaced'
      BY <1>8, <1>9, <2>1 DEF RegistryInv, Crawled
  <2> QED
      BY <1>1, <1>2, <2>1, <2>2, Rewritten DEF RegistryInv, Row
<1>10. CASE r \in Row
  <2>2. IsCompany(x0) /\ Followed(x0, r \in replaced)
      BY <1>6, <1>10 DEF RegistryInv
  <2>3. CASE claimed
    <3>1. "UNRESOLVABLE" \in Stages
        BY DEF Stages, ProbeStages
    <3>2. IsStill(a, x0) /\ a.stage = "UNRESOLVABLE" /\ a.board = x0.board
        BY <1>3, <2>2, <3>1, StageWritten
    <3>3. Followed(a, r \in replaced')
        BY <3>2 DEF Followed
    <3> QED
        BY <1>1, <1>2, <1>6, <1>7, <1>8, <2>3, <3>2, <3>3, RowTaken DEF IsStill, Crawled
  <2>4. CASE ~claimed /\ refused
      BY <1>1, <1>7, <2>4, IdleIsWrite, OnlyAsked
  <2>5. CASE ~claimed /\ ~refused
    <3>1. stage \in Stages /\ (stage = "MONITORED" => monitorable(b0))
      <4> DEFINE s == stageOf(b0, w.page, w.site)
      <4>1. s \in Stages /\ (s = "MONITORED" => monitorable(b0))
          BY DEF stageOf, Stages, ProbeStages
      <4> QED
          BY <1>6, <4>1
    <3>2. IsStill(e, x0) /\ e.stage = stage /\ e.board = g
        BY <1>5, <2>2, <3>1 DEF IsCompany, IsStill
    <3>3. Followed(e, r \in replaced')
        BY <1>6, <3>1, <3>2 DEF Followed, monitorable
    <3>4. monitorable(x0.board) => monitorable(e.board) \/ r \in replaced'
        BY <1>7, <2>5 DEF monitorable, identified, UNKNOWN
    <3>5. company' = [company EXCEPT ![r] = e]
        BY <1>7, <2>5
    <3> QED
        BY <1>1, <1>2, <1>6, <1>8, <3>2, <3>3, <3>4, <3>5, RowTaken DEF IsStill, Crawled
  <2> QED
      BY <2>3, <2>4, <2>5
<1> QED
    BY <1>9, <1>10

LEMMA StartCrawlKept ==
    ASSUME RegistryInv, NEW p \in Writers, NEW r \in Row, StartCrawl(p, r)
    PROVE  RegistryInv'
<1>1. PICK w : w = [pc |-> "crawl", row |-> r]
    OBVIOUS
<1>2. write' = [write EXCEPT ![p] = w] /\ UNCHANGED <<company, overlapped, replaced>>
    BY <1>1 DEF StartCrawl, BeginWrite
<1>3. IsWrite(w)
    BY <1>1 DEF IsWrite, StartCrawl
<1> QED
    BY <1>2, <1>3, OnlyAsked

LEMMA AfterCrawlKept ==
    ASSUME RegistryInv, NEW p \in Writers, updateConfidenceAfterCrawl(p)
    PROVE  RegistryInv'
<1>1. /\ write' = [write EXCEPT ![p] = NoWrite]
      /\ UNCHANGED <<overlapped, replaced>>
    BY DEF updateConfidenceAfterCrawl, Then
<1>2. PICK r, x0 : r = write[p].row /\ x0 = company[r]
    OBVIOUS
<1>3. PICK x : x = [x0 EXCEPT !.stage = "MONITORED"]
    OBVIOUS
<1>4. company' = [company EXCEPT ![r] = x]
    BY <1>2, <1>3 DEF updateConfidenceAfterCrawl
<1>5. r \in Row /\ (Crawled(r) \/ r \in replaced)
    BY <1>2 DEF RegistryInv, IsWrite, updateConfidenceAfterCrawl
<1>6. IsCompany(x0) /\ "MONITORED" \in Stages
    BY <1>2, <1>5 DEF RegistryInv, Stages
<1>7. IsStill(x, x0) /\ x.board = x0.board
    BY <1>3, <1>6, StageWritten
<1>8. Followed(x, r \in replaced')
    BY <1>1, <1>2, <1>5, <1>7 DEF Followed, Crawled
<1>9. /\ write' = [q \in Writers |-> write'[q]]
      /\ \A q \in Writers : write'[q] = write[q] \/ IsWrite(write'[q])
    BY <1>1, IdleIsWrite, OneGoesOn
<1> QED
    BY <1>1, <1>2, <1>4, <1>7, <1>8, <1>9, RowTaken DEF IsStill, Crawled

LEMMA CorrectAtsKept ==
    ASSUME RegistryInv, NEW p \in Writers, CorrectAts(p)
    PROVE  RegistryInv'
<1>1. PICK todo, stored : /\ todo = {r \in Row : company[r].alias = 0}
                          /\ stored = [r \in Row |-> company[r].board.provider]
    OBVIOUS
<1>2. PICK w : w = [pc |-> "correct", todo |-> todo, stored |-> stored]
    OBVIOUS
<1>3. write' = [write EXCEPT ![p] = w] /\ UNCHANGED <<company, overlapped, replaced>>
    BY <1>1, <1>2 DEF CorrectAts, BeginWrite
<1>4. IsWrite(w)
    BY <1>2 DEF IsWrite
<1> QED
    BY <1>3, <1>4, OnlyAsked

LEMMA CorrectOneKept ==
    ASSUME RegistryInv, NEW p \in Writers, CorrectOne(p)
    PROVE  RegistryInv'
<1>1. PICK r, b, wrong :
         /\ r \in write[p].todo /\ wrong \in BOOLEAN
         /\ company' = IF wrong THEN [company EXCEPT ![r].board = b] ELSE company
         /\ replaced' = IF wrong THEN replaced \cup {r} ELSE replaced
         /\ Then(p, IF write[p].todo = {r} THEN NoWrite ELSE [write[p] EXCEPT !.todo = @ \ {r}])
  <2>1. PICK r \in write[p].todo :
          /\ LET b == IF company[r].urls = <<>> THEN UNKNOWN ELSE detectAts(Last(company[r].urls))
                 wrong == b.provider \notin {"UNKNOWN", write[p].stored[r]} /\ ~BoardTaken(b, r)
             IN /\ company' = IF wrong THEN [company EXCEPT ![r].board = b] ELSE company
                /\ replaced' = IF wrong THEN replaced \cup {r} ELSE replaced
          /\ Then(p, IF write[p].todo = {r} THEN NoWrite ELSE [write[p] EXCEPT !.todo = @ \ {r}])
      BY DEF CorrectOne
  <2>2. PICK b : b = IF company[r].urls = <<>> THEN UNKNOWN ELSE detectAts(Last(company[r].urls))
      OBVIOUS
  <2>3. CASE b.provider \notin {"UNKNOWN", write[p].stored[r]} /\ ~BoardTaken(b, r)
      BY <2>1, <2>2, <2>3
  <2>4. CASE ~(b.provider \notin {"UNKNOWN", write[p].stored[r]} /\ ~BoardTaken(b, r))
      BY <2>1, <2>2, <2>4
  <2> QED
      BY <2>3, <2>4
<1>2. PICK todo : todo = write[p].todo \ {r}
    OBVIOUS
<1>3. PICK x0 : x0 = company[r]
    OBVIOUS
<1>4. PICK x : x = [x0 EXCEPT !.board = b]
    OBVIOUS
<1>5. PICK u : u = [write[p] EXCEPT !.todo = todo]
    OBVIOUS
<1>6. PICK w : write' = [write EXCEPT ![p] = w] /\ (w = NoWrite \/ w = u)
    BY <1>1, <1>2, <1>5 DEF Then
<1>7. IsWrite(u)
    BY <1>5 DEF CorrectOne, RegistryInv, IsWrite
<1>8. /\ write' = [q \in Writers |-> write'[q]]
      /\ \A q \in Writers : write'[q] = write[q] \/ IsWrite(write'[q])
    BY <1>6, <1>7, IdleIsWrite, OneGoesOn
<1>9. overlapped' = overlapped
    BY DEF CorrectOne
<1>10. CASE ~wrong
    BY <1>1, <1>6, <1>7, <1>9, <1>10, IdleIsWrite, OnlyAsked
<1>11. CASE wrong /\ r \notin Row
  <2>1. company' = company
      BY <1>1, <1>3, <1>4, <1>11, NoSuchRow
  <2>2. \A s \in Row : s \in replaced' <=> s \in replaced
      BY <1>1, <1>11
  <2>3. \A s \in Row : /\ IsCompany(company'[s])
                       /\ company'[s].name = company[s].name /\ company'[s].by = company[s].by
                       /\ Followed(company'[s], s \in replaced')
                       /\ Crawled(s) \/ s \in replaced =>
                             monitorable(company'[s].board) \/ s \in replaced'
      BY <2>1, <2>2 DEF RegistryInv, Crawled
  <2> QED
      BY <1>8, <1>9, <2>1, <2>3, Rewritten DEF RegistryInv, Row
<1>12. CASE wrong /\ r \in Row
  <2>1. IsCompany(x0)
      BY <1>3, <1>12 DEF RegistryInv
  <2>2. IsStill(x, x0)
      BY <1>4, <2>1, BoardWritten
  <2>3. company' = [company EXCEPT ![r] = x] /\ replaced' = replaced \cup {r}
      BY <1>1, <1>3, <1>4, <1>12
  <2>4. Followed(x, r \in replaced')
      BY <2>3 DEF Followed
  <2> QED
      BY <1>3, <1>8, <1>9, <2>2, <2>3, <2>4, RowTaken DEF IsStill
<1> QED
    BY <1>1, <1>10, <1>11, <1>12

LEMMA BackfillTokenKept ==
    ASSUME RegistryInv, NEW r \in Row, BackfillToken(r)
    PROVE  RegistryInv'
<1>1. PICK t : company' = [company EXCEPT ![r].token = t]
    BY DEF BackfillToken
<1>2. PICK x0 : x0 = company[r]
    OBVIOUS
<1>3. PICK x : x = [x0 EXCEPT !.token = t]
    OBVIOUS
<1>4. IsCompany(x0) /\ Followed(x0, r \in replaced)
    BY <1>2 DEF RegistryInv
<1>5. IsStill(x, x0) /\ x.stage = x0.stage /\ x.board = x0.board
    BY <1>3, <1>4, TokenWritten
<1>6. UNCHANGED <<write, overlapped, replaced>>
    BY DEF BackfillToken
<1>7. company' = [company EXCEPT ![r] = x]
    BY <1>1, <1>2, <1>3
<1>8. Followed(x, r \in replaced')
    BY <1>4, <1>5, <1>6 DEF Followed
<1>9. /\ write' = [q \in Writers |-> write'[q]]
      /\ \A q \in Writers : write'[q] = write[q]
    BY <1>6 DEF RegistryInv
<1> QED
    BY <1>2, <1>5, <1>6, <1>7, <1>8, <1>9, RowTaken DEF IsStill, Crawled

LEMMA JobArrivesKept ==
    ASSUME RegistryInv, NEW r \in Row, NEW u \in Urls, JobArrives(r, u)
    PROVE  RegistryInv'
<1>1. PICK x0, v : x0 = company[r] /\ v = Append(x0.urls, u)
    OBVIOUS
<1>2. PICK x : x = [x0 EXCEPT !.urls = v]
    OBVIOUS
<1>3. IsCompany(x0) /\ Followed(x0, r \in replaced)
    BY <1>1 DEF RegistryInv
<1>4. v \in Seq(Urls) /\ Len(v) <= MaxUrls
  <2>1. x0.urls \in Seq(Urls) /\ Len(x0.urls) < MaxUrls /\ MaxUrls \in Nat
      BY <1>1, <1>3, RegistryConstants DEF IsCompany, JobArrives
  <2> QED
      BY <1>1, <2>1
<1>5. IsStill(x, x0) /\ x.stage = x0.stage /\ x.board = x0.board
    BY <1>2, <1>3, <1>4, UrlsWritten
<1>6. UNCHANGED <<write, overlapped, replaced>>
    BY DEF JobArrives
<1>7. company' = [company EXCEPT ![r] = x]
    BY <1>1, <1>2 DEF JobArrives
<1>8. Followed(x, r \in replaced')
    BY <1>3, <1>5, <1>6 DEF Followed
<1>9. /\ write' = [q \in Writers |-> write'[q]]
      /\ \A q \in Writers : write'[q] = write[q]
    BY <1>6 DEF RegistryInv
<1> QED
    BY <1>1, <1>5, <1>6, <1>7, <1>8, <1>9, RowTaken DEF IsStill, Crawled

LEMMA ResolveAliasesKept ==
    ASSUME RegistryInv, NEW p \in Writers, ResolveAliases(p)
    PROVE  RegistryInv'
<1>1. PICK todo : todo = MergesOf(company)
    OBVIOUS
<1>2. PICK w : w = [pc |-> "resolve", todo |-> todo]
    OBVIOUS
<1>3. write' = [write EXCEPT ![p] = w] /\ UNCHANGED <<company, overlapped, replaced>>
    BY <1>1, <1>2 DEF ResolveAliases, BeginWrite
<1>4. IsWrite(w)
    BY <1>2 DEF IsWrite
<1> QED
    BY <1>3, <1>4, OnlyAsked

LEMMA MergeOneKept ==
    ASSUME RegistryInv, NEW p \in Writers, MergeOne(p)
    PROVE  RegistryInv'
<1>1. PICK q \in write[p].todo :
         /\ company' = [company EXCEPT ![q[2]].alias = q[1]]
         /\ Then(p, IF write[p].todo = {q} THEN NoWrite ELSE [write[p] EXCEPT !.todo = @ \ {q}])
    BY DEF MergeOne
<1>2. PICK todo, r, c : todo = write[p].todo \ {q} /\ r = q[2] /\ c = q[1]
    OBVIOUS
<1>3. PICK x0 : x0 = company[r]
    OBVIOUS
<1>4. PICK x : x = [x0 EXCEPT !.alias = c]
    OBVIOUS
<1>5. PICK u : u = [write[p] EXCEPT !.todo = todo]
    OBVIOUS
<1>6. PICK w : write' = [write EXCEPT ![p] = w] /\ (w = NoWrite \/ w = u)
    BY <1>1, <1>2, <1>5 DEF Then
<1>7. IsWrite(u)
    BY <1>5 DEF MergeOne, RegistryInv, IsWrite
<1>8. /\ write' = [q1 \in Writers |-> write'[q1]]
      /\ \A q1 \in Writers : write'[q1] = write[q1] \/ IsWrite(write'[q1])
    BY <1>6, <1>7, IdleIsWrite, OneGoesOn
<1>9. UNCHANGED <<overlapped, replaced>>
    BY DEF MergeOne
<1>10. company' = [company EXCEPT ![r] = x]
    BY <1>1, <1>2, <1>3, <1>4
<1>11. CASE r \notin Row
  <2>1. company' = company
      BY <1>10, <1>11, NoSuchRow
  <2> QED
      BY <1>6, <1>7, <1>9, <2>1, IdleIsWrite, OnlyAsked
<1>12. CASE r \in Row
  <2>1. IsCompany(x0) /\ Followed(x0, r \in replaced)
      BY <1>3, <1>12 DEF RegistryInv
  <2>2. IsStill(x, x0) /\ x.stage = x0.stage /\ x.board = x0.board
      BY <1>4, <2>1, AliasWritten
  <2>3. Followed(x, r \in replaced')
      BY <1>9, <2>1, <2>2 DEF Followed
  <2> QED
      BY <1>3, <1>8, <1>9, <1>10, <2>2, <2>3, RowTaken DEF IsStill, Crawled
<1> QED
    BY <1>11, <1>12

LEMMA WriterDiesKept ==
    ASSUME RegistryInv, NEW p \in Writers, WriterDies(p)
    PROVE  RegistryInv'
<1>1. write' = [write EXCEPT ![p] = NoWrite] /\ UNCHANGED <<company, overlapped, replaced>>
    BY DEF WriterDies, Then
<1> QED
    BY <1>1, IdleIsWrite, OnlyAsked

\* A row comes in: who is about to insert the same identity did so under its eyes.
LEMMA InsertRowKept ==
    ASSUME RegistryInv, NEW p \in Writers, InsertRow(p)
    PROVE  RegistryInv'
<1>1. write' = [write EXCEPT ![p] = NoWrite] /\ replaced' = replaced
    BY DEF InsertRow, Insert, Then
<1>2. CASE UNCHANGED <<company, overlapped>>
    BY <1>1, <1>2, IdleIsWrite, OnlyAsked
<1>3. CASE ~(UNCHANGED <<company, overlapped>>)
  <2>1. PICK x, k, S : x = write[p].row /\ k = Len(company) + 1 /\ company \in Seq(S)
      BY DEF RegistryInv
  <2>2. company' = Append(company, x)
      BY <1>3, <2>1 DEF InsertRow, Insert
  <2>3. IsInsert(write[p]) /\ x.name = write[p].name /\ IsCompany(x) /\ Followed(x, FALSE)
      BY <2>1 DEF InsertRow, RegistryInv, IsWrite, IsInsert
  <2>4. /\ overlapped \subseteq overlapped'
        /\ \A q \in Writers \ {p} : Looking(q, x.name) => k \in overlapped'
      BY <1>3, <2>1 DEF InsertRow, Insert
  <2>5. /\ company' \in Seq(S \cup {x}) /\ Row = 1 .. k - 1 /\ Row' = 1 .. k /\ k \in Nat \ {0}
        /\ company'[k] = x /\ \A s \in Row : company'[s] = company[s]
      BY <2>1, <2>2 DEF Row
  <2>6. ASSUME NEW s \in Row'
        PROVE  s \in Row \/ s = k
      BY <2>5
  <2>7. \A s \in Row' : IsCompany(company'[s]) /\ Followed(company'[s], s \in replaced')
    <3>1. ASSUME NEW s \in Row PROVE IsCompany(company'[s]) /\ Followed(company'[s], s \in replaced')
        BY <1>1, <2>5 DEF RegistryInv
    <3>2. IsCompany(company'[k]) /\ Followed(company'[k], k \in replaced')
        BY <2>3, <2>5 DEF Followed
    <3> QED
        BY <2>6, <3>1, <3>2
  <2>8. ASSUME NEW q \in Writers PROVE IsWrite(write[q])'
    <3>1. CASE q = p
      <4>1. write'[q] = NoWrite
          BY <1>1, <3>1 DEF RegistryInv
      <4> QED
          BY <4>1 DEF IsWrite, NoWrite
    <3>2. CASE q # p
      <4>1. write'[q] = write[q] /\ IsWrite(write[q])
          BY <1>1, <3>2 DEF RegistryInv
      <4>5. write[q].pc = "crawl" =>
               write[q].row \in Row' /\ (Crawled(write[q].row)' \/ write[q].row \in replaced')
          BY <1>1, <2>5, <4>1 DEF IsWrite, Crawled
      <4>2. CASE write[q].pc # "insert"
          BY <4>1, <4>2, <4>5 DEF IsWrite, Crawled
      <4>3. CASE write[q].pc = "insert"
        <5>1. IsInsert(write[q])
            BY <4>1, <4>3 DEF IsWrite
        <5>2. PICK n : n = write[q].name
            OBVIOUS
        <5>5. \A s \in Row : \A j : Crowded(s, j)' <=> Crowded(s, j)
          <6>1. ASSUME NEW s \in Row, NEW j PROVE Crowded(s, j)' <=> Crowded(s, j)
              BY <2>5, CrowdStays
          <6> QED
              BY <6>1
        <5>3. Key(x.name) = Key(n) => k \in overlapped'
            BY <2>4, <3>2, <4>3, <5>2 DEF Looking
        <5>4. Unseen(n) => Unseen(n)'
          <6>1. ASSUME Unseen(n), NEW s \in Row', Key(company'[s].name) = Key(n)
                PROVE  ~company'[s].name.plain \/ Crowded(s, Key(n))' \/ s \in overlapped'
            <7>1. CASE s \in Row
                BY <2>4, <2>5, <5>5, <6>1, <7>1 DEF Unseen
            <7>2. CASE s = k
                BY <2>5, <5>3, <6>1, <7>2
            <7> QED
                BY <2>6, <7>1, <7>2
          <6> QED
              BY <6>1 DEF Unseen
        <5> QED
            BY <4>1, <4>3, <5>1, <5>2, <5>4 DEF IsWrite, IsInsert
      <4> QED
          BY <4>2, <4>3
    <3> QED
        BY <3>1, <3>2
  <2>9. BoardsFindTheirCompany'
    <3>1. ASSUME NEW r \in Row', NEW s \in Row', s < r, company'[r].by = "board",
                 Key(company'[s].name) = Key(company'[r].name)
          PROVE  \/ ~company'[s].name.plain \/ Crowded(s, Key(company[s].name))'
                 \/ r \in overlapped' \/ s \in overlapped'
      <4>1. s \in Row
          BY <2>5, <3>1
      <4>4. PICK j : j = Key(company[s].name)
          OBVIOUS
      <4>5. company'[s] = company[s] /\ (Crowded(s, j)' <=> Crowded(s, j))
          BY <2>5, <4>1, CrowdStays
      <4>6. Crowded(s, Key(company[s].name))' <=> Crowded(s, j)'
          BY <4>4, <4>5
      <4>2. CASE r \in Row
          BY <2>4, <2>5, <3>1, <4>1, <4>2, <4>4, <4>5, <4>6 DEF RegistryInv, BoardsFindTheirCompany
      <4>3. CASE r = k
        <5>1. x.by = "board" /\ Key(company[s].name) = Key(x.name)
            BY <2>5, <3>1, <4>1, <4>3
        <5>2. Unseen(x.name)
            BY <2>1, <2>3, <5>1 DEF IsInsert
        <5>3. ~company[s].name.plain \/ Crowded(s, j) \/ s \in overlapped
            BY <4>1, <4>4, <5>1, <5>2 DEF Unseen
        <5> QED
            BY <2>4, <2>5, <4>1, <4>4, <4>5, <4>6, <5>3
      <4> QED
          BY <2>6, <4>2, <4>3
    <3> QED
        BY <3>1 DEF BoardsFindTheirCompany
  <2>11. write' = [q \in Writers |-> write'[q]]
      BY <1>1 DEF RegistryInv
  <2> QED
      BY <2>5, <2>7, <2>8, <2>9, <2>11 DEF RegistryInv
<1> QED
    BY <1>2, <1>3

LEMMA InitRegistry == RegistryInit => RegistryInv
<1> SUFFICES ASSUME RegistryInit PROVE RegistryInv
    OBVIOUS
<1>1. PICK R \in Registered :
         company = [i \in DOMAIN R |-> NewRow(R[i].name, R[i].site, detectAts(R[i].url),
                                              "DISCOVERED", "hand")]
    BY DEF RegistryInit
<1>2. PICK m \in Nat : DOMAIN R = 1 .. m
    BY RegistryConstants
<1>3. "DISCOVERED" \in Stages
    BY DEF Stages, ProbeStages
<1>4. ASSUME NEW i \in Row
      PROVE  IsCompany(company[i]) /\ company[i].stage = "DISCOVERED" /\ company[i].by = "hand"
  <2>1. PICK n, w, b : n = R[i].name /\ w = R[i].site /\ b = detectAts(R[i].url)
      OBVIOUS
  <2>5. n \in Names
    <3>1. R[i] \in Listings
        BY <1>1, <1>2, RegistryConstants DEF Row
    <3> QED
        BY <2>1, <3>1, RegistryConstants
  <2>2. company[i] = NewRow(n, w, b, "DISCOVERED", "hand")
      BY <1>1, <2>1 DEF Row
  <2>3. PICK x : x = NewRow(n, w, b, "DISCOVERED", "hand")
      OBVIOUS
  <2>4. IsCompany(x) /\ x.stage = "DISCOVERED" /\ x.by = "hand"
      BY <1>3, <2>3, <2>5, NewRowIs
  <2> QED
      BY <2>2, <2>3, <2>4
<1>5. \E S : company \in Seq(S)
  <2>1. DOMAIN company = 1 .. m /\ company = [i \in 1 .. m |-> company[i]]
      BY <1>1, <1>2
  <2>2. PICK S : S = {company[i] : i \in 1 .. m}
      OBVIOUS
  <2>3. company \in [1 .. m -> S]
      BY <2>1, <2>2
  <2> QED
      BY <2>3
<1>6. write = [p \in Writers |-> NoWrite]
    BY DEF RegistryInit
<1>7. \A p \in Writers : IsWrite(write[p])
    BY <1>6, IdleIsWrite
<1>8. BoardsFindTheirCompany
    BY <1>4 DEF BoardsFindTheirCompany
<1>10. \A r \in Row : IsCompany(company[r]) /\ Followed(company[r], r \in replaced)
    BY <1>4 DEF Followed
<1>11. write = [p \in Writers |-> write[p]]
    BY <1>6
<1> QED
    BY <1>5, <1>7, <1>8, <1>10, <1>11 DEF RegistryInv

LEMMA NextRegistry == RegistryInv /\ [RegistryNext]_registryVars => RegistryInv'
<1> SUFFICES ASSUME RegistryInv, [RegistryNext]_registryVars PROVE RegistryInv'
    OBVIOUS
<1>1. CASE UNCHANGED registryVars
  <2>1. UNCHANGED <<company, write, overlapped, replaced>>
      BY <1>1 DEF registryVars
  <2>2. \A r \in Row : /\ IsCompany(company'[r])
                       /\ company'[r].name = company[r].name /\ company'[r].by = company[r].by
                       /\ Followed(company'[r], r \in replaced')
                       /\ Crawled(r) \/ r \in replaced =>
                             monitorable(company'[r].board) \/ r \in replaced'
      BY <2>1 DEF RegistryInv, Crawled
  <2>3. /\ write' = [q \in Writers |-> write'[q]]
        /\ \A q \in Writers : write'[q] = write[q]
      BY <2>1 DEF RegistryInv
  <2> QED
      BY <2>1, <2>2, <2>3, Rewritten DEF RegistryInv, Row
<1>2. CASE \E r \in Row : BackfillToken(r) \/ \E u \in Urls : JobArrives(r, u)
    BY <1>2, BackfillTokenKept, JobArrivesKept
<1>3. ASSUME NEW p \in Writers, RegistryStep(p) PROVE RegistryInv'
  <2>1. CASE \E l \in Listings : \/ BoardByAts(p, l.name, l.url)
                                 \/ CreateByHand(p, l.name, l.site, l.url)
                                 \/ BulkDiscover(p, l.name, l.site, l.url)
    <3>1. \A l \in Listings : l.name \in Names
        BY RegistryConstants
    <3> QED
        BY <2>1, <3>1, BoardByAtsKept, CreateByHandKept, BulkDiscoverKept
  <2>2. CASE BoardByName(p) \/ BoardUpgrade(p) \/ InsertRow(p) \/ Enrich(p)
      BY <2>2, BoardByNameKept, BoardUpgradeKept, InsertRowKept, EnrichKept
  <2>3. CASE (\E r \in Row, f \in ProbeResults : ApplyResult(p, r, f.site, f.board, f.page))
             \/ ApplyWrite(p)
      BY <2>3, ApplyResultKept, ApplyWriteKept
  <2>4. CASE CorrectAts(p) \/ CorrectOne(p)
      BY <2>4, CorrectAtsKept, CorrectOneKept
  <2>5. CASE ResolveAliases(p) \/ MergeOne(p) \/ WriterDies(p)
      BY <2>5, ResolveAliasesKept, MergeOneKept, WriterDiesKept
  <2>6. CASE (\E r \in Row : StartCrawl(p, r)) \/ updateConfidenceAfterCrawl(p)
      BY <2>6, StartCrawlKept, AfterCrawlKept
  <2> QED
      BY <1>3, <2>1, <2>2, <2>3, <2>4, <2>5, <2>6 DEF RegistryStep
<1> QED
    BY <1>1, <1>2, <1>3 DEF RegistryNext

\* A board makes no second row of an identity that it could have found: for any
\* number of requests, names, URLs and rows, and any number of rows a query takes.
THEOREM BoardsFindCompanies == RegistrySpec => []BoardsFindTheirCompany
<1>1. RegistryInv => BoardsFindTheirCompany
    BY DEF RegistryInv
<1> QED
    BY InitRegistry, NextRegistry, <1>1, PTL DEF RegistrySpec

-----------------------------------------------------------------------------
\* The rows that stand for others carried more jobs when it was decided: n is what
\* they carried, and U the rows that were not aliases yet.
Above(a, b, n) == a # b /\ (n[a] > n[b] \/ (n[a] = n[b] /\ a <= b))

Ordered(todo, U, n) ==
    /\ \A q \in todo : q[1] \in U /\ q[2] \in U /\ Above(q[1], q[2], n)
    /\ \A r \in U : \/ company[r].alias = 0
                    \/ company[r].alias \in U /\ Above(company[r].alias, r, n)

AliasInv ==
    \/ resolvedTwice
    \/ /\ \A p, q \in Writers : write[p].pc = "resolve" /\ write[q].pc = "resolve" => p = q
       /\ \A p \in Writers : write[p].pc = "resolve" =>
             \E U \in SUBSET Row : \E n \in [U -> 0 .. MaxUrls] : Ordered(write[p].todo, U, n)
       /\ AliasesEnd

SameRows == Row' = Row /\ \A r \in Row : company'[r].alias = company[r].alias
SameResolvers ==
    /\ resolvedTwice' = resolvedTwice
    /\ \A q \in Writers : write'[q] = write[q] \/ write'[q].pc # "resolve"

LEMMA SameBoth ==
    ASSUME RegistryInv, AliasInv, SameRows, SameResolvers
    PROVE  AliasInv'
<1> SUFFICES ASSUME ~resolvedTwice PROVE AliasInv'
    BY DEF AliasInv, SameResolvers
<1>1. ASSUME NEW p \in Writers, write'[p].pc = "resolve"
      PROVE  write'[p] = write[p] /\ write[p].pc = "resolve"
    BY <1>1 DEF SameResolvers
<1>2. ASSUME NEW p \in Writers, write'[p].pc = "resolve"
      PROVE  \E U \in SUBSET Row' : \E n \in [U -> 0 .. MaxUrls] : Ordered(write[p].todo, U, n)'
  <2>1. PICK U \in SUBSET Row : \E n \in [U -> 0 .. MaxUrls] : Ordered(write[p].todo, U, n)
      BY <1>1, <1>2 DEF AliasInv
  <2>2. PICK n \in [U -> 0 .. MaxUrls] : Ordered(write[p].todo, U, n)
      BY <2>1
  <2>3. Ordered(write[p].todo, U, n)'
      BY <1>1, <1>2, <2>1, <2>2 DEF Ordered, SameRows
  <2> QED
      BY <2>1, <2>3 DEF SameRows
<1>3. AliasesEnd'
    BY DEF AliasInv, AliasesEnd, SameRows
<1>4. \A p, q \in Writers : write'[p].pc = "resolve" /\ write'[q].pc = "resolve" => p = q
    BY <1>1 DEF AliasInv
<1> QED
    BY <1>2, <1>3, <1>4 DEF AliasInv

\* Everybody but a resolution leaves the aliases.
LEMMA RequestAliases ==
    ASSUME RegistryInv, AliasInv, NEW p \in Writers, NEW n, NEW s, NEW u,
           \/ BoardByAts(p, n, u) \/ BoardByName(p)
           \/ CreateByHand(p, n, s, u) \/ BulkDiscover(p, n, s, u)
           \/ CorrectAts(p) \/ WriterDies(p) \/ StartCrawl(p, s)
    PROVE  AliasInv'
<1>1. SameRows
    BY DEF BoardByAts, BoardByName, CreateByHand, BulkDiscover, CorrectAts, WriterDies,
           StartCrawl, SameRows, Row
<1>2. CASE BoardByAts(p, n, u)
    BY <1>1, <1>2, SameBoth DEF BoardByAts, BeginWrite, NoWrite, SameResolvers, RegistryInv
<1>3. CASE BoardByName(p)
    BY <1>1, <1>3, SameBoth DEF BoardByName, Then, NoWrite, SameResolvers, RegistryInv
<1>4. CASE CreateByHand(p, n, s, u)
    BY <1>1, <1>4, SameBoth DEF CreateByHand, BeginWrite, NoWrite, SameResolvers, RegistryInv
<1>5. CASE BulkDiscover(p, n, s, u)
    BY <1>1, <1>5, SameBoth DEF BulkDiscover, BeginWrite, NoWrite, SameResolvers, RegistryInv
<1>6. CASE CorrectAts(p)
    BY <1>1, <1>6, SameBoth DEF CorrectAts, BeginWrite, NoWrite, SameResolvers, RegistryInv
<1>7. CASE WriterDies(p)
    BY <1>1, <1>7, SameBoth DEF WriterDies, Then, NoWrite, SameResolvers, RegistryInv
<1>8. CASE StartCrawl(p, s)
    BY <1>1, <1>8, SameBoth DEF StartCrawl, BeginWrite, SameResolvers, RegistryInv
<1> QED
    BY <1>2, <1>3, <1>4, <1>5, <1>6, <1>7, <1>8

LEMMA ApplyAliases ==
    ASSUME RegistryInv, AliasInv, NEW p \in Writers, NEW r, NEW s, NEW b, NEW page,
           ApplyResult(p, r, s, b, page) \/ ApplyWrite(p)
    PROVE  AliasInv'
<1>1. CASE ApplyResult(p, r, s, b, page)
  <2>1. SameRows
      BY <1>1 DEF ApplyResult, SameRows, Row
  <2>2. SameResolvers
      BY <1>1 DEF ApplyResult, BeginWrite, SameResolvers, RegistryInv
  <2> QED
      BY <2>1, <2>2, SameBoth
<1>2. CASE ApplyWrite(p)
  <2>1. PICK k, x0, w, stage, v, g :
          /\ k = write[p].row /\ x0 = company[k] /\ w = write[p]
          /\ stage = stageOf(w.board, w.page, w.site)
          /\ v = (IF w.site = "none" \/ SiteTaken(w.site, k) THEN w.held ELSE w.site)
          /\ g = (IF identified(w.board) THEN w.board ELSE x0.board)
      OBVIOUS
  <2>3. PICK a : a = [x0 EXCEPT !.stage = "UNRESOLVABLE"]
      OBVIOUS
  <2>4. PICK e : e = [x0 EXCEPT !.stage = stage, !.site = v, !.board = g]
      OBVIOUS
  <2>5. \/ company' = company
        \/ company' = [company EXCEPT ![k] = a]
        \/ company' = [company EXCEPT ![k] = e]
      BY <1>2, <2>1, <2>3, <2>4 DEF ApplyWrite
  <2>6. k \in Row => a.alias = x0.alias /\ e.alias = x0.alias
      BY <2>1, <2>3, <2>4 DEF RegistryInv, IsCompany
  <2>7. SameRows
      BY <2>1, <2>5, <2>6 DEF SameRows, RegistryInv, Row
  <2>8. SameResolvers
      BY <1>2 DEF ApplyWrite, Then, NoWrite, SameResolvers, RegistryInv
  <2> QED
      BY <2>7, <2>8, SameBoth
<1> QED
    BY <1>1, <1>2

LEMMA UpgradeRows ==
    ASSUME RegistryInv, NEW p \in Writers, BoardUpgrade(p)
    PROVE  SameRows
<1>1. PICK k, b, x0 : k = write[p].row /\ b = write[p].board /\ x0 = company[k]
    OBVIOUS
<1>2. PICK x : x = [x0 EXCEPT !.board = b]
    OBVIOUS
<1>3. company' = company \/ company' = [company EXCEPT ![k] = x]
    BY <1>1, <1>2 DEF BoardUpgrade
<1>4. k \in Row => x.alias = x0.alias
  <2>1. SUFFICES ASSUME k \in Row PROVE x.alias = x0.alias
      OBVIOUS
  <2>2. IsCompany(x0)
      BY <1>1, <2>1 DEF RegistryInv
  <2> QED
      BY <1>2, <2>2, BoardWritten
<1> QED
    BY <1>1, <1>3, <1>4 DEF SameRows, RegistryInv, Row

LEMMA WriteAliases ==
    ASSUME RegistryInv, AliasInv, NEW p \in Writers,
           BoardUpgrade(p) \/ Enrich(p) \/ CorrectOne(p) \/ updateConfidenceAfterCrawl(p)
    PROVE  AliasInv'
<1>1. CASE BoardUpgrade(p)
  <2>1. SameRows
      BY <1>1, UpgradeRows
  <2>2. SameResolvers
      BY <1>1 DEF BoardUpgrade, Then, NoWrite, SameResolvers, RegistryInv
  <2> QED
      BY <2>1, <2>2, SameBoth
<1>2. CASE Enrich(p)
  <2>1. SameRows
      BY <1>2 DEF Enrich, SameRows, RegistryInv, IsCompany, Row
  <2>2. SameResolvers
      BY <1>2 DEF Enrich, Then, NoWrite, SameResolvers, RegistryInv
  <2> QED
      BY <2>1, <2>2, SameBoth
<1>3. CASE CorrectOne(p)
  <2>1. SameRows
      BY <1>3 DEF CorrectOne, SameRows, RegistryInv, IsCompany, Row
  <2>2. SameResolvers
      BY <1>3 DEF CorrectOne, Then, NoWrite, SameResolvers, RegistryInv
  <2> QED
      BY <2>1, <2>2, SameBoth
<1>4. CASE updateConfidenceAfterCrawl(p)
  <2>1. SameRows
      BY <1>4 DEF updateConfidenceAfterCrawl, SameRows, RegistryInv, IsCompany, Row
  <2>2. SameResolvers
      BY <1>4 DEF updateConfidenceAfterCrawl, Then, NoWrite, SameResolvers, RegistryInv
  <2> QED
      BY <2>1, <2>2, SameBoth
<1> QED
    BY <1>1, <1>2, <1>3, <1>4

LEMMA RowAliases ==
    ASSUME RegistryInv, AliasInv, NEW r \in Row, NEW u, BackfillToken(r) \/ JobArrives(r, u)
    PROVE  AliasInv'
<1>1. SameResolvers
    BY DEF BackfillToken, JobArrives, SameResolvers
<1>2. CASE BackfillToken(r)
  <2>1. SameRows
      BY <1>2 DEF BackfillToken, SameRows, RegistryInv, IsCompany, Row
  <2> QED
      BY <1>1, <2>1, SameBoth
<1>3. CASE JobArrives(r, u)
  <2>1. SameRows
      BY <1>3 DEF JobArrives, SameRows, RegistryInv, IsCompany, Row
  <2> QED
      BY <1>1, <2>1, SameBoth
<1> QED
    BY <1>2, <1>3

\* A new row is nobody's alias.
LEMMA InsertAliases ==
    ASSUME RegistryInv, AliasInv, NEW p \in Writers, InsertRow(p)
    PROVE  AliasInv'
<1>1. SameResolvers
    BY DEF InsertRow, Insert, Then, NoWrite, SameResolvers, RegistryInv
<1>2. CASE company' = company
    BY <1>1, <1>2, SameBoth DEF SameRows, Row
<1>3. CASE company' # company /\ ~resolvedTwice
  <2>1. PICK x, k, S : x = write[p].row /\ k = Len(company) + 1 /\ company \in Seq(S)
      BY DEF RegistryInv
  <2>2. company' = Append(company, x)
      BY <1>3, <2>1 DEF InsertRow, Insert
  <2>3. x.alias = 0
      BY <2>1 DEF InsertRow, RegistryInv, IsWrite, IsInsert
  <2>4. /\ Row = 1 .. k - 1 /\ Row' = 1 .. k /\ k \in Nat \ {0}
        /\ company'[k] = x /\ \A s \in Row : company'[s] = company[s]
      BY <2>1, <2>2 DEF Row
  <2>5. ASSUME NEW q \in Writers, write'[q].pc = "resolve"
        PROVE  write'[q] = write[q] /\ write[q].pc = "resolve"
      BY <1>1, <2>5 DEF SameResolvers
  <2>6. ASSUME NEW q \in Writers, write'[q].pc = "resolve"
        PROVE  \E U \in SUBSET Row' : \E n \in [U -> 0 .. MaxUrls] : Ordered(write[q].todo, U, n)'
    <3>1. PICK U \in SUBSET Row : \E n \in [U -> 0 .. MaxUrls] : Ordered(write[q].todo, U, n)
        BY <1>3, <2>5, <2>6 DEF AliasInv
    <3>2. PICK n \in [U -> 0 .. MaxUrls] : Ordered(write[q].todo, U, n)
        BY <3>1
    <3>3. Ordered(write[q].todo, U, n)'
        BY <2>4, <2>5, <2>6, <3>1, <3>2 DEF Ordered
    <3>4. U \in SUBSET Row'
        BY <2>4, <3>1
    <3> QED
        BY <3>3, <3>4
  <2>7. AliasesEnd'
    <3>1. ASSUME NEW T \in (SUBSET Row') \ {{}}
          PROVE  \E r \in T : company'[r].alias \notin T
      <4>1. CASE k \in T
          BY <2>3, <2>4, <4>1
      <4>2. CASE k \notin T
        <5>1. T \in (SUBSET Row) \ {{}}
            BY <2>4, <4>2
        <5>2. PICK r \in T : company[r].alias \notin T
            BY <1>3, <5>1 DEF AliasInv, AliasesEnd
        <5> QED
            BY <2>4, <5>1, <5>2
      <4> QED
          BY <4>1, <4>2
    <3> QED
        BY <3>1 DEF AliasesEnd
  <2>8. \A q, s \in Writers : write'[q].pc = "resolve" /\ write'[s].pc = "resolve" => q = s
      BY <1>3, <2>5 DEF AliasInv
  <2> QED
      BY <2>6, <2>7, <2>8 DEF AliasInv
<1> QED
    BY <1>1, <1>2, <1>3 DEF AliasInv, SameResolvers

\* What a resolution decides: the canonical row of a group is above the others.
LEMMA MergesOrdered ==
    ASSUME RegistryInv, NEW q \in MergesOf(company)
    PROVE  /\ q[1] \in Unaliased(company) /\ q[2] \in Unaliased(company) /\ q[1] # q[2]
           /\ \/ Len(company[q[1]].urls) > Len(company[q[2]].urls)
              \/ Len(company[q[1]].urls) = Len(company[q[2]].urls) /\ q[1] <= q[2]
<1>1. PICK G \in GroupsOf(company) :
         \E s \in G \ {CanonicalOf(G, company)} : q = <<CanonicalOf(G, company), s>>
    BY DEF MergesOf, PairsOf
<1>2. PICK s \in G \ {CanonicalOf(G, company)} : q = <<CanonicalOf(G, company), s>>
    BY <1>1
<1>3. G \subseteq Unaliased(company)
    BY <1>1 DEF GroupsOf
<1>4. G \subseteq Row /\ G # {}
    BY <1>2, <1>3 DEF Unaliased, Row
<1>5. PICK n : n = [r \in Row |-> Len(company[r].urls)]
    OBVIOUS
<1>6. G \subseteq Nat
    BY <1>4 DEF Row, RegistryInv
<1>7. MaxUrls \in Nat /\ \A v \in G : n[v] \in 0 .. MaxUrls
    BY <1>4, <1>5, RegistryConstants DEF RegistryInv, IsCompany
<1>8. \E t \in G : \A v \in G : n[t] > n[v] \/ (n[t] = n[v] /\ t <= v)
    BY <1>4, <1>6, <1>7, TopOf
<1>9. \E t \in G : \A v \in G :
         \/ Len(company[t].urls) > Len(company[v].urls)
         \/ Len(company[t].urls) = Len(company[v].urls) /\ t <= v
    BY <1>4, <1>5, <1>8
<1>10. /\ CanonicalOf(G, company) \in G
       /\ \A v \in G :
            \/ Len(company[CanonicalOf(G, company)].urls) > Len(company[v].urls)
            \/ Len(company[CanonicalOf(G, company)].urls) = Len(company[v].urls)
               /\ CanonicalOf(G, company) <= v
    BY <1>9 DEF CanonicalOf
<1> QED
    BY <1>2, <1>3, <1>10

LEMMA ResolveAliasesOrders ==
    ASSUME RegistryInv, AliasInv, NEW p \in Writers, ResolveAliases(p)
    PROVE  AliasInv'
<1> SUFFICES ASSUME ~resolvedTwice' PROVE AliasInv'
    BY DEF AliasInv
<1>1. /\ ~resolvedTwice /\ \A q \in Writers : write[q].pc # "resolve"
      /\ company' = company
    BY DEF ResolveAliases
<1>2. PICK todo : todo = MergesOf(company)
    OBVIOUS
<1>3. PICK w : w = [pc |-> "resolve", todo |-> todo]
    OBVIOUS
<1>4. write' = [write EXCEPT ![p] = w]
    BY <1>2, <1>3 DEF ResolveAliases, BeginWrite
<1>5. write'[p] = w /\ \A q \in Writers : q # p => write'[q] = write[q]
    BY <1>4 DEF RegistryInv
<1>6. \A q \in Writers : write'[q].pc = "resolve" => q = p
    BY <1>1, <1>5
<1>7. PICK U : U = Unaliased(company)
    OBVIOUS
<1>8. PICK n : n = [r \in U |-> Len(company[r].urls)]
    OBVIOUS
<1>9. U \in SUBSET Row' /\ \A r \in U : company[r].alias = 0
    BY <1>1, <1>7 DEF Unaliased, Row
<1>10. n \in [U -> 0 .. MaxUrls]
  <2>1. ASSUME NEW r \in U PROVE Len(company[r].urls) \in 0 .. MaxUrls
      BY <1>1, <1>9, RegistryConstants DEF RegistryInv, IsCompany, Row
  <2> QED
      BY <1>8, <2>1
<1>11. Ordered(todo, U, n)'
  <2>1. ASSUME NEW q \in todo PROVE q[1] \in U /\ q[2] \in U /\ Above(q[1], q[2], n)
      BY <1>2, <1>7, <1>8, MergesOrdered DEF Above
  <2> QED
      BY <1>1, <1>9, <2>1 DEF Ordered
<1>12. AliasesEnd'
    BY <1>1 DEF AliasInv, AliasesEnd, Row
<1>13. write'[p].todo = todo
    BY <1>3, <1>5
<1>14. ASSUME NEW q \in Writers, write'[q].pc = "resolve"
       PROVE  \E V \in SUBSET Row' : \E m \in [V -> 0 .. MaxUrls] : Ordered(write[q].todo, V, m)'
  <2>1. q = p
      BY <1>6, <1>14
  <2> QED
      BY <1>9, <1>10, <1>11, <1>13, <2>1 DEF Ordered
<1> QED
    BY <1>6, <1>12, <1>14 DEF AliasInv

\* One alias is written: in a set that is closed under the aliases, nothing could
\* be above the top row of those the resolution has read.
LEMMA MergeOneEnds ==
    ASSUME RegistryInv, AliasInv, NEW p \in Writers, MergeOne(p)
    PROVE  AliasInv'
<1> SUFFICES ASSUME ~resolvedTwice PROVE AliasInv'
    BY DEF AliasInv, MergeOne
<1>1. PICK q \in write[p].todo :
         /\ company' = [company EXCEPT ![q[2]].alias = q[1]]
         /\ Then(p, IF write[p].todo = {q} THEN NoWrite ELSE [write[p] EXCEPT !.todo = @ \ {q}])
    BY DEF MergeOne
<1>2. PICK U \in SUBSET Row : \E n \in [U -> 0 .. MaxUrls] : Ordered(write[p].todo, U, n)
    BY DEF AliasInv, MergeOne
<1>3. PICK n \in [U -> 0 .. MaxUrls] : Ordered(write[p].todo, U, n)
    BY <1>2
<1>4. PICK a, b : a = q[1] /\ b = q[2]
    OBVIOUS
<1>5. a \in U /\ b \in U /\ Above(a, b, n)
    BY <1>1, <1>3, <1>4 DEF Ordered
<1>6. /\ Row' = Row
      /\ \A r \in Row : company'[r].alias = IF r = b THEN a ELSE company[r].alias
    BY <1>1, <1>4 DEF RegistryInv, IsCompany, Row
<1>7. \A r \in U : \/ company'[r].alias = 0
                   \/ company'[r].alias \in U /\ Above(company'[r].alias, r, n)
    BY <1>2, <1>3, <1>5, <1>6 DEF Ordered
<1>8. Row \subseteq Nat \ {0}
    BY DEF RegistryInv, Row
<1>9. AliasesEnd'
  <2>1. ASSUME NEW S \in (SUBSET Row') \ {{}}, \A r \in S : company'[r].alias \in S
        PROVE  FALSE
    <3>1. S \in (SUBSET Row) \ {{}}
        BY <1>6
    <3>2. b \in S
      <4>1. PICK r \in S : company[r].alias \notin S
          BY <3>1 DEF AliasInv, AliasesEnd
      <4> QED
          BY <1>6, <2>1, <3>1, <4>1
    <3>3. PICK V : V = S \cap U
        OBVIOUS
    <3>4. V \subseteq Nat /\ V # {}
        BY <1>5, <1>8, <3>1, <3>2, <3>3
    <3>5. MaxUrls \in Nat /\ \A v \in V : n[v] \in 0 .. MaxUrls
        BY <3>3, RegistryConstants
    <3>6. PICK t \in V : \A s \in V : n[t] > n[s] \/ (n[t] = n[s] /\ t <= s)
      <4>1. PICK m \in Nat : \A v \in V : n[v] \in 0 .. m
          BY <3>5
      <4> QED
          BY <3>4, <4>1, TopOf
    <3>7. PICK c : c = company'[t].alias
        OBVIOUS
    <3>8. c \in S
        BY <2>1, <3>3, <3>7
    <3>9. c # 0
        BY <1>8, <3>1, <3>8
    <3>10. c \in U /\ Above(c, t, n)
        BY <1>7, <3>3, <3>7, <3>9
    <3>11. c \in V
        BY <3>3, <3>8, <3>10
    <3>12. n[c] \in Nat /\ n[t] \in Nat /\ c \in Nat /\ t \in Nat
        BY <3>4, <3>5, <3>11
    <3>13. n[t] > n[c] \/ (n[t] = n[c] /\ t <= c)
        BY <3>6, <3>11
    <3> QED
        BY <3>10, <3>12, <3>13 DEF Above
  <2> QED
      BY <2>1 DEF AliasesEnd
<1>10. PICK todo : todo = write[p].todo \ {q}
    OBVIOUS
<1>11. PICK u : u = [write[p] EXCEPT !.todo = todo]
    OBVIOUS
<1>12. u.todo = todo /\ u.pc = "resolve"
    BY <1>11 DEF MergeOne, RegistryInv, IsWrite
<1>13. write'[p] = NoWrite \/ write'[p] = u
    BY <1>1, <1>10, <1>11 DEF Then, RegistryInv
<1>14. \A r \in Writers : r # p => write'[r] = write[r]
    BY <1>1 DEF Then, RegistryInv
<1>15. \A r \in Writers : write'[r].pc = "resolve" => r = p
    BY <1>14 DEF AliasInv, MergeOne
<1>16. ASSUME NEW r \in Writers, write'[r].pc = "resolve"
       PROVE  \E V \in SUBSET Row' : \E m \in [V -> 0 .. MaxUrls] : Ordered(write[r].todo, V, m)'
  <2>1. r = p /\ write'[r].todo = todo
      BY <1>12, <1>13, <1>15, <1>16 DEF NoWrite
  <2>2. todo \subseteq write[p].todo
      BY <1>10
  <2>3. Ordered(write[r].todo, U, n)'
      BY <1>3, <1>7, <2>1, <2>2 DEF Ordered
  <2> QED
      BY <1>6, <1>2, <1>3, <2>3
<1> QED
    BY <1>9, <1>15, <1>16 DEF AliasInv

LEMMA InitAliases == RegistryInit => AliasInv
<1> SUFFICES ASSUME RegistryInit PROVE AliasInv
    OBVIOUS
<1>1. PICK R \in Registered :
         company = [i \in DOMAIN R |-> NewRow(R[i].name, R[i].site, detectAts(R[i].url),
                                              "DISCOVERED", "hand")]
    BY DEF RegistryInit
<1>2. PICK m \in Nat : DOMAIN R = 1 .. m
    BY RegistryConstants
<1>3. Row = 1 .. m /\ \A r \in Row : company[r].alias = 0
    BY <1>1, <1>2 DEF Row, NewRow
<1>4. AliasesEnd
    BY <1>3 DEF AliasesEnd
<1>5. \A p \in Writers : write[p].pc = "idle"
    BY DEF RegistryInit, NoWrite
<1> QED
    BY <1>4, <1>5 DEF AliasInv

LEMMA NextAliases == RegistryInv /\ AliasInv /\ [RegistryNext]_registryVars => AliasInv'
<1> SUFFICES ASSUME RegistryInv, AliasInv, [RegistryNext]_registryVars PROVE AliasInv'
    OBVIOUS
<1>1. CASE UNCHANGED registryVars
  <2>1. SameRows /\ SameResolvers
      BY <1>1 DEF registryVars, SameRows, SameResolvers, Row
  <2> QED
      BY <2>1, SameBoth
<1>2. CASE \E r \in Row : BackfillToken(r) \/ \E u \in Urls : JobArrives(r, u)
    BY <1>2, RowAliases
<1>3. ASSUME NEW p \in Writers, RegistryStep(p) PROVE AliasInv'
  <2>1. CASE \E l \in Listings : \/ BoardByAts(p, l.name, l.url)
                                 \/ CreateByHand(p, l.name, l.site, l.url)
                                 \/ BulkDiscover(p, l.name, l.site, l.url)
      BY <2>1, RequestAliases
  <2>2. CASE BoardByName(p) \/ CorrectAts(p) \/ WriterDies(p) \/ \E r \in Row : StartCrawl(p, r)
      BY <2>2, RequestAliases
  <2>3. CASE BoardUpgrade(p) \/ Enrich(p) \/ CorrectOne(p) \/ updateConfidenceAfterCrawl(p)
      BY <2>3, WriteAliases
  <2>4. CASE (\E r \in Row, f \in ProbeResults : ApplyResult(p, r, f.site, f.board, f.page))
             \/ ApplyWrite(p)
      BY <2>4, ApplyAliases
  <2>5. CASE InsertRow(p) \/ ResolveAliases(p) \/ MergeOne(p)
      BY <2>5, InsertAliases, ResolveAliasesOrders, MergeOneEnds
  <2> QED
      BY <1>3, <2>1, <2>2, <2>3, <2>4, <2>5 DEF RegistryStep
<1> QED
    BY <1>1, <1>2, <1>3 DEF RegistryNext

\* Every company that has not lost a recorded board is crawled or probed, and the aliases of any set of rows lead out of it unless two
\* resolutions ran at once: for any number of requests, names, URLs and rows.
THEOREM NobodyDropsOut == RegistrySpec => []NobodyIsLost
<1>1. RegistryInv => NobodyFallsThrough
    BY DEF RegistryInv, IsCompany, Followed, Stages, NobodyFallsThrough, Crawled, Probed
<1>2. AliasInv => AliasesEnd
    BY DEF AliasInv, AliasesEnd
<1>3. RegistryInv /\ AliasInv => NobodyIsLost
    BY <1>1, <1>2 DEF NobodyIsLost
<1>4. RegistryInv /\ AliasInv /\ [RegistryNext]_registryVars => (RegistryInv /\ AliasInv)'
    BY NextRegistry, NextAliases
<1> QED
    BY InitRegistry, InitAliases, <1>3, <1>4, PTL DEF RegistrySpec

-----------------------------------------------------------------------------
(***************************************************************************)
(* CareerPages.  What a run holds comes from the revision it will store,   *)
(* no stored page is read by a later extractor than the deployed one, and  *)
(* a page that has waited long has few pages left before it.               *)
(***************************************************************************)
RunForm(t) ==
    /\ tier[t] \in [pc : {"idle", "pages"}, todo : {tier[t].todo}, held : {tier[t].held},
                    all : {tier[t].all}, shells : {tier[t].shells}]
    /\ tier[t].held = [p \in Pages |-> tier[t].held[p]]
    /\ tier[t].pc = "idle" => tier[t].all = {}

PagesForms ==
    /\ tier = [t \in Tiers |-> tier[t]]
    /\ \A t \in Tiers : RunForm(t)
    /\ version \in Nat
    /\ snapshot = [p \in Pages |-> snapshot[p]]
    /\ \A p \in Pages : snapshot[p] # NoSnapshot =>
          snapshot[p].version \in Nat /\ snapshot[p].version <= version

ExtractInv == PagesForms /\ NothingExtractedIsForgotten

\* The pages that may be read before p.
Ahead(p) == {q \in Pages \ {p} : ~Outranks(p, q)}

RotationInv ==
    /\ older \subseteq Pages \X Pages
    /\ waited \in [Pages -> Nat]
    /\ \A p \in Pages : OutrankedBy(p) = {} =>
          waited[p] + Cardinality(Ahead(p)) < Cardinality(Pages)

-----------------------------------------------------------------------------
\* Whoever is ahead of a preferred page and is not read is ahead of it still.
LEMMA AheadShrinks ==
    ASSUME RotationInv, NEW S \in SUBSET Pages, Due(S), NEW p \in Pages \ S, OutrankedBy(p) = {},
           older' = {pair \in older : pair[1] \notin S /\ pair[2] \notin S} \cup ((Pages \ S) \X S),
           watched' = watched
    PROVE  /\ IsFiniteSet(Ahead(p)') /\ Cardinality(Ahead(p)') \in Nat
           /\ Cardinality(Ahead(p)') + 1 <= Cardinality(Ahead(p))
<1>1. S \subseteq Ahead(p)
    BY DEF Due, Ahead
<1>2. Ahead(p)' \subseteq Ahead(p) \ S
  <2>1. ASSUME NEW q \in Ahead(p)' PROVE q \in Ahead(p) \ S
    <3>1. q \in Pages \ {p} /\ ~Outranks(p, q)'
        BY <2>1 DEF Ahead
    <3>2. CASE q \in S
      <4>1. ~Outranks(p, q) /\ <<p, q>> \in older'
          BY <1>1, <3>2 DEF Ahead
      <4> QED
          BY <3>1, <4>1 DEF Outranks, OutrankedBy
    <3>3. CASE q \notin S
      <4>1. <<p, q>> \in older' <=> <<p, q>> \in older
          BY <3>3
      <4> QED
          BY <3>1, <3>3, <4>1 DEF Ahead, Outranks
    <3> QED
        BY <3>2, <3>3
  <2> QED
      BY <2>1
<1>3. S # {}
  <2>1. IsFiniteSet(Pages) /\ Pages # {} /\ Cardinality(Pages) \in Nat /\ Cardinality(Pages) # 0
      BY PagesConstants, FS_CardinalityType, FS_EmptySet
  <2> QED
      BY <2>1, PagesConstants, FS_EmptySet DEF Due
<1>4. PICK s : s \in S
    BY <1>3
<1>5. PICK A, B : A = Ahead(p) /\ B = Ahead(p)'
    OBVIOUS
<1>6. IsFiniteSet(A)
  <2>1. A \subseteq Pages
      BY <1>5 DEF Ahead
  <2> QED
      BY <2>1, PagesConstants, FS_Subset
<1>7. s \in A /\ B \subseteq A \ {s}
    BY <1>1, <1>2, <1>4, <1>5
<1>8. IsFiniteSet(A \ {s}) /\ Cardinality(A \ {s}) = Cardinality(A) - 1
    BY <1>6, <1>7, FS_RemoveElement
<1>9. IsFiniteSet(B) /\ Cardinality(B) <= Cardinality(A \ {s}) /\ Cardinality(B) \in Nat
      /\ Cardinality(A) \in Nat
    BY <1>6, <1>7, <1>8, FS_Subset, FS_CardinalityType
<1> QED
    BY <1>5, <1>8, <1>9

LEMMA ClaimRotates == ASSUME RotationInv, ClaimPages PROVE RotationInv'
<1>1. PICK S \in SUBSET Pages :
         /\ Due(S)
         /\ older' = {pair \in older : pair[1] \notin S /\ pair[2] \notin S} \cup ((Pages \ S) \X S)
         /\ waited' = [p \in Pages |->
                         IF p \in S THEN 0
                         ELSE IF waited[p] = Cardinality(Pages) THEN waited[p] ELSE waited[p] + 1]
    BY DEF ClaimPages
<1>2. watched' = watched
    BY DEF ClaimPages
<1>3. IsFiniteSet(Pages) /\ Cardinality(Pages) \in Nat
    BY PagesConstants, FS_CardinalityType
<1>4. older' \subseteq Pages \X Pages
    BY <1>1 DEF RotationInv
<1>5. waited' \in [Pages -> Nat]
    BY <1>1, <1>3 DEF RotationInv
<1>6. ASSUME NEW p \in Pages, OutrankedBy(p)' = {}
      PROVE  waited'[p] + Cardinality(Ahead(p)') < Cardinality(Pages)
  <2>1. OutrankedBy(p) = {}
      BY <1>2, <1>6 DEF OutrankedBy
  <2>2. CASE p \in S
    <3>1. Ahead(p)' \subseteq Pages \ {p}
        BY DEF Ahead
    <3>2. IsFiniteSet(Pages \ {p}) /\ Cardinality(Pages \ {p}) = Cardinality(Pages) - 1
        BY <1>3, FS_RemoveElement
    <3>3. PICK B : B = Ahead(p)'
        OBVIOUS
    <3>4. Cardinality(B) \in Nat /\ Cardinality(B) <= Cardinality(Pages) - 1
        BY <3>1, <3>2, <3>3, FS_Subset, FS_CardinalityType
    <3>5. waited'[p] = 0
        BY <1>1, <2>2
    <3> QED
        BY <1>3, <3>3, <3>4, <3>5
  <2>3. CASE p \notin S
    <3>1. PICK a, b : a = Cardinality(Ahead(p)) /\ b = Cardinality(Ahead(p)')
        OBVIOUS
    <3>2. b \in Nat /\ b + 1 <= a
        BY <1>1, <1>2, <2>1, <2>3, <3>1, AheadShrinks
    <3>3. a \in Nat
      <4>1. IsFiniteSet(Ahead(p))
          BY <1>3, FS_Subset DEF Ahead
      <4> QED
          BY <3>1, <4>1, FS_CardinalityType
    <3>4. waited[p] + a < Cardinality(Pages) /\ waited[p] \in Nat
        BY <2>1, <3>1 DEF RotationInv
    <3>5. waited'[p] = waited[p] + 1 \/ waited'[p] = waited[p]
        BY <1>1, <2>3
    <3> QED
        BY <1>3, <3>1, <3>2, <3>3, <3>4, <3>5
  <2> QED
      BY <2>2, <2>3
<1> QED
    BY <1>4, <1>5, <1>6 DEF RotationInv

LEMMA OthersRotate ==
    ASSUME RotationInv, UNCHANGED <<older, watched, waited>>
    PROVE  RotationInv'
<1>1. \A p \in Pages : Ahead(p)' = Ahead(p) /\ OutrankedBy(p)' = OutrankedBy(p)
    BY DEF Ahead, Outranks, OutrankedBy
<1> QED
    BY <1>1 DEF RotationInv

LEMMA NextRotates == RotationInv /\ [PagesNext]_pagesVars => RotationInv'
<1> SUFFICES ASSUME RotationInv, [PagesNext]_pagesVars, ~ClaimPages PROVE RotationInv'
    BY ClaimRotates
<1>1. UNCHANGED <<older, watched, waited>>
    BY DEF PagesNext, pagesVars, ClaimSnapshots, ClaimShells, Fetch, FetchFails, Extract,
           ExtractLive, ExtractReplay, ExtractRender, Ingest, IngestLive, IngestReplay, IngestRender,
           IngestFails, Restart, Edit
<1> QED
    BY <1>1, OthersRotate

LEMMA InitRotates == PagesInit => RotationInv
<1> SUFFICES ASSUME PagesInit PROVE RotationInv
    OBVIOUS
<1>1. IsFiniteSet(Pages) /\ Cardinality(Pages) \in Nat
    BY PagesConstants, FS_CardinalityType
<1>2. ASSUME NEW p \in Pages PROVE waited[p] + Cardinality(Ahead(p)) < Cardinality(Pages)
  <2>1. PICK A : A = Ahead(p)
      OBVIOUS
  <2>2. A \subseteq Pages \ {p}
      BY <2>1 DEF Ahead
  <2>3. IsFiniteSet(Pages \ {p}) /\ Cardinality(Pages \ {p}) = Cardinality(Pages) - 1
      BY <1>1, FS_RemoveElement
  <2>4. Cardinality(A) \in Nat /\ Cardinality(A) <= Cardinality(Pages) - 1
      BY <2>2, <2>3, FS_Subset, FS_CardinalityType
  <2>5. waited[p] = 0
      BY DEF PagesInit
  <2> QED
      BY <1>1, <2>1, <2>4, <2>5
<1>3. older \subseteq Pages \X Pages /\ waited \in [Pages -> Nat]
    BY DEF PagesInit
<1> QED
    BY <1>2, <1>3 DEF RotationInv

-----------------------------------------------------------------------------
\* What is a job or in hand stays so, and nothing is stored.
LEMMA NothingStored ==
    ASSUME ExtractInv, UNCHANGED <<version, snapshot>>, dropped \subseteq dropped',
           tier' = [t \in Tiers |-> tier'[t]], \A t \in Tiers : RunForm(t)',
           \A t \in Tiers : \A f \in tier[t].all :
               f \in ingested' \cup UNION {tier'[s].all : s \in Tiers} \/ f[1] \in dropped',
           ingested \subseteq ingested'
    PROVE  ExtractInv'
<1>1. PagesForms'
    BY DEF ExtractInv, PagesForms
<1>2. ASSUME NEW p \in Pages \ dropped', snapshot[p] # NoSnapshot, snapshot[p].version = version,
             NEW x \in Strong(version, Contents[snapshot[p].revision])
      PROVE  <<p, x>> \in ingested' \cup UNION {tier'[t].all : t \in Tiers}
  <2>1. <<p, x>> \in ingested \cup UNION {tier[t].all : t \in Tiers}
      BY <1>2 DEF ExtractInv, NothingExtractedIsForgotten
  <2>2. CASE <<p, x>> \in ingested
      BY <2>2
  <2>3. CASE <<p, x>> \notin ingested
    <3>1. PICK t \in Tiers : <<p, x>> \in tier[t].all
        BY <2>1, <2>3
    <3>2. <<p, x>>[1] = p
        OBVIOUS
    <3> QED
        BY <1>2, <3>1, <3>2
  <2> QED
      BY <2>2, <2>3
<1>3. NothingExtractedIsForgotten'
    BY <1>2 DEF NothingExtractedIsForgotten
<1> QED
    BY <1>1, <1>3 DEF ExtractInv

\* One run goes on, and loses nothing it held.
LEMMA RunGoesOn ==
    ASSUME ExtractInv, UNCHANGED <<version, snapshot>>, dropped \subseteq dropped',
           ingested \subseteq ingested',
           NEW t \in Tiers, NEW r, tier' = [tier EXCEPT ![t] = r],
           r \in [pc : {"idle", "pages"}, todo : {r.todo}, held : {r.held}, all : {r.all},
                  shells : {r.shells}],
           r.held = [p \in Pages |-> r.held[p]], r.pc = "idle" => r.all = {},
           \A f \in tier[t].all : f \in ingested' \cup r.all \/ f[1] \in dropped'
    PROVE  ExtractInv'
<1>1. tier'[t] = r /\ \A s \in Tiers : s # t => tier'[s] = tier[s]
    BY DEF ExtractInv, PagesForms
<1>2. tier' = [s \in Tiers |-> tier'[s]]
    BY DEF ExtractInv, PagesForms
<1>3. \A s \in Tiers : RunForm(s)'
    BY <1>1 DEF ExtractInv, PagesForms, RunForm
<1>4. ASSUME NEW s \in Tiers, NEW f \in tier[s].all
      PROVE  f \in ingested' \cup UNION {tier'[u].all : u \in Tiers} \/ f[1] \in dropped'
  <2>1. CASE s = t
      BY <1>1, <2>1
  <2>2. CASE s # t
      BY <1>1, <2>2
  <2> QED
      BY <2>1, <2>2
<1> QED
    BY <1>2, <1>3, <1>4, NothingStored

\* A run that begins.
LEMMA RunBegins ==
    ASSUME ExtractInv, NEW t \in Tiers, tier[t].pc = "idle",
           NEW r,
           r \in [pc : {"idle", "pages"}, todo : {r.todo}, held : {r.held}, all : {r.all},
                  shells : {r.shells}],
           r.held = [p \in Pages |-> r.held[p]], r.pc = "pages", r.all = {},
           tier' = [tier EXCEPT ![t] = r],
           UNCHANGED <<version, snapshot, ingested, dropped>>
    PROVE  ExtractInv'
<1>1. tier[t].all = {}
    BY DEF ExtractInv, PagesForms, RunForm
<1> QED
    BY <1>1, RunGoesOn

LEMMA ClaimsKeep ==
    ASSUME ExtractInv, ClaimPages \/ ClaimSnapshots \/ ClaimShells
    PROVE  ExtractInv'
<1>1. PICK none : none = [p \in Pages |-> 0]
    OBVIOUS
<1>2. none = [p \in Pages |-> none[p]]
    BY <1>1
<1>3. CASE ClaimPages
  <2>1. PICK S \in SUBSET Pages :
           tier' = [tier EXCEPT !["live"] = [NoRun EXCEPT !.pc = "pages", !.todo = S]]
      BY <1>3 DEF ClaimPages
  <2>2. PICK r : r = [NoRun EXCEPT !.pc = "pages", !.todo = S]
      OBVIOUS
  <2>3. tier' = [tier EXCEPT !["live"] = r]
      BY <2>1, <2>2
  <2>4. tier["live"].pc = "idle" /\ "live" \in Tiers /\ UNCHANGED <<version, snapshot, ingested, dropped>>
      BY <1>3 DEF ClaimPages, Tiers
  <2>6. /\ r \in [pc : {"idle", "pages"}, todo : {r.todo}, held : {r.held}, all : {r.all},
                  shells : {r.shells}]
        /\ r.held = none /\ r.pc = "pages" /\ r.all = {}
      BY <1>1, <2>2 DEF NoRun
  <2>7. r.held = [p \in Pages |-> r.held[p]]
      BY <1>2, <2>6
  <2> QED
      BY <2>3, <2>4, <2>6, <2>7, RunBegins
<1>4. CASE ClaimSnapshots
  <2>1. PICK S, held : S = Backlog /\ held = [p \in Pages |-> snapshot[p].revision]
      OBVIOUS
  <2>2. held = [p \in Pages |-> held[p]]
      BY <2>1
  <2>3. PICK r : r = [NoRun EXCEPT !.pc = "pages", !.todo = S, !.held = held]
      OBVIOUS
  <2>4. tier' = [tier EXCEPT !["replay"] = r]
      BY <1>4, <2>1, <2>3 DEF ClaimSnapshots
  <2>5. tier["replay"].pc = "idle" /\ "replay" \in Tiers
        /\ UNCHANGED <<version, snapshot, ingested, dropped>>
      BY <1>4 DEF ClaimSnapshots, Tiers
  <2>6. /\ r \in [pc : {"idle", "pages"}, todo : {r.todo}, held : {r.held}, all : {r.all},
                  shells : {r.shells}]
        /\ r.held = held /\ r.pc = "pages" /\ r.all = {}
      BY <1>1, <2>3 DEF NoRun
  <2>7. r.held = [p \in Pages |-> r.held[p]]
      BY <2>2, <2>6
  <2> QED
      BY <2>4, <2>5, <2>6, <2>7, RunBegins
<1>5. CASE ClaimShells
  <2>1. PICK S : S = needsRender
      OBVIOUS
  <2>2. PICK r : r = [NoRun EXCEPT !.pc = "pages", !.todo = S]
      OBVIOUS
  <2>3. tier' = [tier EXCEPT !["render"] = r]
      BY <1>5, <2>1, <2>2 DEF ClaimShells
  <2>4. tier["render"].pc = "idle" /\ "render" \in Tiers
        /\ UNCHANGED <<version, snapshot, ingested, dropped>>
      BY <1>5 DEF ClaimShells, Tiers
  <2>6. /\ r \in [pc : {"idle", "pages"}, todo : {r.todo}, held : {r.held}, all : {r.all},
                  shells : {r.shells}]
        /\ r.held = none /\ r.pc = "pages" /\ r.all = {}
      BY <1>1, <2>2 DEF NoRun
  <2>7. r.held = [p \in Pages |-> r.held[p]]
      BY <1>2, <2>6
  <2> QED
      BY <2>3, <2>4, <2>6, <2>7, RunBegins
<1> QED
    BY <1>3, <1>4, <1>5

LEMMA PageFetchKeeps ==
    ASSUME ExtractInv, NEW t \in Tiers, NEW p \in Pages, Fetch(t, p) \/ FetchFails(t, p)
    PROVE  ExtractInv'
<1>1. RunForm(t)
    BY DEF ExtractInv, PagesForms
<1>2. UNCHANGED <<version, snapshot, ingested, dropped>>
    BY DEF Fetch, FetchFails
<1>3. CASE Fetch(t, p)
  <2>1. PICK held : held = [tier[t].held EXCEPT ![p] = revision[p]]
      OBVIOUS
  <2>2. PICK r : r = [tier[t] EXCEPT !.held = held]
      OBVIOUS
  <2>3. tier' = [tier EXCEPT ![t] = r]
      BY <1>3, <2>1, <2>2 DEF Fetch
  <2>4. held = [q \in Pages |-> held[q]]
      BY <1>1, <2>1 DEF RunForm
  <2>5. /\ r \in [pc : {"idle", "pages"}, todo : {r.todo}, held : {r.held}, all : {r.all},
                  shells : {r.shells}]
        /\ r.held = held /\ r.all = tier[t].all /\ r.pc = tier[t].pc
      BY <1>1, <2>2 DEF RunForm
  <2>6. r.pc = "idle" => r.all = {}
      BY <1>1, <2>5 DEF RunForm
  <2> QED
      BY <1>2, <2>3, <2>4, <2>5, <2>6, RunGoesOn
<1>4. CASE FetchFails(t, p)
  <2>1. PICK todo : todo = tier[t].todo \ {p}
      OBVIOUS
  <2>2. PICK r : r = [tier[t] EXCEPT !.todo = todo]
      OBVIOUS
  <2>3. tier' = [tier EXCEPT ![t] = r]
      BY <1>4, <2>1, <2>2 DEF FetchFails
  <2>5. /\ r \in [pc : {"idle", "pages"}, todo : {r.todo}, held : {r.held}, all : {r.all},
                  shells : {r.shells}]
        /\ r.held = tier[t].held /\ r.all = tier[t].all /\ r.pc = tier[t].pc
      BY <1>1, <2>2 DEF RunForm
  <2>6. (r.pc = "idle" => r.all = {}) /\ r.held = [q \in Pages |-> r.held[q]]
      BY <1>1, <2>5 DEF RunForm
  <2> QED
      BY <1>2, <2>3, <2>5, <2>6, RunGoesOn
<1> QED
    BY <1>3, <1>4

\* What a run gives up it has ingested, or it is lost with it.
LEMMA IngestsKeep ==
    ASSUME ExtractInv, NEW t \in Tiers, NEW skipped, Ingest(t, skipped) \/ IngestFails(t)
    PROVE  ExtractInv'
<1>1. PICK none : none = [p \in Pages |-> 0]
    OBVIOUS
<1>2. PICK r : r = [pc |-> "idle", todo |-> {}, held |-> none, all |-> {}, shells |-> {}]
    OBVIOUS
<1>3. /\ r \in [pc : {"idle", "pages"}, todo : {r.todo}, held : {r.held}, all : {r.all},
                shells : {r.shells}]
      /\ r.held = [p \in Pages |-> r.held[p]] /\ r.all = {}
    BY <1>1, <1>2
<1>4. tier' = [tier EXCEPT ![t] = r]
    BY <1>1, <1>2 DEF Ingest, IngestFails, NoRun
<1>5. UNCHANGED <<version, snapshot>> /\ dropped \subseteq dropped' /\ ingested \subseteq ingested'
    BY DEF Ingest, IngestFails
<1>6. \A f \in tier[t].all : f \in ingested' \/ f[1] \in dropped'
    BY DEF Ingest, IngestFails, HasJobs
<1> QED
    BY <1>3, <1>4, <1>5, <1>6, RunGoesOn

\* A new version has stored no page, and what the old runs held is lost.
LEMMA RestartKeeps == ASSUME ExtractInv, NEW v \in 1 .. MaxVersionOf, Restart(v) PROVE ExtractInv'
<1>1. PICK none : none = [p \in Pages |-> 0]
    OBVIOUS
<1>2. PICK r : r = [pc |-> "idle", todo |-> {}, held |-> none, all |-> {}, shells |-> {}]
    OBVIOUS
<1>3. tier' = [t \in Tiers |-> r]
    BY <1>1, <1>2 DEF Restart, NoRun
<1>4. /\ r \in [pc : {"idle", "pages"}, todo : {r.todo}, held : {r.held}, all : {r.all},
                shells : {r.shells}]
      /\ r.held = [p \in Pages |-> r.held[p]] /\ r.all = {}
    BY <1>1, <1>2
<1>5. \A t \in Tiers : RunForm(t)'
    BY <1>3, <1>4 DEF RunForm
<1>6. tier' = [t \in Tiers |-> tier'[t]]
    BY <1>3
<1>7. UNCHANGED <<snapshot, ingested>> /\ dropped \subseteq dropped'
      /\ \A t \in Tiers : \A f \in tier[t].all : f[1] \in dropped'
    BY DEF Restart, HasJobs
<1>8. CASE version' = version
    BY <1>5, <1>6, <1>7, <1>8, NothingStored
<1>9. CASE version' # version
  <2>1. version' = version + 1 /\ version \in Nat
      BY <1>9 DEF Restart, ExtractInv, PagesForms
  <2>2. ASSUME NEW p \in Pages, snapshot[p] # NoSnapshot
        PROVE  snapshot[p].version \in Nat /\ snapshot[p].version <= version
      BY <2>2 DEF ExtractInv, PagesForms
  <2>3. ASSUME NEW p \in Pages, snapshot[p] # NoSnapshot
        PROVE  snapshot[p].version # version' /\ snapshot[p].version <= version'
      BY <2>1, <2>2, <2>3
  <2>4. PagesForms'
      BY <1>5, <1>6, <1>7, <2>1, <2>2, <2>3 DEF PagesForms, ExtractInv
  <2>5. NothingExtractedIsForgotten'
      BY <1>7, <2>3 DEF NothingExtractedIsForgotten
  <2> QED
      BY <2>4, <2>5 DEF ExtractInv
<1> QED
    BY <1>8, <1>9

\* A shell has no candidates in its static HTML, so what is stored shows its blocks.
LEMMA ExtractKeeps ==
    ASSUME ExtractInv, NEW t \in Tiers, NEW p \in Pages, NEW store \in BOOLEAN,
           NEW stored \in BOOLEAN, Extract(t, p, store, stored),
           store => Shown(t, tier[t].held[p]) = Contents[tier[t].held[p]]
    PROVE  ExtractInv'
<1>1. RunForm(t)
    BY DEF ExtractInv, PagesForms
<1>2. PICK k, found, todo, all, shells :
        /\ k = tier[t].held[p]
        /\ found = {<<p, x>> : x \in Strong(version, Shown(t, k))}
        /\ todo = tier[t].todo \ {p}
        /\ all = tier[t].all \cup found
        /\ shells = IF t = "live" /\ k \in Shells THEN tier[t].shells \cup {p} ELSE tier[t].shells
    OBVIOUS
<1>3. PICK r : r = [tier[t] EXCEPT !.todo = todo, !.all = all, !.shells = shells]
    OBVIOUS
<1>4. tier' = [tier EXCEPT ![t] = r]
    BY <1>2, <1>3 DEF Extract, AndThese
<1>5. /\ r \in [pc : {"idle", "pages"}, todo : {r.todo}, held : {r.held}, all : {r.all},
                shells : {r.shells}]
      /\ r.held = tier[t].held /\ r.all = all /\ r.pc = "pages"
    BY <1>1, <1>3 DEF RunForm, Extract
<1>6. r.held = [q \in Pages |-> r.held[q]]
    BY <1>1, <1>5 DEF RunForm
<1>7. UNCHANGED <<version, ingested>> /\ dropped' = IF stored /\ store THEN dropped \ {p} ELSE dropped
    BY DEF Extract
<1>8. tier[t].all \subseteq all /\ \A x \in Strong(version, Shown(t, k)) : <<p, x>> \in all
    BY <1>2
<1>9. CASE ~(stored /\ store)
  <2>1. snapshot' = snapshot /\ dropped' = dropped
      BY <1>7, <1>9 DEF Extract
  <2> QED
      BY <1>4, <1>5, <1>6, <1>7, <1>8, <2>1, RunGoesOn
<1>10. CASE stored /\ store
  <2>1. snapshot' = [snapshot EXCEPT ![p] = [revision |-> k, version |-> version]] /\ store
      BY <1>2, <1>10 DEF Extract
  <2>2. Shown(t, k) = Contents[k]
      BY <1>2, <2>1
  <2>3. /\ snapshot' = [q \in Pages |-> snapshot'[q]]
        /\ snapshot'[p].revision = k /\ snapshot'[p].version = version
        /\ \A q \in Pages : q # p => snapshot'[q] = snapshot[q]
      BY <2>1 DEF ExtractInv, PagesForms
  <2>4. tier'[t] = r /\ (\A s \in Tiers : s # t => tier'[s] = tier[s])
        /\ tier' = [s \in Tiers |-> tier'[s]]
      BY <1>4 DEF ExtractInv, PagesForms
  <2>5. \A s \in Tiers : RunForm(s)'
      BY <1>5, <1>6, <2>4 DEF ExtractInv, PagesForms, RunForm
  <2>6. PagesForms'
    <3>1. ASSUME NEW q \in Pages, snapshot'[q] # NoSnapshot
          PROVE  snapshot'[q].version \in Nat /\ snapshot'[q].version <= version
      <4>1. version \in Nat
          BY DEF ExtractInv, PagesForms
      <4>2. CASE q = p
          BY <2>3, <4>1, <4>2
      <4>3. CASE q # p
          BY <2>3, <3>1, <4>3 DEF ExtractInv, PagesForms
      <4> QED
          BY <4>2, <4>3
    <3>2. version' = version /\ version \in Nat
        BY <1>7 DEF ExtractInv, PagesForms
    <3> QED
        BY <2>3, <2>4, <2>5, <3>1, <3>2 DEF PagesForms
  <2>7. ASSUME NEW q \in Pages \ dropped', snapshot'[q] # NoSnapshot, snapshot'[q].version = version,
               NEW x \in Strong(version, Contents[snapshot'[q].revision])
        PROVE  <<q, x>> \in ingested \cup UNION {tier'[s].all : s \in Tiers}
    <3>1. CASE q = p
      <4>1. <<p, x>> \in all
          BY <1>8, <2>2, <2>3, <2>7, <3>1
      <4> QED
          BY <1>5, <2>4, <3>1, <4>1
    <3>2. CASE q # p
      <4>1. <<q, x>> \in ingested \cup UNION {tier[s].all : s \in Tiers}
          BY <1>7, <1>10, <2>3, <2>7, <3>2 DEF ExtractInv, NothingExtractedIsForgotten
      <4>2. ASSUME NEW s \in Tiers PROVE tier[s].all \subseteq tier'[s].all
          BY <1>5, <1>8, <2>4
      <4> QED
          BY <4>1, <4>2
    <3> QED
        BY <3>1, <3>2
  <2>8. NothingExtractedIsForgotten'
      BY <1>7, <2>7 DEF NothingExtractedIsForgotten
  <2> QED
      BY <2>6, <2>8 DEF ExtractInv
<1> QED
    BY <1>9, <1>10

LEMMA ExtractsKeep ==
    ASSUME ExtractInv, NEW p \in Pages, NEW stored \in BOOLEAN,
           ExtractLive(p, stored) \/ ExtractReplay(p, stored) \/ ExtractRender(p, stored)
    PROVE  ExtractInv'
<1>1. \A t \in Tiers : HasCandidates(t, p) \in BOOLEAN
    BY DEF HasCandidates
<1>2. ASSUME HasCandidates("live", p)
      PROVE  Shown("live", tier["live"].held[p]) = Contents[tier["live"].held[p]]
    BY <1>2 DEF HasCandidates, Shown, Static, CandidatesOf
<1>3. \A k : Shown("replay", k) = Contents[k] /\ Shown("render", k) = Contents[k]
    BY DEF Shown
<1>4. {"live", "replay", "render"} \subseteq Tiers
    BY DEF Tiers
<1>5. CASE ExtractLive(p, stored)
    BY <1>1, <1>2, <1>4, <1>5, ExtractKeeps DEF ExtractLive
<1>6. CASE ExtractReplay(p, stored)
    BY <1>3, <1>4, <1>6, ExtractKeeps DEF ExtractReplay
<1>7. CASE ExtractRender(p, stored)
    BY <1>1, <1>3, <1>4, <1>7, ExtractKeeps DEF ExtractRender
<1> QED
    BY <1>5, <1>6, <1>7

LEMMA NextExtracts == ExtractInv /\ [PagesNext]_pagesVars => ExtractInv'
<1> SUFFICES ASSUME ExtractInv, [PagesNext]_pagesVars PROVE ExtractInv'
    OBVIOUS
<1>1. CASE UNCHANGED <<version, snapshot, ingested, tier, dropped>>
    BY <1>1 DEF ExtractInv, PagesForms, RunForm, NothingExtractedIsForgotten
<1>2. CASE ClaimPages \/ ClaimSnapshots \/ ClaimShells
    BY <1>2, ClaimsKeep
<1>3. CASE \E t \in Tiers, p \in Pages : Fetch(t, p) \/ FetchFails(t, p)
    BY <1>3, PageFetchKeeps
<1>4. CASE \E p \in Pages, stored \in BOOLEAN :
             ExtractLive(p, stored) \/ ExtractReplay(p, stored) \/ ExtractRender(p, stored)
    BY <1>4, ExtractsKeep
<1>5. CASE \/ \E skipped \in SUBSET Pages :
                 IngestLive(skipped) \/ IngestReplay(skipped) \/ IngestRender(skipped)
           \/ \E t \in Tiers : IngestFails(t)
    BY <1>5, IngestsKeep DEF IngestLive, IngestReplay, IngestRender, Tiers
<1>6. CASE \E v \in 1 .. MaxVersionOf : Restart(v)
    BY <1>6, RestartKeeps
<1>7. CASE UNCHANGED pagesVars \/ \E p \in Pages : Edit(p)
    BY <1>1, <1>7 DEF pagesVars, Edit
<1> QED
    BY <1>2, <1>3, <1>4, <1>5, <1>6, <1>7 DEF PagesNext

LEMMA InitExtracts == PagesInit => ExtractInv
<1> SUFFICES ASSUME PagesInit PROVE ExtractInv
    OBVIOUS
<1>1. \A t \in Tiers : RunForm(t)
    BY DEF PagesInit, RunForm, NoRun
<1>2. PagesForms
    BY <1>1 DEF PagesInit, PagesForms
<1>3. NothingExtractedIsForgotten
    BY DEF PagesInit, NothingExtractedIsForgotten
<1> QED
    BY <1>2, <1>3 DEF ExtractInv

\* What the deployed extractor accepts in a stored page is a job or about to be
\* one, whatever is fetched, replayed, rendered, upgraded or crashes, unless its run
\* was lost or its company skipped since; and a page that no other outranks is read before as many batches have
\* passed it by as there are pages: for any pages, contents and versions.
THEOREM PagesAreRead == PagesSpec => []CorpusIsRead
<1>1. ExtractInv /\ RotationInv => CorpusIsRead
  <2>1. ASSUME RotationInv, NEW p \in Pages, OutrankedBy(p) = {}
        PROVE  waited[p] < Cardinality(Pages)
    <3>1. PICK A : A = Ahead(p)
        OBVIOUS
    <3>2. IsFiniteSet(A)
        BY <3>1, PagesConstants, FS_Subset DEF Ahead
    <3>3. Cardinality(A) \in Nat /\ Cardinality(Pages) \in Nat /\ waited[p] \in Nat
        BY <2>1, <3>2, PagesConstants, FS_CardinalityType DEF RotationInv
    <3>4. waited[p] + Cardinality(A) < Cardinality(Pages)
        BY <2>1, <3>1 DEF RotationInv
    <3> QED
        BY <3>3, <3>4
  <2> QED
      BY <2>1 DEF ExtractInv, CorpusIsRead, PreferredPagesRotate
<1> QED
    BY InitExtracts, NextExtracts, InitRotates, NextRotates, <1>1, PTL DEF PagesSpec

-----------------------------------------------------------------------------
(***************************************************************************)
(* BoardWalk.  What a walk has seen is a statement about ranks: a page is  *)
(* cut by how many listed positions stand before it, so a page that is not *)
(* full has nothing after it.                                              *)
(***************************************************************************)
\* The positions whose rank is of a .. b - 1.
Ranked(P, a, b) == {k \in P : a <= before(P, k) /\ before(P, k) < b}

LEMMA RanksDiffer ==
    ASSUME NEW P, P \subseteq Nat, IsFiniteSet(P), NEW i \in P, NEW j \in P, i < j
    PROVE  before(P, i) \in Nat /\ before(P, i) + 1 <= before(P, j) /\ before(P, j) \in Nat
<1> DEFINE A == {k \in P : k < i}
           B == {k \in P : k < j}
<1>1. IsFiniteSet(A) /\ IsFiniteSet(B)
    BY FS_Subset
<1>2. i \notin A /\ A \cup {i} \subseteq B
    <2>1. i \in Nat /\ j \in Nat /\ \A k \in P : k \in Nat
        OBVIOUS
    <2>2. i \notin A
        BY <2>1
    <2>3. i \in B
        BY <2>1
    <2>4. ASSUME NEW k \in A PROVE k \in B
        BY <2>1, <2>4
    <2> HIDE DEF A, B
    <2> QED
        BY <2>2, <2>3, <2>4
<1>3. IsFiniteSet(A \cup {i}) /\ Cardinality(A \cup {i}) = Cardinality(A) + 1
    BY <1>1, <1>2, FS_AddElement
<1>4. Cardinality(A \cup {i}) <= Cardinality(B)
    BY <1>1, <1>2, FS_Subset
<1>5. Cardinality(A) \in Nat /\ Cardinality(B) \in Nat
    BY <1>1, FS_CardinalityType
<1> QED
    BY <1>3, <1>4, <1>5 DEF before

LEMMA RankType ==
    ASSUME NEW P, IsFiniteSet(P), NEW i
    PROVE  before(P, i) \in Nat
<1>1. IsFiniteSet({k \in P : k < i})
    BY FS_Subset
<1> QED
    BY <1>1, FS_CardinalityType DEF before

\* There are no more positions than ranks.
LEMMA FewRanks ==
    ASSUME NEW P, P \subseteq Nat, IsFiniteSet(P), NEW a \in Nat, NEW b \in Nat, a <= b
    PROVE  /\ IsFiniteSet(Ranked(P, a, b)) /\ Cardinality(Ranked(P, a, b)) \in Nat
           /\ Cardinality(Ranked(P, a, b)) <= b - a
<1> DEFINE S == Ranked(P, a, b)
           T == a .. (b - 1)
           f == [k \in S |-> before(P, k)]
<1>1. IsFiniteSet(S) /\ Cardinality(S) \in Nat
    <2>1. S \subseteq P
        BY DEF Ranked
    <2> QED
        BY <2>1, FS_Subset, FS_CardinalityType
<1>2. IsFiniteSet(T) /\ Cardinality(T) = b - a
    <2>1. IsFiniteSet(T) /\ Cardinality(T) = IF a > b - 1 THEN 0 ELSE (b - 1) - a + 1
        BY FS_Interval
    <2> QED
        BY <2>1
<1>3. ASSUME NEW k \in S PROVE k \in P /\ k \in Nat /\ before(P, k) \in T
    BY RankType DEF Ranked
<1>4. f \in [S -> T]
    BY <1>3
<1>5. ASSUME NEW x \in S, NEW y \in S, x # y PROVE f[x] # f[y]
    <2>1. x \in P /\ y \in P /\ x \in Nat /\ y \in Nat
          /\ f[x] = before(P, x) /\ f[y] = before(P, y)
        BY <1>3
    <2> HIDE DEF S, T, f
    <2>2. CASE x < y
        <3>1. before(P, x) \in Nat /\ before(P, x) + 1 <= before(P, y) /\ before(P, y) \in Nat
            BY <2>1, <2>2, RanksDiffer
        <3> QED
            BY <2>1, <3>1
    <2>3. CASE y < x
        <3>1. before(P, y) \in Nat /\ before(P, y) + 1 <= before(P, x) /\ before(P, x) \in Nat
            BY <2>1, <2>3, RanksDiffer
        <3> QED
            BY <2>1, <3>1
    <2> QED
        BY <1>5, <2>1, <2>2, <2>3
<1>6. ~(Cardinality(T) < Cardinality(S))
    <2> HIDE DEF S, T, f
    <2> QED
        BY <1>1, <1>2, <1>4, <1>5, FS_PigeonHole
<1> QED
    BY <1>1, <1>2, <1>6

\* And no rank is left out below one that is taken.
LEMMA NoRankSkipped ==
    ASSUME NEW P, P \subseteq Nat, IsFiniteSet(P), NEW c \in Nat,
           NEW i \in P, c <= before(P, i)
    PROVE  /\ IsFiniteSet(Ranked(P, 0, c)) /\ Cardinality(Ranked(P, 0, c)) \in Nat
           /\ c <= Cardinality(Ranked(P, 0, c))
<1> DEFINE S == {k \in P : c <= before(P, k)}
<1>1. PICK m \in S : \A k \in S : m <= k
    BY LeastIndex
<1>2. m \in P /\ m \in Nat /\ c <= before(P, m)
    OBVIOUS
<1>3. \A k \in P : c <= before(P, k) => m <= k
    BY <1>1
<1> HIDE DEF S
<1>4. Ranked(P, 0, c) = {k \in P : k < m}
    <2>1. ASSUME NEW k \in P PROVE before(P, k) \in Nat /\ before(P, m) \in Nat /\ k \in Nat
        BY RankType
    <2>2. ASSUME NEW k \in P, before(P, k) < c PROVE k < m
        <3>1. SUFFICES ASSUME ~(k < m) PROVE FALSE
            OBVIOUS
        <3>2. CASE m = k
            BY <1>2, <2>1, <2>2, <3>2
        <3>3. CASE m < k
            <4>1. before(P, m) + 1 <= before(P, k)
                BY <1>2, <3>3, RanksDiffer
            <4> QED
                BY <1>2, <2>1, <2>2, <4>1
        <3> QED
            BY <1>2, <2>1, <3>1, <3>2, <3>3
    <2>3. ASSUME NEW k \in P, k < m PROVE before(P, k) < c
        BY <1>2, <1>3, <2>1, <2>3
    <2>4. ASSUME NEW k PROVE k \in Ranked(P, 0, c) <=> k \in {j \in P : j < m}
        <3>1. CASE k \in P
            BY <2>1, <2>2, <2>3, <3>1 DEF Ranked
        <3>2. CASE k \notin P
            BY <3>2 DEF Ranked
        <3> QED
            BY <3>1, <3>2
    <2> QED
        BY <2>4
<1>5. IsFiniteSet({k \in P : k < m})
    BY FS_Subset
<1> QED
    BY <1>2, <1>4, <1>5, RankType DEF before

\* A page that is not full is the last one.
LEMMA ShortPageIsLast ==
    ASSUME NEW P, P \subseteq Nat, IsFiniteSet(P), NEW n \in Nat,
           Cardinality(pageOf(P, n)) # PAGE_SIZE
    PROVE  \A i \in P : before(P, i) < (n + 1) * PAGE_SIZE
<1>1. SUFFICES ASSUME NEW i \in P, ~(before(P, i) < (n + 1) * PAGE_SIZE) PROVE FALSE
    OBVIOUS
<1>2. PICK a \in Nat : a = n * PAGE_SIZE
    BY BoardConstants
<1>3. PICK b \in Nat : b = (n + 1) * PAGE_SIZE
    BY BoardConstants
<1>4. b = a + PAGE_SIZE /\ PAGE_SIZE \in Nat /\ 0 <= a /\ a <= b /\ 0 \in Nat
    BY <1>2, <1>3, BoardConstants
<1> DEFINE low == Ranked(P, 0, a)
           all == Ranked(P, 0, b)
           page == Ranked(P, a, b)
<1>5. page = pageOf(P, n)
    BY <1>2, <1>3 DEF pageOf, Ranked
<1>6. IsFiniteSet(all) /\ b <= Cardinality(all) /\ Cardinality(all) \in Nat
    <2>1. b <= before(P, i)
        BY <1>1, <1>3, RankType
    <2> QED
        BY <2>1, NoRankSkipped
<1>7. Cardinality(low) <= a /\ Cardinality(low) \in Nat
    <2>1. Cardinality(low) <= a - 0 /\ Cardinality(low) \in Nat
        BY <1>4, FewRanks
    <2> QED
        BY <2>1
<1>8. Cardinality(page) <= b - a /\ Cardinality(page) \in Nat
    BY <1>4, FewRanks
<1>9. page = all \ low /\ all \cap low = low
    <2>1. \A k \in P : before(P, k) \in Nat
        BY RankType
    <2>2. ASSUME NEW k PROVE k \in page <=> k \in all /\ k \notin low
        <3>1. CASE k \in P
            BY <1>4, <2>1, <3>1 DEF Ranked
        <3>2. CASE k \notin P
            BY <3>2 DEF Ranked
        <3> QED
            BY <3>1, <3>2
    <2>3. \A k : k \in low => k \in all
        BY <1>4, <2>1 DEF Ranked
    <2> HIDE DEF low, all, page
    <2> QED
        BY <2>2, <2>3
<1>10. Cardinality(page) = Cardinality(all) - Cardinality(low)
    <2>1. Cardinality(all \ low) = Cardinality(all) - Cardinality(all \cap low)
        BY <1>6, FS_Difference
    <2> QED
        BY <1>9, <2>1
<1>11. Cardinality(page) # PAGE_SIZE
    BY <1>5
<1> HIDE DEF low, all, page
<1> QED
    BY <1>4, <1>6, <1>7, <1>8, <1>10, <1>11

\* In a whole sequence a position is its rank.
LEMMA RankOfPosition ==
    ASSUME NEW L \in Nat, NEW i \in 1 .. L
    PROVE  before(1 .. L, i) = i - 1
<1>1. {k \in 1 .. L : k < i} = 1 .. (i - 1)
    OBVIOUS
<1>2. Cardinality(1 .. (i - 1)) = IF 1 > i - 1 THEN 0 ELSE (i - 1) - 1 + 1
    BY FS_Interval
<1>3. Cardinality(1 .. (i - 1)) = i - 1
    BY <1>2
<1> QED
    BY <1>1, <1>3, Zenon DEF before

(***************************************************************************)
(* What a walk has seen while the board stood still: all that stands above *)
(* the next page, and once it is over all that is listed, unless it says   *)
(* itself that it has read a part.                                         *)
(***************************************************************************)
BoardForm ==
    /\ walk \in [kind : {walk.kind}, pc : {walk.pc}, tenant : {walk.tenant},
                 query : {walk.query}, page : {walk.page}, postings : {walk.postings},
                 truncated : {walk.truncated}, jobs : {walk.jobs}, unread : {walk.unread},
                 cut : {walk.cut}]
    /\ walk.pc \in {"probe", "list", "detail"} => walk.kind = "WORKDAY"
    /\ walk.pc = "query" => walk.kind \in Aggregators

ReadUpTo(n) ==
    \A r : r \in walk.postings <=>
             \E i \in served : r = board[i] /\ before(served, i) < n * PAGE_SIZE

ListedOnce ==
    /\ DOMAIN board \subseteq Nat /\ IsFiniteSet(DOMAIN board)
    /\ \A i, j \in DOMAIN board : board[i] = board[j] => i = j

WorkdayHolds ==
    /\ open = Range(board) /\ ListedOnce
    /\ walk.pc \in {"probe", "list", "detail", "done"}
    /\ walk.pc \in {"probe", "list"} => walk.page \in Nat /\ ReadUpTo(walk.page)
    /\ walk.pc \in {"detail", "done"} /\ ~walk.truncated =>
         \A i \in served : board[i] \in walk.postings
    /\ walk.pc = "done" =>
         \A r \in walk.postings : Candidate(r) /\ Wanted(r) /\ r \notin walk.unread =>
                                    r.id \in IdsIn(walk.jobs)

WorkdayInv ==
    walk.kind = "WORKDAY" /\ walk.pc # "failed" /\ ~moved /\ ~walk.tenant.stuck => WorkdayHolds

OneRequestTold ==
    walk.kind \in Providers \ {"WORKDAY"} /\ walk.pc = "done" =>
      \A r \in open : r.id \in IdsIn(walk.jobs) \/ Excused(r)

\* A query that is over: a page is missing only behind one without a match.
QueryRead(q) ==
    \A n \in 0 .. QueryPages[walk.kind] - 1 :
       \/ wanted(q, n) \subseteq walk.postings
       \/ walk.kind # "freehire" /\ \E m \in 0 .. n - 1 : wanted(q, m) = {}

FeedHolds ==
    /\ walk.pc \in {"query", "done"}
    /\ Len(board) \in Nat /\ DOMAIN board = 1 .. Len(board)
    /\ \A q \in DOMAIN board : Len(board[q]) \in Nat /\ DOMAIN board[q] = 1 .. Len(board[q])
    /\ walk.query \in DOMAIN board
    /\ walk.page \in Nat /\ walk.page < QueryPages[walk.kind]
    /\ \A q \in DOMAIN board \ walk.cut : q < walk.query => QueryRead(q)
    /\ walk.pc = "query" =>
         \A n \in 0 .. walk.page - 1 : wanted(walk.query, n) \subseteq walk.postings
    /\ walk.pc = "done" =>
         walk.query = Len(board) /\ (walk.query \notin walk.cut => QueryRead(walk.query))

FeedInv == walk.kind \in Aggregators => FeedHolds

WalkInv == BoardForm /\ WorkdayInv /\ OneRequestTold /\ FeedInv

-----------------------------------------------------------------------------
LEMMA WalkInitial == BoardInit => WalkInv
BY DEF BoardInit, WalkInv, BoardForm, WorkdayInv, OneRequestTold, FeedInv, Idle, Providers, Aggregators

\* The first request of a walk has read nothing yet.
LEMMA WorkdayStarts ==
    ASSUME NEW t \in Tenants, NEW b \in Boards["WORKDAY"], StartWorkday(t, b)
    PROVE  WalkInv'
<1>1. board' = b /\ open' = Range(b)
      /\ walk' = [Idle EXCEPT !.kind = "WORKDAY", !.tenant = t,
                              !.pc = IF t.legacy THEN "failed" ELSE "probe"]
    BY DEF StartWorkday
<1>2. PICK p \in {"failed", "probe"} : p = IF t.legacy THEN "failed" ELSE "probe"
    OBVIOUS
<1>3. /\ walk' = [kind |-> "WORKDAY", pc |-> p, tenant |-> t, query |-> 1, page |-> 0,
                  postings |-> {}, truncated |-> FALSE, jobs |-> {}, unread |-> {}, cut |-> {}]
    BY <1>1, <1>2 DEF Idle
<1>4. b \in Seq(Range(b)) /\ IsInjective(b)
    BY BoardConstants
<1>5. ListedOnce'
    <2>1. DOMAIN b = 1 .. Len(b) /\ Len(b) \in Nat
        BY <1>4
    <2>2. IsFiniteSet(DOMAIN b) /\ DOMAIN b \subseteq Nat
        <3>1. 1 \in Int /\ Len(b) \in Int
            BY <2>1
        <3>2. IsFiniteSet(1 .. Len(b))
            BY <3>1, FS_Interval
        <3> QED
            BY <2>1, <3>2
    <2> QED
        BY <1>1, <1>4, <2>2 DEF ListedOnce, IsInjective
<1>6. BoardForm'
    BY <1>2, <1>3 DEF BoardForm
<1>7. walk'.page = 0 /\ walk'.postings = {} /\ walk'.pc = p /\ walk'.kind = "WORKDAY"
    BY <1>3
<1>8. ReadUpTo(walk.page)'
    <2>1. IsFiniteSet(served')
        <3>1. served' \subseteq DOMAIN board'
            BY DEF served
        <3> QED
            BY <1>5, <3>1, FS_Subset DEF ListedOnce
    <2>2. \A i \in served' : before(served', i) \in Nat
        BY <2>1, RankType
    <2>3. 0 * PAGE_SIZE = 0
        BY BoardConstants
    <2>4. \A i \in served' : ~(before(served', i) < walk'.page * PAGE_SIZE)
        BY <1>7, <2>2, <2>3
    <2> QED
        BY <1>7, <2>4 DEF ReadUpTo
<1>9. WorkdayInv'
    <2>1. p # "failed" => WorkdayHolds'
        BY <1>1, <1>2, <1>5, <1>7, <1>8 DEF WorkdayHolds
    <2> QED
        BY <1>2, <1>7, <2>1 DEF WorkdayInv
<1>10. OneRequestTold' /\ FeedInv'
    BY <1>7 DEF OneRequestTold, FeedInv, Aggregators
<1> QED
    BY <1>6, <1>9, <1>10 DEF WalkInv

\* A page of the listing adds what is on it; the page that ends the walk
\* without a mark was not full, or had nothing new and so nothing at all.
LEMMA PageIsAdded ==
    ASSUME WalkInv, ListPage
    PROVE  WalkInv'
<1>1. walk.pc = "list" /\ walk.kind = "WORKDAY"
    BY DEF ListPage, WalkInv, BoardForm
<1> DEFINE rows == pageOf(served, IF walk.tenant.stuck THEN 0 ELSE walk.page)
           fresh == {board[i] : i \in rows} \ walk.postings
           pages == walk.page + 1
<1>2. PICK capped : capped = CapReached(rows, pages, fresh)
    OBVIOUS
<1>3. PICK p : p = IF fresh # {} /\ Cardinality(rows) = PAGE_SIZE /\ pages < MAX_PAGES
                   THEN "list" ELSE "detail"
    OBVIOUS
<1>4. walk' = [walk EXCEPT !.postings = walk.postings \cup fresh, !.page = pages,
                           !.truncated = capped, !.pc = p]
    BY <1>2, <1>3 DEF ListPage
<1>5. board' = board /\ open' = open /\ moved' = moved
    BY DEF ListPage
<1>6. /\ walk'.kind = "WORKDAY" /\ walk'.pc = p /\ walk'.tenant = walk.tenant
      /\ walk'.page = pages /\ walk'.postings = walk.postings \cup fresh
      /\ walk'.truncated = capped /\ p \in {"list", "detail"}
      /\ walk' \in [kind : {walk'.kind}, pc : {walk'.pc}, tenant : {walk'.tenant},
                 query : {walk'.query}, page : {walk'.page}, postings : {walk'.postings},
                 truncated : {walk'.truncated}, jobs : {walk'.jobs}, unread : {walk'.unread},
                 cut : {walk'.cut}]
    <2> HIDE DEF fresh, pages
    <2>1. walk \in [kind : {walk.kind}, pc : {walk.pc}, tenant : {walk.tenant},
                 query : {walk.query}, page : {walk.page}, postings : {walk.postings},
                 truncated : {walk.truncated}, jobs : {walk.jobs}, unread : {walk.unread},
                 cut : {walk.cut}]
        BY DEF WalkInv, BoardForm
    <2> QED
        BY <1>1, <1>3, <1>4, <2>1
<1>7. BoardForm'
    BY <1>6 DEF BoardForm
<1>8. ASSUME ~moved, ~walk.tenant.stuck PROVE WorkdayHolds'
    <2>1. WorkdayHolds
        BY <1>1, <1>8 DEF WalkInv, WorkdayInv
    <2>2. ListedOnce /\ walk.page \in Nat /\ ReadUpTo(walk.page) /\ open = Range(board)
        BY <1>1, <2>1 DEF WorkdayHolds
    <2>3. rows = pageOf(served, walk.page)
        BY <1>8
    <2>4. served' = served /\ served \subseteq Nat /\ IsFiniteSet(served)
          /\ served \subseteq DOMAIN board
        <3>1. served \subseteq DOMAIN board
            BY DEF served
        <3>2. served' = served
            BY <1>5, <1>6 DEF served
        <3> QED
            BY <2>2, <3>1, <3>2, FS_Subset DEF ListedOnce
    <2>5. PICK a \in Nat : a = walk.page * PAGE_SIZE
        BY <2>2, BoardConstants
    <2>6. PICK b \in Nat : b = (walk.page + 1) * PAGE_SIZE
        BY <2>2, BoardConstants
    <2>7. b = a + PAGE_SIZE /\ PAGE_SIZE \in Nat \ {0}
        BY <2>2, <2>5, <2>6, BoardConstants
    <2>8. \A i : i \in rows <=> i \in served /\ a <= before(served, i) /\ before(served, i) < b
        BY <2>3, <2>5, <2>6 DEF pageOf
    <2>9. \A i \in served : before(served, i) \in Nat
        BY <2>4, RankType
    <2>10. \A r : r \in walk.postings <=>
                    \E i \in served : r = board[i] /\ before(served, i) < a
        BY <2>2, <2>5 DEF ReadUpTo
    <2>11. \A r : r \in fresh <=> r \notin walk.postings /\ \E i \in rows : r = board[i]
        OBVIOUS
    <2>12. pages = walk.page + 1
        OBVIOUS
    <2> HIDE DEF rows, fresh, pages
    <2>13. \A r : r \in walk'.postings <=>
                    \E i \in served : r = board[i] /\ before(served, i) < b
        <3>1. ASSUME NEW r, r \in walk'.postings
              PROVE  \E i \in served : r = board[i] /\ before(served, i) < b
            <4>1. CASE r \in walk.postings
                <5>1. PICK i \in served : r = board[i] /\ before(served, i) < a
                    BY <2>10, <4>1
                <5>2. before(served, i) < b
                    BY <2>7, <2>9, <5>1
                <5> QED
                    BY <5>1, <5>2
            <4>2. CASE r \in fresh
                BY <2>8, <2>11, <4>2
            <4> QED
                BY <1>6, <3>1, <4>1, <4>2
        <3>2. ASSUME NEW r, NEW i \in served, r = board[i], before(served, i) < b
              PROVE  r \in walk'.postings
            <4>1. CASE before(served, i) < a
                BY <1>6, <2>10, <3>2, <4>1
            <4>2. CASE a <= before(served, i)
                BY <1>6, <2>8, <2>11, <3>2, <4>2
            <4> QED
                BY <2>9, <4>1, <4>2
        <3> QED
            BY <3>1, <3>2
    <2>14. ReadUpTo(walk.page)' /\ walk'.page \in Nat
        BY <1>5, <1>6, <2>2, <2>4, <2>6, <2>12, <2>13 DEF ReadUpTo
    <2>15. ASSUME p = "detail", ~capped, NEW i \in served PROVE board[i] \in walk'.postings
        <3>1. fresh = {} \/ Cardinality(rows) # PAGE_SIZE
            <4>1. pages \in Nat /\ MAX_PAGES \in Nat
                BY <2>2, <2>12, BoardConstants
            <4>2. ~(fresh # {} /\ Cardinality(rows) = PAGE_SIZE /\ pages < MAX_PAGES)
                BY <1>3, <2>15
            <4>3. ~(fresh # {} /\ Cardinality(rows) = PAGE_SIZE /\ pages >= MAX_PAGES)
                BY <1>2, <2>15 DEF CapReached
            <4> QED
                BY <4>1, <4>2, <4>3
        <3>2. fresh = {} => rows = {}
            <4>1. SUFFICES ASSUME fresh = {}, NEW k \in rows PROVE FALSE
                OBVIOUS
            <4>2. board[k] \in walk.postings
                BY <2>11, <4>1
            <4>3. PICK j \in served : board[k] = board[j] /\ before(served, j) < a
                BY <2>10, <4>2
            <4>4. k \in served /\ a <= before(served, k) /\ k \in DOMAIN board /\ j \in DOMAIN board
                BY <2>4, <2>8
            <4>5. j = k
                BY <2>2, <4>3, <4>4 DEF ListedOnce
            <4> QED
                BY <2>9, <4>3, <4>4, <4>5
        <3>3. Cardinality(rows) # PAGE_SIZE
            BY <2>7, <3>1, <3>2, FS_EmptySet
        <3>4. \A j \in served : before(served, j) < (walk.page + 1) * PAGE_SIZE
            <4>1. Cardinality(pageOf(served, walk.page)) # PAGE_SIZE
                BY <2>3, <3>3
            <4> QED
                BY <2>2, <2>4, <4>1, ShortPageIsLast
        <3> QED
            BY <2>6, <2>13, <3>4
    <2> QED
        <3>1. ListedOnce' /\ open' = Range(board')
            BY <1>5, <2>2 DEF ListedOnce
        <3>2. p = "detail" /\ ~capped => \A i \in served' : board'[i] \in walk'.postings
            BY <1>5, <2>4, <2>15
        <3> QED
            BY <1>6, <2>14, <3>1, <3>2 DEF WorkdayHolds
<1>9. WorkdayInv'
    BY <1>5, <1>6, <1>8 DEF WorkdayInv
<1>10. OneRequestTold' /\ FeedInv'
    BY <1>6 DEF OneRequestTold, FeedInv, Aggregators
<1> QED
    BY <1>7, <1>9, <1>10 DEF WalkInv

\* Steps of a Workday walk that leave the listing as it is.
LEMMA WorkdayGoesOn ==
    ASSUME WalkInv, Probe \/ ListFails \/ Details
    PROVE  WalkInv'
<1>1. walk.kind = "WORKDAY" /\ walk.pc \in {"probe", "list", "detail"}
    BY DEF Probe, ListFails, Details, WalkInv, BoardForm
<1>2. board' = board /\ open' = open /\ moved' = moved
    BY DEF Probe, ListFails, Details
<1>3. walk \in [kind : {walk.kind}, pc : {walk.pc}, tenant : {walk.tenant},
                 query : {walk.query}, page : {walk.page}, postings : {walk.postings},
                 truncated : {walk.truncated}, jobs : {walk.jobs}, unread : {walk.unread},
                 cut : {walk.cut}]
    BY DEF WalkInv, BoardForm
<1>4. /\ BoardForm' /\ walk'.kind = "WORKDAY" /\ walk'.tenant = walk.tenant
      /\ walk'.postings = walk.postings /\ walk'.page = walk.page
      /\ \/ /\ walk.pc = "probe" /\ walk'.pc \in {"list", "failed"}
            /\ walk'.truncated = walk.truncated
         \/ walk.pc = "list" /\ walk'.pc = "detail" /\ walk'.truncated
         \/ /\ walk.pc = "detail" /\ walk'.pc = "done" /\ walk'.truncated = walk.truncated
            /\ \A r \in walk.postings : Candidate(r) /\ r \notin walk'.unread /\ AcceptedDetail(r)
                 => Normalized(r, r.body, "none", workModeFromText(r.place)) \in walk'.jobs
    <2>1. CASE Probe
        <3>1. PICK p \in {"list", "failed"} : walk' = [walk EXCEPT !.pc = p] /\ walk.pc = "probe"
            BY <2>1 DEF Probe
        <3> QED
            BY <1>1, <1>3, <3>1 DEF BoardForm
    <2>2. CASE ListFails
        <3>1. walk' = [walk EXCEPT !.truncated = TRUE, !.pc = "detail"] /\ walk.pc = "list"
            BY <2>2 DEF ListFails, PartOf
        <3> QED
            BY <1>1, <1>3, <3>1 DEF BoardForm
    <2>3. CASE Details
        <3> DEFINE C == {r \in walk.postings : Candidate(r)}
        <3>1. walk.pc = "detail"
            BY <2>3 DEF Details
        <3>2. PICK u \in SUBSET C :
                walk' = [walk EXCEPT !.pc = "done", !.unread = u,
                    !.jobs = {Normalized(r, r.body, "none", workModeFromText(r.place)) :
                                r \in {s \in C \ u : AcceptedDetail(s)}}]
            BY <2>3 DEF Details
        <3>3. PICK js : js = {Normalized(r, r.body, "none", workModeFromText(r.place)) :
                                r \in {s \in C \ u : AcceptedDetail(s)}}
            OBVIOUS
        <3>4. \A r \in walk.postings : Candidate(r) /\ r \notin u /\ AcceptedDetail(r)
                 => Normalized(r, r.body, "none", workModeFromText(r.place)) \in js
            BY <3>3
        <3>5. walk' = [walk EXCEPT !.pc = "done", !.unread = u, !.jobs = js]
            BY <3>2, <3>3
        <3> QED
            BY <1>1, <1>3, <3>1, <3>4, <3>5 DEF BoardForm
    <2> QED
        BY <2>1, <2>2, <2>3
<1>5. served' = served /\ \A i : board'[i] = board[i]
    BY <1>2, <1>4 DEF served
<1>6. \A r : Candidate(r)' <=> Candidate(r)
    BY <1>4 DEF Candidate
<1>7. ASSUME WorkdayHolds, walk'.pc # "failed" PROVE WorkdayHolds'
    <2>1. ListedOnce' /\ open' = Range(board')
        BY <1>2, <1>7 DEF WorkdayHolds, ListedOnce
    <2>2. CASE walk.pc = "probe"
        <3>1. walk.page \in Nat /\ ReadUpTo(walk.page) /\ walk'.pc = "list"
            BY <1>4, <1>7, <2>2 DEF WorkdayHolds
        <3>2. ReadUpTo(walk.page)'
            BY <1>2, <1>4, <1>5, <3>1 DEF ReadUpTo
        <3> QED
            BY <1>4, <2>1, <3>1, <3>2 DEF WorkdayHolds
    <2>3. CASE walk.pc = "list"
        BY <1>4, <2>1, <2>3 DEF WorkdayHolds
    <2>4. CASE walk.pc = "detail"
        <3>1. ~walk.truncated => \A i \in served : board[i] \in walk.postings
            BY <1>7, <2>4 DEF WorkdayHolds
        <3>2. ASSUME NEW r \in walk'.postings, Candidate(r)', Wanted(r)', r \notin walk'.unread
              PROVE  r.id \in IdsIn(walk'.jobs)
            <4>1. Normalized(r, r.body, "none", workModeFromText(r.place)) \in walk'.jobs
                BY <1>4, <1>6, <2>4, <3>2 DEF Wanted
            <4> QED
                BY <4>1 DEF IdsIn, Normalized
        <3> QED
            BY <1>4, <1>5, <2>1, <2>4, <3>1, <3>2 DEF WorkdayHolds
    <2> QED
        BY <1>1, <2>2, <2>3, <2>4
<1>8. WorkdayInv'
    <2>1. walk.pc # "failed"
        BY <1>1
    <2> QED
        BY <1>1, <1>2, <1>4, <1>7, <2>1 DEF WalkInv, WorkdayInv
<1>9. OneRequestTold' /\ FeedInv'
    BY <1>4 DEF OneRequestTold, FeedInv, Aggregators
<1> QED
    BY <1>4, <1>8, <1>9 DEF WalkInv

\* A board that moves is no longer spoken of.
LEMMA MovedBoard ==
    ASSUME WalkInv, BoardMoves
    PROVE  WalkInv'
<1>1. walk' = walk /\ moved' = TRUE /\ walk.kind = "WORKDAY"
    BY DEF BoardMoves
<1>2. BoardForm'
    BY <1>1 DEF WalkInv, BoardForm
<1>3. WorkdayInv'
    BY <1>1 DEF WorkdayInv
<1>4. OneRequestTold' /\ FeedInv'
    BY <1>1 DEF OneRequestTold, FeedInv, Aggregators
<1> QED
    BY <1>2, <1>3, <1>4 DEF WalkInv

\* One request brings every row its adapter does not leave out on purpose.
LEMMA OneRequestBringsAll ==
    ASSUME NEW kind \in Providers \ {"WORKDAY"}, NEW b, NEW unread, NEW r \in Range(b)
    PROVE  \/ r.id \in IdsIn(Once(kind, b, unread))
           \/ kind = "SMARTRECRUITERS" /\ r \notin firstRows(b)
           \/ kind \in {"ASHBY", "RECRUITEE"} /\ ~r.listed
<1>1. \A text, source, mode : Normalized(r, text, source, mode).externalId = r.id
    BY DEF Normalized
<1>2. \A text, source, mode, given : Normalized(r, text, source, mode) \in given
                                       => r.id \in IdsIn(given)
    BY <1>1 DEF IdsIn
<1>3. CASE kind = "GREENHOUSE"
    <2>1. Once(kind, b, unread) = greenhouseJobs(b)
        BY <1>3 DEF Once
    <2>2. Normalized(r, r.body, "none", workModeFromText(r.place)) \in greenhouseJobs(b)
        BY DEF greenhouseJobs
    <2> QED
        BY <1>2, <2>1, <2>2
<1>4. CASE kind = "LEVER"
    <2>1. Once(kind, b, unread) = leverJobs(b)
        BY <1>4 DEF Once
    <2>2. Normalized(r, buildDescription(r.body), IF r.body = {} THEN "MISSING" ELSE "LIST",
              IF r.mode # "unspecified" THEN r.mode ELSE workModeFromText(r.place)) \in leverJobs(b)
        BY DEF leverJobs
    <2> QED
        BY <1>2, <2>1, <2>2
<1>5. CASE kind = "ASHBY"
    <2>1. Once(kind, b, unread) = ashbyJobs(b)
        BY <1>5 DEF Once
    <2>2. r.listed => Normalized(r, r.body, "none", flag(r.mode, {"REMOTE"})) \in ashbyJobs(b)
        BY DEF ashbyJobs
    <2> QED
        BY <1>2, <1>5, <2>1, <2>2
<1>6. CASE kind = "WORKABLE"
    <2>1. Once(kind, b, unread) = workableJobs(b)
        BY <1>6 DEF Once
    <2>2. Normalized(r, r.body, "none",
              IF r.mode = "REMOTE" THEN "REMOTE" ELSE workModeFromText(r.place)) \in workableJobs(b)
        BY DEF workableJobs
    <2> QED
        BY <1>2, <2>1, <2>2
<1>7. CASE kind = "SMARTRECRUITERS"
    <2>1. Once(kind, b, unread) = smartrecruitersJobs(b, unread)
        BY <1>7 DEF Once
    <2>2. r \in firstRows(b) =>
            Normalized(r, IF r.id \in unread THEN {} ELSE r.body, "none",
                       flag(r.mode, {"REMOTE", "HYBRID"})) \in smartrecruitersJobs(b, unread)
        BY DEF smartrecruitersJobs
    <2> QED
        BY <1>2, <1>7, <2>1, <2>2
<1>8. CASE kind = "RECRUITEE"
    <2>1. Once(kind, b, unread) = recruiteeJobs(b)
        BY <1>8 DEF Once
    <2>2. r.listed => Normalized(r, r.body, "none",
              IF r.mode # "unspecified" THEN r.mode ELSE workModeFromText(r.place))
                        \in recruiteeJobs(b)
        BY DEF recruiteeJobs
    <2> QED
        BY <1>2, <1>8, <2>1, <2>2
<1>9. CASE kind = "BREEZY"
    <2>1. Once(kind, b, unread) = breezyJobs(b, unread)
        BY <1>9 DEF Once
    <2>2. Normalized(r, IF r.id \in unread THEN {} ELSE r.body,
              IF r.inList THEN "LIST" ELSE IF r.id \in unread THEN "MISSING" ELSE "DETAIL",
              IF r.mode = "REMOTE" THEN "REMOTE" ELSE workModeFromText(r.place))
            \in breezyJobs(b, unread)
        BY DEF breezyJobs
    <2> QED
        BY <1>2, <2>1, <2>2
<1>10. CASE kind = "KEKA"
    <2>1. Once(kind, b, unread) = kekaJobs(b)
        BY <1>10 DEF Once
    <2>2. Normalized(r, r.body, "none", workModeFromText(r.place)) \in kekaJobs(b)
        BY DEF kekaJobs
    <2> QED
        BY <1>2, <2>1, <2>2
<1> QED
    BY <1>3, <1>4, <1>5, <1>6, <1>7, <1>8, <1>9, <1>10 DEF Providers

LEMMA PageRequestFailed ==
    ASSUME NEW kind \in DOMAIN Boards \ ({"WORKDAY"} \cup Aggregators), PageRequestFails(kind)
    PROVE  WalkInv'
<1>1. walk' = [kind |-> kind, pc |-> "failed", tenant |-> NoTenant, query |-> 1,
               page |-> 0, postings |-> {}, truncated |-> FALSE, jobs |-> {},
               unread |-> {}, cut |-> {}]
    BY DEF PageRequestFails, Idle
<1> QED
    BY <1>1 DEF WalkInv, BoardForm, WorkdayInv, OneRequestTold, FeedInv

LEMMA OneRequestIsTold ==
    ASSUME NEW kind \in DOMAIN Boards \ ({"WORKDAY"} \cup Aggregators), NEW b \in Boards[kind],
           FetchOnce(kind, b)
    PROVE  WalkInv'
<1>1. PICK u : walk' = [Idle EXCEPT !.kind = kind, !.pc = "done", !.unread = u,
                                    !.jobs = Once(kind, b, u)]
    BY DEF FetchOnce
<1>2. PICK js : js = Once(kind, b, u)
    OBVIOUS
<1>3. walk' = [kind |-> kind, pc |-> "done", tenant |-> NoTenant, query |-> 1, page |-> 0,
               postings |-> {}, truncated |-> FALSE, jobs |-> js, unread |-> u, cut |-> {}]
    BY <1>1, <1>2 DEF Idle
<1>4. open' = Range(b) /\ board' = b
    BY DEF FetchOnce
<1>5. walk'.kind = kind /\ walk'.pc = "done" /\ walk'.jobs = js
    BY <1>3
<1>6. BoardForm'
    BY <1>3 DEF BoardForm
<1>7. kind # "WORKDAY" /\ kind \notin Aggregators
    OBVIOUS
<1>8. WorkdayInv' /\ FeedInv'
    BY <1>5, <1>7 DEF WorkdayInv, FeedInv
<1>9. OneRequestTold'
    <2>1. SUFFICES ASSUME kind \in Providers, NEW r \in Range(b)
                   PROVE  r.id \in IdsIn(js) \/ Excused(r)'
        BY <1>4, <1>5 DEF OneRequestTold
    <2>2. \/ r.id \in IdsIn(Once(kind, b, u))
          \/ kind = "SMARTRECRUITERS" /\ r \notin firstRows(b)
          \/ kind \in {"ASHBY", "RECRUITEE"} /\ ~r.listed
        BY <1>7, <2>1, OneRequestBringsAll
    <2>3. CASE kind = "SMARTRECRUITERS" /\ r \notin firstRows(b)
        BY <1>4, <1>5, <2>3 DEF Excused
    <2>4. CASE kind \in {"ASHBY", "RECRUITEE"} /\ ~r.listed
        BY <1>5, <2>4 DEF Excused
    <2> QED
        BY <1>2, <2>2, <2>3, <2>4
<1> QED
    BY <1>6, <1>8, <1>9 DEF WalkInv

(***************************************************************************)
(* The aggregators.                                                        *)
(***************************************************************************)
LEMMA FeedStarts ==
    ASSUME NEW kind \in Aggregators, NEW b \in Boards[kind], StartFeed(kind, b)
    PROVE  WalkInv'
<1>1. /\ walk' = [kind |-> kind, pc |-> "query", tenant |-> NoTenant, query |-> 1, page |-> 0,
                  postings |-> {}, truncated |-> FALSE, jobs |-> {}, unread |-> {}, cut |-> {}]
      /\ board' = b
    BY DEF StartFeed, Idle
<1>2. walk'.kind = kind /\ walk'.pc = "query" /\ walk'.query = 1 /\ walk'.page = 0
    BY <1>1
<1>3. b \in Seq(Range(b)) /\ b # <<>> /\ \A q \in DOMAIN b : b[q] \in Seq(Range(b[q]))
    BY BoardConstants
<1>4. /\ Len(b) \in Nat \ {0} /\ DOMAIN b = 1 .. Len(b)
      /\ \A q \in DOMAIN b : Len(b[q]) \in Nat /\ DOMAIN b[q] = 1 .. Len(b[q])
    BY <1>3
<1>5. kind \notin Providers
    BY DEF Aggregators, Providers
<1>6. BoardForm'
    BY <1>1 DEF BoardForm
<1>7. WorkdayInv' /\ OneRequestTold'
    BY <1>2, <1>5 DEF WorkdayInv, OneRequestTold, Providers
<1>8. QueryPages[kind] \in Nat \ {0}
    BY BoardConstants
<1>9. FeedHolds'
    <2>1. /\ (Len(board) \in Nat)' /\ (DOMAIN board = 1 .. Len(board))'
          /\ (\A q \in DOMAIN board : Len(board[q]) \in Nat /\ DOMAIN board[q] = 1 .. Len(board[q]))'
        BY <1>1, <1>4
    <2>2. (\A q \in DOMAIN board \ walk.cut : q < walk.query => QueryRead(q))'
        BY <1>1, <1>2, <1>4
    <2>3. 1 \in DOMAIN board'
        BY <1>1, <1>4
    <2> QED
        BY <1>2, <1>8, <2>1, <2>2, <2>3 DEF FeedHolds
<1> QED
    BY <1>6, <1>7, <1>9 DEF WalkInv, FeedInv

\* Where a query ends, its pages are read, or nothing is left behind the last,
\* or the last one had no match.
LEMMA QueryIsOver ==
    ASSUME FeedHolds, walk.kind \in Aggregators, walk.pc = "query",
           NEW batch, batch = wanted(walk.query, walk.page),
           NEW total \in {NoDays, Len(board[walk.query])},
           \/ lastPage(walk.kind, Cardinality(pageOf(DOMAIN board[walk.query], walk.page)),
                       batch, total)
           \/ ~(walk.page + 1 < QueryPages[walk.kind]),
           NEW n \in 0 .. QueryPages[walk.kind] - 1
    PROVE  \/ wanted(walk.query, n) \subseteq walk.postings \cup batch
           \/ walk.kind # "freehire" /\ \E m \in 0 .. n - 1 : wanted(walk.query, m) = {}
<1>1. /\ walk.page \in Nat /\ walk.page < QueryPages[walk.kind]
      /\ \A k \in 0 .. walk.page - 1 : wanted(walk.query, k) \subseteq walk.postings
      /\ walk.query \in DOMAIN board
    BY DEF FeedHolds
<1>2. QueryPages[walk.kind] \in Nat
    BY BoardConstants
<1>3. CASE n < walk.page
    <2>1. wanted(walk.query, n) \subseteq walk.postings
        BY <1>1, <1>3
    <2> QED
        BY <2>1
<1>4. CASE n = walk.page
    BY <1>4
<1>5. CASE walk.page < n /\ walk.kind # "freehire"
    <2>1. wanted(walk.query, walk.page) = {}
        BY <1>1, <1>2, <1>5 DEF lastPage
    <2> QED
        BY <1>1, <1>5, <2>1
<1>6. CASE walk.page < n /\ walk.kind = "freehire"
    <2>1. PICK L \in Nat : L = Len(board[walk.query]) /\ DOMAIN board[walk.query] = 1 .. L
        BY <1>1 DEF FeedHolds
    <2> DEFINE P == 1 .. L
    <2>2. P \subseteq Nat /\ IsFiniteSet(P)
        <3>1. 1 \in Int /\ L \in Int
            OBVIOUS
        <3>2. IsFiniteSet(1 .. L)
            BY <3>1, FS_Interval
        <3> QED
            BY <3>2
    <2>3. PICK c \in Nat : c = (walk.page + 1) * PAGE_SIZE
        BY <1>1, BoardConstants
    <2>4. \/ Cardinality(pageOf(P, walk.page)) < PAGE_SIZE
          \/ total # NoDays /\ c >= total
        BY <1>1, <1>2, <1>6, <2>1, <2>3 DEF lastPage
    <2>5. \A i \in P : before(P, i) < c
        <3>1. CASE Cardinality(pageOf(P, walk.page)) < PAGE_SIZE
            <4>1. Cardinality(pageOf(P, walk.page)) # PAGE_SIZE
                BY <3>1, BoardConstants
            <4>2. \A i \in P : before(P, i) < (walk.page + 1) * PAGE_SIZE
                <5> HIDE DEF P
                <5> QED
                    BY <1>1, <2>2, <4>1, ShortPageIsLast
            <4> QED
                BY <2>3, <4>2
        <3>2. CASE total # NoDays /\ c >= total
            <4>1. c >= L
                BY <2>1, <3>2
            <4>2. \A i \in P : before(P, i) = i - 1
                BY RankOfPosition
            <4> QED
                BY <4>1, <4>2
        <3> QED
            BY <2>4, <3>1, <3>2
    <2>6. c <= n * PAGE_SIZE
        <3>1. PICK d \in Nat : n = walk.page + 1 + d
            <4>1. n - (walk.page + 1) \in Nat /\ n = walk.page + 1 + (n - (walk.page + 1))
                BY <1>1, <1>2, <1>6
            <4> QED
                BY <4>1
        <3>2. PICK e \in Nat : e = d * PAGE_SIZE
            BY BoardConstants
        <3>3. n * PAGE_SIZE = c + e
            BY <1>1, <2>3, <3>1, <3>2, BoardConstants
        <3> QED
            BY <3>3
    <2>7. PICK w \in Nat : w = n * PAGE_SIZE
        BY <1>2, BoardConstants
    <2>8. pageOf(P, n) = {}
        <3>1. \A i \in P : before(P, i) \in Nat
            BY <2>2, RankType
        <3>2. \A i \in P : ~(n * PAGE_SIZE <= before(P, i))
            BY <2>5, <2>6, <2>7, <3>1
        <3> QED
            BY <3>2 DEF pageOf
    <2>9. wanted(walk.query, n) = {}
        <3>1. {board[walk.query][i] : i \in pageOf(DOMAIN board[walk.query], n)} = {}
            BY <2>1, <2>8
        <3>2. Mapped("freehire", {}) = {}
            BY DEF Mapped, mapFreehireJobs
        <3> QED
            BY <1>6, <3>1, <3>2 DEF wanted
    <2> QED
        BY <2>9
<1> QED
    BY <1>1, <1>2, <1>3, <1>4, <1>5, <1>6

\* Where the next request goes.
LEMMA Onward ==
    ASSUME NEW w, w \in [kind : {w.kind}, pc : {w.pc}, tenant : {w.tenant}, query : {w.query},
               page : {w.page}, postings : {w.postings}, truncated : {w.truncated},
               jobs : {w.jobs}, unread : {w.unread}, cut : {w.cut}],
           NEW more \in BOOLEAN
    PROVE  /\ onward(w, more) \in [kind : {w.kind}, pc : {w.pc, "done"}, tenant : {w.tenant},
               query : {w.query, w.query + 1}, page : {w.page, w.page + 1, 0},
               postings : {w.postings}, truncated : {w.truncated}, jobs : {w.jobs},
               unread : {w.unread}, cut : {w.cut}]
           /\ more => onward(w, more).query = w.query /\ onward(w, more).page = w.page + 1
                      /\ onward(w, more).pc = w.pc
           /\ ~more /\ w.query < Len(board) =>
                onward(w, more).query = w.query + 1 /\ onward(w, more).page = 0
                /\ onward(w, more).pc = w.pc
           /\ ~more /\ ~(w.query < Len(board)) =>
                onward(w, more).query = w.query /\ onward(w, more).page = w.page
                /\ onward(w, more).pc = "done"
BY DEF onward

LEMMA FeedGoesOn ==
    ASSUME WalkInv, FeedPage \/ FeedFails
    PROVE  WalkInv'
<1>1. walk.pc = "query" /\ walk.kind \in Aggregators /\ FeedHolds
    BY DEF FeedPage, FeedFails, WalkInv, BoardForm, FeedInv
<1>2. board' = board
    BY DEF FeedPage, FeedFails
<1>3. walk \in [kind : {walk.kind}, pc : {walk.pc}, tenant : {walk.tenant},
                 query : {walk.query}, page : {walk.page}, postings : {walk.postings},
                 truncated : {walk.truncated}, jobs : {walk.jobs}, unread : {walk.unread},
                 cut : {walk.cut}]
    BY DEF WalkInv, BoardForm
<1> DEFINE Served(w, more) ==
        /\ walk' = onward(w, more)
        /\ w \in [kind : {walk.kind}, pc : {"query"}, tenant : {walk.tenant},
                 query : {walk.query}, page : {walk.page}, postings : {w.postings},
                 truncated : {walk.truncated}, jobs : {walk.jobs}, unread : {walk.unread},
                 cut : {w.cut}]
        /\ walk.postings \subseteq w.postings /\ walk.cut \subseteq w.cut
        /\ more => /\ wanted(walk.query, walk.page) \subseteq w.postings
                   /\ walk.page + 1 < QueryPages[walk.kind]
        /\ ~more /\ walk.query \notin w.cut =>
             \A n \in 0 .. QueryPages[walk.kind] - 1 :
                \/ wanted(walk.query, n) \subseteq w.postings
                \/ walk.kind # "freehire" /\ \E m \in 0 .. n - 1 : wanted(walk.query, m) = {}
<1>4. \E w : \E more \in BOOLEAN : Served(w, more)
    <2>1. CASE FeedPage
        <3>1. PICK batch : batch = wanted(walk.query, walk.page)
            OBVIOUS
        <3>2. PICK total \in {NoDays, Len(board[walk.query])}, more \in BOOLEAN :
                /\ walk' = onward([walk EXCEPT !.postings = walk.postings \cup batch], more)
                /\ more = (~lastPage(walk.kind,
                                Cardinality(pageOf(DOMAIN board[walk.query], walk.page)),
                                batch, total)
                           /\ walk.page + 1 < QueryPages[walk.kind])
            BY <2>1, <3>1 DEF FeedPage
        <3>3. PICK w : w = [walk EXCEPT !.postings = walk.postings \cup batch]
            OBVIOUS
        <3>4. w.postings = walk.postings \cup batch /\ w.cut = walk.cut
              /\ w \in [kind : {walk.kind}, pc : {"query"}, tenant : {walk.tenant},
                 query : {walk.query}, page : {walk.page}, postings : {w.postings},
                 truncated : {walk.truncated}, jobs : {walk.jobs}, unread : {walk.unread},
                 cut : {w.cut}]
            BY <1>1, <1>3, <3>3
        <3>5. ASSUME ~more, NEW n \in 0 .. QueryPages[walk.kind] - 1
              PROVE  \/ wanted(walk.query, n) \subseteq walk.postings \cup batch
                     \/ /\ walk.kind # "freehire"
                        /\ \E m \in 0 .. n - 1 : wanted(walk.query, m) = {}
            BY <1>1, <3>1, <3>2, <3>5, QueryIsOver
        <3>6. Served(w, more)
            BY <3>1, <3>2, <3>3, <3>4, <3>5
        <3> HIDE DEF Served
        <3> QED
            BY <3>6
    <2>2. CASE FeedFails
        <3>1. PICK w : w = [walk EXCEPT !.cut = walk.cut \cup {walk.query}]
            OBVIOUS
        <3>2. PICK no \in BOOLEAN : no = FALSE
            OBVIOUS
        <3>3. walk' = onward(w, no)
            BY <2>2, <3>1, <3>2 DEF FeedFails
        <3>4. w.postings = walk.postings /\ w.cut = walk.cut \cup {walk.query}
              /\ w \in [kind : {walk.kind}, pc : {"query"}, tenant : {walk.tenant},
                 query : {walk.query}, page : {walk.page}, postings : {w.postings},
                 truncated : {walk.truncated}, jobs : {walk.jobs}, unread : {walk.unread},
                 cut : {w.cut}]
            BY <1>1, <1>3, <3>1
        <3>5. Served(w, no)
            BY <3>2, <3>3, <3>4
        <3> HIDE DEF Served
        <3> QED
            BY <3>5
    <2> QED
        BY <2>1, <2>2
<1>41. PICK w, more : more \in BOOLEAN /\ Served(w, more)
    <2> HIDE DEF Served
    <2> QED
        BY <1>4
<1>5. /\ w.kind = walk.kind /\ w.pc = "query" /\ w.query = walk.query /\ w.page = walk.page
      /\ w \in [kind : {w.kind}, pc : {w.pc}, tenant : {w.tenant}, query : {w.query},
               page : {w.page}, postings : {w.postings}, truncated : {w.truncated},
               jobs : {w.jobs}, unread : {w.unread}, cut : {w.cut}]
    BY <1>41
<1>6. PICK v : v = onward(w, more)
    OBVIOUS
<1>7. /\ v \in [kind : {w.kind}, pc : {w.pc, "done"}, tenant : {w.tenant},
               query : {w.query, w.query + 1}, page : {w.page, w.page + 1, 0},
               postings : {w.postings}, truncated : {w.truncated}, jobs : {w.jobs},
               unread : {w.unread}, cut : {w.cut}]
      /\ more => v.query = w.query /\ v.page = w.page + 1 /\ v.pc = w.pc
      /\ ~more /\ w.query < Len(board) =>
           v.query = w.query + 1 /\ v.page = 0 /\ v.pc = w.pc
      /\ ~more /\ ~(w.query < Len(board)) =>
           v.query = w.query /\ v.page = w.page /\ v.pc = "done"
    <2>1. more \in BOOLEAN
        BY <1>41
    <2> HIDE DEF Served
    <2> QED
        BY <1>5, <1>6, <2>1, Onward
<1>8. walk' = v /\ v.kind = walk.kind /\ v.postings = w.postings /\ v.cut = w.cut
      /\ v.pc \in {"query", "done"}
    BY <1>41, <1>5, <1>6, <1>7
<1>9. BoardForm'
    BY <1>1, <1>7, <1>8 DEF BoardForm
<1>10. WorkdayInv' /\ OneRequestTold'
    BY <1>1, <1>8 DEF WorkdayInv, OneRequestTold, Aggregators, Providers
<1>11. \A q, n : wanted(q, n)' = wanted(q, n)
    BY <1>2, <1>8 DEF wanted
<1>12. /\ Len(board) \in Nat /\ DOMAIN board = 1 .. Len(board)
       /\ \A q \in DOMAIN board : Len(board[q]) \in Nat /\ DOMAIN board[q] = 1 .. Len(board[q])
       /\ walk.query \in DOMAIN board
       /\ walk.page \in Nat /\ walk.page < QueryPages[walk.kind]
       /\ \A q \in DOMAIN board \ walk.cut : q < walk.query => QueryRead(q)
       /\ \A n \in 0 .. walk.page - 1 : wanted(walk.query, n) \subseteq walk.postings
    BY <1>1 DEF FeedHolds
<1>13. QueryPages[walk.kind] \in Nat \ {0}
    BY <1>1, BoardConstants
<1>14. ASSUME NEW q \in DOMAIN board \ v.cut, q < walk.query PROVE QueryRead(q)'
    <2>1. QueryRead(q)
        BY <1>41, <1>8, <1>12, <1>14
    <2>2. SUFFICES ASSUME NEW n \in 0 .. QueryPages[walk.kind] - 1
                   PROVE  \/ wanted(q, n) \subseteq w.postings
                          \/ /\ walk.kind # "freehire"
                             /\ \E m \in 0 .. n - 1 : wanted(q, m) = {}
        BY <1>8, <1>11 DEF QueryRead
    <2> QED
        BY <1>41, <2>1, <2>2 DEF QueryRead
<1>15. ASSUME ~more, NEW q, q = walk.query, q \notin v.cut PROVE QueryRead(q)'
    <2>1. \A n \in 0 .. QueryPages[walk.kind] - 1 :
                \/ wanted(walk.query, n) \subseteq w.postings
                \/ walk.kind # "freehire" /\ \E m \in 0 .. n - 1 : wanted(walk.query, m) = {}
        BY <1>41, <1>8, <1>15
    <2> QED
        BY <1>8, <1>11, <1>15, <2>1 DEF QueryRead
<1>16. FeedHolds'
    <2>1. /\ (Len(board) \in Nat)' /\ (DOMAIN board = 1 .. Len(board))'
          /\ (\A q \in DOMAIN board : Len(board[q]) \in Nat /\ DOMAIN board[q] = 1 .. Len(board[q]))'
        BY <1>2, <1>12
    <2>2. CASE more
        <3>1. v.query = walk.query /\ v.page = walk.page + 1 /\ v.pc = "query"
            BY <1>5, <1>7, <2>2
        <3>2. \A q \in DOMAIN board' \ walk'.cut : q < walk'.query => QueryRead(q)'
            BY <1>2, <1>8, <1>14, <3>1
        <3>3. \A n \in 0 .. v.page - 1 : wanted(walk.query, n) \subseteq w.postings
            <4>1. \A n \in 0 .. v.page - 1 : n \in 0 .. walk.page - 1 \/ n = walk.page
                BY <1>12, <3>1
            <4> QED
                BY <1>41, <1>12, <2>2, <4>1
        <3>4. (\A n \in 0 .. walk.page - 1 : wanted(walk.query, n) \subseteq walk.postings)'
            <4>1. PICK q : q = walk.query
                OBVIOUS
            <4>2. walk'.query = q /\ walk'.page = v.page /\ walk'.postings = w.postings
                BY <1>8, <3>1, <4>1
            <4>3. \A n \in 0 .. v.page - 1 : wanted(q, n)' \subseteq w.postings
                BY <1>11, <3>3, <4>1
            <4> QED
                BY <4>2, <4>3 DEF wanted
        <3>5. walk'.page \in Nat /\ walk'.page < QueryPages[walk'.kind]
              /\ walk'.query \in DOMAIN board' /\ walk'.pc = "query"
            BY <1>2, <1>41, <1>8, <1>12, <2>2, <3>1
        <3> QED
            BY <2>1, <3>2, <3>4, <3>5 DEF FeedHolds
    <2>3. CASE ~more /\ walk.query < Len(board)
        <3>1. v.query = walk.query + 1 /\ v.page = 0 /\ v.pc = "query"
            BY <1>5, <1>7, <2>3
        <3>2. \A q \in DOMAIN board' \ walk'.cut : q < walk'.query => QueryRead(q)'
            <4>1. ASSUME NEW q \in DOMAIN board \ v.cut, q < walk.query + 1 PROVE QueryRead(q)'
                <5>1. CASE q < walk.query
                    BY <1>14, <5>1
                <5>2. CASE q = walk.query
                    BY <1>15, <2>3, <4>1, <5>2
                <5> QED
                    BY <1>12, <4>1, <5>1, <5>2
            <4> QED
                BY <1>2, <1>8, <3>1, <4>1
        <3>3. walk'.page \in Nat /\ walk'.page < QueryPages[walk'.kind]
              /\ walk'.query \in DOMAIN board' /\ walk'.pc = "query" /\ walk'.page = 0
            BY <1>2, <1>8, <1>12, <1>13, <2>3, <3>1
        <3> QED
            BY <2>1, <3>2, <3>3 DEF FeedHolds
    <2>4. CASE ~more /\ ~(walk.query < Len(board))
        <3>1. v.query = walk.query /\ v.page = walk.page /\ v.pc = "done"
              /\ walk.query = Len(board)
            BY <1>5, <1>7, <1>12, <2>4
        <3>2. \A q \in DOMAIN board' \ walk'.cut : q < walk'.query => QueryRead(q)'
            BY <1>2, <1>8, <1>14, <3>1
        <3>3. (walk.query \notin walk.cut => QueryRead(walk.query))'
            <4>1. PICK q : q = walk.query
                OBVIOUS
            <4>2. walk'.query = q /\ walk'.cut = v.cut
                BY <1>8, <3>1, <4>1
            <4>3. q \notin v.cut => QueryRead(q)'
                BY <1>15, <2>4, <4>1
            <4> QED
                BY <4>2, <4>3 DEF QueryRead, wanted
        <3>4. walk'.page \in Nat /\ walk'.page < QueryPages[walk'.kind]
              /\ walk'.query \in DOMAIN board' /\ walk'.pc = "done" /\ walk'.query = Len(board')
            BY <1>2, <1>8, <1>12, <3>1
        <3> QED
            BY <2>1, <3>2, <3>3, <3>4 DEF FeedHolds
    <2> QED
        BY <2>2, <2>3, <2>4
<1> QED
    BY <1>9, <1>10, <1>16 DEF WalkInv, FeedInv

LEMMA WalkStep ==
    ASSUME WalkInv, [BoardNext]_boardVars
    PROVE  WalkInv'
<1>1. CASE \E t \in Tenants, b \in Boards["WORKDAY"] : StartWorkday(t, b)
    BY <1>1, WorkdayStarts
<1>2. CASE \E k \in DOMAIN Boards \ ({"WORKDAY"} \cup Aggregators) :
              PageRequestFails(k) \/ \E b \in Boards[k] : FetchOnce(k, b)
    <2>1. PICK k \in DOMAIN Boards \ ({"WORKDAY"} \cup Aggregators) :
              PageRequestFails(k) \/ \E b \in Boards[k] : FetchOnce(k, b)
        BY <1>2
    <2>2. CASE PageRequestFails(k)
        BY <2>1, <2>2, PageRequestFailed
    <2>3. CASE \E b \in Boards[k] : FetchOnce(k, b)
        BY <2>1, <2>3, OneRequestIsTold
    <2> QED
        BY <2>1, <2>2, <2>3
<1>3. CASE \E k \in Aggregators : \E b \in Boards[k] : StartFeed(k, b)
    BY <1>3, FeedStarts
<1>4. CASE Probe \/ ListFails \/ Details
    BY <1>4, WorkdayGoesOn
<1>5. CASE ListPage
    BY <1>5, PageIsAdded
<1>6. CASE FeedPage \/ FeedFails
    BY <1>6, FeedGoesOn
<1>7. CASE BoardMoves
    BY <1>7, MovedBoard
<1>8. CASE UNCHANGED boardVars
    <2>1. board' = board /\ walk' = walk /\ open' = open /\ moved' = moved
        BY <1>8 DEF boardVars
    <2>2. BoardForm' /\ OneRequestTold'
        BY <2>1 DEF WalkInv, BoardForm, OneRequestTold, Excused
    <2>3. WorkdayInv'
        <3>1. WorkdayHolds => WorkdayHolds'
            BY <2>1 DEF WorkdayHolds, ListedOnce, ReadUpTo, served, Candidate
        <3> QED
            BY <2>1, <3>1 DEF WalkInv, WorkdayInv
    <2>4. FeedInv'
        <3>1. \A q, n : wanted(q, n)' = wanted(q, n)
            BY <2>1 DEF wanted
        <3>2. \A q : QueryRead(q)' <=> QueryRead(q)
            BY <2>1, <3>1 DEF QueryRead
        <3>3. ASSUME FeedHolds PROVE FeedHolds'
            <4>1. PICK k : k = walk.query
                OBVIOUS
            <4>2. (\A n \in 0 .. walk.page - 1 : wanted(k, n) \subseteq walk.postings)
                    => (\A n \in 0 .. walk.page - 1 : wanted(k, n) \subseteq walk.postings)'
                BY <2>1, <3>1
            <4> QED
                BY <2>1, <3>2, <3>3, <4>1, <4>2 DEF FeedHolds
        <3> QED
            BY <2>1, <3>3 DEF WalkInv, FeedInv
    <2> QED
        BY <2>2, <2>3, <2>4 DEF WalkInv
<1> QED
    BY <1>1, <1>2, <1>3, <1>4, <1>5, <1>6, <1>7, <1>8 DEF BoardNext

\* What the invariant says of a walk that is over.
LEMMA WalkExplains ==
    ASSUME WalkInv
    PROVE  NothingSkippedUnexplained
<1>1. ASSUME complete, walk.kind = "WORKDAY", NEW r \in open
      PROVE  r.id \in IdsIn(walk.jobs) \/ Excused(r) \/ ~Wanted(r)
    <2>1. walk.pc = "done" /\ ~walk.truncated
        BY <1>1 DEF complete
    <2>2. SUFFICES ASSUME ~Excused(r), Wanted(r) PROVE r.id \in IdsIn(walk.jobs)
        OBVIOUS
    <2>3. /\ r \notin walk.unread /\ ~moved /\ ~walk.tenant.stuck /\ couldBeFresh(r)
          /\ walk.tenant.facet => r.country = "india"
          /\ ~walk.tenant.facet => r.looksIndian
        BY <1>1, <2>2 DEF Excused
    <2>4. WorkdayHolds
        BY <1>1, <2>1, <2>3 DEF WalkInv, WorkdayInv
    <2>5. PICK i \in DOMAIN board : r = board[i]
        BY <1>1, <2>4 DEF WorkdayHolds, Range
    <2>6. i \in served
        BY <2>3, <2>5 DEF served
    <2>7. r \in walk.postings
        BY <2>1, <2>4, <2>5, <2>6 DEF WorkdayHolds
    <2>8. Candidate(r)
        BY <2>3 DEF Candidate
    <2> QED
        BY <2>1, <2>2, <2>3, <2>4, <2>7, <2>8 DEF WorkdayHolds
<1>2. ASSUME complete, walk.kind \in Providers \ {"WORKDAY"}, NEW r \in open
      PROVE  r.id \in IdsIn(walk.jobs) \/ Excused(r)
    BY <1>2 DEF complete, WalkInv, OneRequestTold
<1>3. ASSUME walk.pc = "done", walk.kind \in Aggregators, NEW q \in DOMAIN board \ walk.cut
      PROVE  QueryRead(q)
    <2>1. FeedHolds
        BY <1>3 DEF WalkInv, FeedInv
    <2>2. CASE q < walk.query
        BY <1>3, <2>1, <2>2 DEF FeedHolds
    <2>3. CASE q = walk.query
        BY <1>3, <2>1, <2>3 DEF FeedHolds
    <2> QED
        BY <1>3, <2>1, <2>2, <2>3 DEF FeedHolds
<1>4. ASSUME walk.pc = "done", walk.kind \in Aggregators, NEW q \in DOMAIN board \ walk.cut,
             NEW n \in 0 .. QueryPages[walk.kind] - 1
      PROVE  \/ wanted(q, n) \subseteq walk.postings
             \/ /\ walk.kind # "freehire"
                /\ \E m \in 0 .. n - 1 : wanted(q, m) = {}
    BY <1>3, <1>4 DEF QueryRead
<1> QED
    BY <1>1, <1>2, <1>4 DEF NothingSkippedUnexplained

\* Whatever the boards, the tenants, the page size and the caps: a crawl of a
\* company's board that counts as complete, and so has every posting it does not
\* name retired, names all that were listed since it began and that it is for,
\* unless a listed cause kept one out; and a query of an aggregator that did not
\* fail yields all that is wanted on its pages, or stopped behind a page without
\* a match.  workday.ts, the one-request adapters, adzuna, jooble and freehire.
THEOREM SkippedIsExplained == BoardSpec => []NothingSkippedUnexplained
<1>1. BoardInit => WalkInv
    BY WalkInitial
<1>2. WalkInv /\ [BoardNext]_boardVars => WalkInv'
    BY WalkStep
<1>3. WalkInv => NothingSkippedUnexplained
    BY WalkExplains
<1> QED
    BY <1>1, <1>2, <1>3, PTL DEF BoardSpec
=============================================================================
