---------------------------- MODULE Opportunity -----------------------------
(***************************************************************************)
(* The opportunity score of a match and the verdict drawn from it:         *)
(* compute of opportunity.service.ts and decide of notifications/          *)
(* decision.ts.  A score module is a record [score, weight]; one that has  *)
(* no data is absent, and the weights of the others stand for the whole.   *)
(* The score is in tenths of a point, as the code rounds it.               *)
(***************************************************************************)
EXTENDS RoleGate, FiniteSetsExt, Functions

WEIGHTS == [resumeFit |-> 35, experienceFit |-> 15, freshness |-> 20,
            remotePreference |-> 10, salaryPreference |-> 5, companyQuality |-> 5,
            hiringVelocity |-> 5, cityPreference |-> 5, skillGap |-> 5]

ACTIVITY_WINDOW_DAYS == 14

Days(hours) == hours \div 24

\* Freshness by the age of the posting, in hours.
FreshnessBands == << <<24, 100>>, <<48, 95>>, <<72, 90>>, <<168, 80>>, <<336, 65>>,
                     <<504, 50>>, <<720, 35>>, <<1080, 20>>, <<1440, 10>> >>

freshScore(hours) ==
    LET reached == {i \in DOMAIN FreshnessBands : hours <= FreshnessBands[i][1]}
    IN IF reached = {} THEN 0 ELSE FreshnessBands[Min(reached)][2]

velocityScore(m) ==
    IF m.growthScore # NoNumber THEN m.growthScore
    ELSE IF m.hiringTrend # "INSUFFICIENT_DATA"
         THEN [GROWING |-> 100, STABLE |-> 60, DECLINING |-> 25][m.hiringTrend]
    ELSE IF m.recentJobs >= 10 THEN 95
    ELSE IF m.recentJobs >= 3 THEN 75
    ELSE IF m.recentJobs >= 1 THEN 55
    ELSE 30

gapScore(gaps) ==
    IF gaps = 0 THEN 100 ELSE IF gaps <= 2 THEN 70 ELSE IF gaps <= 4 THEN 40 ELSE 15

\* The modules that have data, as a function from module to score.
modules(m) ==
    LET has == [remotePreference |-> m.workMode # "unstated",
                salaryPreference |-> m.salary # "unstated",
                companyQuality |-> m.bigTech \/ m.probed,
                hiringVelocity |-> \/ m.growthScore # NoNumber
                                   \/ m.hiringTrend # "INSUFFICIENT_DATA"
                                   \/ m.recentJobs > 0
                                   \/ m.knownDays >= ACTIVITY_WINDOW_DAYS,
                cityPreference |-> m.cityHit]
        present == {w \in DOMAIN WEIGHTS : w \in DOMAIN has => has[w]}
    IN [w \in present |->
          CASE w = "resumeFit" -> m.overallScore
            [] w = "experienceFit" -> m.experienceScore
            [] w = "freshness" -> freshScore(m.ageHours)
            [] w = "remotePreference" -> IF m.workMode = "fits" THEN 100 ELSE 25
            [] w = "salaryPreference" -> IF m.salary = "meets" THEN 100 ELSE 30
            [] w = "companyQuality" ->
                  IF m.bigTech THEN Max({m.confidence, 85}) ELSE m.confidence
            [] w = "hiringVelocity" -> velocityScore(m)
            [] w = "cityPreference" -> 100
            [] w = "skillGap" -> gapScore(m.gaps)]

\* The weighted average of the modules, the nudge of a known source, and the
\* discount of a company that was probed and found thin.
blend(mods) ==
    LET total == SumFunctionOnSet(WEIGHTS, DOMAIN mods)
        sum == SumFunction([w \in DOMAIN mods |-> mods[w] * WEIGHTS[w]])
    IN Rounded(10 * sum, total)

nudge(trust) ==
    IF trust = NoNumber THEN 0
    ELSE Max({-4, Min({3, Rounded(trust - 92, 4)})})

compute(m) ==
    LET nudged == Max({0, Min({1000, blend(modules(m)) + 10 * nudge(m.sourceTrust)})})
    IN IF m.probed /\ m.confidence < 40 THEN Rounded(nudged * 85, 100) ELSE nudged

-----------------------------------------------------------------------------
LEARNABLE_GAP == 3

\* Big tech keeps roles open for months; anybody else must have open jobs.
stillHiring(m) == m.bigTech \/ m.activeJobs >= 3

coreMismatch(m) == m.overallScore < 50 /\ m.gaps >= 5

\* What keeps a strong score from an automatic APPLY.  e is the eligibility, or
\* NoEligibility when the job has no classification.
NoEligibility == [code |-> "none"]

capsAtConsider(e) == e # NoEligibility /\ e.capsAtConsider

blocked(m, e) ==
    \/ m.experienceScore < 35
    \/ m.gaps > LEARNABLE_GAP
    \/ coreMismatch(m)
    \/ capsAtConsider(e)
    \/ Days(m.ageHours) > 30 /\ ~stillHiring(m)

decide(tenths, m, e) ==
    LET score == Rounded(tenths, 10)
    IN IF e # NoEligibility /\ ~e.eligible
         THEN [verdict |-> IF e.needsReview THEN "NEEDS_REVIEW" ELSE "SKIP", code |-> e.code]
       ELSE IF coreMismatch(m) THEN [verdict |-> "SKIP", code |-> "CORE_STACK_MISMATCH"]
       ELSE IF Days(m.ageHours) > 60 /\ ~stillHiring(m)
         THEN [verdict |-> "SKIP", code |-> "STALE"]
       ELSE IF score >= 75 /\ ~blocked(m, e)
         THEN [verdict |-> "APPLY", code |-> "TARGET_ROLE_ELIGIBLE"]
       ELSE IF score >= 60
         THEN [verdict |-> "CONSIDER",
               code |-> IF capsAtConsider(e) THEN "TARGET_ROLE_EXPERIENCE_STRETCH"
                        ELSE "TARGET_ROLE_ELIGIBLE"]
       ELSE [verdict |-> "SKIP", code |-> "SCORE_BELOW_BAR"]
=============================================================================
