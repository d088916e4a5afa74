---------------------------- MODULE MCMatchMemory ----------------------------
(* TLC instances of MatchMemory. *)
EXTENDS MatchMemory

CONSTANTS j1, j2

MCWords == {"react", "java"}
MCTech == {"react", "java"}
MCAliases == (<<"react">> :> "react") @@ (<<"java">> :> "java")
MCTransferable == [t \in MCTech |-> {}]
MCLabels == <<"java">>

\* A stub, and the whole description.
MCBodies == << [body |-> "stub", length |-> 100], [body |-> "full", length |-> 900] >>
MCMine == {<<"react">>}

Posting(family, skills, intensity, confidence, minimum) ==
    [primaryFunction |-> "SOFTWARE_ENGINEERING", roleFamily |-> family, skills |-> skills,
     codingIntensity |-> intensity, developmentConfidence |-> confidence,
     seniority |-> "MID", minimumYears |-> minimum]

\* From a stub the classifier learns nothing; from the description, that the job
\* is for the user once he states two years less than it asks for.
Unreadable == Posting("AMBIGUOUS", {}, "unheard of", 0, NoNumber)
Development == Posting("FULLSTACK", {<<"react">>}, "PRIMARY", 90, 4)
Unsure == Posting("FULLSTACK", {<<"react">>}, "PRIMARY", 60, 4)
MCAnswers == (j1 :> [stub |-> {Unreadable}, full |-> {Development, Unsure}])
              @@ (j2 :> [stub |-> {Unreadable}, full |-> {Unsure}])

MCLlmScores == {[overallScore |-> 70, experienceScore |-> 75, gaps |-> 2]}

Fact(growth, city, mode) ==
    [ageHours |-> 12, workMode |-> mode, salary |-> "unstated", bigTech |-> FALSE,
     probed |-> FALSE, confidence |-> 50, growthScore |-> growth,
     hiringTrend |-> "INSUFFICIENT_DATA", recentJobs |-> 0, knownDays |-> 2,
     activeJobs |-> 1, cityHit |-> city, sourceTrust |-> NoNumber,
     inCountry |-> TRUE, boardCopy |-> FALSE]

\* Below the bar of APPLY (74), and above it (81).
MCFacts == << Fact(0, FALSE, "unstated"), Fact(100, TRUE, "unstated") >>

MCJobOrder1 == <<j1>>
MCJobOrder2 == <<j1, j2>>
=============================================================================
