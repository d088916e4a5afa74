------------------------------ MODULE RoleGate ------------------------------
(***************************************************************************)
(* What kind of work a job is, and whether it is the user's kind of work:  *)
(* matching/role-classification.ts, with the normalisation of the          *)
(* classifier's answer (job-classifier.service.ts) and the rule that says  *)
(* when a cached answer no longer counts (classification-evidence.ts).     *)
(* Pure definitions: a classification is a record, a skill is a phrase     *)
(* (a sequence of words), a technology a canonical token.                  *)
(***************************************************************************)
EXTENDS Integers, Sequences, FiniteSets

CONSTANTS
    Words,              \* the words skills are written with
    Tech,               \* canonical technologies
    TECH_ALIASES,       \* phrase -> technology
    AMBIGUOUS_ALIASES,  \* phrases that are ordinary English words
    TRANSFERABLE,       \* technology -> technologies that prepare for it
    DISCIPLINE_MARKERS, \* technologies that name another discipline
    DISCIPLINE_LABELS,  \* the foreign ecosystems, in the order they are tried
    TargetFamilies, CatchAllFamilies, AdjacentFamilies, ExcludedFamilies,
    OtherFamilies

Families == TargetFamilies \cup AdjacentFamilies \cup ExcludedFamilies
              \cup OtherFamilies \cup {"AMBIGUOUS"}

ASSUME RoleConstants ==
    /\ CatchAllFamilies \subseteq TargetFamilies
    /\ DOMAIN TECH_ALIASES \subseteq Seq(Words)
    /\ \A a \in DOMAIN TECH_ALIASES : TECH_ALIASES[a] \in Tech
    /\ AMBIGUOUS_ALIASES \subseteq DOMAIN TECH_ALIASES
    /\ TRANSFERABLE \in [Tech -> SUBSET Tech]
    /\ DISCIPLINE_MARKERS \subseteq Tech
    /\ DISCIPLINE_LABELS \in Seq(Tech)

\* null, where the code has a number.
NoNumber == -1

TARGET_MIN_CONFIDENCE == 70
ADJACENT_MIN_CONFIDENCE == 80
REVIEW_MIN_CONFIDENCE == 50
MIN_DESCRIPTION_CHARS == 200

PrimaryFunctions == {"SOFTWARE_ENGINEERING", "OTHER", "AMBIGUOUS"}
CodingIntensities == {"PRIMARY", "SUBSTANTIAL", "OCCASIONAL", "INCIDENTAL", "NONE"}
BUILDS_SOFTWARE == {"PRIMARY", "SUBSTANTIAL"}
Seniorities == {"INTERN", "JUNIOR", "MID", "SENIOR", "LEAD", "STAFF", "PRINCIPAL", "UNKNOWN"}
SeniorLevels == {"SENIOR", "LEAD", "STAFF", "PRINCIPAL"}

\* a/b rounded as Math.round does, halves up.
Rounded(a, b) == (2 * a + b) \div (2 * b)

-----------------------------------------------------------------------------
\* A skill as one of the technologies the code knows, or "" : the whole phrase
\* when it is an alias, else the longest alias among its words that is not also
\* an ordinary word (length in words, where the code counts letters).
HoldsPhrase(s, a) ==
    \E i \in 0 .. Len(s) - Len(a) : SubSeq(s, i + 1, i + Len(a)) = a

canonicalTech(s) ==
    LET held == {a \in DOMAIN TECH_ALIASES \ AMBIGUOUS_ALIASES : HoldsPhrase(s, a)}
    IN IF s \in DOMAIN TECH_ALIASES THEN TECH_ALIASES[s]
       ELSE IF held = {} THEN ""
       ELSE TECH_ALIASES[CHOOSE a \in held : \A b \in held : Len(a) >= Len(b)]

TechOf(skills) == {canonicalTech(s) : s \in skills} \ {""}

\* The skills of the JD the code recognises; two wordings of one technology are
\* two skills.
Recognised(c) == {s \in c.skills : canonicalTech(s) # ""}

\* Which of them the user has, has something adjacent to, or lacks.
specializationBreakdown(c, mine) ==
    LET known == TechOf(mine)
        strong == {s \in Recognised(c) : canonicalTech(s) \in known}
        transferable == {s \in Recognised(c) \ strong :
                            TRANSFERABLE[canonicalTech(s)] \cap known # {}}
    IN [fit |-> IF Recognised(c) = {} THEN NoNumber
                ELSE Rounded(100 * Cardinality(strong) + 50 * Cardinality(transferable),
                             Cardinality(Recognised(c))),
        strong |-> strong,
        transferable |-> transferable,
        missing |-> (Recognised(c) \ strong) \ transferable]

specializationFit(c, mine) == specializationBreakdown(c, mine).fit

\* The first foreign ecosystem of the JD the user does not work in, or "".
offPathDiscipline(c, mine) ==
    LET foreign == {i \in DOMAIN DISCIPLINE_LABELS :
                      DISCIPLINE_LABELS[i] \in TechOf(c.skills) \ TechOf(mine)}
    IN IF foreign = {} THEN ""
       ELSE DISCIPLINE_LABELS[CHOOSE i \in foreign : \A j \in foreign : i <= j]

namesForeignDiscipline(c) == TechOf(c.skills) \cap DISCIPLINE_MARKERS # {}

targetFit(c) ==
    IF c.primaryFunction = "AMBIGUOUS" \/ c.roleFamily = "AMBIGUOUS" THEN "AMBIGUOUS"
    ELSE IF c.roleFamily \in ExcludedFamilies THEN "NON_TARGET"
    ELSE IF c.roleFamily \in TargetFamilies
         THEN IF c.roleFamily \in CatchAllFamilies /\ namesForeignDiscipline(c)
              THEN "ADJACENT" ELSE "TARGET"
    ELSE IF c.roleFamily \in AdjacentFamilies THEN "ADJACENT"
    ELSE "NON_TARGET"

targetRoleFit(c, mine) ==
    LET fit == targetFit(c)
        base == [TARGET |-> 100, ADJACENT |-> 65, AMBIGUOUS |-> 40, NON_TARGET |-> 10][fit]
        stack == specializationFit(c, mine)
    IN IF fit = "ADJACENT" /\ stack # NoNumber
       THEN Rounded(base * (150 + stack), 250)
       ELSE base

roleRelevance(c, mine) ==
    LET tenths == IF c.codingIntensity \in {"INCIDENTAL", "NONE"} THEN 1
                  ELSE [PRIMARY |-> 10, SUBSTANTIAL |-> 8, OCCASIONAL |-> 4][c.codingIntensity]
    IN Rounded(c.developmentConfidence * tenths * targetRoleFit(c, mine), 1000)

-----------------------------------------------------------------------------
\* Experience as a band: an internship is below the user, a senior title or two
\* years too many are beyond him, one year too many is a stretch.
BelowLevel(c, years) == c.seniority = "INTERN" /\ years >= 1

BeyondLevel(c, years) ==
    \/ /\ c.seniority \in SeniorLevels
       /\ c.minimumYears = NoNumber \/ c.minimumYears > years + 1
    \/ c.minimumYears # NoNumber /\ c.minimumYears - years > 1

experienceVerdict(c, years) ==
    LET below == BelowLevel(c, years)
        eligible == ~below /\ ~BeyondLevel(c, years)
    IN [eligible |-> eligible,
        belowLevel |-> below,
        capsAtConsider |-> /\ eligible
                           /\ c.minimumYears # NoNumber
                           /\ c.minimumYears - years = 1]

\* The code eligibility() returns.  length is the number of characters the
\* classifier had to read, NoNumber when the caller passes no evidence.
EligibilityCode(c, years, length) ==
    LET fit == targetFit(c)
        exp == experienceVerdict(c, years)
        builds == c.codingIntensity \in BUILDS_SOFTWARE
        confidence == c.developmentConfidence
        notDevelopment == c.codingIntensity = "NONE" /\ confidence < 20
        bar == IF fit = "TARGET" THEN TARGET_MIN_CONFIDENCE ELSE ADJACENT_MIN_CONFIDENCE
    IN IF length # NoNumber /\ length < MIN_DESCRIPTION_CHARS
         THEN "INSUFFICIENT_EVIDENCE"
       ELSE IF fit = "NON_TARGET"
         THEN IF builds /\ confidence >= TARGET_MIN_CONFIDENCE
              THEN "DEVELOPMENT_WRONG_SPECIALIZATION" ELSE "NOT_DEVELOPMENT"
       ELSE IF ~builds
         THEN IF notDevelopment THEN "NOT_DEVELOPMENT"
              ELSE IF fit = "AMBIGUOUS" THEN "AMBIGUOUS_NEEDS_REVIEW"
              ELSE "LOW_CODING_RESPONSIBILITY"
       ELSE IF ~exp.eligible
         THEN IF exp.belowLevel THEN "TARGET_ROLE_BELOW_LEVEL" ELSE "TARGET_ROLE_TOO_SENIOR"
       ELSE IF fit = "AMBIGUOUS" \/ confidence < REVIEW_MIN_CONFIDENCE
         THEN "AMBIGUOUS_NEEDS_REVIEW"
       ELSE IF confidence < bar THEN "LOW_CONFIDENCE"
       ELSE IF fit = "ADJACENT" /\ c.codingIntensity # "PRIMARY"
         THEN "AMBIGUOUS_NEEDS_REVIEW"
       ELSE IF exp.capsAtConsider THEN "TARGET_ROLE_EXPERIENCE_STRETCH"
       ELSE "TARGET_ROLE_ELIGIBLE"

EligibleCodes == {"TARGET_ROLE_ELIGIBLE", "TARGET_ROLE_EXPERIENCE_STRETCH"}
ReviewCodes == {"AMBIGUOUS_NEEDS_REVIEW", "LOW_CONFIDENCE"}

\* The hard gate that runs before any scoring.
eligibility(c, years, mine, length) ==
    LET code == EligibilityCode(c, years, length)
    IN [code |-> code,
        eligible |-> code \in EligibleCodes,
        needsReview |-> code \in ReviewCodes,
        fit |-> targetFit(c),
        targetRoleFit |-> targetRoleFit(c, mine),
        specializationFit |-> specializationFit(c, mine),
        capsAtConsider |-> experienceVerdict(c, years).capsAtConsider]

\* What the user should do about a verdict.
actionFor(verdict, e, resumeFit) ==
    LET strong == e.targetRoleFit >= 85 /\ resumeFit >= 70
    IN IF verdict = "APPLY" THEN "APPLY_NOW"
       ELSE IF verdict = "SKIP" THEN "SKIP"
       ELSE IF verdict = "NEEDS_REVIEW" THEN "REVIEW_FIRST"
       ELSE IF strong /\ e.capsAtConsider THEN "WORTH_APPLYING"
       ELSE IF e.specializationFit # NoNumber /\ e.specializationFit < 50 THEN "LOW_PRIORITY"
       ELSE IF e.fit = "ADJACENT" THEN "REVIEW_FIRST"
       ELSE IF strong THEN "WORTH_APPLYING"
       ELSE "REVIEW_FIRST"

-----------------------------------------------------------------------------

\* The classifier's answer for a job, made safe: an unknown family becomes
\* AMBIGUOUS, an unknown intensity NONE, a number out of range is clamped or
\* dropped.
normalize(raw) ==
    [raw EXCEPT
        !.primaryFunction = IF @ \in PrimaryFunctions THEN @ ELSE "AMBIGUOUS",
        !.roleFamily = IF @ \in Families THEN @ ELSE "AMBIGUOUS",
        !.codingIntensity = IF @ \in CodingIntensities THEN @ ELSE "NONE",
        !.seniority = IF @ \in Seniorities THEN @ ELSE "UNKNOWN",
        !.developmentConfidence = IF @ < 0 THEN 0 ELSE IF @ > 100 THEN 100 ELSE @,
        !.minimumYears = IF @ \in 0 .. 30 THEN @ ELSE NoNumber]

\* What is stored beside a classification: the text it was made from, or
\* nothing for the rows written before provenance was.
evidenceOf(text) == [text |-> text.body, length |-> text.length]
NoEvidence == [text |-> "", length |-> NoNumber]

\* Only a description that became long enough to judge makes it stale.
isClassificationStale(cached, text) ==
    /\ cached # NoEvidence
    /\ cached.text # text.body
    /\ cached.length < MIN_DESCRIPTION_CHARS
    /\ text.length >= MIN_DESCRIPTION_CHARS
=============================================================================
