SPECIFICATION FairMatchSpec
CONSTANTS
    j1 = j1  j2 = j2
    Words <- MCWords  Tech <- MCTech  TECH_ALIASES <- MCAliases
    AMBIGUOUS_ALIASES = {}
    TRANSFERABLE <- MCTransferable
    DISCIPLINE_MARKERS = {"java"}
    DISCIPLINE_LABELS <- MCLabels
    TargetFamilies = {"FULLSTACK"}  CatchAllFamilies = {}
    AdjacentFamilies = {}  ExcludedFamilies = {}  OtherFamilies = {}
    JobOrder <- MCJobOrder2
    Evaluators = {p1}
    Kinds = {"reconcile"}
    MaxVersion = 1
    Cap = 1
    MaxTrouble = 2
    Bodies <- MCBodies
    Answers <- MCAnswers
    LlmScores <- MCLlmScores
    Facts <- MCFacts
    Years = {2, 4}
    Mine <- MCMine
    NOTIFY_MIN_SCORE = 75  NOTIFY_MAX_AGE_DAYS = 14
PROPERTY EveryCandidateJudged
CHECK_DEADLOCK FALSE
