SPECIFICATION Spec
CONSTANTS
  c1 = c1 c2 = c2 t1 = t1 t2 = t2 t3 = t3 w1 = w1 w2 = w2 p1 = p1 p2 = p2 a1 = a1 a2 = a2
  Emails = {"e1"} Clients = {c1, c2} Tokens = {t1, t2, t3} MaxPassword = 2 MaxLostReplies = 1
  TrackedJobs = {"j1"} Callers = {"tap", "page"} UsedStatuses = {"SAVED", "APPLIED"}
  Notifications <- MCNotifications ShownScores = {7} MaxEvents = 3 MaxReports = 1 MaxSilent = 1
  Writers = {w1, w2} Names <- MCNames Sites = {"s"} Urls <- MCUrls Listings <- MCListings
  ProbeResults <- MCProbeResults Registered <- MCRegistered
  CANDIDATES = 1 MaxRows = 3 MaxUrls = 2 MaxWrites = 2
  Pages = {p1, p2} Blocks <- MCBlocks Contents <- MCContents Shells = {2} Versions <- MCVersions
  BATCH = 1 MaxEdits = 1 MaxFaults = 1
  Boards <- MCBoards Tenants <- MCTenants Arrivals <- MCArrivals
  PAGE_SIZE = 2 MAX_PAGES = 2 QueryPages <- MCQueryPages SrLimit = 2 MAX_AGE_DAYS = 45 MaxTrouble = 2
  Postings = {"r1", "r2", "r3"} KeyOfRow <- MCKeyOfRow Brings <- MCBrings
  PageForms = {"unread", "page", "teaser"} LengthOf <- MCLengthOf Marked = {"page", "teaser", "long"}
  MIN_CHARS = 200 BatchLimit = 2 MaxCrawls = 1 MaxRuns = 2
  Belts = {"b1"} Unguarded = {"m"} Budget = 1 TickCalls = 2 MAX_RETRIES = 2 MaxBill = 4 MaxCrashes = 1
  Askers = {a1, a2} Logins = {"h1", "h2"} Profiles <- MCProfiles GitHub <- MCGitHub Quotas = {20}
  MaxCalls = 8 MaxPeople = 2 Site <- MCSite Blogs <- MCBlogs Answering = {{1, 2}} UserSkills = {"ts"}
  FRESH_DAYS = 1 FIRST_NUDGE_DAYS = 1 SECOND_NUDGE_AFTER_DAYS = 1 MAX_NUDGES = 2
  MaxDay = 1 MaxFollowUps = 1 MaxRequests = 2
  Listed = {"j1", "j2", "j3", "j4", "j5"} Facts <- MCFacts Decisions <- MCDecisions
  GateOutcomes <- MCGate FEED = 1 Desk <- MCDesk Earlier <- MCEarlier MaxDecisions = 2 MaxActs = 1
  Readers = {"u1", "u2"} Told <- MCTold BriefHandlers = {"h1", "h2"} Evaluators = {"e1", "e2"} DIGEST_LIMIT = 1
  ATTEMPTS = 2 MaxBriefJobs = 2 MaxBriefTrouble = 1 MaxBriefChanges = 1
  Pollers = {"p1", "p2"} Consents = {"c1", "c2"} MaxGrants = 3 MaxPolls = 3
  Mails <- MCMails CARD_CHARS = 5 Webs <- MCWebs
INVARIANTS
  OnePairPerToken OldPasswordLockedOut LogsTellTheHistory
  BoardsFindTheirCompany NobodyIsLost CorpusIsRead NothingSkippedUnexplained
  LivePostingsBeatShells RowsTellTheirOwn SpendingIsContained PagesTellTheDecision
  MarkedMeansTold ToldOnceUnlessCrossed FieldsAreTheCardsOwn
PROPERTIES RepairsStrengthen ContactsKeepFaith OnlyOvertakenPausesAMailbox
SYMMETRY MCSymmetry
VIEW MCView
CHECK_DEADLOCK FALSE
