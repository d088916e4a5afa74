SPECIFICATION SystemSpec
CONSTANTS
    e1 = e1  e2 = e2  t1 = t1  t3 = t3  b1 = b1  b2 = b2
    f1 = f1  greenhouse = greenhouse  remoteok = remoteok
    None = None
    ExtIds = {e1}
    Titles = {t1}
    Fingerprints = {f1}
    jobFingerprint <- MCFingerprint
    Bodies = {b1, b2}
    Sources = {greenhouse, remoteok}
    AtsSources = {greenhouse}
    EmbedAttempts = 2
    Handlers = {h1}
    UpsertChunk = 1
    MaxBatch = 1
    MaxFaults = 1
    Repairers = {r1}
    EmbedWorkers = {w1}
    Backfillers = {}
    SweepLimit = 1
INVARIANTS SystemTypeOK StaleOnlyAfterRace EmbeddedReachesMatcher
PROPERTY ImplementsJobHistory
VIEW IgnoringRuns
SYMMETRY MCSymmetry
