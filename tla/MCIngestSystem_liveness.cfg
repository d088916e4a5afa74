SPECIFICATION FairSpec
CONSTANTS
    e1 = e1  e2 = e2  t1 = t1  t3 = t3  b1 = b1  b2 = b2
    f1 = f1  greenhouse = greenhouse  remoteok = remoteok
    None = None
    ExtIds = {e1}
    Titles = {t1}
    Fingerprints = {f1}
    jobFingerprint <- MCFingerprint
    Bodies = {b1, b2}
    Sources = {greenhouse}
    AtsSources = {greenhouse}
    EmbedAttempts = 2
    Handlers = {h1}
    UpsertChunk = 1
    MaxBatch = 1
    MaxFaults = 2
    Repairers = {}
    EmbedWorkers = {w1}
    Backfillers = {}
    SweepLimit = 1
PROPERTY NeverSilentlyStranded
