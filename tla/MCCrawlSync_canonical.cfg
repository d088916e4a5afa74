SPECIFICATION Spec
CONSTANTS
    e1 = e1  e2 = e2  e3 = e3  t1 = t1  t2 = t2  t3 = t3  b1 = b1  b2 = b2
    f1 = f1  f2 = f2  greenhouse = greenhouse  remoteok = remoteok
    None = None
    ExtIds = {e1, e2}
    Titles = {t1, t2, t3}
    Fingerprints = {f1, f2}
    jobFingerprint <- MCFingerprint
    Bodies = {b1}
    Sources = {greenhouse, remoteok}
    AtsSources = {greenhouse}
    EmbedAttempts = 5
    Handlers = {h1}
    UpsertChunk = 1
    MaxBatch = 2
    MaxFaults = 0
SYMMETRY MCSymmetry
INVARIANT CanonicalRowKeptFresh
