------------------------------ MODULE JobStore ------------------------------
(***************************************************************************)
(* The state that ingestion and embedding share, for ONE company: the rows *)
(* of the table jobs, the rows of the table job_embeddings and the BullMQ  *)
(* queue embed-jobs.  Companies do not interact here: the unique key of a  *)
(* job is (companyId, externalId) and its fingerprint hashes the companyId.*)
(*                                                                         *)
(* A title stands for the triple (title, location, workMode) a fingerprint *)
(* is computed from; a body stands for a description.  Titles that differ  *)
(* only in word order or punctuation share a fingerprint, which is why     *)
(* jobFingerprint is a function and not the identity.                      *)
(***************************************************************************)
EXTENDS Naturals, FiniteSets

CONSTANTS
    ExtIds,          \* the externalIds that sources list for this company
    Titles,          \* (title, location, workMode) triples
    Fingerprints,    \* the values of jobs.fingerprint
    jobFingerprint,  \* internal/job-fingerprint.ts, as a function
    Bodies,          \* descriptions
    Sources,         \* every value of jobs.source
    AtsSources,      \* the sources the crawl-company worker syncs
    EmbedAttempts,   \* attempts of an embed-jobs entry (5 in the code)
    None             \* a value that is none of the above

ASSUME JobStoreAssumption ==
    /\ jobFingerprint \in [Titles -> Fingerprints]
    /\ AtsSources \subseteq Sources
    /\ None \notin Titles \cup Bodies \cup Sources \cup ExtIds
    /\ None \notin Titles \X Bodies
    /\ EmbedAttempts \in Nat \ {0}

VARIABLES
    jobs,       \* jobs[e]: the row with externalId e, status "ABSENT" if none
    vector,     \* vector[e]: the text its embedding was built from, or None
    embedQueue  \* the entries waiting in embed-jobs

storeVars == <<jobs, vector, embedQueue>>

-----------------------------------------------------------------------------
Row == [status : {"ABSENT", "ACTIVE", "REMOVED"},
        source : Sources \cup {None},
        title  : Titles \cup {None},
        body   : Bodies \cup {None}]

NoRow == [status |-> "ABSENT", source |-> None, title |-> None, body |-> None]

\* What embedJobs sends to the provider: title, location and description.
Text == Titles \X Bodies

Entry == [ids : SUBSET ExtIds, attempts : 0 .. EmbedAttempts]

Exists(e) == jobs[e].status # "ABSENT"

TextOf(e) == <<jobs[e].title, jobs[e].body>>

FingerprintOf(e) == jobFingerprint[jobs[e].title]

\* MUTANT of enqueueEmbeddings: one entry at a time, as under a static jobId.
EnqueueUnlessWaiting(ids) ==
    embedQueue' = IF ids = {} \/ embedQueue # {} THEN embedQueue
                  ELSE embedQueue \cup {[ids |-> ids, attempts |-> 0]}

\* enqueueEmbeddings: nothing for an empty list, otherwise a new entry.  Two
\* waiting entries with the same content are one element of the set.
enqueueEmbeddings(ids) ==
    embedQueue' = IF ids = {} THEN embedQueue
                  ELSE embedQueue \cup {[ids |-> ids, attempts |-> 0]}

\* DELETE FROM job_embeddings WHERE jobId IN ids
ClearVectors(ids) ==
    vector' = [e \in ExtIds |-> IF e \in ids THEN None ELSE vector[e]]

-----------------------------------------------------------------------------
\* A row that exists has a source, a title and a body; one that does not has
\* nothing.
StoreTypeOK ==
    /\ jobs \in [ExtIds -> Row]
    /\ \A e \in ExtIds :
          /\ ~Exists(e) => jobs[e] = NoRow
          /\ Exists(e) => /\ jobs[e].source \in Sources
                          /\ jobs[e].title \in Titles
                          /\ jobs[e].body \in Bodies
    /\ vector \in [ExtIds -> Text \cup {None}]
    /\ embedQueue \in SUBSET Entry

StoreInit ==
    /\ jobs = [e \in ExtIds |-> NoRow]
    /\ vector = [e \in ExtIds |-> None]
    /\ embedQueue = {}
=============================================================================
