--------------------------- MODULE MCIngestSystem ---------------------------
(* TLC instances of IngestSystem. *)
EXTENDS IngestSystem, TLC

CONSTANTS e1, e2, t1, t3, b1, b2, f1, greenhouse, remoteok

\* Every title is a wording of the same opening.
MCFingerprint == [t \in Titles |-> f1]

\* Nothing reads the status of a CrawlRun: states that differ only in it count
\* as one.
IgnoringRuns == <<jobs, vector, embedQueue, req, faults, embedVars, raced>>

MCSymmetry == Permutations(Bodies) \cup Permutations(Handlers)
=============================================================================
