---------------------------- MODULE MCCrawlSync ----------------------------
(* TLC instances of CrawlSync. *)
EXTENDS CrawlSync, TLC

CONSTANTS e1, e2, e3, t1, t2, t3, b1, b2, f1, f2, greenhouse, remoteok

\* t1 and t3 are two wordings of one opening, t2 is another opening.
MCFingerprint == [t \in Titles |-> IF t = t2 THEN f2 ELSE f1]

MCSymmetry == Permutations(ExtIds) \cup Permutations(Handlers)
=============================================================================
