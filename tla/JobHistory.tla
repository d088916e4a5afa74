----------------------------- MODULE JobHistory -----------------------------
(***************************************************************************)
(* What ingestion promises about the rows of one company, whatever happens *)
(* inside it: "Never deletes - history is a feature" (ingest.service.ts:   *)
(* 60-65) and the reconciliation invariant (crawl-reconciliation.ts:1-10). *)
(* A row appears or is rewritten when a source lists it, comes back when   *)
(* its opening is listed again, gets another body by a repair, and is      *)
(* withdrawn only by a company sync of its own source that listed          *)
(* something else.  Every step is atomic here.                             *)
(***************************************************************************)
CONSTANTS ExtIds, Titles, Bodies, Sources, AtsSources, None

VARIABLE jobs

Posting == [ext : ExtIds, title : Titles, body : Bodies]

Listed == {e \in ExtIds : jobs[e].status # "ABSENT"}

\* A source lists the postings P, at most one for a row.
Publish(s, P) ==
    /\ \A p, q \in P : p.ext = q.ext => p = q
    /\ \A p \in P : jobs'[p.ext] = [status |-> "ACTIVE", source |-> s,
                                    title |-> p.title, body |-> p.body]
    /\ \A e \in ExtIds : (\A p \in P : p.ext # e) => jobs'[e] = jobs[e]

\* The openings of the rows R were seen under other externalIds.
Confirm(R) ==
    jobs' = [e \in ExtIds |-> IF e \in R THEN [jobs[e] EXCEPT !.status = "ACTIVE"]
                              ELSE jobs[e]]

\* The board of s lists seen and nothing else.
Withdraw(s, seen) ==
    jobs' = [e \in ExtIds |->
               IF /\ jobs[e].status = "ACTIVE"
                  /\ jobs[e].source = s
                  /\ e \notin seen
               THEN [jobs[e] EXCEPT !.status = "REMOVED"]
               ELSE jobs[e]]

Rewrite(new) ==
    jobs' = [e \in ExtIds |-> IF e \in DOMAIN new
                              THEN [jobs[e] EXCEPT !.body = new[e]]
                              ELSE jobs[e]]

Init == jobs = [e \in ExtIds |-> [status |-> "ABSENT", source |-> None,
                                  title |-> None, body |-> None]]

Next ==
    \/ \E s \in Sources, P \in SUBSET Posting : Publish(s, P)
    \/ \E R \in SUBSET Listed : Confirm(R)
    \/ \E s \in AtsSources, seen \in SUBSET ExtIds :
          seen # {} /\ Withdraw(s, seen)
    \/ \E R \in SUBSET Listed : \E new \in [R -> Bodies] : Rewrite(new)

Spec == Init /\ [][Next]_jobs
=============================================================================
