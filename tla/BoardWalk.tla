----------------------------- MODULE BoardWalk ------------------------------
(***************************************************************************)
(* What a crawl brings home: the adapters of apps/workers/src/adapters and *)
(* the workers that call them (crawl-company and crawl-board processors).  *)
(* An ATS board is a sequence of rows that may change between two requests *)
(* of one walk; a crawl that calls its jobs the whole board has everything *)
(* it did not bring retired (CrawlSync).  An aggregator is a sequence of   *)
(* queries; its crawls never retire anything.                              *)
(***************************************************************************)
EXTENDS Integers, Sequences, FiniteSets, SequencesExt, Functions

CONSTANTS
    Boards,      \* [provider -> boards its API may serve, sequences of rows]
    Tenants,     \* Workday tenants: records [legacy, facet, stuck]
    Arrivals,    \* rows that may be posted during a walk
    PAGE_SIZE,
    MAX_PAGES,   \* listing pages of a Workday walk
    QueryPages,  \* [aggregator -> pages it asks of one query]
    SrLimit,     \* the rows SmartRecruiters returns to the one request
    MAX_AGE_DAYS,
    MaxTrouble   \* bound: failed requests and changes of the board

Aggregators == {"adzuna", "jooble", "freehire"}
Providers ==
    {"GREENHOUSE", "LEVER", "ASHBY", "WORKABLE", "SMARTRECRUITERS", "RECRUITEE", "BREEZY",
     "KEKA", "WORKDAY"}

ASSUME BoardConstants ==
    /\ DOMAIN Boards = Providers \cup Aggregators \cup {"remoteok", "hn-hiring"}
    /\ PAGE_SIZE \in Nat \ {0} /\ MAX_PAGES \in Nat \ {0} /\ SrLimit \in Nat \ {0}
    /\ QueryPages \in [Aggregators -> Nat \ {0}]
    /\ MaxTrouble \in Nat
    \* A board lists a posting once; an aggregator is asked at least one query.
    /\ \A b \in Boards["WORKDAY"] : b \in Seq(Range(b)) /\ IsInjective(b)
    /\ \A k \in Aggregators : \A b \in Boards[k] :
          b \in Seq(Range(b)) /\ b # <<>> /\ \A q \in DOMAIN b : b[q] \in Seq(Range(b[q]))

NoDays == -1

VARIABLES
    board,    \* what the provider lists now
    walk,     \* the walk of it
    open,     \* history: rows listed ever since the walk began
    moved,    \* history: the board changed during the walk
    bumps

boardVars == <<board, walk, open, moved, bumps>>

NoTenant == [legacy |-> FALSE, facet |-> FALSE, stuck |-> FALSE]
Idle == [kind |-> "none", pc |-> "idle", tenant |-> NoTenant, query |-> 1, page |-> 0,
         postings |-> {}, truncated |-> FALSE, jobs |-> {}, unread |-> {}, cut |-> {}]

-----------------------------------------------------------------------------
(***************************************************************************)
(* Normalisation: what one row of each source becomes.                     *)
(***************************************************************************)
\* What the words of a title or a location say of the work mode.
workModeFromText(words) ==
    IF "remote" \in words THEN "REMOTE" ELSE IF "hybrid" \in words THEN "HYBRID" ELSE "none"

flag(mode, known) == IF mode \in known THEN mode ELSE "none"

Normalized(r, body, source, mode) ==
    [externalId |-> r.id, body |-> body, descriptionSource |-> source, workMode |-> mode]

greenhouseJobs(b) ==
    {Normalized(r, r.body, "none", workModeFromText(r.place)) : r \in Range(b)}

\* A posting of Lever is in three sections; the body field stands in for an
\* empty description.  No text at all is MISSING, never an empty body.
buildDescription(parts) ==
    IF "description" \in parts THEN parts \ {"descriptionBody"} ELSE parts

leverJobs(b) ==
    {Normalized(r, buildDescription(r.body),
                IF r.body = {} THEN "MISSING" ELSE "LIST",
                IF r.mode # "unspecified" THEN r.mode ELSE workModeFromText(r.place)) :
        r \in Range(b)}

ashbyJobs(b) ==
    {Normalized(r, r.body, "none", flag(r.mode, {"REMOTE"})) :
        r \in {s \in Range(b) : s.listed}}

workableJobs(b) ==
    {Normalized(r, r.body, "none",
                IF r.mode = "REMOTE" THEN "REMOTE" ELSE workModeFromText(r.place)) :
        r \in Range(b)}

\* Only the first rows: the request has a limit and no second one follows.
\* A row whose detail cannot be read is kept without a description.
firstRows(b) == {b[i] : i \in {k \in DOMAIN b : k <= SrLimit}}

smartrecruitersJobs(b, unread) ==
    {Normalized(r, IF r.id \in unread THEN {} ELSE r.body, "none",
                flag(r.mode, {"REMOTE", "HYBRID"})) :
        r \in firstRows(b)}

recruiteeJobs(b) ==
    {Normalized(r, r.body, "none",
                IF r.mode # "unspecified" THEN r.mode ELSE workModeFromText(r.place)) :
        r \in {s \in Range(b) : s.listed}}

\* The body is asked of the detail page where the listing has none.
breezyJobs(b, unread) ==
    {Normalized(r, IF r.id \in unread THEN {} ELSE r.body,
                IF r.inList THEN "LIST" ELSE IF r.id \in unread THEN "MISSING" ELSE "DETAIL",
                IF r.mode = "REMOTE" THEN "REMOTE" ELSE workModeFromText(r.place)) :
        r \in Range(b)}

kekaJobs(b) ==
    {Normalized(r, r.body, "none", workModeFromText(r.place)) : r \in Range(b)}

\* RemoteOK: every posting must be remote and look like a job.
locationContradictsRemote(where) == where \in {"truncated", "locality"}
titleLacksJobShape(title) == title \in {"short", "long", "shout", "question", "sentence"}
isPlausibleRemoteOkPosting(r) ==
    /\ r.whole
    /\ ~locationContradictsRemote(r.where)
    /\ ~titleLacksJobShape(r.title)

remoteokJobs(b) ==
    {Normalized(r, r.body, "none", "REMOTE") :
        r \in {s \in Range(b) : isPlausibleRemoteOkPosting(s)}}

\* Hacker News: a header that names a company and a role, for somebody in India.
isRelevant(c) == "role" \in c.says /\ "locked" \notin c.says
                 /\ c.says \cap {"worldwide", "india"} # {}
looksLikeCompany(s) == s \notin {"url", "salary", "mode", "cityState", "remoteNote", "long"}
parseComment(c) ==
    /\ c.body # {} /\ isRelevant(c)
    /\ Len(c.header) >= 2
    /\ looksLikeCompany(c.header[1])
    /\ "role" \in Range(Tail(c.header))

hnJobs(b) ==
    {Normalized(c, c.body, "none", workModeFromText(c.place)) :
        c \in {d \in Range(b) : parseComment(d)}}

\* The aggregators: a company, a title and a link, and a title in the user's line.
mapAdzunaResults(rows) == {r \in rows : r.company /\ r.id # "none" /\ r.role}
mapJoobleJobs(rows) == {r \in rows : r.company /\ r.link /\ r.role}
mapFreehireJobs(rows) == {r \in rows : r.company /\ r.link /\ r.role}

Mapped(kind, rows) ==
    CASE kind = "adzuna" -> mapAdzunaResults(rows)
      [] kind = "jooble" -> mapJoobleJobs(rows)
      [] kind = "freehire" -> mapFreehireJobs(rows)

-----------------------------------------------------------------------------
(***************************************************************************)
(* Workday: a listing, page by page, then one detail request per candidate. *)
(***************************************************************************)
\* Of the positions that are listed, those of the n-th page.
before(P, i) == Cardinality({k \in P : k < i})
pageOf(P, n) == {i \in P : n * PAGE_SIZE <= before(P, i) /\ before(P, i) < (n + 1) * PAGE_SIZE}

\* Under the country facet the server lists what is in India.
served == {i \in DOMAIN board : walk.tenant.facet => board[i].country = "india"}

couldBeFresh(r) == r.postedOn.exact => r.postedOn.days <= MAX_AGE_DAYS

Candidate(r) ==
    /\ walk.tenant.facet \/ r.looksIndian
    /\ couldBeFresh(r)

\* The detail decides: its country, and the date it started.
AcceptedDetail(r) ==
    /\ r.country \in {"india", "indianCity"}
    /\ r.startDays <= MAX_AGE_DAYS

Fails == bumps < MaxTrouble /\ bumps' = bumps + 1

StartWorkday(t, b) ==
    /\ walk.pc = "idle"
    /\ board' = b /\ open' = Range(b)
    /\ walk' = [Idle EXCEPT !.kind = "WORKDAY", !.tenant = t,
                            !.pc = IF t.legacy THEN "failed" ELSE "probe"]
    /\ UNCHANGED <<moved, bumps>>

Probe ==
    /\ walk.pc = "probe"
    /\ \/ walk' = [walk EXCEPT !.pc = "list"] /\ UNCHANGED bumps
       \/ walk' = [walk EXCEPT !.pc = "failed"] /\ Fails
    /\ UNCHANGED <<board, open, moved>>

\* MUTANT of CapReached: the page cap ends the walk like the end of the listing
CapIsTheEnd(rows, pages, fresh) == FALSE

\* The cap stops a walk that was still finding postings.
CapReached(rows, pages, fresh) ==
    fresh # {} /\ Cardinality(rows) = PAGE_SIZE /\ pages >= MAX_PAGES

ListPage ==
    /\ walk.pc = "list"
    /\ LET rows  == pageOf(served, IF walk.tenant.stuck THEN 0 ELSE walk.page)
           fresh == {board[i] : i \in rows} \ walk.postings
           pages == walk.page + 1
           capped == CapReached(rows, pages, fresh)
           more  == fresh # {} /\ Cardinality(rows) = PAGE_SIZE /\ pages < MAX_PAGES
       IN walk' = [walk EXCEPT !.postings = @ \cup fresh, !.page = pages,
                               !.truncated = capped, !.pc = IF more THEN "list" ELSE "detail"]
    /\ UNCHANGED <<board, open, moved, bumps>>

\* A request of the listing failed: the pages there are, marked as a part.
PartOf(w) == [w EXCEPT !.truncated = TRUE, !.pc = "detail"]

ListFails ==
    /\ walk.pc = "list" /\ Fails
    /\ walk' = PartOf(walk)
    /\ UNCHANGED <<board, open, moved>>

Details ==
    /\ walk.pc = "detail"
    /\ LET candidates == {r \in walk.postings : Candidate(r)}
       IN \E unread \in SUBSET candidates :
            /\ bumps + Cardinality(unread) <= MaxTrouble
            /\ bumps' = bumps + Cardinality(unread)
            /\ walk' = [walk EXCEPT
                    !.pc = "done", !.unread = unread,
                    !.jobs = {Normalized(r, r.body, "none", workModeFromText(r.place)) :
                                r \in {s \in candidates \ unread : AcceptedDetail(s)}}]
    /\ UNCHANGED <<board, open, moved>>

-----------------------------------------------------------------------------
(***************************************************************************)
(* The sources of one listing request.                                     *)
(***************************************************************************)
Once(kind, b, unread) ==
    CASE kind = "GREENHOUSE" -> greenhouseJobs(b)
      [] kind = "LEVER" -> leverJobs(b)
      [] kind = "ASHBY" -> ashbyJobs(b)
      [] kind = "WORKABLE" -> workableJobs(b)
      [] kind = "SMARTRECRUITERS" -> smartrecruitersJobs(b, unread)
      [] kind = "RECRUITEE" -> recruiteeJobs(b)
      [] kind = "BREEZY" -> breezyJobs(b, unread)
      [] kind = "KEKA" -> kekaJobs(b)
      [] kind = "remoteok" -> remoteokJobs(b)
      [] kind = "hn-hiring" -> hnJobs(b)

\* The detail requests of a source that makes them.
Unreadable(kind, b) ==
    CASE kind = "SMARTRECRUITERS" -> {r.id : r \in Range(b)}
      [] kind = "BREEZY" -> {r.id : r \in {s \in Range(b) : ~s.inList}}
      [] OTHER -> {}

FetchOnce(kind, b) ==
    /\ walk.pc = "idle"
    /\ board' = b /\ open' = Range(b)
    /\ \E unread \in SUBSET Unreadable(kind, b) :
         /\ bumps + Cardinality(unread) <= MaxTrouble
         /\ bumps' = bumps + Cardinality(unread)
         /\ walk' = [Idle EXCEPT !.kind = kind, !.pc = "done", !.unread = unread,
                                 !.jobs = Once(kind, b, unread)]
    /\ UNCHANGED moved

PageRequestFails(kind) ==
    /\ walk.pc = "idle" /\ Fails
    /\ walk' = [Idle EXCEPT !.kind = kind, !.pc = "failed"]
    /\ UNCHANGED <<board, open, moved>>

-----------------------------------------------------------------------------
(***************************************************************************)
(* The aggregators: queries one after the other, each page by page.        *)
(***************************************************************************)
StartFeed(kind, b) ==
    /\ walk.pc = "idle"
    /\ board' = b /\ open' = {}
    /\ walk' = [Idle EXCEPT !.kind = kind, !.pc = "query"]
    /\ UNCHANGED <<moved, bumps>>

onward(w, more) ==
    CASE more -> [w EXCEPT !.page = @ + 1]
      [] ~more /\ w.query < Len(board) -> [w EXCEPT !.query = @ + 1, !.page = 0]
      [] OTHER -> [w EXCEPT !.pc = "done"]

\* Where a query ends: a page with nothing wanted on it (Adzuna, Jooble), a short
\* page or the total the source reported (FreeHire).
lastPage(kind, count, batch, total) ==
    IF kind = "freehire"
    THEN count < PAGE_SIZE \/ (total # NoDays /\ (walk.page + 1) * PAGE_SIZE >= total)
    ELSE batch = {}

\* What the n-th page of a query has for the user.
wanted(q, n) == Mapped(walk.kind, {board[q][i] : i \in pageOf(DOMAIN board[q], n)})

FeedPage ==
    /\ walk.pc = "query"
    /\ \E total \in {NoDays, Len(board[walk.query])} :
         LET rows  == pageOf(DOMAIN board[walk.query], walk.page)
             batch == wanted(walk.query, walk.page)
             more  == ~lastPage(walk.kind, Cardinality(rows), batch, total)
                      /\ walk.page + 1 < QueryPages[walk.kind]
         IN walk' = onward([walk EXCEPT !.postings = @ \cup batch], more)
    /\ UNCHANGED <<board, open, moved, bumps>>

FeedFails ==
    /\ walk.pc = "query" /\ Fails
    /\ walk' = onward([walk EXCEPT !.cut = @ \cup {walk.query}], FALSE)
    /\ UNCHANGED <<board, open, moved>>

-----------------------------------------------------------------------------
\* The board during the walk: a row is posted on top, or comes down.
BoardMoves ==
    /\ walk.kind = "WORKDAY" /\ walk.pc \in {"probe", "list", "detail"} /\ Fails
    /\ moved' = TRUE
    /\ \/ \E r \in Arrivals \ Range(board) : board' = <<r>> \o board /\ UNCHANGED open
       \/ \E i \in DOMAIN board :
            /\ board' = RemoveAt(board, i)
            /\ open' = open \ {board[i]}
    /\ UNCHANGED walk

BoardInit ==
    /\ board = <<>> /\ walk = Idle /\ open = {} /\ moved = FALSE /\ bumps = 0

BoardNext ==
    \/ \E t \in Tenants, b \in Boards["WORKDAY"] : StartWorkday(t, b)
    \/ \E k \in DOMAIN Boards \ ({"WORKDAY"} \cup Aggregators) :
          PageRequestFails(k) \/ \E b \in Boards[k] : FetchOnce(k, b)
    \/ \E k \in Aggregators : \E b \in Boards[k] : StartFeed(k, b)
    \/ Probe \/ ListPage \/ ListFails \/ Details
    \/ FeedPage \/ FeedFails
    \/ BoardMoves

BoardSpec == BoardInit /\ [][BoardNext]_boardVars

-----------------------------------------------------------------------------
\* What the crawl tells the reconciliation: these are all (crawl-company).
complete == walk.pc = "done" /\ ~walk.truncated

IdsIn(S) == {j.externalId : j \in S}

\* Rows of a Workday board a user in India could still act on.
Wanted(r) == AcceptedDetail(r)

\* Why a row that was listed all along is not among the jobs of a crawl that
\* counts as complete, in the code as it is.
Excused(r) ==
    CASE walk.kind = "WORKDAY" ->
            \/ r \in walk.unread            \* its detail request failed
            \/ moved                        \* rows slid between two pages
            \/ walk.tenant.stuck            \* a repeated page counts as the end
            \/ ~couldBeFresh(r)             \* the listing calls it old
            \/ walk.tenant.facet /\ r.country # "india"
            \/ ~walk.tenant.facet /\ ~r.looksIndian
      [] walk.kind = "SMARTRECRUITERS" -> r \notin firstRows(board)
      [] walk.kind \in {"ASHBY", "RECRUITEE"} -> ~r.listed
      [] OTHER -> FALSE

\* A crawl of a company's board that counts as complete (and retires whatever it
\* does not name) names every posting listed since it began that it is for,
\* except for the causes above; and an aggregator's query that did not fail
\* yields every posting wanted within its pages, unless a page before it had none
\* (Adzuna, Jooble).  listAll and fetchBoardInternal (workday.ts), the
\* one-request adapters, and the page loops of adzuna, jooble and freehire.
NothingSkippedUnexplained ==
    /\ complete /\ walk.kind \in Providers =>
         \A r \in open :
            \/ r.id \in IdsIn(walk.jobs)
            \/ Excused(r)
            \/ walk.kind = "WORKDAY" /\ ~Wanted(r)
    /\ walk.pc = "done" /\ walk.kind \in Aggregators =>
         \A q \in DOMAIN board \ walk.cut, n \in 0 .. QueryPages[walk.kind] - 1 :
            \/ wanted(q, n) \subseteq walk.postings
            \/ /\ walk.kind # "freehire"
               /\ \E m \in 0 .. n - 1 : wanted(q, m) = {}
=============================================================================
