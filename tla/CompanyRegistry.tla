--------------------------- MODULE CompanyRegistry ---------------------------
(***************************************************************************)
(* The company rows and everybody who writes their identity:               *)
(* companies.service.ts (created by hand, found or created by a board),    *)
(* discovery.service.ts (directories, results of the prober),              *)
(* ats-conflict.service.ts (the board their own jobs point at) and         *)
(* company-identity.service.ts (aliases), with the rules they decide by    *)
(* (company-name.ts, company-identity.ts, ats.ts), and the stage a crawl   *)
(* leaves (ingest.service.ts).  A name is its words and whether it is      *)
(* stored without punctuation between them; a URL is a host, its subdomain *)
(* and the first segment of its path that names an account; a board is a   *)
(* provider and an identifier.                                             *)
(***************************************************************************)
EXTENDS Integers, Sequences, FiniteSets, FiniteSetsExt, SequencesExt, Functions

CONSTANTS
    Writers,            \* requests in progress
    Names,              \* records [words, plain]
    Sites,
    Urls,               \* apply URLs of postings: records [host, sub, seg]
    Listings,           \* what is said of a company: records [name, site, url]
    ProbeResults,       \* what a probe finds: records [site, board, page]
    CANDIDATES,         \* rows a prefix query takes
    Registered,         \* registries to start from, sequences of listings
    MaxRows, MaxUrls, MaxWrites     \* companies, postings of each, and requests, in a run

NoUrl == [host |-> "none", sub |-> "none", seg |-> "none"]

ASSUME RegistryConstants ==
    /\ "none" \notin Sites /\ NoUrl \notin Urls
    /\ \A n \in Names : n.words \in Seq(STRING) /\ n.words # <<>>
    /\ \A l \in Listings : l.name \in Names /\ l.site \in Sites \cup {"none"}
    /\ Registered \subseteq Seq(Listings)
    /\ {MaxRows, MaxUrls, MaxWrites, CANDIDATES} \subseteq Nat

-----------------------------------------------------------------------------
\* company-name.ts.  A base of one or two letters identifies nobody.
LEGAL_SUFFIXES ==
    {"inc", "llc", "llp", "ltd", "limited", "corp", "corporation", "co", "company", "plc",
     "gmbh", "ag", "bv", "nv", "sa", "srl", "spa", "oy", "ab", "as", "pte", "pty", "pvt",
     "private", "technologies", "technology"}
NON_IDENTIFYING == {"the", "a", "an", "and", "of", "for", "my", "our", "we"}
ShortWords == {"a", "an", "of", "my", "we", "co", "ag", "bv", "nv", "sa", "oy", "ab", "as"}

normalizeCompanyName(words) ==
    LET kept == Max({1} \cup {i \in DOMAIN words : words[i] \notin LEGAL_SUFFIXES})
        base == SubSeq(words, 1, kept)
        identifying == /\ kept = 1 => base[1] \notin ShortWords
                       /\ \E i \in 1 .. kept : base[i] \notin NON_IDENTIFYING
    IN IF identifying THEN base ELSE words

KeyOf == [n \in Names |-> normalizeCompanyName(n.words)]
Key(n) == KeyOf[n]

\* detectAts (ats.ts): the provider is the host's, the identifier its first path
\* segment or its subdomain.
CRAWLABLE_PROVIDERS ==
    {"GREENHOUSE", "LEVER", "ASHBY", "WORKABLE", "SMARTRECRUITERS", "RECRUITEE", "BREEZY",
     "KEKA", "WORKDAY"}
PathHosts ==
    [greenhouse |-> "GREENHOUSE", lever |-> "LEVER", ashby |-> "ASHBY",
     smartrecruiters |-> "SMARTRECRUITERS"]
SubdomainHosts ==
    [recruitee |-> "RECRUITEE", teamtailor |-> "TEAMTAILOR", breezy |-> "BREEZY",
     keka |-> "KEKA", darwinbox |-> "DARWINBOX", zohorecruit |-> "ZOHO_RECRUIT",
     freshteam |-> "FRESHTEAM"]
OwnSubdomains ==
    [recruitee |-> {}, teamtailor |-> {}, breezy |-> {"app", "www"}, keka |-> {"www", "app", "cdn"},
     darwinbox |-> {"www", "app"}, zohorecruit |-> {"www"}, freshteam |-> {"www"}]
UNKNOWN == [provider |-> "UNKNOWN", id |-> "none"]

\* Workable serves accounts from a path and, but for www, from any subdomain.
workableAccount(u) ==
    IF u.sub # "apply" THEN u.sub ELSE IF u.seg = "api" THEN "none" ELSE u.seg

detectAts(u) ==
    CASE u.host \in DOMAIN PathHosts -> [provider |-> PathHosts[u.host], id |-> u.seg]
      [] u.host = "workable" /\ u.sub # "www" -> [provider |-> "WORKABLE", id |-> workableAccount(u)]
      [] u.host = "workday" ->
            [provider |-> "WORKDAY", id |-> IF u.seg = "none" THEN "none" ELSE u.sub \o "/" \o u.seg]
      [] u.host \in DOMAIN SubdomainHosts /\ u.sub \notin OwnSubdomains[u.host] ->
            [provider |-> SubdomainHosts[u.host], id |-> u.sub]
      [] OTHER -> UNKNOWN

\* identityTokenFromUrl: whose posting a URL is, where it says so.  An aggregator
\* and a path that is a route say nothing.
AGGREGATOR_HOSTS == {"linkedin", "remoteok", "freehire", "jooble", "telegram"}
NON_TENANT_SEGMENTS == {"j", "jobs", "job", "careers", "career", "search", "apply", "p"}
NoBoardToken == <<>>

identityTokenFromUrl(u) ==
    CASE u.host \in AGGREGATOR_HOSTS \cup {"none"} -> NoBoardToken
      [] u.host \in DOMAIN PathHosts \/ (u.host = "workable" /\ u.sub \in {"apply", "jobs"}) ->
            IF u.seg \in NON_TENANT_SEGMENTS \cup {"none"} THEN NoBoardToken ELSE <<u.host, u.seg>>
      [] OTHER -> <<u.host, u.sub>>

VARIABLES
    company,    \* the rows, oldest first
    write,      \* writer -> the request it is in
    writes,     \* requests so far
    \* history
    overlapped, \* rows inserted while another request was looking for their name
    replaced,   \* rows that lost a board somebody had recorded
    resolvedTwice  \* two alias resolutions ran at once

registryVars == <<company, write, writes, overlapped, replaced, resolvedTwice>>

Row == DOMAIN company
NoWrite == [pc |-> "idle"]

identified(b) == b.provider # "UNKNOWN" /\ b.id # "none"
monitorable(b) == identified(b) /\ b.provider \in CRAWLABLE_PROVIDERS

\* @@unique([atsProvider, atsIdentifier]), and the unique website
BoardTaken(b, r) == b.id # "none" /\ \E s \in Row \ {r} : company[s].board = b
SiteTaken(w, r) == w # "none" /\ \E s \in Row \ {r} : company[s].site = w

findByAts(b) == {r \in Row : identified(b) /\ company[r].board = b}
findByName(n) == {r \in Row : company[r].name = n}

\* The candidates are the oldest rows whose stored name starts with the key: a name
\* with punctuation inside does not, and one that goes on does, whatever its own key.
StartsWith(r, k) == company[r].name.plain /\ IsPrefix(k, company[r].name.words)
Crowded(r, k) == Cardinality({s \in Row : s < r /\ StartsWith(s, k)}) >= CANDIDATES
findByNormalizedName(n) ==
    {r \in Row : StartsWith(r, Key(n)) /\ ~Crowded(r, Key(n)) /\ Key(company[r].name) = Key(n)}

NewRow(n, w, b, stage, by) ==
    [name |-> n, site |-> w, board |-> b, stage |-> stage, by |-> by,
     alias |-> 0, token |-> NoBoardToken, urls |-> <<>>]

RegistryInit ==
    /\ \E R \in Registered :
          company = [i \in DOMAIN R |-> NewRow(R[i].name, R[i].site, detectAts(R[i].url),
                                               "DISCOVERED", "hand")]
    /\ write = [p \in Writers |-> NoWrite]
    /\ writes = 0
    /\ overlapped = {} /\ replaced = {} /\ resolvedTwice = FALSE

-----------------------------------------------------------------------------
BeginWrite(p, r) ==
    /\ write[p] = NoWrite
    /\ writes < MaxWrites
    /\ writes' = writes + 1
    /\ write' = [write EXCEPT ![p] = r]

Then(p, r) == write' = [write EXCEPT ![p] = r] /\ UNCHANGED writes

Looking(q, n) == write[q].pc \in {"name", "insert"} /\ Key(write[q].name) = Key(n)

\* prisma.company.create: refused by a unique key, the request fails.
Insert(p, row) ==
    /\ Len(company) < MaxRows
    /\ IF BoardTaken(row.board, 0) \/ SiteTaken(row.site, 0)
       THEN UNCHANGED <<company, overlapped>>
       ELSE /\ company' = Append(company, row)
            /\ overlapped' = IF \E q \in Writers \ {p} : Looking(q, row.name)
                             THEN overlapped \cup {Len(company) + 1} ELSE overlapped
    /\ Then(p, NoWrite)

\* findOrCreateFromBoard: by board, by name, by identity key, ...
BoardByAts(p, n, u) ==
    /\ BeginWrite(p, IF findByAts(detectAts(u)) # {} THEN NoWrite
                     ELSE [pc |-> "name", name |-> n, board |-> detectAts(u)])
    /\ UNCHANGED <<company, overlapped, replaced, resolvedTwice>>

\* MUTANT of ByName: only the exact name is looked up
ByExactName(n) == findByName(n)

ByName(n) == IF findByName(n) # {} THEN findByName(n) ELSE findByNormalizedName(n)

\* ... upgraded if its board was not known, or created.
BoardByName(p) ==
    /\ write[p].pc = "name"
    /\ LET n == write[p].name
           b == write[p].board
       IN IF ByName(n) = {}
          THEN Then(p, [pc |-> "insert", name |-> n,
                        row |-> NewRow(n, "none", IF identified(b) THEN b ELSE UNKNOWN,
                                       "DISCOVERED", "board")])
          ELSE \E r \in ByName(n) :
                  /\ findByName(n) = {} => r = Min(ByName(n))
                  /\ Then(p, IF company[r].board.provider = "UNKNOWN" /\ identified(b)
                             THEN [pc |-> "upgrade", row |-> r, board |-> b] ELSE NoWrite)
    /\ UNCHANGED <<company, overlapped, replaced, resolvedTwice>>

BoardUpgrade(p) ==
    /\ write[p].pc = "upgrade"
    /\ LET r == write[p].row
       IN IF BoardTaken(write[p].board, r)
          THEN UNCHANGED <<company, replaced>>
          ELSE /\ company' = [company EXCEPT ![r].board = write[p].board]
               /\ replaced' = IF company[r].board = UNKNOWN THEN replaced ELSE replaced \cup {r}
    /\ Then(p, NoWrite)
    /\ UNCHANGED <<overlapped, resolvedTwice>>

\* create, by hand: only a board already crawled is refused.  A name put on the
\* watchlist that findByName does not know makes the same row, of its name alone.
CreateByHand(p, n, w, u) ==
    /\ BeginWrite(p, IF findByAts(detectAts(u)) # {} THEN NoWrite
                ELSE [pc |-> "insert", name |-> n,
                      row |-> NewRow(n, w, detectAts(u), "DISCOVERED", "hand")])
    /\ UNCHANGED <<company, overlapped, replaced, resolvedTwice>>

InsertRow(p) ==
    /\ write[p].pc = "insert"
    /\ Insert(p, write[p].row)
    /\ UNCHANGED <<replaced, resolvedTwice>>

\* bulkDiscover, one candidate: by board, by website, by the exact name; a row
\* that exists only has its blanks filled.
BulkDiscover(p, n, w, u) ==
    /\ write[p] = NoWrite /\ writes < MaxWrites
    /\ LET b == detectAts(u)
           bySite == {r \in Row : w # "none" /\ company[r].site = w}
           existing == IF findByAts(b) # {} THEN findByAts(b)
                       ELSE IF bySite # {} THEN bySite ELSE findByName(n)
       IN IF existing = {}
          THEN BeginWrite(p, [pc |-> "insert", name |-> n,
                         row |-> NewRow(n, w, IF identified(b) THEN b ELSE UNKNOWN,
                                        IF monitorable(b) THEN "MONITORED" ELSE "DISCOVERED",
                                        "directory")])
          ELSE \E r \in existing :
                  BeginWrite(p, [pc |-> "enrich", row |-> r,
                            site |-> IF company[r].site # "none" THEN company[r].site ELSE w])
    /\ UNCHANGED <<company, overlapped, replaced, resolvedTwice>>

Enrich(p) ==
    /\ write[p].pc = "enrich"
    /\ company' = IF SiteTaken(write[p].site, write[p].row) THEN company
                  ELSE [company EXCEPT ![write[p].row].site = write[p].site]
    /\ Then(p, NoWrite)
    /\ UNCHANGED <<overlapped, replaced, resolvedTwice>>

-----------------------------------------------------------------------------
\* applyResult: what the prober found about a row that was due.
ProbeStages == {"DISCOVERED", "WEBSITE_VERIFIED", "CAREER_PAGE_FOUND", "UNRESOLVABLE"}

Probed(r) == company[r].stage \in ProbeStages
Crawled(r) == monitorable(company[r].board)

ApplyResult(p, r, w, b, page) ==
    /\ Probed(r)
    /\ BeginWrite(p, [pc |-> "apply", row |-> r, site |-> w, board |-> b, page |-> page,
                 held |-> company[r].site,
                 claimed |-> monitorable(b) /\ BoardTaken(b, r)])
    /\ UNCHANGED <<company, overlapped, replaced, resolvedTwice>>

\* MUTANT of stageOf: an identified board is taken for one that can be crawled
stageIfIdentified(b, page, w) ==
    CASE identified(b) -> "MONITORED"
      [] page -> "CAREER_PAGE_FOUND"
      [] w # "none" -> "WEBSITE_VERIFIED"
      [] OTHER -> "UNRESOLVABLE"

stageOf(b, page, w) ==
    CASE monitorable(b) -> "MONITORED"
      [] page -> "CAREER_PAGE_FOUND"
      [] w # "none" -> "WEBSITE_VERIFIED"
      [] OTHER -> "UNRESOLVABLE"

\* A duplicate is put aside; else the row takes the result, with its own website
\* if another row has the one found, and not at all if the board is another's.
ApplyWrite(p) ==
    /\ write[p].pc = "apply"
    /\ LET r == write[p].row
           w == write[p]
           found == [company[r] EXCEPT
                       !.stage = stageOf(w.board, w.page, w.site),
                       !.site = IF w.site = "none" \/ SiteTaken(w.site, r) THEN w.held ELSE w.site,
                       !.board = IF identified(w.board) THEN w.board ELSE @]
           refused == ~w.claimed /\ identified(w.board) /\ BoardTaken(w.board, r)
       IN /\ company' = IF w.claimed THEN [company EXCEPT ![r].stage = "UNRESOLVABLE"]
                        ELSE IF refused THEN company ELSE [company EXCEPT ![r] = found]
          /\ replaced' = IF w.claimed \/ refused \/ company[r].board = UNKNOWN
                            \/ found.board = company[r].board
                         THEN replaced ELSE replaced \cup {r}
    /\ Then(p, NoWrite)
    /\ UNCHANGED <<overlapped, resolvedTwice>>

\* A crawl: the row is handed out for its board; the sync that ends it writes the
\* stage from what it was asked to do, not from what the row has become.
StartCrawl(p, r) ==
    /\ Crawled(r)
    /\ BeginWrite(p, [pc |-> "crawl", row |-> r])
    /\ UNCHANGED <<company, overlapped, replaced, resolvedTwice>>

updateConfidenceAfterCrawl(p) ==
    /\ write[p].pc = "crawl"
    /\ company' = [company EXCEPT ![write[p].row].stage = "MONITORED"]
    /\ Then(p, NoWrite)
    /\ UNCHANGED <<overlapped, replaced, resolvedTwice>>

\* A crawl or a board brings a posting of the company.
JobArrives(r, u) ==
    /\ Len(company[r].urls) < MaxUrls
    /\ company' = [company EXCEPT ![r].urls = Append(@, u)]
    /\ UNCHANGED <<write, writes, overlapped, replaced, resolvedTwice>>

\* AtsConflictService.resolve: the companies are listed, then one after the other
\* compared with its newest URL; a tenant already claimed is left unchanged.
CorrectAts(p) ==
    /\ BeginWrite(p, [pc |-> "correct",
                 todo |-> {r \in Row : company[r].alias = 0},
                 stored |-> [r \in Row |-> company[r].board.provider]])
    /\ UNCHANGED <<company, overlapped, replaced, resolvedTwice>>

CorrectOne(p) ==
    /\ write[p].pc = "correct" /\ write[p].todo # {}
    /\ \E r \in write[p].todo :
          /\ LET b == IF company[r].urls = <<>> THEN UNKNOWN ELSE detectAts(Last(company[r].urls))
                 wrong == b.provider \notin {"UNKNOWN", write[p].stored[r]} /\ ~BoardTaken(b, r)
             IN /\ company' = IF wrong THEN [company EXCEPT ![r].board = b] ELSE company
                /\ replaced' = IF wrong THEN replaced \cup {r} ELSE replaced
          /\ Then(p, IF write[p].todo = {r} THEN NoWrite ELSE [write[p] EXCEPT !.todo = @ \ {r}])
    /\ UNCHANGED <<overlapped, resolvedTwice>>

-----------------------------------------------------------------------------
\* backfillIdentityTokens: the most common token of the company's own URLs.
TokensOf(r) == {identityTokenFromUrl(u) : u \in Range(company[r].urls)} \ {NoBoardToken}
Uses(r, t) == Cardinality({i \in DOMAIN company[r].urls :
                             identityTokenFromUrl(company[r].urls[i]) = t})

BackfillToken(r) ==
    /\ \E t \in TokensOf(r) :
          /\ \A u \in TokensOf(r) : Uses(r, u) <= Uses(r, t)
          /\ company' = [company EXCEPT ![r].token = t]
    /\ UNCHANGED <<write, writes, overlapped, replaced, resolvedTwice>>

\* assessPair: only the same key with the same tenant merges.
assessPair(a, b) ==
    LET sameTenant == a.token = b.token /\ a.token # NoBoardToken
    IN CASE Key(a.name) # Key(b.name) -> IF sameTenant THEN "TENANT_ONLY" ELSE "NONE"
         [] NoBoardToken \notin {a.token, b.token} ->
               IF sameTenant THEN "NAME_AND_TENANT" ELSE "NAME_TENANT_CONFLICT"
         [] a.site # "none" /\ a.site = b.site -> "NAME_AND_DOMAIN"
         [] OTHER -> "NAME_ONLY"

shouldAutoMerge(basis) == basis = "NAME_AND_TENANT"

\* The row that carries the most jobs of a group stands for it.
CanonicalOf(S, rows) ==
    CHOOSE r \in S : \A s \in S :
        \/ Len(rows[r].urls) > Len(rows[s].urls)
        \/ Len(rows[r].urls) = Len(rows[s].urls) /\ r <= s

Unaliased(rows) == {r \in DOMAIN rows : rows[r].alias = 0}

GroupsOf(rows) ==
    {{r \in Unaliased(rows) : Key(rows[r].name) = k} : k \in {Key(n) : n \in Names}}
        \cup {{r \in Unaliased(rows) : rows[r].token = t} :
                t \in {identityTokenFromUrl(u) : u \in Urls} \ {NoBoardToken}}

PairsOf(rows) ==
    UNION {{<<CanonicalOf(G, rows), s>> : s \in G \ {CanonicalOf(G, rows)}} :
              G \in {g \in GroupsOf(rows) : Cardinality(g) > 1}}

MergesOf(rows) == {q \in PairsOf(rows) : shouldAutoMerge(assessPair(rows[q[1]], rows[q[2]]))}

\* CompanyIdentityService.resolve: everything is decided on the rows read first.
ResolveAliases(p) ==
    /\ write[p] = NoWrite /\ writes < MaxWrites
    /\ MergesOf(company) # {}
    /\ BeginWrite(p, [pc |-> "resolve", todo |-> MergesOf(company)])
    /\ resolvedTwice' = (resolvedTwice \/ \E q \in Writers : write[q].pc = "resolve")
    /\ UNCHANGED <<company, overlapped, replaced>>

MergeOne(p) ==
    /\ write[p].pc = "resolve"
    /\ \E q \in write[p].todo :
          /\ company' = [company EXCEPT ![q[2]].alias = q[1]]
          /\ Then(p, IF write[p].todo = {q} THEN NoWrite ELSE [write[p] EXCEPT !.todo = @ \ {q}])
    /\ UNCHANGED <<overlapped, replaced, resolvedTwice>>

\* The API dies under a request.
WriterDies(p) ==
    /\ write[p] # NoWrite
    /\ Then(p, NoWrite)
    /\ UNCHANGED <<company, overlapped, replaced, resolvedTwice>>

-----------------------------------------------------------------------------
RegistryStep(p) ==
    \/ \E l \in Listings :
          \/ BoardByAts(p, l.name, l.url)
          \/ CreateByHand(p, l.name, l.site, l.url)
          \/ BulkDiscover(p, l.name, l.site, l.url)
    \/ BoardByName(p) \/ BoardUpgrade(p) \/ InsertRow(p) \/ Enrich(p)
    \/ \E r \in Row, f \in ProbeResults : ApplyResult(p, r, f.site, f.board, f.page)
    \/ ApplyWrite(p)
    \/ (\E r \in Row : StartCrawl(p, r)) \/ updateConfidenceAfterCrawl(p)
    \/ CorrectAts(p) \/ CorrectOne(p)
    \/ ResolveAliases(p) \/ MergeOne(p)
    \/ WriterDies(p)

RegistryNext ==
    \/ \E p \in Writers : RegistryStep(p)
    \/ \E r \in Row : BackfillToken(r) \/ \E u \in Urls : JobArrives(r, u)

RegistrySpec == RegistryInit /\ [][RegistryNext]_registryVars

-----------------------------------------------------------------------------
\* A board and its company find each other (companies.repository.ts:37): next to a
\* row created by a board there is an older row of the same identity only if somebody
\* was creating it at that moment, or its stored name does not begin with its key, or
\* so many older names begin with it that the prefix query does not come to it.
BoardsFindTheirCompany ==
    \A r, s \in Row :
        s < r /\ company[r].by = "board" /\ Key(company[s].name) = Key(company[r].name) =>
            \/ ~company[s].name.plain \/ Crowded(s, Key(company[s].name))
            \/ r \in overlapped \/ s \in overlapped

\* Every company is crawled through its board or probed again, whatever order
\* probes, crawls and board jobs write its stage and its board in; the exception is
\* a row whose recorded board was replaced by another: by the conflict service, by a
\* board job that had read the row before its board was known, or by a probe.
NobodyFallsThrough == \A r \in Row \ replaced : Crawled(r) \/ Probed(r)

\* aliasOf leads to a company: no rows point at each other in a circle, unless
\* two resolutions decided on different counts at once.
AliasesEnd ==
    resolvedTwice \/ \A S \in (SUBSET Row) \ {{}} : \E r \in S : company[r].alias \notin S

\* Nothing drops out of discovery: a company is in a queue, or an alias of one
\* that is not an alias of it in turn.
NobodyIsLost == NobodyFallsThrough /\ AliasesEnd
=============================================================================
