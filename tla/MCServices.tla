----------------------------- MODULE MCServices -----------------------------
(***************************************************************************)
(* The services around the job store, each in an instance of its own.      *)
(* They share no state: focus names the service that moves, the others     *)
(* stay in one fixed initial state, so that one run explores the sum of    *)
(* the services and not their product.                                     *)
(***************************************************************************)
EXTENDS AuthSessions, ApplicationTracker, CompanyRegistry, CareerPages, Prober, BoardWalk,
        Hydration, AiSpend, Outreach, Surfaces, DailyBrief, Mailbox, LinkedInAlert, TLC

CONSTANTS c1, c2, t1, t2, t3, w1, w2, p1, p2, a1, a2

-----------------------------------------------------------------------------
\* Companies: two spellings of one name, one that only begins like it, and a name
\* of abbreviations.
Long == [words |-> <<"zensar", "technologies">>, plain |-> TRUE]
Short == [words |-> <<"zensar">>, plain |-> TRUE]
Longer == [words |-> <<"zensar", "labs">>, plain |-> TRUE]
Dotted == [words |-> <<"l", "t">>, plain |-> FALSE]
U(h, s, g) == [host |-> h, sub |-> s, seg |-> g]
Tenant == U("greenhouse", "none", "zensar")
Zoho == U("zohorecruit", "z", "none")
Route == U("workable", "apply", "j")
Bare == U("greenhouse", "none", "none")
MCUrls == {Tenant}
L(n, w, u) == [name |-> n, site |-> w, url |-> u]
MCNames == {Long, Short, Longer, Dotted}
MCListings == {L(Short, "none", NoUrl), L(Long, "s", Tenant), L(Short, "none", Route),
               L(Longer, "none", NoUrl), L(Dotted, "none", Bare)}
Result(s, b, g) == [site |-> s, board |-> b, page |-> g]
MCProbeResults == {Result("none", UNKNOWN, FALSE), Result("s", UNKNOWN, TRUE),
                   Result("none", detectAts(Tenant), TRUE), Result("s", detectAts(Zoho), TRUE)}
MCSymmetry == Permutations({w1, w2})
MCRegistered == {<<>>, <<L(Short, "none", NoUrl), L(Long, "s", Tenant)>>,
                 <<L(Longer, "none", NoUrl), L(Short, "none", NoUrl)>>}

\* Career pages: revision 2 of a page is a shell, version 2 reads fancy blocks.
Block(t, k, s) == [title |-> t, link |-> k, signals |-> s]
MCBlocks == [plain |-> Block("role", "job", {}), fancy |-> Block("fancy", "job", {"location"}),
             weak |-> Block("role", "other", {"location"})]
MCContents == <<{"plain", "weak", "fancy"}, {"plain"}>>
MCVersions == <<{"role"}, {"role", "fancy"}>>

-----------------------------------------------------------------------------
\* Boards, by provider.
W(id, country, indian, exact, days, start) ==
    [id |-> id, country |-> country, looksIndian |-> indian, postedOn |-> [exact |-> exact,
     days |-> days], startDays |-> start, body |-> {"text"}, place |-> {"remote"}]
R(id, listed, says, mode, place) ==
    [id |-> id, listed |-> listed, body |-> says, mode |-> mode, place |-> place,
     inList |-> id = "r1"]
F(id, role, url) == [id |-> id, company |-> TRUE, link |-> url, role |-> role]
K(id, title, where) ==
    [id |-> id, whole |-> TRUE, title |-> title, where |-> where, body |-> {"text"}]
H(id, says, header) ==
    [id |-> id, says |-> says, header |-> header, body |-> {"text"}, place |-> {"remote"}]
Fresh == W("w1", "india", TRUE, TRUE, 3, 3)
Rows == <<R("r1", TRUE, {"opening", "description", "descriptionBody"}, "REMOTE", {"hybrid"}),
          R("r2", FALSE, {}, "unspecified", {"hybrid"}),
          R("r3", TRUE, {"descriptionBody"}, "unspecified", {})>>
\* A listing over the page cap, with every reason to leave a row out, and a short one.
WorkdayBoards ==
    {<<Fresh, W("w2", "abroad", FALSE, FALSE, 30, 99), W("w3", "indianCity", TRUE, FALSE, 30, 40),
       W("w4", "india", FALSE, TRUE, 2, 2), W("w5", "india", TRUE, FALSE, 30, 90),
       W("w6", "india", TRUE, FALSE, 30, NoDays)>>,
     <<Fresh>>}
Feeds == {<< <<F("a", TRUE, TRUE), F("b", TRUE, TRUE), F("c", FALSE, TRUE),
               F("d", TRUE, FALSE), F("e", TRUE, TRUE)>>,
             <<F("a", TRUE, TRUE), F("n", FALSE, TRUE)>> >>}
MCBoards ==
    [k \in Providers \ {"WORKDAY"} |-> {Rows}] @@ [k \in Aggregators |-> Feeds]
    @@ [k \in {"WORKDAY"} |-> WorkdayBoards]
    @@ [k \in {"remoteok"} |-> {<<K("k1", "job", "remote"), K("k2", "shout", "remote"),
                                  K("k3", "job", "locality")>>}]
    @@ [k \in {"hn-hiring"} |-> {<<H("h1", {"role", "india"}, <<"company", "role">>),
                                   H("h2", {"role", "locked"}, <<"company", "role">>),
                                   H("h3", {"role", "india"}, <<"url", "role">>)>>}]
Kind(legacy, facet, stuck) == [legacy |-> legacy, facet |-> facet, stuck |-> stuck]
MCTenants == {NoTenant, Kind(TRUE, FALSE, FALSE), Kind(FALSE, TRUE, FALSE), Kind(FALSE, FALSE, TRUE)}
MCArrivals == {W("w0", "india", TRUE, TRUE, 0, 0)}
MCQueryPages == [adzuna |-> 3, jooble |-> 2, freehire |-> 3]

-----------------------------------------------------------------------------
\* Descriptions: r1 and r2 are one posting listed twice, r3 shares their
\* externalId under another source.
KeyAt(s) == [source |-> s, ext |-> "x"]
MCKeyOfRow == [r \in {"r1", "r2"} |-> KeyAt("workday")] @@ [r \in {"r3"} |-> KeyAt("page")]
Body(f, p) == [form |-> f, prov |-> p]
MCBrings == [r1 |-> {Body("stub", "none"), Body("long", "none")}, r2 |-> {Body("stub", "none")},
             r3 |-> {Body("stub", "MISSING"), Body("long", "LIST")}]
MCLengthOf == [none |-> 0, unread |-> 0, stub |-> 94, teaser |-> 120, page |-> 900, long |-> 2000]

\* Outreach: an organisation of one member and one contributor, two sites, two blogs.
P(says, works, reach, skills, near) ==
    [says |-> says, works |-> works, reach |-> reach, skills |-> skills, near |-> near]
MCProfiles == [h1 |-> P({"leader"}, TRUE, "email", {"ts"}, TRUE),
               h2 |-> P({"recruiter"}, FALSE, "blog", {}, FALSE)]
MCGitHub == [hit |-> 2, members |-> <<"h2">>, repos |-> <<[h1 |-> 25, h2 |-> 3]>>]
Address(k, own) == [kind |-> k, own |-> own]
MCSite == <<[exists |-> TRUE, contact |-> FALSE,
             emails |-> {Address("RECRUITING", TRUE), Address("junk", TRUE)}],
            [exists |-> TRUE, contact |-> TRUE,
             emails |-> {Address("GENERAL", TRUE), Address("OTHER", FALSE)}]>>
MCBlogs == <<0, 2>>

-----------------------------------------------------------------------------
\* The pages of decisions: jobs that differ in everything the pages sort by.
Fact(fit, age, place, ref, watchedBy, trend, trust, emb) ==
    [fit |-> fit, age |-> age, place |-> place, referral |-> ref, watched |-> watchedBy,
     trend |-> trend, trust |-> trust, embedded |-> emb]
MCFacts == [j1 |-> Fact(90, 1, "india", "NONE", FALSE, "GROWING", 95, TRUE),
            j2 |-> Fact(80, 5, "remote", "FOUND", TRUE, "DECLINING", 70, TRUE),
            j3 |-> Fact(70, 30, "india", "CONTACTED", FALSE, "STABLE", NoScore, TRUE),
            j4 |-> Fact(60, 2, "india", "NONE", FALSE, "none", 90, TRUE),
            j5 |-> Fact(85, 50, "abroad", "NONE", FALSE, "none", 90, FALSE)]
Decision(v, c, o) == [verdict |-> v, code |-> c, opportunity |-> o]
MCDecisions == {Decision("APPLY", "TARGET_ROLE_ELIGIBLE", 80),
                Decision("CONSIDER", "TARGET_ROLE_WEAK_STACK", 70),
                Decision("SKIP", "SCORE_BELOW_BAR", 50), Decision("SKIP", "CORE_STACK_MISMATCH", 62)}
Gate(v, c) == [verdict |-> v, code |-> c]
MCGate == {Gate("SKIP", "TARGET_ROLE_TOO_SENIOR"), Gate("SKIP", "CAREER_PATH_EXCLUDED"),
           Gate("NEEDS_REVIEW", "AMBIGUOUS_NEEDS_REVIEW")}
T(k, s) == [kind |-> k, stars |-> s, job |-> "none"]
MCDesk == [due |-> {T("REPLY", 5), T("FOLLOW_UP", 4)}, tailored |-> {"j2"},
           hasMaster |-> FALSE, gaps |-> 3]
Judged(v, c, o) == [verdict |-> v, code |-> c, opportunity |-> o, decidedAt |-> TRUE]
Wrong == Judged("SKIP", "DEVELOPMENT_WRONG_SPECIALIZATION", NoScore)
NoRows == [j \in Listed |-> NoRow]
MCEarlier == {NoRows, [j1 |-> Wrong, j2 |-> Wrong, j3 |-> Wrong,
                       j4 |-> [NoRow EXCEPT !.verdict = "undecided"],
                       j5 |-> Judged("CONSIDER", "TARGET_ROLE_ELIGIBLE", 75)]}

\* One notification, about the one tracked job.
MCNotifications == [n1 |-> "j1"]

\* The digest: three matches worth a message, two of one user.
M(u, s) == [user |-> u, score |-> s, qualifies |-> TRUE]
MCTold == [m1 |-> M("u1", 70), m2 |-> M("u1", 65), m3 |-> M("u2", 70)]

\* Alerts of two cards, of two jobs or of one, each with its title in its first or
\* second link, in parts of it, or in none, and with or without a line ahead of the
\* link; between the cards and after them a line of nobody's; short lines or long.
l(s) == [is |-> "link", says |-> s]
t(s) == [is |-> "line", says |-> s]
MCCards ==
    {<<l("title"), t("company"), t("place"), t("ago")>>, <<l("title"), t("company")>>,
     <<l("nothing"), l("title"), t("company"), t("aged"), l("view")>>,
     <<l("parts"), t("view"), t("place")>>, <<l("title"), t("place"), t("ago")>>,
     <<t("heading"), l("title"), t("chrome"), t("ago")>>, <<>>}
MCStray == {<<>>, <<t("footer")>>, <<t("place"), t("ago")>>}
MCMail(a, x, second, b, y, width) ==
    LET Tag(of, lines) == [i \in DOMAIN lines |-> <<of, lines[i]>>]
        all == Tag(1, a) \o Tag(0, x) \o Tag(second, b) \o Tag(0, y)
    IN [i \in DOMAIN all |-> [is |-> all[i][2].is, says |-> all[i][2].says, of |-> all[i][1],
                              pos |-> width * i]]
MCMails ==
    {MCMail(a, x, second, b, y, width) :
        a \in MCCards, x \in MCStray, second \in {1, 2}, b \in MCCards, y \in MCStray, width \in {1, 2}}

\* The web of a company: any answers of three providers to two spellings of its
\* name; or a board named by the hint, the homepage, the usual path, or the page
\* its homepage links to.
Answers == {"none", "empty", "live"}
Slug(a, b, c) == <<a, "none", "none", b, "none", c, "none">>
Unsaid == [hint |-> NoLink, home |-> NoPage, career |-> NoPage, path |-> NoLink, slugs |-> <<>>]
Named(b) == [alive |-> TRUE, board |-> b, career |-> b = NoBoard]
Page(frame, anchor) == [alive |-> TRUE, frames |-> <<frame>>, anchors |-> <<anchor>>]
MCWebs ==
    {Unsaid} \cup {[Unsaid EXCEPT !.slugs = <<Slug(a, b, c), Slug(d, e, f)>>] : a, b, c, d, e, f \in Answers}
    \cup {[hint |-> hint, home |-> home, career |-> career, path |-> path,
           slugs |-> <<Slug("empty", "none", "live")>>] :
            hint \in {NoLink, Named("LEVER")}, path \in {NoLink, Named("ASHBY"), Named(NoBoard)},
            home \in {NoPage, Page(NoLink, NoLink), Page(Named("BREEZY"), NoLink),
                      Page(NoLink, Named(NoBoard))},
            career \in {NoPage, Page(Named(NoBoard), Named("WORKABLE"))}}

-----------------------------------------------------------------------------
VARIABLE focus

Services == {"auth", "tracker", "registry", "pages", "boards", "bodies", "spend", "outreach",
             "surfaces", "brief", "mailbox", "alert", "probe"}

Init ==
    /\ focus \in Services
    /\ AuthInit /\ TrackInit /\ BoardInit /\ OutreachInit /\ MailInit
    /\ RegistryInit /\ (focus # "registry" => company = <<>>)
    /\ PagesInit /\ watched \subseteq IF focus = "pages" THEN {p2} ELSE {}
    /\ HydrationInit /\ (focus # "bodies" => \A r \in Postings : body[r].form = "stub")
    /\ SpendInit /\ (focus # "spend" => priced)
    /\ SurfacesInit /\ (focus # "surfaces" => row = NoRows)
    /\ BriefInit /\ (focus # "brief" => configured)
    /\ AlertInit /\ (focus # "alert" => alert = <<>>)
    /\ ProbeInit /\ (focus # "probe" => web = Unsaid)

\* Every service but s rests.
Rests(s) ==
    /\ UNCHANGED focus
    /\ IF s = "auth" THEN TRUE ELSE UNCHANGED authVars
    /\ IF s = "tracker" THEN TRUE ELSE UNCHANGED trackVars
    /\ IF s = "registry" THEN TRUE ELSE UNCHANGED registryVars
    /\ IF s = "pages" THEN TRUE ELSE UNCHANGED pagesVars
    /\ IF s = "boards" THEN TRUE ELSE UNCHANGED boardVars
    /\ IF s = "bodies" THEN TRUE ELSE UNCHANGED hydVars
    /\ IF s = "spend" THEN TRUE ELSE UNCHANGED spendVars
    /\ IF s = "outreach" THEN TRUE ELSE UNCHANGED outreachVars
    /\ IF s = "surfaces" THEN TRUE ELSE UNCHANGED surfaceVars
    /\ IF s = "brief" THEN TRUE ELSE UNCHANGED briefVars
    /\ IF s = "mailbox" THEN TRUE ELSE UNCHANGED mailVars
    /\ IF s = "alert" THEN TRUE ELSE UNCHANGED alertVars
    /\ IF s = "probe" THEN TRUE ELSE UNCHANGED probeVars

Next ==
    \/ focus = "auth" /\ AuthNext /\ Rests("auth")
    \/ focus = "tracker" /\ TrackNext /\ Rests("tracker")
    \/ focus = "registry" /\ RegistryNext /\ Rests("registry")
    \/ focus = "pages" /\ PagesNext /\ Rests("pages")
    \/ focus = "boards" /\ BoardNext /\ Rests("boards")
    \/ focus = "bodies" /\ HydrationNext /\ Rests("bodies")
    \/ focus = "spend" /\ SpendNext /\ Rests("spend")
    \/ focus = "outreach" /\ OutreachNext /\ Rests("outreach")
    \/ focus = "surfaces" /\ SurfacesNext /\ Rests("surfaces")
    \/ focus = "brief" /\ BriefNext /\ Rests("brief")
    \/ focus = "mailbox" /\ MailNext /\ Rests("mailbox")
    \/ focus = "alert" /\ AlertNext /\ Rests("alert")
    \/ focus = "probe" /\ ProbeNext /\ Rests("probe")

\* What tells two states of a run apart: only the service that moves.
MCView ==
    CASE focus = "auth" -> <<focus, authVars>> [] focus = "tracker" -> <<focus, trackVars>>
      [] focus = "registry" -> <<focus, registryVars>> [] focus = "pages" -> <<focus, pagesVars>>
      [] focus = "boards" -> <<focus, boardVars>> [] focus = "bodies" -> <<focus, hydVars>>
      [] focus = "spend" -> <<focus, spendVars>> [] focus = "outreach" -> <<focus, outreachVars>>
      [] focus = "surfaces" -> <<focus, surfaceVars>> [] focus = "brief" -> <<focus, briefVars>>
      [] focus = "mailbox" -> <<focus, mailVars>> [] focus = "alert" -> <<focus, alertVars>>
      [] focus = "probe" -> <<focus, probeVars>>

Spec == Init /\ [][Next]_<<focus, authVars, trackVars, registryVars, pagesVars, boardVars, hydVars,
                           spendVars, outreachVars, surfaceVars, briefVars, mailVars,
                           alertVars, probeVars>>
=============================================================================
