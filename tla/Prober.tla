------------------------------- MODULE Prober -------------------------------
(***************************************************************************)
(* prober.ts: what a probe concludes about a company from what it can      *)
(* fetch.  A web is what each request returns: a link is the board it      *)
(* names, or NoBoard, together with whether it looks like a career page.   *)
(* Requests that fail return nothing.                                      *)
(***************************************************************************)
EXTENDS Integers, Sequences, SequencesExt, FiniteSets

CONSTANT Webs     \* what companies may have on the web, see probeCompany

Providers7 == <<"GREENHOUSE", "LEVER", "ASHBY", "WORKABLE", "SMARTRECRUITERS", "RECRUITEE", "BREEZY">>

\* A spelling of the name is the answer of each provider, in their order of market share.
ASSUME WebConstants ==
    \A w \in Webs : w.slugs \in Seq([DOMAIN Providers7 -> {"none", "empty", "live"}])

VARIABLES
    web,      \* what there is of the company being probed
    probed    \* what the probe concluded

probeVars == <<web, probed>>

NoBoard == "none"
LinkLimit == 4

\* resolveUrl: a link that does not answer is nothing.
Alive(links) == SelectSeq(links, LAMBDA l : l.alive)

\* extractCareerLinks: frames before anchors, of which the first four are tried.
Tried(page) == LET links == page.frames \o page.anchors
               IN SubSeq(links, 1, IF Len(links) < LinkLimit THEN Len(links) ELSE LinkLimit)

FirstBoard(links) ==
    LET S == {i \in DOMAIN links : links[i].board # NoBoard}
    IN IF S = {} THEN NoBoard ELSE links[CHOOSE i \in S : \A k \in S : i <= k].board

-----------------------------------------------------------------------------
\* guessAtsToken.  A slug is the answers of the providers, in their order of market
\* share: "none", an "empty" board or a "live" one.  Of a provider that answers
\* every name with an empty board only a live board counts.
Permissive == {"WORKABLE", "SMARTRECRUITERS"}

validate(provider, answer) == answer = "live" \/ (answer = "empty" /\ provider \notin Permissive)

FirstWith(slug, answer) ==
    LET S == {i \in DOMAIN slug : slug[i] = answer /\ validate(Providers7[i], answer)}
    IN IF S = {} THEN NoBoard ELSE Providers7[CHOOSE i \in S : \A k \in S : i <= k]

\* MUTANT of guessSlug: the first board that exists wins
firstPastThePost(slug) ==
    LET S == {i \in DOMAIN slug : validate(Providers7[i], slug[i])}
    IN IF S = {} THEN NoBoard ELSE Providers7[CHOOSE i \in S : \A k \in S : i <= k]

\* A live board beats an empty one, within one spelling of the name.
guessSlug(slug) ==
    IF FirstWith(slug, "live") # NoBoard THEN FirstWith(slug, "live") ELSE FirstWith(slug, "empty")

guessAtsToken(slugs) ==
    LET S == {i \in DOMAIN slugs : guessSlug(slugs[i]) # NoBoard}
    IN IF S = {} THEN NoBoard ELSE guessSlug(slugs[CHOOSE i \in S : \A k \in S : i <= k])

-----------------------------------------------------------------------------
\* probeCompany: the hint, the links of the homepage, the usual paths, the links of
\* the career page, and at last the guess; each only while no board is known.
\* The web w is a record: hint (a link, or NoLink), home and career (pages, or
\* NoPage), path (the first usual path that answers, or NoLink), slugs.
NoLink == [alive |-> FALSE, board |-> NoBoard, career |-> FALSE]
NoPage == [frames |-> <<>>, anchors |-> <<>>, alive |-> FALSE]

\* The homepage is left at the first board; before it the first link that looks
\* like a career page is kept.
HomeLinks(home) ==
    LET links == Alive(Tried(home))
        S == {i \in DOMAIN links : links[i].board # NoBoard}
    IN IF S = {} THEN links ELSE SubSeq(links, 1, CHOOSE i \in S : \A k \in S : i <= k)

probeCompany(w) ==
    LET hinted == IF w.hint.alive THEN w.hint.board ELSE NoBoard
        home == IF w.home.alive /\ hinted = NoBoard THEN HomeLinks(w.home) ELSE <<>>
        linked == FirstBoard(home)
        careerLink == \E i \in DOMAIN home : home[i].career \/ home[i].board # NoBoard
        pathTried == w.home.alive /\ hinted = NoBoard /\ linked = NoBoard /\ ~careerLink
        onPath == IF pathTried /\ w.path.alive THEN w.path.board ELSE NoBoard
        page == hinted # NoBoard \/ careerLink \/ (pathTried /\ w.path.alive)
        known == CHOOSE b \in {hinted, linked, onPath} :
                    \/ b # NoBoard
                    \/ {hinted, linked, onPath} = {NoBoard}
        inCareer == IF known = NoBoard /\ page /\ w.career.alive
                    THEN FirstBoard(Tried(w.career)) ELSE NoBoard
        board == CASE known # NoBoard -> known
                   [] inCareer # NoBoard -> inCareer
                   [] OTHER -> guessAtsToken(w.slugs)
    IN [websiteVerified |-> w.home.alive, careerPage |-> page, board |-> board,
        guessed |-> known = NoBoard /\ inCareer = NoBoard /\ board # NoBoard]

-----------------------------------------------------------------------------
NotProbed == [websiteVerified |-> FALSE, careerPage |-> FALSE, board |-> NoBoard, guessed |-> FALSE]

ProbeInit == web \in Webs /\ probed = NotProbed
ProbeNext == probed' = probeCompany(web) /\ UNCHANGED web
ProbeSpec == ProbeInit /\ [][ProbeNext]_probeVars

\* The slug has a live board, or b is its live board.
IsLive(slug) == \E k \in DOMAIN slug : slug[k] = "live"
IsLiveAt(slug, b) == \E k \in DOMAIN slug : Providers7[k] = b /\ slug[k] = "live"

\* "One with ACTUAL POSTINGS always beats one with an empty shell" (prober.ts:363):
\* where a name has a live board somewhere, the guess is a live board, unless an
\* earlier spelling of the name answers with a shell and with nothing live.  And
\* only a company that says nothing of its board is guessed at.
LivePostingsBeatShells ==
    probed.guessed =>
        /\ ~web.hint.alive \/ web.hint.board = NoBoard
        /\ \A i \in DOMAIN web.slugs : IsLive(web.slugs[i]) =>
              \E k \in 1 .. i : /\ guessSlug(web.slugs[k]) = probed.board
                                /\ k = i => IsLiveAt(web.slugs[k], probed.board)
=============================================================================
