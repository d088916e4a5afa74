------------------------------ MODULE Outreach ------------------------------
(***************************************************************************)
(* The referral engine: who is worth one message at a company, the ways in *)
(* when nobody is, and the small CRM of the people already written to.     *)
(* GitHub and the company's pages are given as values; what is modelled is *)
(* the walk over them under a call budget, the caches, and the requests,   *)
(* each of which reads a contact, waits, and writes it.                    *)
(***************************************************************************)
EXTENDS Integers, FiniteSets, SequencesExt, FiniteSetsExt, Functions

CONSTANTS Askers,        \* requests that may be in flight at once
          Logins,         \* GitHub accounts
          Profiles,       \* the public profile of each account
          GitHub,         \* [hit, members, repos]: the organisation there
          Quotas,         \* calls GitHub may still answer in a lookup
          MaxCalls,       \* the budget of one lookup
          MaxPeople,      \* profiles hydrated in one lookup
          Site, Blogs,    \* the company's own pages, its candidate blogs
          Answering,      \* the sets of pages that may answer a probe
          UserSkills,
          FRESH_DAYS, FIRST_NUDGE_DAYS, SECOND_NUDGE_AFTER_DAYS, MAX_NUDGES,
          MaxDay, MaxFollowUps, MaxRequests   \* bounds

ASSUME OutreachConstants == {FIRST_NUDGE_DAYS, SECOND_NUDGE_AFTER_DAYS} \subseteq Nat

VARIABLES contacts, githubOrg, channels, day, asked,
          requests   \* how many contacts were acted on, for the bound

outreachVars == <<contacts, githubOrg, channels, day, asked, requests>>

NoContact == [status |-> "none"]
NoDay == -1
Nobody == [op |-> "nothing"]
UnknownChannels == [probedAt |-> NoDay]
ReferralStatus == {"SUGGESTED", "DRAFTED", "CONTACTED", "REPLIED", "ARCHIVED"}
Known(h) == contacts[h] # NoContact

----------------------------------------------------------------------------
(* Ranking: every input is something the person published.                 *)

inferRole(p) ==
    IF "recruiter" \in p.says THEN "RECRUITER"
    ELSE IF "leader" \in p.says THEN "HIRING_MANAGER" ELSE "ENGINEER"

Capped(n, most) == IF n > most THEN most ELSE n
Times(true, n) == IF true THEN n ELSE 0
ByReach(reach, email, blog, twitter) ==
    [email |-> email, blog |-> blog, twitter |-> twitter, none |-> 0][reach]

sharedTech(p) == Capped(Cardinality(p.skills \cap UserSkills), 4)

personScore(p, member, commits) ==
    Capped(Times(member, 30) + 15
           + [RECRUITER |-> 12, HIRING_MANAGER |-> 10, ENGINEER |-> 0][inferRole(p)]
           + ByReach(p.reach, 15, 6, 4) + Capped(5 * sharedTech(p), 20)
           + Times("hiring" \in p.says, 8) + Times(p.near, 4)
           + Times(commits >= 20, 4), 100)

----------------------------------------------------------------------------
(* One GitHub lookup. Calls are numbered: those past the quota come back   *)
(* empty, those past the budget are never made.         *)

Served(call, quota) == call <= quota /\ call <= MaxCalls

\* The call after which the organisation is known, 0 when it never is.
resolveOrg(quota) == IF GitHub.hit > 0 /\ Served(GitHub.hit, quota) THEN GitHub.hit ELSE 0

listPublicMembers(at, quota) ==
    IF Served(at + 1, quota) THEN GitHub.members ELSE <<>>

ReposRead(at, quota) ==
    IF Served(at + 2, quota)
    THEN {i \in DOMAIN GitHub.repos : Served(at + 2 + i, quota)} ELSE {}

topContributors(at, quota) ==
    [h \in Logins |-> SumSet({0} \cup
        {GitHub.repos[i][h] : i \in ReposRead(at, quota)})]

orderCandidates(members, commits) ==
    LET others == {h \in Logins : commits[h] > 0 /\ h \notin Range(members)}
        ranked == SetToSortSeq(others, LAMBDA g, h : commits[g] > commits[h])
        all    == members \o ranked
    IN SubSeq(all, 1, Capped(Len(all), MaxPeople))

discoverGithubPeople(quota) ==
    LET at     == resolveOrg(quota)
        member == listPublicMembers(at, quota)
        commit == topContributors(at, quota)
        line   == orderCandidates(member, commit)
        first  == at + 2 + (IF Served(at + 2, quota) THEN Len(GitHub.repos) ELSE 0)
        read   == {i \in DOMAIN line : Served(first + i, quota)}
        Kept(h)== h \in Range(member) \/ Profiles[h].works
    IN [org |-> at > 0,
        people |-> IF at = 0 THEN {}
                   ELSE {[login |-> h, role |-> inferRole(Profiles[h]),
                          member |-> h \in Range(member), commits |-> commit[h],
                          shared |-> sharedTech(Profiles[h]), reach |-> Profiles[h].reach,
                          priority |-> personScore(Profiles[h], h \in Range(member), commit[h])]
                         : h \in {line[i] : i \in read} \cap {g \in Logins : Kept(g)}}]

\* rankReferrals, and the eight that are kept.
rankReferrals(people) ==
    LET ranked == SetToSortSeq(people, LAMBDA p, q : p.priority > q.priority)
    IN SubSeq(ranked, 1, Capped(Len(ranked), 8))

----------------------------------------------------------------------------
(* The company's own channels, read from the pages that answer.            *)

KindOrder == <<"RECRUITING", "GENERAL", "OTHER">>
KindRank(kind) == CHOOSE i \in DOMAIN KindOrder : KindOrder[i] = kind

\* Addresses of the company's own domain, recruiting mailboxes first.
extractEmails(page) == {e \in page.emails : e.own /\ e.kind # "junk"}

discoverCompanyChannels(answering) ==
    LET found  == UNION {extractEmails(Site[i]) : i \in answering}
        sorted == SetToSortSeq(found, LAMBDA a, b : KindRank(a.kind) < KindRank(b.kind))
    IN [emails |-> SubSeq(sorted, 1, Capped(Len(sorted), 6)),
        contactPage |-> \E i \in answering : Site[i].contact]

\* The first of three candidate blogs that names a person.
discoverBlogAuthors(answering) ==
    LET named == {i \in answering : i <= 3 /\ Blogs[i] > 0}
    IN IF named = {} THEN 0 ELSE Blogs[Min(named)]

\* A probe that fails reads as one that found nothing, and is dated all the same.
ProbedChannels(pages, blogs) ==
    discoverCompanyChannels(pages) @@
    [blogAuthors |-> discoverBlogAuthors(blogs), probedAt |-> day]

channelsFresh == channels # UnknownChannels /\ day - channels.probedAt < FRESH_DAYS

----------------------------------------------------------------------------
(* The ladder of ways in, which always ends in the application itself.     *)

FirstSuch(seq, Test(_)) ==
    LET hits == {i \in DOMAIN seq :
                   Test(seq[i]) /\ \A j \in DOMAIN seq : Test(seq[j]) => i <= j}
    IN IF hits = {} THEN [login |-> "nobody", role |-> "none"]
       ELSE seq[CHOOSE i \in hits : TRUE]
Found(c) == c.login # "nobody"

Rung(kind, c) == [kind |-> kind, who |-> c.login]
Way(kind, open) == IF open THEN <<[kind |-> kind, who |-> "company"]>> ELSE <<>>
Person(kind, c) == IF Found(c) THEN <<Rung(kind, c)>> ELSE <<>>

buildContactLadder(people, ch) ==
    LET referrer  == FirstSuch(people, LAMBDA c : c.role # "RECRUITER")
        recruiter == FirstSuch(people, LAMBDA c : c.role = "RECRUITER"
                                                  /\ c.login # referrer.login)
        manager   == FirstSuch(people, LAMBDA c : c.role = "HIRING_MANAGER"
                                 /\ c.login \notin {referrer.login, recruiter.login})
        Mail(Of(_)) == \E i \in DOMAIN ch.emails : Of(ch.emails[i].kind)
    IN Person("REFERRAL", referrer) \o Person("RECRUITER", recruiter)
       \o Person("HIRING_MANAGER", manager)
       \o Way("ENG_BLOG", ch.blogAuthors > 0)
       \o Way("COMPANY_EMAIL", Mail(LAMBDA k : k = "RECRUITING"))
       \o Way("CAREERS_PAGE", Site[1].exists)
       \o Way("CONTACT_PAGE", ch.contactPage \/ Mail(LAMBDA k : k # "RECRUITING"))
       \o Way("APPLY", TRUE)

\* The rows of the company, best first.
Shortlist(rows) ==
    SetToSortSeq({rows[h].who : h \in {g \in Logins : rows[g] # NoContact}},
                 LAMBDA p, q : p.priority > q.priority)

----------------------------------------------------------------------------
(* The cadence: a nudge after some days of silence, a second, then rest.   *)

Wait(c) == IF c.followUps = 0 THEN FIRST_NUDGE_DAYS ELSE SECOND_NUDGE_AFTER_DAYS

\* The day silence is counted from: a contact without a date is counted from now.
lastTouch(c, now) ==
    IF c.lastFollowUp # NoDay THEN c.lastFollowUp
    ELSE IF c.contactedAt # NoDay THEN c.contactedAt ELSE now

nextOutreachAction(c, now) ==
    LET nudging == c.status = "CONTACTED" /\ c.followUps < MAX_NUDGES
        silent  == now - lastTouch(c, now) >= Wait(c)
        Says(action, due) == [action |-> action, due |-> due]
    IN CASE c.status = "REPLIED" -> Says("REPLIED", TRUE)
         [] c.status = "DRAFTED" -> Says("CONTACT", TRUE)
         [] nudging /\ silent ->
              Says(IF c.followUps >= 1 THEN "FOLLOW_UP_2" ELSE "FOLLOW_UP", TRUE)
         [] nudging /\ ~silent -> Says("AWAIT", FALSE)
         [] c.status = "CONTACTED" /\ ~nudging -> Says("RESTING", FALSE)
         [] OTHER -> Says("NONE", FALSE)

----------------------------------------------------------------------------
(* Requests: each reads, waits for a model or for GitHub, and writes.      *)

Ask(c, request) == asked[c] = Nobody /\ asked' = [asked EXCEPT ![c] = request]
Answer(c) == asked' = [asked EXCEPT ![c] = Nobody]

cacheFresh ==
    /\ \E h \in Logins : Known(h)
    /\ day - Max({contacts[h].createdAt : h \in {g \in Logins : Known(g)}}) < FRESH_DAYS

\* A load whose shortlist is fresh is answered from the rows.
ForJob(c) ==
    /\ asked[c] = Nobody
    /\ \E pages \in Answering, blogs \in Answering :
         channels' = IF channelsFresh THEN channels
                     ELSE ProbedChannels(pages \cap DOMAIN Site, blogs \cap DOMAIN Blogs)
    /\ IF cacheFresh THEN UNCHANGED asked ELSE Ask(c, [op |-> "look"])
    /\ UNCHANGED <<contacts, githubOrg, day, requests>>

\* Facts are refreshed; the status, the draft, the dates and createdAt are kept.
Refreshed(h, who) ==
    IF Known(h) THEN [contacts[h] EXCEPT !.who = who]
    ELSE [status |-> "SUGGESTED", contactedAt |-> NoDay, repliedAt |-> NoDay,
          followUps |-> 0, lastFollowUp |-> NoDay, createdAt |-> day, who |-> who]

Discover(c) ==
    /\ asked[c].op = "look"
    /\ \E quota \in Quotas :
         LET gh     == discoverGithubPeople(quota)
             ranked == rankReferrals(gh.people)
         IN /\ githubOrg' = (githubOrg \/ gh.org)
            /\ contacts' = [h \in Logins |->
                 LET his == {i \in DOMAIN ranked : ranked[i].login = h}
                 IN IF his = {} THEN contacts[h] ELSE Refreshed(h, ranked[Min(his)])]
    /\ Answer(c) /\ UNCHANGED <<channels, day, requests>>

\* A draft, a status and a follow-up all start by reading the contact.
Read(c, op, h, status) ==
    /\ Known(h) /\ requests < MaxRequests /\ requests' = requests + 1
    /\ Ask(c, [op |-> op, h |-> h, status |-> status,
               seen |-> Restrict(contacts[h], {"status", "contactedAt", "repliedAt"})])
    /\ UNCHANGED <<contacts, githubOrg, channels, day>>

Drafting(c) == \E h \in Logins : Read(c, "draft", h, "DRAFTED")
SettingStatus(c) == \E h \in Logins, s \in ReferralStatus : Read(c, "set", h, s)
LoggingFollowUp(c) ==
    \E h \in Logins : contacts[h] # NoContact /\ contacts[h].followUps < MaxFollowUps
                      /\ Read(c, "follow", h, "CONTACTED")

\* MUTANT of draftStatus: a draft keeps only a reply.
AlwaysDrafted(seen) == IF seen.status = "REPLIED" THEN seen.status ELSE "DRAFTED"

\* "Drafting doesn't undo a real-world contact": judged by the row as it was read.
draftStatus(seen) ==
    IF seen.status \in {"CONTACTED", "REPLIED"} THEN seen.status ELSE "DRAFTED"

GenerateDraft(c) ==
    /\ asked[c].op = "draft"
    /\ contacts' = [contacts EXCEPT ![asked[c].h].status = draftStatus(asked[c].seen)]
    /\ Answer(c) /\ UNCHANGED <<githubOrg, channels, day, requests>>

\* The model answered nothing usable: the draft request fails and writes nothing.
DraftFails(c) ==
    /\ asked[c].op = "draft"
    /\ Answer(c) /\ UNCHANGED <<contacts, githubOrg, channels, day, requests>>

Dated(is, seenDate, now) == IF is /\ seenDate = NoDay THEN day ELSE now

SetStatus(c) ==
    LET r == asked[c] IN
    /\ r.op = "set"
    /\ contacts' = [contacts EXCEPT
         ![r.h].status = r.status,
         ![r.h].contactedAt = Dated(r.status = "CONTACTED", r.seen.contactedAt, @),
         ![r.h].repliedAt = Dated(r.status = "REPLIED", r.seen.repliedAt, @)]
    /\ Answer(c) /\ UNCHANGED <<githubOrg, channels, day, requests>>

\* Logging a follow-up implies contact was made; a reply is not downgraded.
afterFollowUp(row, seen) ==
    [row EXCEPT !.followUps = @ + 1, !.lastFollowUp = day,
                !.status = IF seen.status = "REPLIED" THEN @ ELSE "CONTACTED",
                !.contactedAt = Dated(TRUE, seen.contactedAt, @)]

LogFollowUp(c) ==
    /\ asked[c].op = "follow"
    /\ contacts[asked[c].h].followUps < MaxFollowUps
    /\ contacts' = [contacts EXCEPT
         ![asked[c].h] = afterFollowUp(@, asked[c].seen)]
    /\ Answer(c) /\ UNCHANGED <<githubOrg, channels, day, requests>>

NextDay ==
    /\ day < MaxDay /\ day' = day + 1
    /\ UNCHANGED <<contacts, githubOrg, channels, asked, requests>>

OutreachInit ==
    /\ contacts = [h \in Logins |-> NoContact] /\ githubOrg = FALSE
    /\ channels = UnknownChannels /\ day = 0
    /\ asked = [c \in Askers |-> Nobody] /\ requests = 0

OutreachNext ==
    \/ NextDay
    \/ \E c \in Askers :
         \/ ForJob(c) \/ Discover(c) \/ Drafting(c) \/ SettingStatus(c)
         \/ LoggingFollowUp(c) \/ GenerateDraft(c) \/ DraftFails(c)
         \/ SetStatus(c) \/ LogFollowUp(c)

OutreachSpec == OutreachInit /\ [][OutreachNext]_outreachVars

----------------------------------------------------------------------------
(* A contact that waits for a reply has the date its silence is counted    *)
(* from, and a reply has its own: whatever requests crossed, the cadence   *)
(* never falls back to "now", and the nudge a contact still has coming is  *)
(* due once its silence has lasted (referrals.service.ts setStatus,        *)
(* logFollowUp; referral-followup.ts).                                     *)
SilenceIsDated ==
    \A h \in Logins : Known(h) =>
       /\ contacts[h].status = "CONTACTED" => contacts[h].contactedAt # NoDay
       /\ contacts[h].status = "REPLIED" => contacts[h].repliedAt # NoDay
       /\ contacts[h].followUps > 0 => contacts[h].contactedAt # NoDay
       /\ contacts[h].status = "CONTACTED" /\ contacts[h].followUps < MAX_NUDGES =>
            nextOutreachAction(contacts[h],
                               lastTouch(contacts[h], day) + Wait(contacts[h])).due

Standing == [none |-> 0, SUGGESTED |-> 0, ARCHIVED |-> 0, DRAFTED |-> 0,
             CONTACTED |-> 1, REPLIED |-> 2]

(* What the user logged about the real world is undone only by the user,   *)
(* or by a request that had read the contact before it was logged: a draft *)
(* never costs a contact, a follow-up never costs a reply.                 *)
LoggedContactSurvives ==
    [][\A h \in Logins :
         Standing[contacts'[h].status] < Standing[contacts[h].status] =>
           \E c \in Askers :
              /\ asked[c] # Nobody /\ asked[c].op # "look" /\ asked[c].h = h
              /\ asked'[c] = Nobody
              /\ \/ asked[c].op = "set"
                 \/ Standing[asked[c].seen.status] < Standing[contacts[h].status]]_outreachVars

(* No two rungs of the ladder send the user to the same person, and the    *)
(* ladder shown never ends before the application (buildContactLadder).    *)
LadderAsksOnce ==
    channels # UnknownChannels =>
      LET ladder == buildContactLadder(Shortlist(contacts), channels)
      IN /\ Last(ladder).kind = "APPLY"
         /\ \A i, j \in DOMAIN ladder :
               i # j /\ ladder[i].who # "company" => ladder[i].who # ladder[j].who

(* Contacts are never lost, never undated and never asked twice: the three *)
(* properties above together.                                              *)
ContactsKeepFaith == [](SilenceIsDated /\ LadderAsksOnce) /\ LoggedContactSurvives
=============================================================================
