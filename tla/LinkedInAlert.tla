---------------------------- MODULE LinkedInAlert ---------------------------
(***************************************************************************)
(* A LinkedIn job alert becomes jobs (linkedin-alert.parser.ts).  An alert *)
(* is job links and lines of text, at their places in the markup.  A line  *)
(* belongs to a card or to none (a heading, a footer), a card may begin    *)
(* with its link or have lines before it; the parser knows neither.        *)
(***************************************************************************)
EXTENDS Integers, Sequences, SequencesExt

CONSTANTS
    Mails,       \* alerts: sequences of [is, says, of, pos], of = 0 for no card
    CARD_CHARS   \* how far behind its link a card is read (800)

\* One card after the other, and every link is a card's.
InOrder(mail) ==
    /\ \A i \in DOMAIN mail : mail[i].is = "link" => mail[i].of # 0
    /\ \A i, k \in DOMAIN mail :
          i < k => /\ mail[i].pos < mail[k].pos
                   /\ mail[i].of # 0 /\ mail[k].of # 0 => mail[i].of <= mail[k].of

ASSUME AlertConstants ==
    /\ CARD_CHARS \in Nat
    /\ \A mail \in Mails :
          /\ mail \in Seq([is : {"link", "line"}, says : STRING, of : Nat, pos : Nat])
          /\ InOrder(mail)

VARIABLES
    alert,   \* the mail
    link,    \* where the last link read is
    jobs     \* what came of them: where their link and their fields were read

alertVars == <<alert, link, jobs>>

\* Where the job links are.
Links == {i \in DOMAIN alert : alert[i].is = "link"}

\* MUTANT of cardHtml: the card reads on past the next link
Unbounded(at) ==
    {i \in DOMAIN alert : at < i /\ alert[i].pos < alert[at].pos + CARD_CHARS}

\* A card is read up to the next job link, and no further than so many characters:
\* whatever stands there, a footer or the head of the next card included.
cardHtml(at) ==
    {i \in DOMAIN alert :
        /\ at < i /\ \A k \in Links : k <= at \/ i < k
        /\ alert[i].pos < alert[at].pos + CARD_CHARS}

\* What follows the title, or all lines where the title is not one of them: the
\* text of a link in several elements is a title that no line holds.
linesAfterTitle(at) == IF alert[at].says = "parts" THEN cardHtml(at) \cup {at} ELSE cardHtml(at)

-----------------------------------------------------------------------------
Nowhere == 0

\* The foremost of some places, or none.
Foremost(places) ==
    IF places = {} THEN Nowhere ELSE CHOOSE i \in places : \A k \in places : i <= k

\* A company is what is neither a place, nor an age, nor boilerplate; an age in the
\* midst of a line is a date and may be a company too.
NamesCompany(line) == line.says \notin {"place", "ago", "chrome"}
NamesPlace(line) == line.says = "place"
NamesDate(line) == line.says \in {"ago", "aged"}

pickCompany(fields) == Foremost({i \in fields : NamesCompany(alert[i])})
pickLocation(fields) == Foremost({i \in fields : NamesPlace(alert[i])})
pickPostedAt(fields) == Foremost({i \in fields : NamesDate(alert[i])})

JobAt(at) ==
    LET fields == linesAfterTitle(at)
    IN [at |-> at, id |-> alert[at].of, company |-> pickCompany(fields),
        location |-> pickLocation(fields), postedAt |-> pickPostedAt(fields)]

AlertInit == alert \in Mails /\ link = 0 /\ jobs = <<>>

\* A link that shows no text has no title, one whose card names no company is
\* skipped, and a job already parsed is not parsed again.
ParseLink ==
    LET next == Foremost({i \in Links : link < i})
        job == JobAt(next)
    IN /\ next # Nowhere
       /\ link' = next
       /\ jobs' = IF \/ \E j \in ToSet(jobs) : j.id = job.id
                     \/ alert[next].says = "nothing" \/ job.company = Nowhere
                  THEN jobs ELSE Append(jobs, job)
       /\ UNCHANGED alert

AlertNext == ParseLink

AlertSpec == AlertInit /\ [][AlertNext]_alertVars

-----------------------------------------------------------------------------
\* The lines of its own card that stand between a link and the next, with no line of
\* another's among them.
Behind(at) ==
    {i \in cardHtml(at) : \A k \in DOMAIN alert : at < k /\ k <= i => alert[k].of = alert[at].of}

\* A line of no card, or one that stands ahead of the link of its card.
Stray(i) == alert[i].of = 0 \/ \A k \in Links : alert[k].of = alert[i].of => i < k

(* A job of an alert has the company, the place and the date that its card *)
(* shows behind its link.  Where the card shows none there, it has none or *)
(* that of a stray line (a footer, or a line ahead of the link of the next *)
(* card), but never what another card shows behind a link of its own; and  *)
(* one job comes of one posting (linkedin-alert.parser.ts:20-29, 142-149). *)
FieldsAreTheCardsOwn ==
    /\ \A j \in ToSet(jobs) :
          /\ (\E i \in Behind(j.at) : NamesCompany(alert[i])) => alert[j.company].of = j.id
          /\ (\E i \in Behind(j.at) : NamesPlace(alert[i])) => alert[j.location].of = j.id
          /\ (\E i \in Behind(j.at) : NamesDate(alert[i])) => alert[j.postedAt].of = j.id
          /\ \A f \in {j.company, j.location, j.postedAt} :
                f # Nowhere => alert[f].of = j.id \/ Stray(f)
    /\ \A i, k \in DOMAIN jobs : jobs[i].id = jobs[k].id => i = k
=============================================================================
