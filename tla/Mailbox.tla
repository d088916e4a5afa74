------------------------------ MODULE Mailbox -------------------------------
(***************************************************************************)
(* The Gmail connection of a user (gmail-oauth.service.ts): consent gives  *)
(* a refresh token, access tokens are derived from it, and a dead grant,   *)
(* or credentials of ours that Google refuses, stop the polling until the  *)
(* user consents again.                                                    *)
(***************************************************************************)
EXTENDS Integers

CONSTANTS
    Pollers,       \* requests for an access token that may be in progress
    Consents,      \* consents of the user that may be in progress
    MaxGrants,     \* bound: refresh tokens Google issues
    MaxPolls       \* bound: access tokens asked for

VARIABLES
    client,     \* BOOLEAN: Google accepts the client id and secret we send
    grants,     \* refresh tokens that are still good at Google
    issued,     \* refresh tokens issued so far
    connection, \* the stored row: [refresh, status]
    consent,    \* consent -> the token its code was exchanged for, or 0
    poll,       \* poller -> [pc, refresh, why]: what it asks with, and why it gave up
    polls       \* access tokens asked for so far

mailVars == <<client, grants, issued, connection, consent, poll, polls>>

NoConnection == [refresh |-> 0, status |-> "none"]
Calm == [pc |-> "calm", refresh |-> 0, why |-> "none"]

-----------------------------------------------------------------------------
\* GOOGLE_OAUTH_CLIENT_ID or _SECRET goes wrong in a deployment, or is set right.
ConfigureClient ==
    /\ client' = ~client
    /\ UNCHANGED <<grants, issued, connection, consent, poll, polls>>

\* exchangeCode: Google answers the code with tokens.  Without a refresh token
\* or an address the exchange throws and nothing is stored.
Exchange(c) ==
    /\ client /\ consent[c] = 0 /\ issued < MaxGrants
    /\ issued' = issued + 1 /\ grants' = grants \union {issued'}
    /\ consent' = [consent EXCEPT ![c] = issued']
    /\ UNCHANGED <<client, connection, poll, polls>>

\* The upsert: a re-consent replaces the token and clears the dead state.
StoreConnection(c) ==
    /\ consent[c] # 0
    /\ connection' = [refresh |-> consent[c], status |-> "ACTIVE"]
    /\ consent' = [consent EXCEPT ![c] = 0]
    /\ UNCHANGED <<client, grants, issued, poll, polls>>

\* The exchange throws after Google issued the grant.
ExchangeFails(c) ==
    /\ consent[c] # 0
    /\ consent' = [consent EXCEPT ![c] = 0]
    /\ UNCHANGED <<client, grants, issued, connection, poll, polls>>

\* The user revokes access, or the token ages out.
EndGrant ==
    /\ \E t \in grants : grants' = grants \ {t}
    /\ UNCHANGED <<client, issued, connection, consent, poll, polls>>

\* accessTokenFor reads the row and refuses one that is not ACTIVE.
ReadConnection(p) ==
    /\ poll[p] = Calm /\ connection.status = "ACTIVE" /\ polls < MaxPolls
    /\ poll' = [poll EXCEPT ![p] = [Calm EXCEPT !.pc = "ask", !.refresh = connection.refresh]]
    /\ polls' = polls + 1
    /\ UNCHANGED <<client, grants, issued, connection, consent>>

\* MUTANT of isDeadGrant: every failure is taken for a dead grant.
AnyFailure(answer) == answer # "token"

\* By the error code, or by the message where the answer has no body.
isDeadGrant(answer) == answer \in {"invalid_grant", "invalid_client"}

\* What Google may answer a request that asks with token t.
GoogleAnswers(t) ==
    {"unavailable"} \union IF ~client THEN {"invalid_client"}
                          ELSE IF t \in grants THEN {"token"} ELSE {"invalid_grant"}

\* A token, an error that is thrown and no more, or a dead grant.
AskGoogle(p) ==
    /\ poll[p].pc = "ask"
    /\ \E answer \in GoogleAnswers(poll[p].refresh) :
         poll' = [poll EXCEPT ![p] = IF isDeadGrant(answer)
                                     THEN [pc |-> "dead", refresh |-> poll[p].refresh,
                                           why |-> answer]
                                     ELSE Calm]
    /\ UNCHANGED <<client, grants, issued, connection, consent, polls>>

\* "Stop polling and say so", whatever the row holds by now.
MarkDead(p) ==
    /\ poll[p].pc = "dead"
    /\ connection' = [connection EXCEPT !.status = "NEEDS_RECONSENT"]
    /\ poll' = [poll EXCEPT ![p] = Calm]
    /\ UNCHANGED <<client, grants, issued, consent, polls>>

MailInit ==
    /\ client = TRUE /\ grants = {} /\ issued = 0 /\ connection = NoConnection
    /\ consent = [c \in Consents |-> 0] /\ poll = [p \in Pollers |-> Calm] /\ polls = 0

MailNext ==
    \/ EndGrant \/ ConfigureClient
    \/ \E c \in Consents : Exchange(c) \/ StoreConnection(c) \/ ExchangeFails(c)
    \/ \E p \in Pollers : ReadConnection(p) \/ AskGoogle(p) \/ MarkDead(p)

MailSpec == MailInit /\ [][MailNext]_mailVars

(* A connection whose grant is good is paused only by a request that had   *)
(* read the token before the user consented again, or by one that Google   *)
(* refused for our own credentials, which isDeadGrant takes for a dead     *)
(* grant too (gmail-oauth.service.ts:18-33, 144-152).  A blip, a quota or  *)
(* an outage never stops the polling of a mailbox (gmail-oauth.spec.ts:    *)
(* 54-64), in whatever order requests and consents come.                   *)
OnlyOvertakenPausesAMailbox ==
    [][connection.status = "ACTIVE" /\ connection.refresh \in grants
       /\ connection'.status = "NEEDS_RECONSENT"
       => \E p \in Pollers :
            /\ poll[p].pc = "dead"
            /\ poll[p].refresh # connection.refresh \/ poll[p].why = "invalid_client"]_mailVars
=============================================================================
