---------------------------- MODULE AuthSessions ----------------------------
(***************************************************************************)
(* auth.service.ts over users.repository.ts and refresh-tokens.repository: *)
(* accounts, refresh tokens and the calls of the clients, each of which is *)
(* a chain of awaited statements that the calls of others run between.     *)
(* A password is a number; the n-th password of an account replaces n - 1. *)
(***************************************************************************)
EXTENDS Integers, FiniteSets

CONSTANTS
    Emails, Clients,
    Tokens,          \* the refresh tokens that are ever issued
    MaxPassword,     \* passwords an account ever has
    MaxLostReplies   \* calls that die between two statements

ASSUME AuthConstants ==
    IsFiniteSet(Emails) /\ IsFiniteSet(Tokens) /\ MaxPassword \in Nat /\ MaxLostReplies \in Nat

VARIABLES
    account,   \* email -> the number of its password, 0 when there is none
    token,     \* refresh token -> its row
    authCall,  \* client -> the call it is in
    lostReplies,
    \* history
    sharedUse,    \* tokens two calls held as valid at once
    lockOutLost   \* accounts whose password changed in a call that then died

authVars == <<account, token, authCall, lostReplies, sharedUse, lockOutLost>>

NoToken == [user |-> "none"]
NoCall == [pc |-> "idle"]

Issued == {t \in Tokens : token[t] # NoToken}
Live(t) == t \in Issued /\ ~token[t].revoked /\ ~token[t].expired

AuthInit ==
    /\ account = [e \in Emails |-> 0]
    /\ token = [t \in Tokens |-> NoToken]
    /\ authCall = [c \in Clients |-> NoCall]
    /\ lostReplies = 0
    /\ sharedUse = {} /\ lockOutLost = {}

-----------------------------------------------------------------------------
Call(c, r) == authCall' = [authCall EXCEPT ![c] = r]

\* The end of a call that issues a pair for e.  proof is the password behind it:
\* the one just given, or the one the presented token goes back to.
Issuing(e, parent, proof) == [pc |-> "issue", user |-> e, parent |-> parent, proof |-> proof]

\* register: the address is looked up, the password hashed, the row created; the
\* unique key of the email refuses the second of two.
RegisterLookup(c, e) ==
    /\ authCall[c] = NoCall
    /\ account[e] = 0
    /\ Call(c, [pc |-> "register", user |-> e])
    /\ UNCHANGED <<account, token, lostReplies, sharedUse, lockOutLost>>

RegisterCreate(c) ==
    /\ authCall[c].pc = "register"
    /\ LET e == authCall[c].user
       IN IF account[e] = 0
          THEN account' = [account EXCEPT ![e] = 1] /\ Call(c, Issuing(e, {}, 1))
          ELSE UNCHANGED account /\ Call(c, NoCall)
    /\ UNCHANGED <<token, lostReplies, sharedUse, lockOutLost>>

\* login with a password: compared with the hash that was read.
Login(c, e, password) ==
    /\ authCall[c] = NoCall
    /\ account[e] # 0 /\ password = account[e]
    /\ Call(c, Issuing(e, {}, password))
    /\ UNCHANGED <<account, token, lostReplies, sharedUse, lockOutLost>>

\* issueTokenPair: one new row.
IssueTokenPair(c) ==
    /\ authCall[c].pc = "issue"
    /\ Tokens # Issued
    /\ LET t == CHOOSE t \in Tokens \ Issued : TRUE
       IN token' = [token EXCEPT ![t] =
                      [user |-> authCall[c].user, revoked |-> FALSE, expired |-> FALSE,
                       parent |-> authCall[c].parent, proof |-> authCall[c].proof,
                       late |-> authCall[c].proof < account[authCall[c].user]]]
    /\ Call(c, NoCall)
    /\ UNCHANGED <<account, lostReplies, sharedUse, lockOutLost>>

Expire(t) ==
    /\ Live(t)
    /\ token' = [token EXCEPT ![t].expired = TRUE]
    /\ UNCHANGED <<account, authCall, lostReplies, sharedUse, lockOutLost>>

-----------------------------------------------------------------------------
\* MUTANT of WithoutAll: the sessions that were renewed since the login are forgotten
WithoutSome(e) == [t \in Tokens |->
    IF t \in Issued /\ token[t].user = e /\ token[t].parent = {}
    THEN [token[t] EXCEPT !.revoked = TRUE] ELSE token[t]]

\* revokeAllForUser
WithoutAll(e) == [t \in Tokens |->
    IF t \in Issued /\ token[t].user = e THEN [token[t] EXCEPT !.revoked = TRUE] ELSE token[t]]

\* changePassword: verify and hash, store, then revoke every session.
ChangePassword(c, e, password) ==
    /\ authCall[c] = NoCall
    /\ account[e] # 0 /\ password = account[e] /\ account[e] < MaxPassword
    /\ Call(c, [pc |-> "store", user |-> e])
    /\ UNCHANGED <<account, token, lostReplies, sharedUse, lockOutLost>>

StorePassword(c) ==
    /\ authCall[c].pc = "store"
    /\ account[authCall[c].user] < MaxPassword
    /\ account' = [account EXCEPT ![authCall[c].user] = @ + 1]
    /\ Call(c, [pc |-> "lockOut", user |-> authCall[c].user])
    /\ UNCHANGED <<token, lostReplies, sharedUse, lockOutLost>>

LockOut(c) ==
    /\ authCall[c].pc = "lockOut"
    /\ token' = WithoutAll(authCall[c].user)
    /\ Call(c, NoCall)
    /\ UNCHANGED <<account, lostReplies, sharedUse, lockOutLost>>

\* refresh, up to its first write: a revoked token revokes everything, an
\* expired one is refused.
Refresh(c, t) ==
    /\ authCall[c] = NoCall
    /\ t \in Issued
    /\ IF token[t].revoked
       THEN token' = WithoutAll(token[t].user) /\ UNCHANGED <<authCall, sharedUse>>
       ELSE /\ ~token[t].expired
            /\ Call(c, [pc |-> "rotate", user |-> token[t].user, presented |-> t])
            /\ sharedUse' = IF \E d \in Clients : authCall[d].pc = "rotate"
                                                  /\ authCall[d].presented = t
                            THEN sharedUse \cup {t} ELSE sharedUse
            /\ UNCHANGED token
    /\ UNCHANGED <<account, lostReplies, lockOutLost>>

\* MUTANT of Revoke: the pair is issued and the presented token lives on
Keep(t) == token

\* revoke: by id, whatever the row says by now.
Revoke(t) == [token EXCEPT ![t].revoked = TRUE]

Rotate(c) ==
    /\ authCall[c].pc = "rotate"
    /\ token' = Revoke(authCall[c].presented)
    /\ LET t == authCall[c].presented
       IN Call(c, Issuing(token[t].user, {t}, token[t].proof))
    /\ UNCHANGED <<account, lostReplies, sharedUse, lockOutLost>>

\* logout: an unknown or revoked token changes nothing.
Logout(c, t) ==
    /\ authCall[c] = NoCall
    /\ t \in Issued /\ ~token[t].revoked
    /\ token' = Revoke(t)
    /\ UNCHANGED <<account, authCall, lostReplies, sharedUse, lockOutLost>>

\* The API dies under a call.
LoseReply(c) ==
    /\ authCall[c] # NoCall
    /\ lostReplies < MaxLostReplies
    /\ lostReplies' = lostReplies + 1
    /\ Call(c, NoCall)
    /\ lockOutLost' = IF authCall[c].pc = "lockOut"
                      THEN lockOutLost \cup {authCall[c].user} ELSE lockOutLost
    /\ UNCHANGED <<account, token, sharedUse>>

AuthStep(c) ==
    \/ \E e \in Emails : RegisterLookup(c, e)
    \/ RegisterCreate(c)
    \/ \E e \in Emails, p \in 1 .. MaxPassword : Login(c, e, p) \/ ChangePassword(c, e, p)
    \/ IssueTokenPair(c) \/ StorePassword(c) \/ LockOut(c) \/ Rotate(c) \/ LoseReply(c)
    \/ \E t \in Tokens : Refresh(c, t) \/ Logout(c, t)

AuthNext ==
    \/ \E c \in Clients : AuthStep(c)
    \/ \E t \in Tokens : Expire(t)

AuthSpec == AuthInit /\ [][AuthNext]_authVars

-----------------------------------------------------------------------------
\* "Every refresh consumes the presented token" (auth.service.ts:79): one token
\* gives two pairs only when two calls had both read it as valid.
OnePairPerToken ==
    \A t \in Issued \ sharedUse :
        Cardinality({s \in Issued : t \in token[s].parent}) <= 1

\* "A password change must lock out whoever else may hold a session"
\* (auth.service.ts:60): a session that goes back to an older password is gone
\* when the change is complete, unless the call that issued it overlapped the
\* change, or the change died before it revoked anything.
OldPasswordLockedOut ==
    \A t \in Tokens :
        Live(t) /\ token[t].proof < account[token[t].user] =>
            \/ token[t].late
            \/ token[t].user \in lockOutLost
            \/ \E c \in Clients : authCall[c].pc = "lockOut" /\ authCall[c].user = token[t].user
=============================================================================
