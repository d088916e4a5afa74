------------------------- MODULE AuthSessionsProofs -------------------------
(***************************************************************************)
(* Theorems about AuthSessions, for any number of accounts, clients,       *)
(* tokens, passwords and lost replies.                                     *)
(***************************************************************************)
EXTENDS AuthSessions, FiniteSetTheorems, TLAPS

Row == [user : Emails, revoked : BOOLEAN, expired : BOOLEAN, parent : SUBSET Tokens,
        proof : Nat, late : BOOLEAN]

AuthCalls ==
    {NoCall} \cup [pc : {"register", "store", "lockOut"}, user : Emails]
      \cup [pc : {"issue"}, user : Emails, parent : SUBSET Tokens, proof : Nat]
      \cup [pc : {"rotate"}, user : Emails, presented : Tokens]

(***************************************************************************)
(* Well formed: a token is a row or absent, a call is one of its kinds.    *)
(***************************************************************************)
AuthTypeOK ==
    /\ account \in [Emails -> Nat]
    /\ token \in [Tokens -> Row \cup {NoToken}]
    /\ authCall \in [Clients -> AuthCalls]

\* Who has a claim on token t: a call about to rotate it, a call about to issue its
\* successor, the successor.
Rotates(c, t) == authCall[c].pc = "rotate" /\ authCall[c].presented = t
Issues(c, t) == authCall[c].pc = "issue" /\ t \in authCall[c].parent
Child(s, t) == s \in Issued /\ t \in token[s].parent

\* A token is presented or succeeded only once issued, and succeeded only revoked.
SpentIsRevoked ==
    \A t \in Tokens :
        /\ \A c \in Clients : Rotates(c, t) => t \in Issued
        /\ (\E c \in Clients : Issues(c, t)) \/ (\E s \in Tokens : Child(s, t))
             => t \in Issued /\ token[t].revoked

\* What is missing to make OnePairPerToken inductive: not the successors alone but all
\* claims on a token, of which there is one at most.
OneClaim ==
    \A t \in Tokens \ sharedUse :
        /\ \A c, d \in Clients : Rotates(c, t) /\ Rotates(d, t) => c = d
        /\ \A c, d \in Clients : Issues(c, t) /\ Issues(d, t) => c = d
        /\ \A r, s \in Tokens : Child(r, t) /\ Child(s, t) => r = s
        /\ \A c, d \in Clients : ~(Rotates(c, t) /\ Issues(d, t))
        /\ \A c \in Clients, s \in Tokens : ~(Rotates(c, t) /\ Child(s, t))
        /\ \A c \in Clients, s \in Tokens : ~(Issues(c, t) /\ Child(s, t))

\* A proof is a password the account has had.
ProofsAreReal ==
    /\ \A t \in Issued : token[t].proof \in 1 .. account[token[t].user]
    /\ \A c \in Clients : authCall[c].pc = "issue" =>
          authCall[c].proof \in 1 .. account[authCall[c].user]

AuthInv == AuthTypeOK /\ SpentIsRevoked /\ OneClaim /\ ProofsAreReal /\ OldPasswordLockedOut

-----------------------------------------------------------------------------
\* Rows are told from their absence, and revoking or expiring one changes no more.
LEMMA RowsExist == \A r \in Row : r # NoToken
BY DEF Row, NoToken

LEMMA RowRevoked ==
    ASSUME NEW r \in Row
    PROVE  /\ [r EXCEPT !.revoked = TRUE] \in Row
           /\ [r EXCEPT !.revoked = TRUE].user = r.user
           /\ [r EXCEPT !.revoked = TRUE].revoked
           /\ [r EXCEPT !.revoked = TRUE].expired = r.expired
           /\ [r EXCEPT !.revoked = TRUE].parent = r.parent
           /\ [r EXCEPT !.revoked = TRUE].proof = r.proof
           /\ [r EXCEPT !.revoked = TRUE].late = r.late
BY DEF Row

LEMMA RowExpired ==
    ASSUME NEW r \in Row
    PROVE  /\ [r EXCEPT !.expired = TRUE] \in Row
           /\ [r EXCEPT !.expired = TRUE].user = r.user
           /\ [r EXCEPT !.expired = TRUE].revoked = r.revoked
           /\ [r EXCEPT !.expired = TRUE].expired
           /\ [r EXCEPT !.expired = TRUE].parent = r.parent
           /\ [r EXCEPT !.expired = TRUE].proof = r.proof
           /\ [r EXCEPT !.expired = TRUE].late = r.late
BY DEF Row

\* One row in the place of another.
Same(q, r) == /\ q.user = r.user /\ q.parent = r.parent /\ q.proof = r.proof /\ q.late = r.late
              /\ r.revoked => q.revoked
              /\ r.expired => q.expired

\* A step that at most revokes or expires tokens.
Fades == /\ token' \in [Tokens -> Row \cup {NoToken}]
         /\ \A t \in Tokens : t \in Issued' <=> t \in Issued
         /\ \A t \in Issued : Same(token'[t], token[t])

LEMMA RevokeFades ==
    ASSUME AuthTypeOK, NEW t \in Issued, token' = Revoke(t)
    PROVE  Fades /\ token'[t].revoked
<1>1. t \in Tokens /\ token[t] \in Row
    BY DEF AuthTypeOK, Issued
<1> DEFINE q == [token[t] EXCEPT !.revoked = TRUE]
<1>2. q \in Row /\ Same(q, token[t]) /\ q.revoked
    BY <1>1, RowRevoked DEF Same
<1> HIDE DEF q
<1>3. token' = [token EXCEPT ![t] = q]
    BY DEF Revoke, q
<1> QED
    BY <1>1, <1>2, <1>3, RowsExist DEF Fades, Issued, AuthTypeOK, Same

LEMMA ExpireFades ==
    ASSUME AuthTypeOK, NEW t \in Issued, token' = [token EXCEPT ![t].expired = TRUE]
    PROVE  Fades
<1>1. t \in Tokens /\ token[t] \in Row
    BY DEF AuthTypeOK, Issued
<1> DEFINE q == [token[t] EXCEPT !.expired = TRUE]
<1>2. q \in Row /\ Same(q, token[t])
    BY <1>1, RowExpired DEF Same
<1> HIDE DEF q
<1>3. token' = [token EXCEPT ![t] = q]
    BY DEF q
<1> QED
    BY <1>1, <1>2, <1>3, RowsExist DEF Fades, Issued, AuthTypeOK, Same

LEMMA WithoutAllFades ==
    ASSUME AuthTypeOK, NEW e \in Emails, token' = WithoutAll(e)
    PROVE  Fades /\ \A t \in Issued : token[t].user = e => token'[t].revoked
<1> DEFINE q(t) == [token[t] EXCEPT !.revoked = TRUE]
<1>1. \A t \in Issued : t \in Tokens /\ token[t] \in Row
    BY DEF AuthTypeOK, Issued
<1>2. \A t \in Issued : q(t) \in Row /\ Same(q(t), token[t]) /\ q(t).revoked
    BY <1>1, RowRevoked DEF Same
<1> HIDE DEF q
<1>3. \A t \in Tokens :
         token'[t] = IF t \in Issued /\ token[t].user = e THEN q(t) ELSE token[t]
    BY DEF WithoutAll, q
<1>4. DOMAIN token' = Tokens /\ token' = [t \in Tokens |-> token'[t]]
    BY DEF WithoutAll
<1>5. \A t \in Tokens : token'[t] \in Row \cup {NoToken}
    BY <1>2, <1>3 DEF AuthTypeOK
<1>6. \A t \in Tokens : t \in Issued' <=> t \in Issued
    BY <1>2, <1>3, RowsExist DEF Issued
<1>7. \A t \in Issued : Same(token'[t], token[t]) /\ (token[t].user = e => token'[t].revoked)
    BY <1>1, <1>2, <1>3 DEF Same
<1> QED
    BY <1>4, <1>5, <1>6, <1>7 DEF Fades

LEMMA StillFades == AuthTypeOK /\ UNCHANGED token => Fades
BY DEF AuthTypeOK, Fades, Issued, Same

\* Claims and proofs survive a step that fades tokens and gives no call a new claim.
LEMMA ClaimsFade ==
    ASSUME AuthInv, Fades, sharedUse \subseteq sharedUse',
           \A c \in Clients, t \in Tokens :
              /\ Rotates(c, t)' => Rotates(c, t)
              /\ Issues(c, t)' => Issues(c, t)
    PROVE  SpentIsRevoked' /\ OneClaim'
<1>1. \A s, t \in Tokens : Child(s, t)' <=> Child(s, t)
    BY DEF Fades, Child, Same
<1>2. \A t \in Tokens : /\ t \in Issued' <=> t \in Issued
                        /\ t \in Issued /\ token[t].revoked => token'[t].revoked
    BY DEF Fades, Same
<1> HIDE DEF Rotates, Issues, Child, Issued
<1>3. SpentIsRevoked'
    BY <1>1, <1>2 DEF AuthInv, SpentIsRevoked
<1>4. OneClaim'
    BY <1>1 DEF AuthInv, OneClaim
<1> QED
    BY <1>3, <1>4

LEMMA ProofsFade ==
    ASSUME AuthInv, Fades, UNCHANGED account
    PROVE  \A t \in Issued' : token'[t].proof \in 1 .. account'[token'[t].user]
BY DEF AuthInv, ProofsAreReal, Fades, Same, Issued

\* The lock-out survives a step that fades tokens while who is about to lock out stays
\* so, or has died.
LEMMA LockOutFades ==
    ASSUME AuthInv, Fades, UNCHANGED account, lockOutLost \subseteq lockOutLost',
           \A c \in Clients : authCall[c].pc = "lockOut" =>
              authCall'[c] = authCall[c] \/ authCall[c].user \in lockOutLost'
    PROVE  OldPasswordLockedOut'
<1> SUFFICES ASSUME NEW t \in Tokens, Live(t)', token'[t].proof < account'[token'[t].user],
                    ~token'[t].late, token'[t].user \notin lockOutLost'
             PROVE  \E c \in Clients : authCall'[c].pc = "lockOut" /\ authCall'[c].user = token'[t].user
    BY DEF OldPasswordLockedOut
<1>1. t \in Issued /\ Same(token'[t], token[t])
    BY DEF Live, Fades
<1>2. Live(t)
    BY <1>1 DEF Live, Same
<1>3. PICK c \in Clients : authCall[c].pc = "lockOut" /\ authCall[c].user = token[t].user
    BY <1>1, <1>2 DEF AuthInv, OldPasswordLockedOut, Same
<1> QED
    BY <1>1, <1>3 DEF Same

\* Most steps: tokens fade, and a call that changes issues nothing new.
LEMMA Meanwhile ==
    ASSUME AuthInv, Fades, UNCHANGED account, authCall' \in [Clients -> AuthCalls],
           sharedUse \subseteq sharedUse', lockOutLost \subseteq lockOutLost',
           \A c \in Clients :
              \/ authCall'[c] = authCall[c]
              \/ /\ authCall'[c].pc # "rotate"
                 /\ authCall'[c].pc = "issue" =>
                      /\ authCall'[c].parent = {}
                      /\ authCall'[c].proof \in 1 .. account[authCall'[c].user]
                 /\ authCall[c].pc = "lockOut" => authCall[c].user \in lockOutLost'
    PROVE  AuthInv'
<1>1. AuthTypeOK'
    BY DEF AuthInv, AuthTypeOK, Fades
<1>2. SpentIsRevoked' /\ OneClaim'
  <2>1. \A c \in Clients, t \in Tokens :
           /\ Rotates(c, t)' => Rotates(c, t)
           /\ Issues(c, t)' => Issues(c, t)
      BY DEF Rotates, Issues
  <2> QED
      BY <2>1, ClaimsFade
<1>3. ProofsAreReal'
    BY ProofsFade DEF AuthInv, ProofsAreReal
<1>4. OldPasswordLockedOut'
    BY LockOutFades
<1> QED
    BY <1>1, <1>2, <1>3, <1>4 DEF AuthInv

-----------------------------------------------------------------------------
\* A call of a known kind keeps the calls well formed.
LEMMA CallType ==
    ASSUME AuthTypeOK, NEW c \in Clients, NEW r \in AuthCalls, Call(c, r)
    PROVE  /\ authCall' \in [Clients -> AuthCalls]
           /\ authCall'[c] = r
           /\ \A d \in Clients \ {c} : authCall'[d] = authCall[d]
BY DEF AuthTypeOK, Call

LEMMA CallKinds ==
    ASSUME NEW e \in Emails
    PROVE  /\ NoCall \in AuthCalls
           /\ \A pc \in {"register", "store", "lockOut"} : [pc |-> pc, user |-> e] \in AuthCalls
           /\ \A parent \in SUBSET Tokens, n \in Nat : Issuing(e, parent, n) \in AuthCalls
           /\ \A t \in Tokens : [pc |-> "rotate", user |-> e, presented |-> t] \in AuthCalls
BY DEF AuthCalls, NoCall, Issuing

\* The beginnings of calls that hold no token, and the ends of all of them.
LEMMA LookupBegins ==
    ASSUME AuthInv, NEW c \in Clients, NEW e \in Emails, RegisterLookup(c, e)
    PROVE  AuthInv'
<1>1. AuthTypeOK /\ [pc |-> "register", user |-> e] \in AuthCalls
    BY DEF AuthInv, AuthCalls
<1>2. /\ authCall' \in [Clients -> AuthCalls]
      /\ authCall'[c] = [pc |-> "register", user |-> e]
      /\ \A d \in Clients \ {c} : authCall'[d] = authCall[d]
    BY <1>1, CallType DEF RegisterLookup
<1> QED
    BY <1>1, <1>2, StillFades, Meanwhile DEF RegisterLookup, NoCall

LEMMA CallsBegin ==
    ASSUME AuthInv, NEW c \in Clients, NEW e \in Emails, NEW p \in 1 .. MaxPassword
    PROVE  Login(c, e, p) \/ ChangePassword(c, e, p) => AuthInv'
<1>1. AuthTypeOK
    BY DEF AuthInv
<1>2. CASE Login(c, e, p)
  <2>1. p \in 1 .. account[e] /\ account[e] \in Nat
      BY <1>1, <1>2 DEF Login, AuthTypeOK
  <2>2. Issuing(e, {}, p) \in AuthCalls
      BY <2>1 DEF AuthCalls, Issuing
  <2>3. /\ authCall' \in [Clients -> AuthCalls]
        /\ authCall'[c] = Issuing(e, {}, p)
        /\ \A d \in Clients \ {c} : authCall'[d] = authCall[d]
      BY <1>1, <1>2, <2>2, CallType DEF Login
  <2> QED
      BY <1>1, <1>2, <2>1, <2>3, StillFades, Meanwhile DEF Login, NoCall, Issuing
<1>3. CASE ChangePassword(c, e, p)
  <2>1. [pc |-> "store", user |-> e] \in AuthCalls
      BY DEF AuthCalls
  <2>2. /\ authCall' \in [Clients -> AuthCalls]
        /\ authCall'[c] = [pc |-> "store", user |-> e]
        /\ \A d \in Clients \ {c} : authCall'[d] = authCall[d]
      BY <1>1, <1>3, <2>1, CallType DEF ChangePassword
  <2> QED
      BY <1>1, <1>3, <2>2, StillFades, Meanwhile DEF ChangePassword, NoCall
<1> QED
    BY <1>2, <1>3

LEMMA TokensFade ==
    ASSUME AuthInv, NEW t \in Tokens
    PROVE  /\ Expire(t) => AuthInv'
           /\ \A c \in Clients : Logout(c, t) \/ (Refresh(c, t) /\ token[t].revoked) => AuthInv'
<1>1. AuthTypeOK
    BY DEF AuthInv
<1>2. CASE Expire(t)
  <2>1. Fades
      BY <1>1, <1>2, ExpireFades DEF Expire, Live
  <2> QED
      BY <1>1, <1>2, <2>1, Meanwhile DEF Expire, AuthTypeOK
<1>3. ASSUME NEW c \in Clients, Logout(c, t)
      PROVE  AuthInv'
  <2>1. Fades
      BY <1>1, <1>3, RevokeFades DEF Logout
  <2> QED
      BY <1>1, <1>3, <2>1, Meanwhile DEF Logout, AuthTypeOK
<1>4. ASSUME NEW c \in Clients, Refresh(c, t), token[t].revoked
      PROVE  AuthInv'
  <2>1. token[t].user \in Emails /\ token' = WithoutAll(token[t].user)
      BY <1>1, <1>4 DEF Refresh, AuthTypeOK, Issued, Row
  <2>2. Fades
      BY <1>1, <2>1, WithoutAllFades
  <2> QED
      BY <1>1, <1>4, <2>2, Meanwhile DEF Refresh, AuthTypeOK
<1> QED
    BY <1>2, <1>3, <1>4

LEMMA CallsDie ==
    ASSUME AuthInv, NEW c \in Clients, LoseReply(c)
    PROVE  AuthInv'
<1>1. AuthTypeOK /\ NoCall \in AuthCalls
    BY DEF AuthInv, AuthCalls
<1>2. /\ authCall' \in [Clients -> AuthCalls]
      /\ authCall'[c] = NoCall
      /\ \A d \in Clients \ {c} : authCall'[d] = authCall[d]
    BY <1>1, CallType DEF LoseReply
<1> QED
    BY <1>1, <1>2, StillFades, Meanwhile DEF LoseReply, NoCall

-----------------------------------------------------------------------------
\* The two writes of the password: the account's number is one more than any proof.
LEMMA AccountsChange ==
    ASSUME AuthInv, NEW c \in Clients
    PROVE  RegisterCreate(c) \/ StorePassword(c) => AuthInv'
<1> DEFINE e == authCall[c].user
<1>1. AuthTypeOK
    BY DEF AuthInv
<1>2. CASE RegisterCreate(c)
  <2>1. e \in Emails /\ authCall[c].pc = "register"
      BY <1>1, <1>2 DEF RegisterCreate, AuthTypeOK, AuthCalls, NoCall
  <2>2. CASE account[e] # 0
    <3>1. UNCHANGED <<account, token, lostReplies, sharedUse, lockOutLost>> /\ Call(c, NoCall)
        BY <1>2, <2>2 DEF RegisterCreate
    <3>2. /\ authCall' \in [Clients -> AuthCalls]
          /\ authCall'[c] = NoCall
          /\ \A d \in Clients \ {c} : authCall'[d] = authCall[d]
        BY <1>1, <2>1, <3>1, CallType, CallKinds
    <3> QED
        BY <1>1, <2>1, <3>1, <3>2, StillFades, Meanwhile DEF NoCall
  <2>3. CASE account[e] = 0
    <3>1. /\ UNCHANGED <<token, lostReplies, sharedUse, lockOutLost>>
          /\ account' = [account EXCEPT ![e] = 1] /\ Call(c, Issuing(e, {}, 1))
        BY <1>2, <2>3 DEF RegisterCreate
    <3>2. /\ authCall' \in [Clients -> AuthCalls]
          /\ authCall'[c] = Issuing(e, {}, 1)
          /\ \A d \in Clients \ {c} : authCall'[d] = authCall[d]
        BY <1>1, <2>1, <3>1, CallType, CallKinds
    <3>3. AuthTypeOK'
        BY <1>1, <2>1, <3>1, <3>2 DEF AuthTypeOK
    <3>4. SpentIsRevoked' /\ OneClaim'
      <4>1. \A d \in Clients, t \in Tokens :
               /\ Rotates(d, t)' => Rotates(d, t)
               /\ Issues(d, t)' => Issues(d, t)
          BY <3>2 DEF Rotates, Issues, Issuing
      <4> QED
          BY <4>1, <1>1, <3>1, StillFades, ClaimsFade
    <3>5. \A t \in Issued : token[t].user # e
        BY <2>3 DEF AuthInv, ProofsAreReal
    <3>6. ProofsAreReal'
      <4>1. \A t \in Issued' : token'[t].proof \in 1 .. account'[token'[t].user]
          BY <3>1, <3>5, <1>1 DEF AuthInv, ProofsAreReal, AuthTypeOK, Issued, Row
      <4>2. ASSUME NEW d \in Clients, authCall'[d].pc = "issue"
            PROVE  authCall'[d].proof \in 1 .. account'[authCall'[d].user]
        <5>1. CASE d = c
            BY <5>1, <1>1, <2>1, <3>1, <3>2 DEF Issuing, AuthTypeOK
        <5>2. CASE d # c
          <6>1. authCall'[d] = authCall[d] /\ authCall[d].user \in Emails
              BY <5>2, <4>2, <3>2, <1>1 DEF AuthTypeOK, AuthCalls, NoCall
          <6>2. authCall[d].proof \in 1 .. account[authCall[d].user]
              BY <6>1, <4>2 DEF AuthInv, ProofsAreReal
          <6> QED
              BY <6>1, <6>2, <2>3, <3>1, <1>1 DEF AuthTypeOK
        <5> QED
            BY <5>1, <5>2
      <4> QED
          BY <4>1, <4>2 DEF ProofsAreReal
    <3>7. OldPasswordLockedOut'
      <4> SUFFICES ASSUME NEW t \in Tokens, Live(t)', token'[t].proof < account'[token'[t].user]
                   PROVE  \/ token'[t].late \/ token'[t].user \in lockOutLost'
                          \/ \E d \in Clients : /\ authCall'[d].pc = "lockOut"
                                                /\ authCall'[d].user = token'[t].user
          BY DEF OldPasswordLockedOut
      <4>1. Live(t) /\ t \in Issued
          BY <3>1 DEF Live, Issued
      <4>2. account'[token[t].user] = account[token[t].user]
          BY <4>1, <3>1, <3>5, <1>1 DEF AuthTypeOK, Issued, Row
      <4>3. \A d \in Clients : authCall[d].pc = "lockOut" => authCall'[d] = authCall[d]
          BY <2>1, <3>2
      <4> QED
          BY <4>1, <4>2, <4>3, <3>1 DEF AuthInv, OldPasswordLockedOut
    <3> QED
        BY <3>3, <3>4, <3>6, <3>7 DEF AuthInv
  <2> QED
      BY <2>2, <2>3
<1>3. CASE StorePassword(c)
  <2>1. e \in Emails /\ authCall[c].pc = "store" /\ account[e] \in Nat
      BY <1>1, <1>3 DEF StorePassword, AuthTypeOK, AuthCalls, NoCall
  <2>2. /\ UNCHANGED <<token, lostReplies, sharedUse, lockOutLost>>
        /\ account' = [account EXCEPT ![e] = account[e] + 1]
        /\ Call(c, [pc |-> "lockOut", user |-> e])
      BY <1>3 DEF StorePassword
  <2>3. /\ authCall' \in [Clients -> AuthCalls]
        /\ authCall'[c] = [pc |-> "lockOut", user |-> e]
        /\ \A d \in Clients \ {c} : authCall'[d] = authCall[d]
      BY <1>1, <2>1, <2>2, CallType, CallKinds
  <2>4. AuthTypeOK'
      BY <1>1, <2>1, <2>2, <2>3 DEF AuthTypeOK
  <2>5. SpentIsRevoked' /\ OneClaim'
    <3>1. \A d \in Clients, t \in Tokens :
             /\ Rotates(d, t)' => Rotates(d, t)
             /\ Issues(d, t)' => Issues(d, t)
        BY <2>3 DEF Rotates, Issues
    <3> QED
        BY <3>1, <1>1, <2>2, StillFades, ClaimsFade
  <2>6. \A u \in Emails : account'[u] \in Nat /\ account[u] \in Nat /\ account'[u] >= account[u]
      BY <1>1, <2>1, <2>2 DEF AuthTypeOK
  <2>7. ProofsAreReal'
    <3>1. \A t \in Issued' : token'[t].proof \in 1 .. account'[token'[t].user]
        BY <2>2, <2>6, <1>1 DEF AuthInv, ProofsAreReal, AuthTypeOK, Issued, Row
    <3>2. ASSUME NEW d \in Clients, authCall'[d].pc = "issue"
          PROVE  authCall'[d].proof \in 1 .. account'[authCall'[d].user]
      <4>1. authCall'[d] = authCall[d] /\ authCall[d].user \in Emails
          BY <3>2, <2>3, <1>1 DEF AuthTypeOK, AuthCalls, NoCall
      <4>2. authCall[d].proof \in 1 .. account[authCall[d].user]
          BY <4>1, <3>2 DEF AuthInv, ProofsAreReal
      <4> QED
          BY <4>1, <4>2, <2>6
    <3> QED
        BY <3>1, <3>2 DEF ProofsAreReal
  <2>8. OldPasswordLockedOut'
    <3> SUFFICES ASSUME NEW t \in Tokens, Live(t)', token'[t].proof < account'[token'[t].user]
                 PROVE  \/ token'[t].late \/ token'[t].user \in lockOutLost'
                        \/ \E d \in Clients : /\ authCall'[d].pc = "lockOut"
                                              /\ authCall'[d].user = token'[t].user
        BY DEF OldPasswordLockedOut
    <3>1. Live(t) /\ t \in Issued
        BY <2>2 DEF Live, Issued
    <3>2. CASE token[t].user = e
        BY <3>2, <2>2, <2>3
    <3>3. CASE token[t].user # e
      <4>1. account'[token[t].user] = account[token[t].user]
          BY <3>1, <3>3, <2>2, <1>1 DEF AuthTypeOK, Issued, Row
      <4>2. \A d \in Clients : authCall[d].pc = "lockOut" => authCall'[d] = authCall[d]
          BY <2>1, <2>3
      <4> QED
          BY <4>1, <4>2, <3>1, <2>2 DEF AuthInv, OldPasswordLockedOut
    <3> QED
        BY <3>2, <3>3
  <2> QED
      BY <2>4, <2>5, <2>7, <2>8 DEF AuthInv
<1> QED
    BY <1>2, <1>3

-----------------------------------------------------------------------------
\* The lock-out: the sessions of the account are gone before its call is.
LEMMA LockedOut ==
    ASSUME AuthInv, NEW c \in Clients, LockOut(c)
    PROVE  AuthInv'
<1> DEFINE e == authCall[c].user
<1>1. AuthTypeOK
    BY DEF AuthInv
<1>2. e \in Emails /\ authCall[c].pc = "lockOut"
    BY <1>1 DEF LockOut, AuthTypeOK, AuthCalls, NoCall
<1>3. Fades /\ \A t \in Issued : token[t].user = e => token'[t].revoked
    BY <1>1, <1>2, WithoutAllFades DEF LockOut
<1>4. /\ authCall' \in [Clients -> AuthCalls]
      /\ authCall'[c] = NoCall
      /\ \A d \in Clients \ {c} : authCall'[d] = authCall[d]
    BY <1>1, <1>2, CallType, CallKinds DEF LockOut
<1>5. AuthTypeOK'
    BY <1>1, <1>3, <1>4 DEF AuthTypeOK, Fades, LockOut
<1>6. SpentIsRevoked' /\ OneClaim'
  <2>1. \A d \in Clients, t \in Tokens :
           /\ Rotates(d, t)' => Rotates(d, t)
           /\ Issues(d, t)' => Issues(d, t)
      BY <1>4 DEF Rotates, Issues, NoCall
  <2> QED
      BY <2>1, <1>3, ClaimsFade DEF LockOut
<1>7. ProofsAreReal'
    BY <1>3, <1>4, ProofsFade DEF AuthInv, ProofsAreReal, LockOut, NoCall
<1>8. OldPasswordLockedOut'
  <2> SUFFICES ASSUME NEW t \in Tokens, Live(t)', token'[t].proof < account'[token'[t].user]
               PROVE  \/ token'[t].late \/ token'[t].user \in lockOutLost'
                      \/ \E d \in Clients : /\ authCall'[d].pc = "lockOut"
                                            /\ authCall'[d].user = token'[t].user
      BY DEF OldPasswordLockedOut
  <2>1. t \in Issued /\ Live(t) /\ Same(token'[t], token[t]) /\ token[t].user # e
      BY <1>3 DEF Live, Fades, Same
  <2>2. UNCHANGED <<account, lockOutLost>>
      BY DEF LockOut
  <2> QED
      BY <2>1, <2>2, <1>4 DEF AuthInv, OldPasswordLockedOut, Same
<1> QED
    BY <1>5, <1>6, <1>7, <1>8 DEF AuthInv

\* A refresh that finds the token good: the only step that gives a second call a claim
\* on a token, which is then in sharedUse.
LEMMA Presented ==
    ASSUME AuthInv, NEW c \in Clients, NEW p \in Tokens, Refresh(c, p), ~token[p].revoked
    PROVE  AuthInv'
<1>1. AuthTypeOK /\ p \in Issued
    BY DEF AuthInv, Refresh
<1> DEFINE r == [pc |-> "rotate", user |-> token[p].user, presented |-> p]
<1>2. r \in AuthCalls
    BY <1>1 DEF AuthCalls, AuthTypeOK, Issued, Row
<1>3. /\ authCall[c] = NoCall /\ Call(c, r) /\ UNCHANGED <<token, account, lockOutLost>>
      /\ sharedUse' = IF \E d \in Clients : Rotates(d, p) THEN sharedUse \cup {p} ELSE sharedUse
    BY DEF Refresh, Rotates
<1>4. /\ authCall' \in [Clients -> AuthCalls]
      /\ authCall'[c] = r
      /\ \A d \in Clients \ {c} : authCall'[d] = authCall[d]
    BY <1>1, <1>2, <1>3, CallType
<1>5. AuthTypeOK' /\ Fades
    BY <1>1, <1>3, <1>4, StillFades DEF AuthTypeOK
<1>6. \A d \in Clients, t \in Tokens :
         /\ Rotates(d, t)' <=> Rotates(d, t) \/ (d = c /\ t = p)
         /\ Issues(d, t)' <=> Issues(d, t)
    BY <1>3, <1>4 DEF Rotates, Issues, NoCall
<1>7. \A s, t \in Tokens : (Child(s, t)' <=> Child(s, t)) /\ (t \in Issued' <=> t \in Issued)
    BY <1>3 DEF Child, Issued
<1>8. (\A d \in Clients : ~Issues(d, p)) /\ (\A s \in Tokens : ~Child(s, p))
    BY DEF AuthInv, SpentIsRevoked
<1>9. SpentIsRevoked' /\ OneClaim'
  <2> HIDE DEF Rotates, Issues, Child, Issued
  <2>1. SpentIsRevoked'
      BY <1>1, <1>3, <1>6, <1>7 DEF AuthInv, SpentIsRevoked
  <2>2. OneClaim'
    <3> SUFFICES ASSUME NEW t \in Tokens \ sharedUse'
                 PROVE  /\ \A d, f \in Clients : Rotates(d, t)' /\ Rotates(f, t)' => d = f
                        /\ \A d, f \in Clients : Issues(d, t)' /\ Issues(f, t)' => d = f
                        /\ \A d, f \in Tokens : Child(d, t)' /\ Child(f, t)' => d = f
                        /\ \A d, f \in Clients : ~(Rotates(d, t)' /\ Issues(f, t)')
                        /\ \A d \in Clients, s \in Tokens : ~(Rotates(d, t)' /\ Child(s, t)')
                        /\ \A d \in Clients, s \in Tokens : ~(Issues(d, t)' /\ Child(s, t)')
        BY DEF OneClaim
    <3>1. t \notin sharedUse /\ (t = p => \A d \in Clients : ~Rotates(d, p))
        BY <1>3
    <3> QED
        BY <3>1, <1>6, <1>7, <1>8 DEF AuthInv, OneClaim
  <2> QED
      BY <2>1, <2>2
<1>10. ProofsAreReal'
    BY <1>3, <1>4, <1>5, ProofsFade DEF AuthInv, ProofsAreReal
<1>11. OldPasswordLockedOut'
    BY <1>3, <1>4, <1>5, LockOutFades DEF NoCall
<1> QED
    BY <1>5, <1>9, <1>10, <1>11 DEF AuthInv

\* The claim of a call on the token it presented passes to the pair it will issue.
LEMMA Rotated ==
    ASSUME AuthInv, NEW c \in Clients, Rotate(c)
    PROVE  AuthInv'
<1> DEFINE p == authCall[c].presented
<1>1. AuthTypeOK
    BY DEF AuthInv
<1>2. p \in Tokens /\ Rotates(c, p)
    BY <1>1 DEF Rotate, Rotates, AuthTypeOK, AuthCalls, NoCall
<1>3. p \in Issued /\ token[p] \in Row /\ token[p].proof \in 1 .. account[token[p].user]
    BY <1>1, <1>2 DEF AuthInv, SpentIsRevoked, ProofsAreReal, AuthTypeOK, Issued
<1> DEFINE r == Issuing(token[p].user, {p}, token[p].proof)
<1>4. r \in AuthCalls
    BY <1>1, <1>2, <1>3 DEF AuthCalls, Issuing, Row
<1>5. Call(c, r) /\ token' = Revoke(p) /\ UNCHANGED <<account, lostReplies, sharedUse, lockOutLost>>
    BY DEF Rotate
<1>6. /\ authCall' \in [Clients -> AuthCalls]
      /\ authCall'[c] = r
      /\ \A d \in Clients \ {c} : authCall'[d] = authCall[d]
    BY <1>1, <1>4, <1>5, CallType
<1>7. Fades /\ token'[p].revoked
    BY <1>1, <1>3, <1>5, RevokeFades
<1>8. AuthTypeOK'
    BY <1>1, <1>5, <1>6, <1>7 DEF AuthTypeOK, Fades
<1>9. \A d \in Clients, t \in Tokens :
         /\ Rotates(d, t)' => Rotates(d, t) /\ d # c
         /\ Issues(d, t)' => Issues(d, t) \/ (d = c /\ t = p)
    BY <1>6 DEF Rotates, Issues, Issuing
<1>10. \A s, t \in Tokens : Child(s, t)' <=> Child(s, t)
    BY <1>7 DEF Fades, Child, Same
<1>11. \A t \in Tokens : /\ t \in Issued' <=> t \in Issued
                         /\ t \in Issued /\ token[t].revoked => token'[t].revoked
    BY <1>7 DEF Fades, Same
<1>12. SpentIsRevoked' /\ OneClaim'
  <2> HIDE DEF Rotates, Issues, Child, Issued, p, r
  <2>1. SpentIsRevoked'
      BY <1>2, <1>3, <1>7, <1>9, <1>10, <1>11 DEF AuthInv, SpentIsRevoked
  <2>2. OneClaim'
      BY <1>2, <1>5, <1>9, <1>10 DEF AuthInv, OneClaim
  <2> QED
      BY <2>1, <2>2
<1>13. ProofsAreReal'
    BY <1>3, <1>5, <1>6, <1>7, ProofsFade DEF AuthInv, ProofsAreReal, Issuing
<1>14. OldPasswordLockedOut'
  <2>1. authCall[c].pc # "lockOut"
      BY <1>2 DEF Rotates
  <2> QED
      BY <2>1, <1>5, <1>6, <1>7, LockOutFades
<1> QED
    BY <1>8, <1>12, <1>13, <1>14 DEF AuthInv

\* The claim passes to the new token, which nothing goes back to yet.
LEMMA PairIssued ==
    ASSUME AuthInv, NEW c \in Clients, IssueTokenPair(c)
    PROVE  AuthInv'
<1> DEFINE r == authCall[c]
<1>1. AuthTypeOK
    BY DEF AuthInv
<1>2. /\ r.pc = "issue" /\ r.user \in Emails /\ r.parent \in SUBSET Tokens
      /\ r.proof \in 1 .. account[r.user] /\ r.proof \in Nat
    BY <1>1 DEF IssueTokenPair, AuthInv, ProofsAreReal, AuthTypeOK, AuthCalls, NoCall
<1>3. PICK n \in Tokens \ Issued :
         token' = [token EXCEPT ![n] = [user |-> r.user, revoked |-> FALSE, expired |-> FALSE,
                                        parent |-> r.parent, proof |-> r.proof,
                                        late |-> r.proof < account[r.user]]]
  <2>1. \E n \in Tokens \ Issued : TRUE
      BY DEF IssueTokenPair, Issued
  <2>2. (CHOOSE n \in Tokens \ Issued : TRUE) \in Tokens \ Issued
      BY <2>1
  <2> QED
      BY <2>2 DEF IssueTokenPair
<1> DEFINE late == r.proof < account[r.user]
           q == [user |-> r.user, revoked |-> FALSE, expired |-> FALSE, parent |-> r.parent,
                 proof |-> r.proof, late |-> late]
<1>4. q \in Row /\ q.user = r.user /\ q.parent = r.parent /\ q.proof = r.proof /\ q # NoToken
  <2>1. late \in BOOLEAN
      OBVIOUS
  <2> HIDE DEF late
  <2> QED
      BY <1>2, <2>1, RowsExist DEF Row
<1>4a. late => q.late
  <2> HIDE DEF late
  <2> QED
      OBVIOUS
<1> HIDE DEF q
<1>5. token' = [token EXCEPT ![n] = q]
    BY <1>3 DEF q
<1>6. /\ token' \in [Tokens -> Row \cup {NoToken}]
      /\ token'[n] = q
      /\ \A t \in Tokens \ {n} : token'[t] = token[t]
      /\ \A t \in Tokens : t \in Issued' <=> t \in Issued \/ t = n
    BY <1>1, <1>4, <1>5 DEF AuthTypeOK, Issued
<1>7. /\ authCall' \in [Clients -> AuthCalls]
      /\ authCall'[c] = NoCall
      /\ \A d \in Clients \ {c} : authCall'[d] = authCall[d]
  <2>1. Call(c, NoCall) /\ NoCall \in AuthCalls
      BY DEF IssueTokenPair, AuthCalls
  <2> QED
      BY <1>1, <2>1, CallType
<1>8. UNCHANGED <<account, lostReplies, sharedUse, lockOutLost>>
    BY DEF IssueTokenPair
<1>9. AuthTypeOK'
    BY <1>1, <1>6, <1>7, <1>8 DEF AuthTypeOK
<1>10. \A d \in Clients, t \in Tokens :
          /\ Rotates(d, t)' => Rotates(d, t)
          /\ Issues(d, t)' => Issues(d, t) /\ d # c
    BY <1>7 DEF Rotates, Issues, NoCall
<1>11. \A s, t \in Tokens : Child(s, t)' => Child(s, t) \/ (s = n /\ Issues(c, t))
    BY <1>2, <1>4, <1>6 DEF Child, Issues
<1>12. \A t \in Tokens : ~Child(n, t)
    BY DEF Child
<1>13. \A t \in Issued : t # n /\ t \in Issued' /\ token'[t] = token[t]
    BY <1>6 DEF Issued
<1>14. SpentIsRevoked' /\ OneClaim'
  <2> HIDE DEF Rotates, Issues, Child, Issued, r
  <2>1. SpentIsRevoked'
      BY <1>10, <1>11, <1>13 DEF AuthInv, SpentIsRevoked
  <2>2. OneClaim'
      BY <1>8, <1>10, <1>11, <1>12 DEF AuthInv, OneClaim
  <2> QED
      BY <2>1, <2>2
<1>15. ProofsAreReal'
  <2>1. \A t \in Issued' : token'[t].proof \in 1 .. account'[token'[t].user]
      BY <1>2, <1>4, <1>6, <1>8, <1>13 DEF AuthInv, ProofsAreReal, Issued
  <2> QED
      BY <2>1, <1>7, <1>8 DEF AuthInv, ProofsAreReal, NoCall
<1>16. OldPasswordLockedOut'
  <2> SUFFICES ASSUME NEW t \in Tokens, Live(t)', token'[t].proof < account'[token'[t].user]
               PROVE  \/ token'[t].late \/ token'[t].user \in lockOutLost'
                      \/ \E d \in Clients : /\ authCall'[d].pc = "lockOut"
                                            /\ authCall'[d].user = token'[t].user
      BY DEF OldPasswordLockedOut
  <2>1. CASE t = n
      BY <2>1, <1>4, <1>4a, <1>6, <1>8
  <2>2. CASE t # n
    <3>1. token'[t] = token[t] /\ Live(t)
        BY <2>2, <1>6 DEF Live
    <3>2. \A d \in Clients : authCall[d].pc = "lockOut" => authCall'[d] = authCall[d]
        BY <1>2, <1>7
    <3> QED
        BY <3>1, <3>2, <1>8 DEF AuthInv, OldPasswordLockedOut
  <2> QED
      BY <2>1, <2>2
<1> QED
    BY <1>9, <1>14, <1>15, <1>16 DEF AuthInv

-----------------------------------------------------------------------------
LEMMA AuthInitInv == AuthInit => AuthInv
<1> SUFFICES ASSUME AuthInit PROVE AuthInv
    OBVIOUS
<1>1. Issued = {} /\ \A c \in Clients : authCall[c] = NoCall
    BY DEF AuthInit, Issued
<1>2. AuthTypeOK
    BY DEF AuthInit, AuthTypeOK, AuthCalls
<1>3. SpentIsRevoked /\ OneClaim
    BY <1>1 DEF SpentIsRevoked, OneClaim, Rotates, Issues, Child, NoCall
<1>4. ProofsAreReal /\ OldPasswordLockedOut
    BY <1>1 DEF ProofsAreReal, OldPasswordLockedOut, Live, NoCall
<1> QED
    BY <1>2, <1>3, <1>4 DEF AuthInv

LEMMA AuthStepKeeps == AuthInv /\ [AuthNext]_authVars => AuthInv'
<1> SUFFICES ASSUME AuthInv, [AuthNext]_authVars
             PROVE  AuthInv'
    OBVIOUS
<1>1. ASSUME NEW c \in Clients, AuthStep(c)
      PROVE  AuthInv'
  <2>1. CASE \E e \in Emails : RegisterLookup(c, e)
      BY <2>1, LookupBegins
  <2>2. CASE \E e \in Emails, p \in 1 .. MaxPassword : Login(c, e, p) \/ ChangePassword(c, e, p)
      BY <2>2, CallsBegin
  <2>3. CASE RegisterCreate(c) \/ StorePassword(c)
      BY <2>3, AccountsChange
  <2>4. CASE IssueTokenPair(c)
      BY <2>4, PairIssued
  <2>5. CASE LockOut(c)
      BY <2>5, LockedOut
  <2>6. CASE Rotate(c)
      BY <2>6, Rotated
  <2>7. CASE LoseReply(c)
      BY <2>7, CallsDie
  <2>8. ASSUME NEW t \in Tokens, Refresh(c, t) \/ Logout(c, t)
        PROVE  AuthInv'
      BY <2>8, TokensFade, Presented
  <2> QED
      BY <1>1, <2>1, <2>2, <2>3, <2>4, <2>5, <2>6, <2>7, <2>8 DEF AuthStep
<1>2. CASE \E t \in Tokens : Expire(t)
    BY <1>2, TokensFade
<1>3. CASE UNCHANGED authVars
    BY <1>3 DEF authVars, AuthInv, AuthTypeOK, SpentIsRevoked, OneClaim, ProofsAreReal,
                OldPasswordLockedOut, Rotates, Issues, Child, Issued, Live
<1> QED
    BY <1>1, <1>2, <1>3 DEF AuthNext

\* A password change locks out every session of the old password, but those issued in a
\* call that overlapped it and those of an account whose change died half way.
THEOREM OldSessionsEnd == AuthSpec => []OldPasswordLockedOut
<1>1. AuthInv => OldPasswordLockedOut
    BY DEF AuthInv
<1> QED
    BY <1>1, AuthInitInv, AuthStepKeeps, PTL DEF AuthSpec

\* One refresh token gives one pair, unless two calls held it as valid at once.
THEOREM RotationIsSingle == AuthSpec => []OnePairPerToken
<1>1. AuthInv => OnePairPerToken
  <2> SUFFICES ASSUME AuthInv, NEW t \in Issued \ sharedUse
               PROVE  Cardinality({s \in Issued : t \in token[s].parent}) <= 1
      BY DEF OnePairPerToken
  <2> DEFINE S == {s \in Issued : t \in token[s].parent}
  <2>1. \A r, s \in S : r = s
      BY DEF AuthInv, OneClaim, Child, Issued
  <2>2. CASE S = {}
      BY <2>2, FS_EmptySet
  <2>3. CASE S # {}
    <3>1. PICK s \in S : S = {s}
        BY <2>1, <2>3
    <3>2. Cardinality({s}) = 1
        BY FS_Singleton
    <3> QED
        BY <3>1, <3>2
  <2> QED
      BY <2>2, <2>3
<1> QED
    BY <1>1, AuthInitInv, AuthStepKeeps, PTL DEF AuthSpec
=============================================================================
