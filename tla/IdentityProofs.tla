--------------------------- MODULE IdentityProofs ---------------------------
(***************************************************************************)
(* Proofs about users, sessions and the second factor, for any number of   *)
(* users, requests, sessions, codes and attempts.                          *)
(***************************************************************************)
EXTENDS Identity, FiniteSetTheorems, TLAPS

(***************************************************************************)
(* The parts of the inductive invariant.                                   *)
(***************************************************************************)
SessionRows == {NoSession} \cup [user : Users, password : Nat]

\* States of a request.
RequestRows ==
    [at : Points, user : Users \cup {"NONE"}, session : SessionIds \cup {"NONE"},
     password : Nat, seen : Nat, now : Nat]

\* Points at which a request acts for a user.
WithUser == {"challenge", "session", "authenticated", "setup"}

\* Requests keep their types, and act for a user where they need one.
RequestsOK ==
    /\ requests \in [Requests -> RequestRows]
    /\ \A r \in Requests :
          /\ requests[r].at \in WithUser => requests[r].user \in Users
          /\ requests[r].seen <= drawn

\* What may be accepted: challenges, TOTP codes and recovery codes.
Proofs ==
    ({"challenge"} \X (1 .. issued))
    \cup ({"step"} \X (1 .. drawn) \X CodeSteps)
    \cup ({"code"} \X (1 .. drawn) \X CodeNumbers)

\* The history keeps its types.
HistoryOK ==
    /\ drawn \in Nat
    /\ issued \in Nat
    /\ confirmed \in [Users -> 0 .. drawn]
    /\ opened \subseteq Proofs

\* All types.
TypeInv == IdentityTypeOK /\ RequestsOK /\ HistoryOK

\* Challenges that are open have ids of their own and opened nothing.
ChallengesFresh ==
    /\ \A c \in challenges : <<"challenge", c.id>> \notin opened
    /\ \A c, d \in challenges : c.id = d.id => c = d

\* What a credential looks like before it is enabled.
CredentialsOK ==
    \A u \in Users :
        /\ credentials[u].secret = 0 => credentials[u] = NoCredential
        /\ ~credentials[u].enabled => credentials[u].lastUsed = -1

\* A secret waits for its confirmation.
Pending(u) == ~credentials[u].enabled /\ credentials[u].secret # 0

\* Every secret is drawn for one user, and until it is confirmed nothing else
\* knows it.
SecretsFresh ==
    /\ \A u, v \in Users :
          credentials[u].secret = credentials[v].secret /\ u # v =>
              credentials[u].secret = 0
    /\ \A u, v \in Users :
          confirmed[u] = confirmed[v] /\ u # v => confirmed[u] = 0
    /\ \A u \in Users :
          Pending(u) =>
              /\ \A v \in Users : confirmed[v] # credentials[u].secret
              /\ \A n \in CodeNumbers :
                    <<"code", credentials[u].secret, n>> \notin opened

\* No request knows a secret that waits for its confirmation.
SeenFresh ==
    \A u \in Users, r \in Requests :
        Pending(u) => requests[r].seen # credentials[u].secret

\* The steps whose codes were accepted are those up to the last one used.
StepsSpent ==
    \A u \in Users : \A k \in CodeSteps :
        <<"step", credentials[u].secret, k>> \in opened =>
            credentials[u].enabled /\ k <= credentials[u].lastUsed

\* The recovery codes that were accepted are those that are used.
CodesSpent ==
    /\ \A code \in recoveryCodes :
          <<"code", code.generation, code.number>> \in opened => code.used
    /\ \A a, b \in recoveryCodes : a.user = b.user /\ a.number = b.number => a = b

\* A set-up or a login that is about to write without a factor knows of the
\* last confirmation, unless a factor was confirmed since.
StaleOnly ==
    \A r \in Requests :
        /\ requests[r].at \in {"setup", "session"}
        /\ requests[r].seen = confirmed[requests[r].user]
        => ~TOTPEnabled(requests[r].user)

-----------------------------------------------------------------------------
(***************************************************************************)
(* What the actions leave alone.                                           *)
(***************************************************************************)
\* The steps of a request that touch nothing but the limiter and the request.
QuietNext(r) ==
    \/ RegisterArrives(r)
    \/ \E e \in Emails : RegisterTaken(r, e)
    \/ RegistrationFailed(r)
    \/ RegistrationSucceeded(r)
    \/ LoginArrives(r)
    \/ \E u \in Users : LoginPasswordRight(r, u)
    \/ LoginPasswordWrong(r)
    \/ LoginFailed(r)
    \/ LoginSucceeded(r)
    \/ SecondFactorArrives(r)
    \/ ChallengeNotFound(r)
    \/ SecondFactorFailed(r)
    \/ \E s \in SessionIds : Authenticate(r, s)
    \/ Refused(r)
    \/ CheckTOTPForSetup(r)

\* A quiet step changes no table.
LEMMA QuietTables ==
    ASSUME NEW r \in Requests, QuietNext(r)
    PROVE  UNCHANGED <<tables, history, step>>
<1>1. CASE RegisterArrives(r) \/ LoginArrives(r) \/ SecondFactorArrives(r)
    BY <1>1 DEF RegisterArrives, LoginArrives, SecondFactorArrives, Arrives
<1>2. CASE \/ RegistrationFailed(r) \/ RegistrationSucceeded(r) \/ LoginFailed(r)
           \/ LoginSucceeded(r) \/ SecondFactorFailed(r)
    BY <1>2 DEF RegistrationFailed, RegistrationSucceeded, LoginFailed,
                LoginSucceeded, SecondFactorFailed, Reports
<1>3. CASE \/ \E e \in Emails : RegisterTaken(r, e)
           \/ \E u \in Users : LoginPasswordRight(r, u)
           \/ \E s \in SessionIds : Authenticate(r, s)
    BY <1>3 DEF RegisterTaken, LoginPasswordRight, Authenticate
<1>4. CASE LoginPasswordWrong(r) \/ ChallengeNotFound(r) \/ Refused(r) \/ CheckTOTPForSetup(r)
    BY <1>4 DEF LoginPasswordWrong, ChallengeNotFound, Refused, CheckTOTPForSetup
<1>5. QED
    BY <1>1, <1>2, <1>3, <1>4 DEF QuietNext

\* The steps that write users or sessions.
SessionsWritten ==
    \/ \E r \in Requests :
       \/ \E u \in Users, e \in Emails, s \in SessionIds : Register(r, u, e, s)
       \/ \E s \in SessionIds : CreateLoginSession(r, s) \/ RevokeUserSession(r, s)
       \/ \E c \in challenges, codeStep \in CodeSteps, s \in SessionIds :
          VerifyLoginTOTP(r, c, codeStep, s)
       \/ \E c \in challenges, code \in recoveryCodes, s \in SessionIds :
          VerifyLoginRecoveryCode(r, c, code, s)
       \/ ChangePassword(r)
       \/ \E e \in Emails : UpdateProfile(r, e)
       \/ DeleteAccount(r)
    \/ \E s \in SessionIds : Logout(s) \/ SessionExpires(s)
\* The steps that write users or sessions.
LEMMA SessionsFrame ==
  ASSUME [IdentityNext]_identityVars
  PROVE  UNCHANGED <<users, sessions>> \/ SessionsWritten
<1> USE DEF tables, history
<1>1. ASSUME NEW r \in Requests, QuietNext(r) PROVE UNCHANGED <<users, sessions>>
   BY <1>1, QuietTables
<1>2. ASSUME NEW r \in Requests, CreateLoginChallenge(r) \/ UpsertPendingTOTP(r)
      PROVE UNCHANGED <<users, sessions>>
   BY <1>2 DEF CreateLoginChallenge, UpsertPendingTOTP
<1>3. ASSUME NEW r \in Requests, NEW c \in challenges, SecondFactorWrong(r, c)
      PROVE UNCHANGED <<users, sessions>>
   BY <1>3 DEF SecondFactorWrong
<1>4. ASSUME NEW r \in Requests, NEW k \in CodeSteps, ConfirmTOTP(r, k) \/ DisableTOTP(r, k)
      PROVE UNCHANGED <<users, sessions>>
   BY <1>4 DEF ConfirmTOTP, DisableTOTP
<1>5. ASSUME Tick \/ UNCHANGED identityVars \/ \E c \in challenges : ChallengeExpires(c)
      PROVE UNCHANGED <<users, sessions>>
   BY <1>5 DEF Tick, ChallengeExpires, identityVars
<1>6. QED
   BY <1>1, <1>2, <1>3, <1>4, <1>5
      DEF IdentityNext, LoginNext, AuthenticatedNext, QuietNext, SessionsWritten

\* The steps that write challenges, credentials or recovery codes.
LEMMA FactorFrame ==
    ASSUME [IdentityNext]_identityVars
    PROVE  \/ UNCHANGED <<challenges, credentials, recoveryCodes, drawn, issued,
                          confirmed, opened>>
           \/ \E r \in Requests :
                 \/ CreateLoginChallenge(r)
                 \/ \E c \in challenges : SecondFactorWrong(r, c)
                 \/ \E c \in challenges, codeStep \in CodeSteps, s \in SessionIds :
                       VerifyLoginTOTP(r, c, codeStep, s)
                 \/ \E c \in challenges, code \in recoveryCodes, s \in SessionIds :
                       VerifyLoginRecoveryCode(r, c, code, s)
                 \/ UpsertPendingTOTP(r)
                 \/ \E codeStep \in CodeSteps : ConfirmTOTP(r, codeStep) \/ DisableTOTP(r, codeStep)
                 \/ DeleteAccount(r)
           \/ \E c \in challenges : ChallengeExpires(c)
<1> DEFINE Same == UNCHANGED <<challenges, credentials, recoveryCodes, drawn, issued,
                               confirmed, opened>>
<1> USE DEF tables, history
<1>1. ASSUME NEW r \in Requests, QuietNext(r) PROVE Same
    BY <1>1, QuietTables
<1>2. ASSUME NEW r \in Requests, NEW u \in Users, NEW e \in Emails, NEW s \in SessionIds,
             Register(r, u, e, s)
      PROVE  Same
    BY <1>2 DEF Register
<1>3. ASSUME NEW r \in Requests, NEW s \in SessionIds,
             CreateLoginSession(r, s) \/ RevokeUserSession(r, s)
      PROVE  Same
    BY <1>3 DEF CreateLoginSession, RevokeUserSession
<1>4. ASSUME NEW r \in Requests, ChangePassword(r) \/ \E e \in Emails : UpdateProfile(r, e)
      PROVE  Same
    BY <1>4 DEF ChangePassword, UpdateProfile
<1>5. ASSUME Tick \/ UNCHANGED identityVars \/ \E s \in SessionIds : Logout(s) \/ SessionExpires(s)
      PROVE  Same
    BY <1>5 DEF Tick, Logout, SessionExpires, identityVars
<1>6. QED
    BY <1>1, <1>2, <1>3, <1>4, <1>5
       DEF IdentityNext, LoginNext, AuthenticatedNext, QuietNext

\* One challenge is stored at a time.
LEMMA ChallengesFinite ==
    ASSUME IsFiniteSet(challenges), [IdentityNext]_identityVars
    PROVE  IsFiniteSet(challenges)'
<1>1. \E x : challenges' \subseteq challenges \cup {x}
    BY FactorFrame
       DEF CreateLoginChallenge, SecondFactorWrong, AttemptCounted, VerifyLoginTOTP,
       VerifyLoginRecoveryCode, ChallengeConsumed, UpsertPendingTOTP, ConfirmTOTP,
       DisableTOTP, DeleteAccount, ChallengeExpires
<1>2. QED
    BY <1>1, FS_AddElement, FS_Subset

\* Request r moves to q, knowing no more than confirmed secrets and the password
\* of now.
RequestMoves(r) ==
    \E q \in RequestRows :
        /\ requests' = [requests EXCEPT ![r] = q]
        /\ q.at \in WithUser => q.user \in Users
        /\ q.seen = 0 \/ q.seen = requests[r].seen \/ \E u \in Users : q.seen = confirmed[u]
        /\ q.at \in {"session", "challenge"} =>
              q.password = users[q.user].password /\ UNCHANGED users
        /\ q.at \in {"setup", "session"} =>
              /\ ~TOTPEnabled(q.user)
              /\ q.seen = confirmed[q.user]
              /\ UNCHANGED <<credentials, confirmed>>

\* A request that ends acts for nobody.
LEMMA Ending ==
    ASSUME NEW r \in Requests, Ends(r)
    PROVE  RequestMoves(r)
<1>1. NoRequest \in RequestRows
   BY DEF NoRequest, RequestRows, Points
<1>2. NoRequest.seen = 0 /\ NoRequest.at = "idle"
   BY DEF NoRequest
<1> QED
   BY <1>1, <1>2 DEF Ends, Becomes, RequestMoves, WithUser

\* A request that goes on to a point without a user.
LEMMA Going ==
    ASSUME TypeInv, NEW r \in Requests, NEW p \in Points \ WithUser, Goes(r, p)
    PROVE  RequestMoves(r)
<1> DEFINE q == [requests[r] EXCEPT !.at = p]
<1>1. q \in RequestRows
   BY DEF TypeInv, RequestsOK, RequestRows
<1>2. q.seen = requests[r].seen /\ q.at = p
   BY DEF TypeInv, RequestsOK, RequestRows
<1>3. requests' = [requests EXCEPT ![r] = q]
   BY DEF Goes, Becomes
<1> HIDE DEF q
<1> QED
   BY <1>1, <1>2, <1>3 DEF RequestMoves, WithUser

\* A request that a limiter lets through.
LEMMA Arriving ==
    ASSUME NEW r \in Requests, NEW l, NEW p \in Points \ WithUser, NEW now \in Nat,
           Arrives(r, l, p, now)
    PROVE  RequestMoves(r)
<1> DEFINE q == [NoRequest EXCEPT !.at = p, !.now = now]
<1>1. q \in RequestRows
   BY DEF NoRequest, RequestRows, Points
<1>2. q.seen = 0 /\ q.at = p
   BY DEF NoRequest
<1>3. requests' = [requests EXCEPT ![r] = q]
   BY DEF Arrives, Becomes
<1> HIDE DEF q
<1> QED
   BY <1>1, <1>2, <1>3 DEF RequestMoves, WithUser

\* Every step moves one request at most.
LEMMA RequestStep ==
    ASSUME IdentityConstants, TypeInv, [IdentityNext]_identityVars
    PROVE  UNCHANGED requests \/ \E r \in Requests : RequestMoves(r)
<1> USE DEF WithUser
<1>1. UNCHANGED identityVars \/ Tick => UNCHANGED requests
    BY DEF identityVars, Tick
<1>2. ASSUME NEW s \in SessionIds, Logout(s) \/ SessionExpires(s)
      PROVE UNCHANGED requests
    BY <1>2 DEF Logout, SessionExpires
<1>3. ASSUME NEW c \in challenges, ChallengeExpires(c) PROVE UNCHANGED requests
    BY <1>3 DEF ChallengeExpires
<1>4. ASSUME NEW r \in Requests, LoginNext(r) \/ AuthenticatedNext(r)
      PROVE  RequestMoves(r)
  <2>0. step \in Nat
    BY DEF TypeInv, IdentityTypeOK, IdentityConstants
  <2>1. CASE RegisterArrives(r) \/ LoginArrives(r) \/ SecondFactorArrives(r)
    BY <2>0, <2>1, Arriving, 0 \in Nat
       DEF RegisterArrives, LoginArrives, SecondFactorArrives, Points
  <2>2. CASE \/ RegistrationFailed(r) \/ RegistrationSucceeded(r) \/ LoginFailed(r)
             \/ LoginSucceeded(r) \/ SecondFactorFailed(r) \/ Refused(r)
    BY <2>2, Ending DEF RegistrationFailed, RegistrationSucceeded, LoginFailed,
                LoginSucceeded, SecondFactorFailed, Reports, Refused
  <2>3. CASE \/ \E u \in Users, e \in Emails, s \in SessionIds : Register(r, u, e, s)
             \/ \E e \in Emails : RegisterTaken(r, e)
             \/ LoginPasswordWrong(r)
             \/ ChallengeNotFound(r)
             \/ \E c \in challenges : SecondFactorWrong(r, c)
    BY <2>3, Going DEF Register, RegisterTaken, LoginPasswordWrong, ChallengeNotFound,
         SecondFactorWrong, Points
  <2>4. CASE \/ \E c \in challenges, codeStep \in CodeSteps, s \in SessionIds :
                   VerifyLoginTOTP(r, c, codeStep, s)
             \/ \E c \in challenges, code \in recoveryCodes, s \in SessionIds :
                   VerifyLoginRecoveryCode(r, c, code, s)
    BY <2>4, Going DEF VerifyLoginTOTP, VerifyLoginRecoveryCode, Points
  <2>5. CASE \/ \E s \in SessionIds : RevokeUserSession(r, s)
             \/ UpsertPendingTOTP(r)
             \/ \E k \in CodeSteps : ConfirmTOTP(r, k) \/ DisableTOTP(r, k)
             \/ ChangePassword(r)
             \/ \E e \in Emails : UpdateProfile(r, e)
             \/ DeleteAccount(r)
    BY <2>5, Ending DEF RevokeUserSession, UpsertPendingTOTP, ConfirmTOTP, DisableTOTP,
         ChangePassword, UpdateProfile, DeleteAccount
  <2>6. CASE \/ CreateLoginChallenge(r) \/ \E s \in SessionIds : CreateLoginSession(r, s)
    <3> DEFINE q == [NoRequest EXCEPT !.at = "succeeded"]
    <3>1. requests' = [requests EXCEPT ![r] = q]
      BY <2>6 DEF CreateLoginChallenge, CreateLoginSession, Becomes
    <3>2. q \in RequestRows /\ q.at = "succeeded" /\ q.seen = 0
      BY DEF NoRequest, RequestRows, Points
    <3> HIDE DEF q
    <3> QED BY <3>1, <3>2 DEF RequestMoves
  <2>7. ASSUME NEW u \in Users, LoginPasswordRight(r, u) PROVE RequestMoves(r)
    <3> DEFINE p == IF TOTPEnabled(u) THEN "challenge" ELSE "session"
               q == [requests[r] EXCEPT !.at = p, !.user = u, !.password = users[u].password,
                                     !.seen = confirmed[u], !.now = 0]
    <3>1. requests' = [requests EXCEPT ![r] = q] /\ UNCHANGED <<users, credentials, confirmed>>
      BY <2>7 DEF LoginPasswordRight, Becomes, tables, history
    <3>2. p \in Points /\ confirmed[u] \in Nat /\ users[u].password \in Nat
      BY DEF Points, TypeInv, HistoryOK, IdentityTypeOK
    <3>3. p = "session" => ~TOTPEnabled(u)
      OBVIOUS
    <3>3a. p # "setup"
      OBVIOUS
    <3> HIDE DEF p
    <3>4. /\ q \in RequestRows /\ q.at = p /\ q.seen = confirmed[u] /\ q.user = u
          /\ q.password = users[u].password
      BY <3>2 DEF TypeInv, RequestsOK, RequestRows
    <3> HIDE DEF q
    <3> QED BY <3>1, <3>3, <3>3a, <3>4 DEF RequestMoves
  <2>8. ASSUME NEW s \in SessionIds, Authenticate(r, s) PROVE RequestMoves(r)
    <3> DEFINE q == [NoRequest EXCEPT !.at = "authenticated", !.user = sessions[s].user,
                       !.session = s]
    <3>1. requests' = [requests EXCEPT ![r] = q]
      BY <2>8 DEF Authenticate, Becomes
    <3>2. sessions[s].user \in Users
      BY <2>8 DEF Authenticate, SessionUsable, TypeInv, IdentityTypeOK
    <3>3. q \in RequestRows /\ q.at = "authenticated" /\ q.seen = 0 /\ q.user = sessions[s].user
      BY <3>2 DEF NoRequest, RequestRows, Points
    <3> HIDE DEF q
    <3> QED BY <3>1, <3>2, <3>3 DEF RequestMoves
  <2>9. CASE CheckTOTPForSetup(r)
    <3> DEFINE u == requests[r].user
               q == [NoRequest EXCEPT !.at = "setup", !.user = u, !.seen = confirmed[u]]
    <3>1. requests' = [requests EXCEPT ![r] = q] /\ UNCHANGED <<credentials, confirmed>> /\ ~TOTPEnabled(u)
      BY <2>9 DEF CheckTOTPForSetup, Becomes, tables, history
    <3>2. u \in Users
      BY <2>9 DEF CheckTOTPForSetup, Is, TypeInv, RequestsOK
    <3>3. confirmed[u] \in Nat
      BY <3>2 DEF TypeInv, HistoryOK
    <3> HIDE DEF u
    <3>4. q \in RequestRows /\ q.at = "setup" /\ q.seen = confirmed[u] /\ q.user = u
      BY <3>2, <3>3 DEF NoRequest, RequestRows, Points
    <3> HIDE DEF q
    <3> QED BY <3>1, <3>2, <3>4 DEF RequestMoves
  <2>10. QED
    BY <1>4, <2>1, <2>2, <2>3, <2>4, <2>5, <2>6, <2>7, <2>8, <2>9
       DEF LoginNext, AuthenticatedNext
<1>5. QED
    BY <1>1, <1>2, <1>3, <1>4 DEF IdentityNext

\* Users and sessions keep their types.
SessionTypes ==
    /\ users \in [Users -> [status : {"none", "registered", "deleted"},
                            email : Emails \cup {"NONE"}, password : Nat]]
    /\ sessions \in [SessionIds -> SessionRows]

\* Sessions are of users that exist.
SessionsOwned ==
    \A s \in SessionIds : SessionUsable(s) => Registered(sessions[s].user)

\* What holds of users and sessions.
SessionInv == SessionTypes /\ SessionsOwned

\* s is opened for u with a password that was verified.
LEMMA Opening ==
    ASSUME SessionInv, "NONE" \notin Users \cup SessionIds,
           NEW u \in Users, NEW s \in SessionIds, NEW p \in Nat, Registered(u),
           UNCHANGED users,
           sessions' = [sessions EXCEPT ![s] = [user |-> u, password |-> p]]
    PROVE  SessionInv'
<1>1. SessionTypes'
    BY DEF SessionInv, SessionTypes, SessionRows
<1>2. \A t \in SessionIds : t # s => sessions'[t] = sessions[t]
    BY DEF SessionInv, SessionTypes
<1>3. sessions'[s] = [user |-> u, password |-> p]
    BY DEF SessionInv, SessionTypes
<1>4. SessionsOwned'
    BY <1>2, <1>3
       DEF SessionInv, SessionsOwned, SessionUsable, Registered, NoSession
<1>5. QED
    BY <1>1, <1>4 DEF SessionInv

\* Some sessions end.
LEMMA Closing ==
    ASSUME SessionInv, NEW S,
           UNCHANGED users,
           sessions' = [s \in SessionIds |-> IF s \in S THEN NoSession ELSE sessions[s]]
    PROVE  SessionInv'
<1>1. SessionTypes'
    BY DEF SessionInv, SessionTypes, SessionRows
<1>2. \A s \in SessionIds : sessions'[s] = NoSession \/ sessions'[s] = sessions[s]
    OBVIOUS
<1>3. SessionsOwned'
    BY <1>2 DEF SessionInv, SessionsOwned, SessionUsable, Registered
<1>4. QED
    BY <1>1, <1>3 DEF SessionInv

\* Sessions stay those of users that exist, with passwords that are current.
LEMMA SessionStep ==
    ASSUME IdentityConstants, TypeInv, SessionInv, [IdentityNext]_identityVars
    PROVE  SessionInv'
<1> USE DEF IdentityConstants
<1>1. CASE UNCHANGED <<users, sessions>>
    BY <1>1
       DEF SessionInv, SessionTypes, SessionsOwned, SessionUsable,
       Registered
<1>2. ASSUME NEW r \in Requests, NEW u \in Users, NEW e \in Emails, NEW s \in SessionIds,
             Register(r, u, e, s)
      PROVE  SessionInv'
  <2>1. /\ users[u].status = "none"
        /\ users' = [users EXCEPT ![u] = [status |-> "registered", email |-> e, password |-> 1]]
        /\ sessions' = [sessions EXCEPT ![s] = [user |-> u, password |-> 1]]
    BY <1>2 DEF Register, CreateUser
  <2>2. SessionTypes'
    BY <2>1 DEF SessionInv, SessionTypes, SessionRows
  <2>3. \A t \in SessionIds : t # s => sessions'[t] = sessions[t]
    BY <2>1 DEF SessionInv, SessionTypes
  <2>4. sessions'[s] = [user |-> u, password |-> 1]
    BY <2>1 DEF SessionInv, SessionTypes
  <2>5. /\ \A v \in Users : v # u => users'[v] = users[v]
        /\ users'[u].status = "registered" /\ users'[u].password = 1
    BY <2>1 DEF SessionInv, SessionTypes
  <2>6. \A t \in SessionIds : t # s /\ sessions'[t] # NoSession => sessions[t].user \in Users \ {u}
    BY <2>1, <2>3
       DEF SessionInv, SessionTypes, SessionRows, SessionsOwned, SessionUsable, Registered
  <2>7. SessionsOwned'
    BY <2>3, <2>4, <2>5, <2>6
       DEF SessionInv, SessionsOwned, SessionUsable, Registered, NoSession
  <2>8. QED
    BY <2>2, <2>7 DEF SessionInv
<1>3. ASSUME NEW r \in Requests, NEW s \in SessionIds, CreateLoginSession(r, s)
      PROVE  SessionInv'
  <2>1. requests[r].user \in Users /\ requests[r].password \in Nat
    BY <1>3 DEF CreateLoginSession, Is, TypeInv, RequestsOK, RequestRows, WithUser
  <2>2. QED
    BY <1>3, <2>1, Opening DEF CreateLoginSession, CreateSession, SessionAccepted, history
<1>4. ASSUME NEW r \in Requests, NEW c \in challenges, NEW k \in CodeSteps, NEW s \in SessionIds,
             VerifyLoginTOTP(r, c, k, s)
      PROVE  SessionInv'
  <2>1. c.user \in Users /\ c.password \in Nat
    BY DEF TypeInv, IdentityTypeOK
  <2>2. QED
    BY <1>4, <2>1, Opening DEF VerifyLoginTOTP, CreateSession, SessionAccepted
<1>5. ASSUME NEW r \in Requests, NEW c \in challenges, NEW code \in recoveryCodes,
             NEW s \in SessionIds, VerifyLoginRecoveryCode(r, c, code, s)
      PROVE  SessionInv'
  <2>1. c.user \in Users /\ c.password \in Nat
    BY DEF TypeInv, IdentityTypeOK
  <2>2. QED
    BY <1>5, <2>1, Opening DEF VerifyLoginRecoveryCode, CreateSession, SessionAccepted
<1>6. ASSUME NEW s \in SessionIds,
             Logout(s) \/ SessionExpires(s) \/ \E r \in Requests : RevokeUserSession(r, s)
      PROVE  SessionInv'
  <2>1. UNCHANGED users /\ sessions' = [sessions EXCEPT ![s] = NoSession]
    BY <1>6 DEF Logout, SessionExpires, RevokeUserSession, SessionRevoked, history
  <2>2. sessions' = [t \in SessionIds |-> IF t \in {s} THEN NoSession ELSE sessions[t]]
    BY <2>1 DEF SessionInv, SessionTypes
  <2>3. QED
    BY <2>1, <2>2, Closing
<1>7. ASSUME NEW r \in Requests, ChangePassword(r)
      PROVE  SessionInv'
  <2> DEFINE u == requests[r].user
             t == requests[r].session
  <2>1. u \in Users /\ t \in SessionIds \cup {"NONE"}
    BY <1>7 DEF ChangePassword, Is, TypeInv, RequestsOK, RequestRows, WithUser
  <2>2. /\ Registered(u)
        /\ users' = [users EXCEPT ![u].password = @ + 1]
        /\ sessions' = Renewed(OtherSessionsRevoked(u, t), u, t, users'[u].password)
    BY <1>7 DEF ChangePassword, PasswordUpdated
  <2> HIDE DEF u, t
  <2>3. /\ \A v \in Users : users'[v].status = users[v].status
        /\ users' \in [Users -> [status : {"none", "registered", "deleted"},
                                 email : Emails \cup {"NONE"}, password : Nat]]
        /\ users'[u].password \in Nat
    BY <2>1, <2>2 DEF SessionInv, SessionTypes
  <2>4. \A s \in SessionIds :
            \/ sessions'[s] = NoSession
            \/ sessions'[s] = sessions[s]
            \/ /\ sessions[s] # NoSession
               /\ sessions'[s] = [sessions[s] EXCEPT !.password = users'[u].password]
    BY <2>1, <2>2 DEF Renewed, OtherSessionsRevoked, NoSession
  <2>5. \A s \in SessionIds :
            \/ sessions'[s] = NoSession
            \/ /\ sessions[s] # NoSession
               /\ sessions'[s] \in [user : Users, password : Nat]
               /\ sessions'[s].user = sessions[s].user
    <3> SUFFICES ASSUME NEW s \in SessionIds, sessions'[s] # NoSession
                 PROVE  /\ sessions[s] # NoSession
                        /\ sessions'[s] \in [user : Users, password : Nat]
                        /\ sessions'[s].user = sessions[s].user
      OBVIOUS
    <3>1. sessions[s] # NoSession
      BY <2>4
    <3>2. sessions[s] \in [user : Users, password : Nat]
      BY <3>1 DEF SessionInv, SessionTypes, SessionRows
    <3>3. CASE sessions'[s] = sessions[s]
      BY <3>1, <3>2, <3>3
    <3>4. CASE sessions'[s] = [sessions[s] EXCEPT !.password = users'[u].password]
      <4> DEFINE old == sessions[s]
                 p == users'[u].password
      <4>1. sessions'[s] = [old EXCEPT !.password = p] /\ old \in [user : Users, password : Nat]
            /\ p \in Nat
        BY <2>3, <3>2, <3>4
      <4> HIDE DEF old, p
      <4>2. sessions'[s] \in [user : Users, password : Nat] /\ sessions'[s].user = old.user
        BY <4>1
      <4>3. QED
        BY <3>1, <4>2 DEF old
    <3>5. QED
      BY <2>4, <3>3, <3>4
  <2>6. SessionTypes'
    BY <2>2, <2>3, <2>5 DEF SessionTypes, SessionRows, Renewed
  <2>7. SessionsOwned'
    BY <2>3, <2>5 DEF SessionInv, SessionTypes, SessionsOwned, SessionUsable, Registered
  <2>8. QED
    BY <2>6, <2>7 DEF SessionInv
<1>8. ASSUME NEW r \in Requests, NEW e \in Emails, UpdateProfile(r, e)
      PROVE  SessionInv'
  <2> DEFINE u == requests[r].user
  <2>1. u \in Users
    BY <1>8 DEF UpdateProfile, Is, TypeInv, RequestsOK, RequestRows, WithUser
  <2>2. users' = [users EXCEPT ![u].email = e] /\ UNCHANGED sessions
    BY <1>8 DEF UpdateProfile, ProfileUpdated, history
  <2> HIDE DEF u
  <2>3. SessionTypes'
    BY <2>1, <2>2 DEF SessionInv, SessionTypes, SessionRows
  <2>4. \A v \in Users : users'[v].status = users[v].status /\ users'[v].password = users[v].password
    BY <2>1, <2>2 DEF SessionInv, SessionTypes
  <2>5. \A s \in SessionIds : sessions[s] # NoSession => sessions[s].user \in Users
    BY DEF SessionInv, SessionTypes, SessionRows
  <2>6. SessionsOwned'
    BY <2>2, <2>4, <2>5
       DEF SessionInv, SessionsOwned, SessionUsable, Registered
  <2>7. QED
    BY <2>3, <2>6 DEF SessionInv
<1>9. ASSUME NEW r \in Requests, DeleteAccount(r)
      PROVE  SessionInv'
  <2> DEFINE u == requests[r].user
  <2>1. u \in Users
    BY <1>9 DEF DeleteAccount, Is, TypeInv, RequestsOK, RequestRows, WithUser
  <2>2. /\ users' = [users EXCEPT ![u].status = "deleted"]
        /\ sessions' = [s \in SessionIds |->
              IF sessions[s].user = u /\ s # "NONE" THEN NoSession ELSE sessions[s]]
    BY <1>9 DEF DeleteAccount, UserDeleted, OtherSessionsRevoked
  <2> HIDE DEF u
  <2>3. SessionTypes'
    BY <2>1, <2>2 DEF SessionInv, SessionTypes, SessionRows
  <2>4. \A v \in Users : v # u => users'[v] = users[v]
    BY <2>1, <2>2 DEF SessionInv, SessionTypes
  <2>5. \A s \in SessionIds : sessions'[s] # NoSession =>
            /\ sessions'[s] = sessions[s]
            /\ sessions[s].user \in Users \ {u}
    BY <2>2 DEF SessionInv, SessionTypes, SessionRows
  <2>6. SessionsOwned'
    BY <2>2, <2>4, <2>5
       DEF SessionInv, SessionsOwned, SessionUsable, Registered
  <2>7. QED
    BY <2>3, <2>6 DEF SessionInv
<1>10. QED
    BY <1>1, <1>2, <1>3, <1>4, <1>5, <1>6, <1>7, <1>8, <1>9, SessionsFrame
       DEF SessionsWritten

\* Challenges, credentials, codes and their history keep their types.
FactorTypes ==
    /\ challenges \subseteq
          [id : 1 .. issued, user : Users, attempts : 0 .. MaxAttempts, password : Nat]
    /\ credentials \in [Users -> [secret : 0 .. drawn, enabled : BOOLEAN, lastUsed : Int]]
    /\ recoveryCodes \subseteq
          [user : Users, generation : 1 .. drawn, number : CodeNumbers, used : BOOLEAN]
    /\ drawn \in Nat
    /\ issued \in Nat
    /\ confirmed \in [Users -> 0 .. drawn]
    /\ opened \subseteq Proofs

\* What holds of challenges, credentials and codes.
FactorInv ==
    /\ FactorTypes
    /\ ChallengesFresh
    /\ CredentialsOK
    /\ SecretsFresh
    /\ StepsSpent
    /\ CodesSpent
    /\ CodesOfLatestConfirmation

\* Challenges, codes and whole credentials go away.
LEMMA Removing ==
    ASSUME FactorInv, NEW S \in SUBSET Users,
           challenges' \subseteq challenges,
           recoveryCodes' \subseteq recoveryCodes,
           credentials' = [u \in Users |-> IF u \in S THEN NoCredential ELSE credentials[u]],
           UNCHANGED <<drawn, issued, confirmed>>,
           \A p \in opened' :
              \/ p \in opened
              \/ \E u \in S, k \in CodeSteps :
                    credentials[u].secret # 0 /\ p = <<"step", credentials[u].secret, k>>
    PROVE  FactorInv'
<1>0. \A u \in Users, k \in CodeSteps :
          credentials[u].secret # 0 => <<"step", credentials[u].secret, k>> \in Proofs
    BY DEF FactorInv, FactorTypes, Proofs
<1>0a. Proofs' = Proofs
    BY DEF Proofs
<1>0b. opened' \subseteq Proofs
    BY <1>0 DEF FactorInv, FactorTypes
<1>1. FactorTypes'
    BY <1>0a, <1>0b DEF FactorInv, FactorTypes, NoCredential
<1>2. \A u \in Users : \/ credentials'[u] = credentials[u]
                       \/ /\ credentials'[u].secret = 0 /\ ~credentials'[u].enabled
                          /\ credentials'[u].lastUsed = -1
                          /\ credentials'[u] = NoCredential
    BY DEF NoCredential
<1>2a. /\ \A x : <<"challenge", x>> \in opened' => <<"challenge", x>> \in opened
       /\ \A x, n : <<"code", x, n>> \in opened' => <<"code", x, n>> \in opened
    OBVIOUS
<1>3. ChallengesFresh'
    BY <1>2a DEF FactorInv, ChallengesFresh
<1>4. CredentialsOK'
    BY <1>2 DEF FactorInv, CredentialsOK
<1>5. SecretsFresh'
    BY <1>2, <1>2a DEF FactorInv, SecretsFresh, Pending
<1>6. \A k \in CodeSteps : <<"step", 0, k>> \notin opened'
    BY <1>0b DEF FactorInv, FactorTypes, Proofs
<1>7. StepsSpent'
  <2> SUFFICES ASSUME NEW u \in Users, NEW k \in CodeSteps,
                      <<"step", credentials'[u].secret, k>> \in opened'
               PROVE  credentials'[u].enabled /\ k <= credentials'[u].lastUsed
    BY DEF StepsSpent
  <2>1. u \notin S /\ credentials'[u] = credentials[u]
    BY <1>2, <1>6 DEF NoCredential
  <2>2. \A v \in S : credentials[v].secret # 0 => credentials[v].secret # credentials[u].secret
    BY <2>1 DEF FactorInv, SecretsFresh
  <2>3. <<"step", credentials[u].secret, k>> \in opened
    BY <2>1, <2>2
  <2>4. QED
    BY <2>1, <2>3 DEF FactorInv, StepsSpent
<1>8. CodesSpent'
    BY <1>2a DEF FactorInv, CodesSpent
<1>9. CodesOfLatestConfirmation'
    BY DEF FactorInv, CodesOfLatestConfirmation
<1>10. QED
    BY <1>1, <1>3, <1>4, <1>5, <1>7, <1>8, <1>9 DEF FactorInv

\* A challenge that is presented is consumed and its id joins what was accepted.
LEMMA Consuming ==
    ASSUME FactorInv, NEW c \in challenges, NEW p,
           challenges' = challenges \ {c},
           opened' = opened \cup {<<"challenge", c.id>>, p},
           \A d \in challenges : p # <<"challenge", d.id>>
    PROVE  ChallengesFresh'
<1>1. \A d \in challenges' : d \in challenges /\ d.id # c.id
    BY DEF FactorInv, ChallengesFresh
<1>2. \A d \in challenges' : <<"challenge", d.id>> # <<"challenge", c.id>>
    BY <1>1
<1>3. QED
    BY <1>1, <1>2 DEF FactorInv, ChallengesFresh

\* What was accepted stays apart from what can still be accepted.
LEMMA FactorStep ==
    ASSUME IdentityConstants, RequestsOK, FactorInv, StaleOnly, [IdentityNext]_identityVars
    PROVE  FactorInv'
<1> USE DEF IdentityConstants
<1>1. CASE UNCHANGED <<challenges, credentials, recoveryCodes, drawn, issued, confirmed, opened>>
  <2>1. credentials' = [u \in Users |-> IF u \in {} THEN NoCredential ELSE credentials[u]]
    BY <1>1 DEF FactorInv, FactorTypes
  <2>2. {} \in SUBSET Users
    OBVIOUS
  <2>3. challenges' \subseteq challenges /\ recoveryCodes' \subseteq recoveryCodes
    BY <1>1
  <2>4. QED
    BY <1>1, <2>1, <2>2, <2>3, Removing
<1>2. ASSUME NEW c \in challenges, ChallengeExpires(c) PROVE FactorInv'
  <2>1. credentials' = [u \in Users |-> IF u \in {} THEN NoCredential ELSE credentials[u]]
    BY <1>2 DEF FactorInv, FactorTypes, ChallengeExpires
  <2>2. /\ {} \in SUBSET Users
        /\ challenges' \subseteq challenges
        /\ recoveryCodes' \subseteq recoveryCodes
        /\ UNCHANGED <<drawn, issued, confirmed, opened>>
    BY <1>2 DEF ChallengeExpires, history
  <2>3. QED
    BY <2>1, <2>2, Removing
<1>3. ASSUME NEW r \in Requests, DeleteAccount(r) \/ \E k \in CodeSteps : DisableTOTP(r, k)
      PROVE  FactorInv'
  <2>1. requests[r].user \in Users
    BY <1>3 DEF DeleteAccount, DisableTOTP, Is, RequestsOK, WithUser
  <2>2. credentials' = [u \in Users |->
            IF u \in {requests[r].user} THEN NoCredential ELSE credentials[u]]
    BY <1>3, <2>1 DEF DeleteAccount, DisableTOTP, CredentialDeleted, FactorInv, FactorTypes
  <2>3. challenges' \subseteq challenges /\ recoveryCodes' \subseteq recoveryCodes
    BY <1>3 DEF DeleteAccount, DisableTOTP, CodesDeleted
  <2>4. UNCHANGED <<drawn, issued, confirmed>>
    BY <1>3 DEF DeleteAccount, DisableTOTP, history
  <2>5. CASE DeleteAccount(r)
    <3>1. UNCHANGED opened
      BY <2>5 DEF DeleteAccount, history
    <3>2. QED
      BY <2>1, <2>2, <2>3, <2>4, <3>1, Removing
  <2>6. ASSUME NEW k \in CodeSteps, DisableTOTP(r, k) PROVE FactorInv'
    <3>1. credentials[requests[r].user].secret # 0
      BY <2>1, <2>6 DEF DisableTOTP, TOTPEnabled, FactorInv, CredentialsOK, NoCredential
    <3>2. opened' = opened \cup {<<"step", credentials[requests[r].user].secret, k>>}
      BY <2>6 DEF DisableTOTP
    <3>3. QED
      BY <2>1, <2>2, <2>3, <2>4, <3>1, <3>2, Removing
  <2>7. QED
    BY <1>3, <2>5, <2>6
<1>4. ASSUME NEW r \in Requests, CreateLoginChallenge(r) PROVE FactorInv'
  <2> DEFINE c == [id |-> issued + 1, user |-> requests[r].user, attempts |-> 0,
                   password |-> requests[r].password]
  <2>1. requests[r].user \in Users /\ requests[r].password \in Nat
    BY <1>4 DEF CreateLoginChallenge, Is, RequestsOK, RequestRows, WithUser
  <2>2. /\ issued' = issued + 1
        /\ challenges' = challenges \cup {c}
        /\ UNCHANGED <<credentials, recoveryCodes, drawn, confirmed, opened>>
    BY <1>4 DEF CreateLoginChallenge, ChallengeRow
  <2>3. /\ c.id = issued + 1
        /\ c \in [id : 1 .. issued', user : Users, attempts : 0 .. MaxAttempts, password : Nat]
    BY <2>1, <2>2 DEF FactorInv, FactorTypes
  <2> HIDE DEF c
  <2>4. FactorTypes'
    BY <2>2, <2>3 DEF FactorInv, FactorTypes, Proofs
  <2>5. <<"challenge", issued + 1>> \notin opened /\ \A d \in challenges : d.id # issued + 1
    BY DEF FactorInv, FactorTypes, Proofs
  <2>6. ChallengesFresh'
    BY <2>2, <2>3, <2>5 DEF FactorInv, ChallengesFresh
  <2>7. QED
    BY <2>2, <2>4, <2>6
       DEF FactorInv, CredentialsOK, SecretsFresh, Pending, StepsSpent, CodesSpent,
       CodesOfLatestConfirmation
<1>5. ASSUME NEW r \in Requests, NEW c \in challenges, SecondFactorWrong(r, c) PROVE FactorInv'
  <2> DEFINE d == [c EXCEPT !.attempts = @ + 1]
  <2>1. /\ challenges' = (challenges \ {c}) \cup {d}
        /\ c.attempts < MaxAttempts
        /\ UNCHANGED <<credentials, recoveryCodes, drawn, issued, confirmed, opened>>
    BY <1>5 DEF SecondFactorWrong, AttemptCounted, UsableChallenge, history
  <2>2. /\ d.id = c.id
        /\ d \in [id : 1 .. issued, user : Users, attempts : 0 .. MaxAttempts, password : Nat]
    BY <2>1 DEF FactorInv, FactorTypes
  <2> HIDE DEF d
  <2>3. FactorTypes'
    BY <2>1, <2>2 DEF FactorInv, FactorTypes, Proofs
  <2>4. ChallengesFresh'
    BY <2>1, <2>2 DEF FactorInv, ChallengesFresh
  <2>5. QED
    BY <2>1, <2>3, <2>4
       DEF FactorInv, CredentialsOK, SecretsFresh, Pending, StepsSpent, CodesSpent,
       CodesOfLatestConfirmation
<1>6. ASSUME NEW r \in Requests, NEW c \in challenges, NEW k \in CodeSteps, NEW s \in SessionIds,
             VerifyLoginTOTP(r, c, k, s)
      PROVE  FactorInv'
  <2> DEFINE u == c.user
             old == credentials[u]
             p == <<"step", old.secret, k>>
  <2>0. u \in Users /\ c.id \in 1 .. issued
    BY DEF FactorInv, FactorTypes
  <2>1. /\ old.enabled
        /\ k > old.lastUsed
        /\ credentials' = [credentials EXCEPT ![u] =
              IF old.lastUsed < k THEN [old EXCEPT !.lastUsed = k] ELSE old]
        /\ challenges' = challenges \ {c}
        /\ opened' = opened \cup {<<"challenge", c.id>>, p}
        /\ UNCHANGED <<recoveryCodes, drawn, issued, confirmed>>
    BY <1>6, <2>0
       DEF VerifyLoginTOTP, UsableChallenge, TOTPEnabled, ValidateTOTP, LastUsedStep,
       ChallengeConsumed, FactorInv, FactorTypes
  <2>2. /\ old.secret \in 0 .. drawn /\ old.lastUsed \in Int /\ old.enabled \in BOOLEAN
        /\ old.secret # 0
        /\ k \in Int
    BY <2>0, <2>1 DEF FactorInv, FactorTypes, CredentialsOK, NoCredential
  <2>3. credentials'[u] = [old EXCEPT !.lastUsed = k]
    BY <2>0, <2>1, <2>2 DEF FactorInv, FactorTypes
  <2>4. /\ credentials'[u].secret = old.secret
        /\ credentials'[u].enabled = old.enabled
        /\ credentials'[u].lastUsed = k
        /\ credentials'[u] \in [secret : 0 .. drawn, enabled : BOOLEAN, lastUsed : Int]
    BY <2>0, <2>2, <2>3 DEF FactorInv, FactorTypes
  <2>5. /\ \A v \in Users : v # u => credentials'[v] = credentials[v]
        /\ credentials' \in [Users -> [secret : 0 .. drawn, enabled : BOOLEAN, lastUsed : Int]]
    BY <2>0, <2>1, <2>4 DEF FactorInv, FactorTypes
  <2>6. \A d \in challenges : p # <<"challenge", d.id>>
    OBVIOUS
  <2>7. ChallengesFresh'
    BY <2>1, <2>6, Consuming
  <2>8. FactorTypes'
    <3>1. p \in Proofs /\ <<"challenge", c.id>> \in Proofs
      BY <2>0, <2>2 DEF Proofs, FactorInv, FactorTypes
    <3>2. Proofs' = Proofs
      BY <2>1 DEF Proofs
    <3>3. QED
      BY <2>1, <2>5, <3>1, <3>2 DEF FactorInv, FactorTypes
  <2>9. CredentialsOK'
    BY <2>1, <2>2, <2>4, <2>5 DEF FactorInv, CredentialsOK
  <2>10. \A x, n : <<"code", x, n>> \in opened' => <<"code", x, n>> \in opened
    BY <2>1
  <2>11. SecretsFresh'
    BY <2>1, <2>4, <2>5, <2>10 DEF FactorInv, SecretsFresh, Pending
  <2>12. StepsSpent'
    <3> SUFFICES ASSUME NEW v \in Users, NEW j \in CodeSteps,
                        <<"step", credentials'[v].secret, j>> \in opened'
                 PROVE  credentials'[v].enabled /\ j <= credentials'[v].lastUsed
      BY DEF StepsSpent
    <3>1. CASE v = u /\ j = k
      BY <3>1, <2>1, <2>2, <2>4
    <3>2. CASE v = u /\ j # k
      <4>1. <<"step", credentials[u].secret, j>> \in opened
        BY <3>2, <2>1, <2>4
      <4>2. j <= old.lastUsed
        BY <4>1, <2>0 DEF FactorInv, StepsSpent
      <4>3. j \in Int
        OBVIOUS
      <4>4. QED
        BY <3>2, <4>2, <4>3, <2>1, <2>2, <2>4
    <3>3. CASE v # u
      <4>1. credentials[v].secret # credentials[u].secret
        BY <3>3, <2>0, <2>2 DEF FactorInv, SecretsFresh
      <4>2. <<"step", credentials[v].secret, j>> \in opened
        BY <3>3, <4>1, <2>1, <2>5
      <4>3. QED
        BY <3>3, <4>2, <2>5 DEF FactorInv, StepsSpent
    <3>4. QED
      BY <3>1, <3>2, <3>3
  <2>13. CodesSpent' /\ CodesOfLatestConfirmation'
    BY <2>1, <2>10 DEF FactorInv, CodesSpent, CodesOfLatestConfirmation
  <2>14. QED
    BY <2>7, <2>8, <2>9, <2>11, <2>12, <2>13 DEF FactorInv
<1>7. ASSUME NEW r \in Requests, NEW c \in challenges, NEW code \in recoveryCodes,
             NEW s \in SessionIds, VerifyLoginRecoveryCode(r, c, code, s)
      PROVE  FactorInv'
  <2> DEFINE p == <<"code", code.generation, code.number>>
             new == [code EXCEPT !.used = TRUE]
  <2>1. /\ recoveryCodes' = (recoveryCodes \ {code}) \cup {new}
        /\ challenges' = challenges \ {c}
        /\ opened' = opened \cup {<<"challenge", c.id>>, p}
        /\ UNCHANGED <<credentials, drawn, issued, confirmed>>
    BY <1>7 DEF VerifyLoginRecoveryCode, ChallengeConsumed, CodeUsed
  <2>2. /\ code.user \in Users /\ code.generation \in 1 .. drawn /\ code.number \in CodeNumbers
        /\ c.id \in 1 .. issued
        /\ code.generation = confirmed[code.user]
    BY DEF FactorInv, FactorTypes, CodesOfLatestConfirmation
  <2>3. /\ new.user = code.user /\ new.generation = code.generation /\ new.number = code.number
        /\ new.used
        /\ new \in [user : Users, generation : 1 .. drawn, number : CodeNumbers, used : BOOLEAN]
    BY DEF FactorInv, FactorTypes
  <2> HIDE DEF new
  <2>4. \A d \in challenges : p # <<"challenge", d.id>>
    OBVIOUS
  <2>5. ChallengesFresh'
    BY <2>1, <2>4, Consuming
  <2>6. FactorTypes'
    <3>1. p \in Proofs /\ <<"challenge", c.id>> \in Proofs
      BY <2>2 DEF Proofs
    <3>2. Proofs' = Proofs
      BY <2>1 DEF Proofs
    <3>3. QED
      BY <2>1, <2>3, <3>1, <3>2 DEF FactorInv, FactorTypes
  <2>7. \A x, k : <<"step", x, k>> \in opened' => <<"step", x, k>> \in opened
    BY <2>1
  <2>8. CredentialsOK' /\ StepsSpent'
    BY <2>1, <2>7 DEF FactorInv, CredentialsOK, StepsSpent
  <2>9. \A x, n : <<"code", x, n>> \in opened' =>
            \/ <<"code", x, n>> \in opened
            \/ x = code.generation /\ n = code.number
    BY <2>1
  <2>10. SecretsFresh'
    BY <2>1, <2>2, <2>9 DEF FactorInv, SecretsFresh, Pending
  <2>11. \A a \in recoveryCodes :
            a.generation = code.generation /\ a.number = code.number => a = code
    <3> SUFFICES ASSUME NEW a \in recoveryCodes, a.generation = code.generation,
                        a.number = code.number
                 PROVE  a = code
      OBVIOUS
    <3>1. a.user \in Users /\ confirmed[a.user] = confirmed[code.user] /\ confirmed[a.user] # 0
      BY <2>2 DEF FactorInv, FactorTypes, CodesOfLatestConfirmation
    <3>2. a.user = code.user
      BY <2>2, <3>1 DEF FactorInv, SecretsFresh
    <3>3. QED
      BY <3>2 DEF FactorInv, CodesSpent
  <2>12. CodesSpent'
    <3>0. recoveryCodes' = (recoveryCodes \ {code}) \cup {new}
      BY <2>1
    <3>1. \A a \in recoveryCodes' : a = new \/ (a \in recoveryCodes /\ a # code)
      BY <3>0
    <3>2. \A a \in recoveryCodes' :
              <<"code", a.generation, a.number>> \in opened' => a.used
      BY <3>1, <2>3, <2>9, <2>11 DEF FactorInv, CodesSpent
    <3>3. \A a, b \in recoveryCodes' : a.user = b.user /\ a.number = b.number => a = b
      BY <3>1, <2>3 DEF FactorInv, CodesSpent
    <3>4. QED
      BY <3>2, <3>3 DEF CodesSpent
  <2>13. CodesOfLatestConfirmation'
    BY <2>1, <2>2, <2>3 DEF FactorInv, CodesOfLatestConfirmation
  <2>14. QED
    BY <2>5, <2>6, <2>8, <2>10, <2>12, <2>13 DEF FactorInv
<1>8. ASSUME NEW r \in Requests, UpsertPendingTOTP(r) PROVE FactorInv'
  <2> DEFINE u == requests[r].user
             new == PendingCredential(drawn + 1)
  <2>1. u \in Users
    BY <1>8 DEF UpsertPendingTOTP, Is, RequestsOK, WithUser
  <2>2. /\ drawn' = drawn + 1
        /\ credentials' = [credentials EXCEPT ![u] = new]
        /\ UNCHANGED <<challenges, recoveryCodes, issued, confirmed, opened>>
    BY <1>8 DEF UpsertPendingTOTP
  <2>3. new.secret = drawn + 1 /\ ~new.enabled /\ new.lastUsed = -1
    BY DEF PendingCredential, NoCredential
  <2>4. FactorTypes'
    <3>1. drawn' \in Nat /\ 0 .. drawn \subseteq 0 .. drawn' /\ 1 .. drawn \subseteq 1 .. drawn'
      BY <2>2 DEF FactorInv, FactorTypes
    <3>2. new \in [secret : 0 .. drawn', enabled : BOOLEAN, lastUsed : Int]
      <4>1. NoCredential \in [secret : 0 .. drawn', enabled : BOOLEAN, lastUsed : Int]
        BY <3>1 DEF NoCredential
      <4>2. drawn + 1 \in 0 .. drawn'
        BY <2>2, <3>1 DEF FactorInv, FactorTypes
      <4>3. QED
        BY <4>1, <4>2 DEF PendingCredential
    <3> HIDE DEF new
    <3>3. credentials' \in [Users -> [secret : 0 .. drawn', enabled : BOOLEAN, lastUsed : Int]]
      BY <2>1, <2>2, <3>1, <3>2 DEF FactorInv, FactorTypes
    <3>4. Proofs \subseteq Proofs'
      BY <2>2, <3>1 DEF Proofs
    <3>5. confirmed' \in [Users -> 0 .. drawn']
      BY <2>2, <3>1 DEF FactorInv, FactorTypes
    <3>6. recoveryCodes' \subseteq
              [user : Users, generation : 1 .. drawn', number : CodeNumbers, used : BOOLEAN]
      BY <2>2, <3>1 DEF FactorInv, FactorTypes
    <3>7. QED
      BY <2>2, <3>1, <3>3, <3>4, <3>5, <3>6 DEF FactorInv, FactorTypes
  <2> HIDE DEF new
  <2>5. /\ credentials'[u] = new
        /\ \A v \in Users : v # u => credentials'[v] = credentials[v]
        /\ \A v \in Users : credentials[v].secret # drawn + 1 /\ confirmed[v] # drawn + 1
        /\ drawn + 1 # 0
    BY <2>1, <2>2 DEF FactorInv, FactorTypes
  <2>6. /\ \A k : <<"step", drawn + 1, k>> \notin opened
        /\ \A n : <<"code", drawn + 1, n>> \notin opened
    BY DEF FactorInv, FactorTypes, Proofs
  <2>7. CredentialsOK'
    BY <2>3, <2>5 DEF FactorInv, CredentialsOK
  <2>8. SecretsFresh'
    BY <2>2, <2>3, <2>5, <2>6 DEF FactorInv, SecretsFresh, Pending
  <2>9. StepsSpent'
    BY <2>2, <2>3, <2>5, <2>6 DEF FactorInv, StepsSpent
  <2>10. ChallengesFresh' /\ CodesSpent' /\ CodesOfLatestConfirmation'
    BY <2>2 DEF FactorInv, ChallengesFresh, CodesSpent, CodesOfLatestConfirmation
  <2>11. QED
    BY <2>4, <2>7, <2>8, <2>9, <2>10 DEF FactorInv
<1>9. ASSUME NEW r \in Requests, NEW k \in CodeSteps, ConfirmTOTP(r, k) PROVE FactorInv'
  <2> DEFINE u == requests[r].user
             old == credentials[u]
             new == LastUsedStep(EnabledCredential(old), k)
  <2>1. u \in Users
    BY <1>9 DEF ConfirmTOTP, Is, RequestsOK, WithUser
  <2>2. /\ old \in [secret : 0 .. drawn, enabled : BOOLEAN, lastUsed : Int]
        /\ ~old.enabled /\ old.lastUsed = -1 /\ old.secret \in 1 .. drawn
        /\ k \in Nat
    BY <1>9, <2>1 DEF ConfirmTOTP, FactorInv, FactorTypes, CredentialsOK
  <2>3. /\ new.secret = old.secret /\ new.enabled /\ new.lastUsed = k
        /\ new \in [secret : 0 .. drawn, enabled : BOOLEAN, lastUsed : Int]
    <3> DEFINE mid == EnabledCredential(old)
    <3>1. /\ mid.secret = old.secret /\ mid.enabled /\ mid.lastUsed = -1
          /\ mid \in [secret : 0 .. drawn, enabled : BOOLEAN, lastUsed : Int]
      BY <2>2 DEF EnabledCredential
    <3>a. new = LastUsedStep(mid, k)
      OBVIOUS
    <3> HIDE DEF mid, new
    <3>2. new = [mid EXCEPT !.lastUsed = k]
      BY <2>2, <3>1, <3>a DEF LastUsedStep
    <3>3. QED
      BY <2>2, <3>1, <3>2
  <2>4. /\ recoveryCodes' = CodesReplaced(u, old.secret)
        /\ credentials' = [credentials EXCEPT ![u] = new]
        /\ confirmed' = [confirmed EXCEPT ![u] = old.secret]
        /\ opened' = opened \cup {<<"step", old.secret, k>>}
        /\ UNCHANGED <<challenges, drawn, issued>>
    BY <1>9, <2>1, <2>3 DEF ConfirmTOTP, FactorInv, FactorTypes
  <2>6. \A a \in recoveryCodes' :
            \/ a \in recoveryCodes /\ a.user # u
            \/ /\ a.user = u /\ a.generation = old.secret /\ ~a.used
               /\ a.number \in CodeNumbers
               /\ a = [user |-> u, generation |-> old.secret, number |-> a.number, used |-> FALSE]
    BY <2>4 DEF CodesReplaced, CodesDeleted, CodesOf, CodeRow
  <2>7. FactorTypes'
    <3>2. recoveryCodes' \subseteq
              [user : Users, generation : 1 .. drawn, number : CodeNumbers, used : BOOLEAN]
      <4>1. recoveryCodes \subseteq
                [user : Users, generation : 1 .. drawn, number : CodeNumbers, used : BOOLEAN]
        BY DEF FactorInv, FactorTypes
      <4>2. ASSUME NEW n \in CodeNumbers
            PROVE  [user |-> u, generation |-> old.secret, number |-> n, used |-> FALSE] \in
                [user : Users, generation : 1 .. drawn, number : CodeNumbers, used : BOOLEAN]
        BY <2>1, <2>2
      <4>3. QED
        BY <2>6, <4>1, <4>2
    <3>3. <<"step", old.secret, k>> \in Proofs /\ Proofs' = Proofs
      BY <2>2, <2>4 DEF Proofs
    <3> HIDE DEF new
    <3>4. QED
      BY <2>1, <2>2, <2>3, <2>4, <3>2, <3>3 DEF FactorInv, FactorTypes
  <2>8. /\ credentials'[u] = new
        /\ \A v \in Users : v # u => credentials'[v] = credentials[v]
        /\ confirmed'[u] = old.secret
        /\ \A v \in Users : v # u => confirmed'[v] = confirmed[v]
    BY <2>1, <2>4 DEF FactorInv, FactorTypes
  <2> HIDE DEF new
  <2>9. Pending(u) /\ old.secret # 0
    BY <2>2 DEF Pending
  <2>10. /\ \A v \in Users : confirmed[v] # old.secret
         /\ \A v \in Users : v # u => credentials[v].secret # old.secret
         /\ \A n \in CodeNumbers : <<"code", old.secret, n>> \notin opened
         /\ \A j \in CodeSteps : <<"step", old.secret, j>> \notin opened
    BY <2>1, <2>2, <2>9 DEF FactorInv, SecretsFresh, StepsSpent
  <2>11. CredentialsOK'
    BY <2>2, <2>3, <2>8 DEF FactorInv, CredentialsOK
  <2>12. \A x, n : <<"code", x, n>> \in opened' => <<"code", x, n>> \in opened
    BY <2>4
  <2>13. SecretsFresh'
    BY <2>3, <2>8, <2>9, <2>10, <2>12 DEF FactorInv, SecretsFresh, Pending
  <2>14. StepsSpent'
    <3> SUFFICES ASSUME NEW v \in Users, NEW j \in CodeSteps,
                        <<"step", credentials'[v].secret, j>> \in opened'
                 PROVE  credentials'[v].enabled /\ j <= credentials'[v].lastUsed
      BY DEF StepsSpent
    <3>1. CASE v = u
      <4>1. <<"step", old.secret, j>> \in opened'
        BY <3>1, <2>3, <2>8
      <4>2. j = k
        BY <4>1, <2>4, <2>10
      <4>3. QED
        BY <3>1, <4>2, <2>2, <2>3, <2>8
    <3>2. CASE v # u
      <4>0. credentials'[v] = credentials[v]
        BY <3>2, <2>8
      <4>1. <<"step", credentials[v].secret, j>> \in opened
        BY <4>0, <3>2, <2>4, <2>10
      <4>2. credentials[v].enabled /\ j <= credentials[v].lastUsed
        BY <4>1 DEF FactorInv, StepsSpent
      <4>3. QED
        BY <4>0, <4>2
    <3>3. QED
      BY <3>1, <3>2
  <2>15. CodesSpent'
    <3>1. CodesSpent
      BY DEF FactorInv
    <3>2. ASSUME NEW code \in recoveryCodes',
                 <<"code", code.generation, code.number>> \in opened'
          PROVE  code.used
      <4>1. <<"code", code.generation, code.number>> \in opened
        BY <2>12, <3>2
      <4>2. code.number \in CodeNumbers => code.generation # old.secret
        BY <2>10, <4>1
      <4>3. code \in recoveryCodes
        BY <2>6, <4>2
      <4>4. QED
        BY <3>1, <4>1, <4>3 DEF CodesSpent
    <3>3. ASSUME NEW a \in recoveryCodes', NEW b \in recoveryCodes',
                 a.user = b.user, a.number = b.number
          PROVE  a = b
      <4>1. CASE a.user = u
        BY <2>6, <3>3, <4>1
      <4>2. CASE a.user # u
        <5>1. a \in recoveryCodes /\ b \in recoveryCodes
          BY <2>6, <3>3, <4>2
        <5>2. QED
          BY <3>1, <3>3, <5>1 DEF CodesSpent
      <4>3. QED
        BY <4>1, <4>2
    <3>4. QED
      BY <3>2, <3>3 DEF CodesSpent
  <2>16. CodesOfLatestConfirmation'
    BY <2>6, <2>8 DEF FactorInv, FactorTypes, CodesOfLatestConfirmation
  <2>17. ChallengesFresh'
    BY <2>4 DEF FactorInv, ChallengesFresh
  <2>18. QED
    BY <2>7, <2>11, <2>13, <2>14, <2>15, <2>16, <2>17 DEF FactorInv
<1>10. QED
    BY <1>1, <1>2, <1>3, <1>4, <1>5, <1>6, <1>7, <1>8, <1>9, FactorFrame

\* What a step does to a user's secrets: a factor is enabled by confirming the
\* secret that waited for it, and a new secret waits only when it is drawn.
LEMMA CredentialStep ==
    ASSUME IdentityConstants, RequestsOK, FactorInv, [IdentityNext]_identityVars
    PROVE  /\ drawn' \in Nat /\ drawn <= drawn'
           /\ \A u \in Users : credentials'[u].enabled =>
                 \/ credentials[u].enabled /\ confirmed'[u] = confirmed[u]
                 \/ Pending(u) /\ confirmed'[u] = credentials[u].secret
           /\ \A u \in Users : Pending(u)' =>
                 \/ Pending(u) /\ credentials'[u].secret = credentials[u].secret
                 \/ credentials'[u].secret = drawn + 1
<1> DEFINE Goal ==
       /\ drawn' \in Nat /\ drawn <= drawn'
       /\ \A u \in Users : credentials'[u].enabled =>
             \/ credentials[u].enabled /\ confirmed'[u] = confirmed[u]
             \/ Pending(u) /\ confirmed'[u] = credentials[u].secret
       /\ \A u \in Users : Pending(u)' =>
             \/ Pending(u) /\ credentials'[u].secret = credentials[u].secret
             \/ credentials'[u].secret = drawn + 1
<1>0. drawn \in Nat /\ drawn <= drawn
    BY DEF FactorInv, FactorTypes
<1>1. ASSUME UNCHANGED <<credentials, drawn, confirmed>> PROVE Goal
    BY <1>0, <1>1 DEF Pending
<1>2. ASSUME \/ \E c \in challenges : ChallengeExpires(c)
             \/ \E r \in Requests : CreateLoginChallenge(r) \/ \E c \in challenges : SecondFactorWrong(r, c)
             \/ \E r \in Requests, c \in challenges, code \in recoveryCodes, s \in SessionIds :
                   VerifyLoginRecoveryCode(r, c, code, s)
      PROVE  Goal
    BY <1>1, <1>2 DEF ChallengeExpires, CreateLoginChallenge, SecondFactorWrong,
       VerifyLoginRecoveryCode, history
<1>3. ASSUME NEW r \in Requests, DeleteAccount(r) \/ \E k \in CodeSteps : DisableTOTP(r, k)
      PROVE  Goal
  <2>1. requests[r].user \in Users
    BY <1>3 DEF DeleteAccount, DisableTOTP, Is, RequestsOK, WithUser
  <2>2. /\ credentials' = [credentials EXCEPT ![requests[r].user] = NoCredential]
        /\ UNCHANGED <<drawn, confirmed>>
    BY <1>3 DEF DeleteAccount, DisableTOTP, CredentialDeleted, history
  <2>3. NoCredential.secret = 0 /\ ~NoCredential.enabled
    BY DEF NoCredential
  <2>4. \A u \in Users : credentials'[u] = credentials[u] \/ credentials'[u] = NoCredential
    BY <2>1, <2>2 DEF FactorInv, FactorTypes
  <2>5. QED
    BY <1>0, <2>2, <2>3, <2>4 DEF Pending
<1>4. ASSUME NEW r \in Requests, NEW c \in challenges, NEW k \in CodeSteps, NEW s \in SessionIds,
             VerifyLoginTOTP(r, c, k, s)
      PROVE  Goal
  <2>1. c.user \in Users
    BY DEF FactorInv, FactorTypes
  <2>2. /\ credentials' = [credentials EXCEPT ![c.user] = LastUsedStep(credentials[c.user], k)]
        /\ UNCHANGED <<drawn, confirmed>>
        /\ credentials[c.user].enabled
    BY <1>4, <2>1 DEF VerifyLoginTOTP, UsableChallenge, TOTPEnabled, FactorInv, FactorTypes
  <2>3. LastUsedStep(credentials[c.user], k).enabled = credentials[c.user].enabled
    BY <2>1 DEF LastUsedStep, FactorInv, FactorTypes
  <2>4. \A u \in Users : \/ credentials'[u] = credentials[u]
                         \/ u = c.user /\ credentials'[u].enabled /\ credentials[u].enabled
    BY <2>1, <2>2, <2>3 DEF FactorInv, FactorTypes
  <2>5. QED
    BY <1>0, <2>2, <2>4 DEF Pending
<1>5. ASSUME NEW r \in Requests, UpsertPendingTOTP(r) PROVE Goal
  <2>1. requests[r].user \in Users
    BY <1>5 DEF UpsertPendingTOTP, Is, RequestsOK, WithUser
  <2>2. /\ credentials' = [credentials EXCEPT ![requests[r].user] = PendingCredential(drawn + 1)]
        /\ drawn' = drawn + 1
        /\ UNCHANGED confirmed
    BY <1>5 DEF UpsertPendingTOTP
  <2>3. PendingCredential(drawn + 1).secret = drawn + 1 /\ ~PendingCredential(drawn + 1).enabled
    BY DEF PendingCredential, NoCredential
  <2>4. \A u \in Users : \/ credentials'[u] = credentials[u]
                         \/ credentials'[u].secret = drawn + 1 /\ ~credentials'[u].enabled
    BY <2>1, <2>2, <2>3 DEF FactorInv, FactorTypes
  <2>5. QED
    BY <1>0, <2>2, <2>4 DEF Pending
<1>6. ASSUME NEW r \in Requests, NEW k \in CodeSteps, ConfirmTOTP(r, k) PROVE Goal
  <2> DEFINE u == requests[r].user
             old == credentials[u]
             mid == EnabledCredential(old)
  <2>1. u \in Users
    BY <1>6 DEF ConfirmTOTP, Is, RequestsOK, WithUser
  <2>2. /\ credentials' = [credentials EXCEPT ![u] = LastUsedStep(mid, k)]
        /\ confirmed' = [confirmed EXCEPT ![u] = old.secret]
        /\ UNCHANGED drawn
        /\ ~old.enabled /\ old # NoCredential
    BY <1>6, <2>1 DEF ConfirmTOTP, FactorInv, FactorTypes
  <2>3. Pending(u)
    BY <2>1, <2>2 DEF Pending, FactorInv, CredentialsOK
  <2>4. mid.enabled /\ mid \in [secret : 0 .. drawn, enabled : BOOLEAN, lastUsed : Int]
    BY <2>1 DEF EnabledCredential, FactorInv, FactorTypes
  <2> HIDE DEF mid
  <2>5. LastUsedStep(mid, k).enabled
    BY <2>4 DEF LastUsedStep
  <2>6. \A v \in Users : \/ v # u /\ credentials'[v] = credentials[v] /\ confirmed'[v] = confirmed[v]
                         \/ v = u /\ credentials'[v].enabled /\ confirmed'[v] = old.secret
    BY <2>1, <2>2, <2>5 DEF FactorInv, FactorTypes
  <2>7. QED
    BY <1>0, <2>2, <2>3, <2>6 DEF Pending
<1>7. QED
    BY <1>1, <1>2, <1>3, <1>4, <1>5, <1>6, FactorFrame

\* Requests in progress know no secret that waits for its confirmation.
LEMMA SeenStep ==
    ASSUME IdentityConstants, TypeInv, FactorInv, SeenFresh, StaleOnly,
           [IdentityNext]_identityVars
    PROVE  RequestsOK' /\ SeenFresh' /\ StaleOnly'
<1>1. /\ drawn \in Nat /\ drawn' \in Nat /\ drawn <= drawn'
      /\ \A u \in Users : confirmed[u] \in 0 .. drawn
    BY CredentialStep DEF TypeInv, FactorInv, FactorTypes
<1>2. \A r \in Requests : /\ requests[r] \in RequestRows
                          /\ requests[r].seen \in 0 .. drawn
    BY DEF TypeInv, RequestsOK, RequestRows, HistoryOK
<1>3. CASE UNCHANGED requests
  <2>1. RequestsOK'
    BY <1>1, <1>2, <1>3 DEF TypeInv, RequestsOK
  <2>2. SeenFresh'
    BY <1>1, <1>2, <1>3, CredentialStep DEF SeenFresh, TypeInv
  <2>3. StaleOnly'
    BY <1>3, CredentialStep
       DEF StaleOnly, SeenFresh, TOTPEnabled, TypeInv, RequestsOK, WithUser
  <2>4. QED
    BY <2>1, <2>2, <2>3
<1>4. CASE \E r \in Requests : RequestMoves(r)
  <2>1. PICK r \in Requests : RequestMoves(r)
    BY <1>4
  <2>2. PICK q \in RequestRows :
            /\ requests' = [requests EXCEPT ![r] = q]
            /\ q.at \in WithUser => q.user \in Users
            /\ \/ q.seen = 0
               \/ q.seen = requests[r].seen
               \/ \E u \in Users : q.seen = confirmed[u]
            /\ q.at \in {"setup", "session"} =>
                  /\ ~TOTPEnabled(q.user)
                  /\ q.seen = confirmed[q.user]
                  /\ UNCHANGED <<credentials, confirmed>>
    BY <2>1 DEF RequestMoves
  <2>3. /\ requests' \in [Requests -> RequestRows]
        /\ requests'[r] = q
        /\ \A p \in Requests : p # r => requests'[p] = requests[p]
    BY <2>2 DEF TypeInv, RequestsOK
  <2>4. q.seen \in 0 .. drawn
    BY <1>1, <1>2, <2>2
  <2>5. RequestsOK'
    BY <1>1, <1>2, <2>2, <2>3, <2>4 DEF TypeInv, RequestsOK
  <2>6. SeenFresh'
    <3> SUFFICES ASSUME NEW u \in Users, NEW p \in Requests, Pending(u)'
                 PROVE  requests'[p].seen # credentials'[u].secret
      BY DEF SeenFresh
    <3>1. requests'[p].seen \in 0 .. drawn
      BY <1>2, <2>3, <2>4
    <3>2. CASE credentials'[u].secret = drawn + 1
      BY <1>1, <3>1, <3>2
    <3>3. CASE Pending(u) /\ credentials'[u].secret = credentials[u].secret
      BY <2>2, <2>3, <3>3 DEF SeenFresh, Pending, FactorInv, SecretsFresh
    <3>4. QED
      BY <3>2, <3>3, CredentialStep DEF TypeInv
  <2>7. StaleOnly'
    <3> SUFFICES ASSUME NEW p \in Requests,
                        requests'[p].at \in {"setup", "session"},
                        requests'[p].seen = confirmed'[requests'[p].user]
                 PROVE  ~credentials'[requests'[p].user].enabled
      BY DEF StaleOnly, TOTPEnabled
    <3>1. CASE p = r
      BY <2>2, <2>3, <3>1 DEF TOTPEnabled
    <3>2. CASE p # r
      <4>1. requests'[p] = requests[p] /\ requests[p].user \in Users
        BY <2>3, <3>2 DEF TypeInv, RequestsOK, WithUser
      <4>2. QED
        BY <4>1, CredentialStep DEF StaleOnly, SeenFresh, TOTPEnabled, TypeInv
    <3>3. QED
      BY <3>1, <3>2
  <2>8. QED
    BY <2>5, <2>6, <2>7
<1>5. QED
    BY <1>3, <1>4, RequestStep

\* Challenges, credentials and codes are of users that exist.
FactorOwned ==
    /\ \A c \in challenges : Registered(c.user)
    /\ \A u \in Users : credentials[u] # NoCredential => Registered(u)
    /\ \A code \in recoveryCodes : Registered(code.user)

\* Nothing but its deletion ends a user.
LEMMA UsersStay ==
    ASSUME IdentityConstants, TypeInv, [IdentityNext]_identityVars,
           \A r \in Requests : ~DeleteAccount(r)
    PROVE  \A u \in Users : Registered(u) => Registered(u)'
<1>1. CASE UNCHANGED users
    BY <1>1 DEF Registered
<1>2. ASSUME NEW r \in Requests, NEW u \in Users, NEW e \in Emails, NEW s \in SessionIds,
             Register(r, u, e, s)
      PROVE  \A v \in Users : Registered(v) => Registered(v)'
    BY <1>2 DEF Register, CreateUser, Registered, TypeInv, IdentityTypeOK
<1>3. ASSUME NEW r \in Requests, ChangePassword(r) \/ \E e \in Emails : UpdateProfile(r, e)
      PROVE  \A v \in Users : Registered(v) => Registered(v)'
  <2>1. PICK u \in Users : u = requests[r].user
    BY <1>3 DEF ChangePassword, UpdateProfile, Is, TypeInv, RequestsOK, WithUser
  <2>2. \/ users' = [users EXCEPT ![u].password = @ + 1]
        \/ \E e \in Emails : users' = [users EXCEPT ![u].email = e]
    BY <1>3, <2>1 DEF ChangePassword, UpdateProfile, PasswordUpdated, ProfileUpdated
  <2>3. \A v \in Users : users'[v].status = users[v].status
    <3>1. CASE users' = [users EXCEPT ![u].password = @ + 1]
      BY <3>1 DEF TypeInv, IdentityTypeOK
    <3>2. ASSUME NEW e \in Emails, users' = [users EXCEPT ![u].email = e]
          PROVE  \A v \in Users : users'[v].status = users[v].status
      BY <3>2 DEF TypeInv, IdentityTypeOK
    <3>3. QED
      BY <2>2, <3>1, <3>2
  <2>4. QED
    BY <2>3 DEF Registered
<1>4. ASSUME NEW r \in Requests, NEW s \in SessionIds,
             \/ CreateLoginSession(r, s) \/ RevokeUserSession(r, s)
             \/ Logout(s) \/ SessionExpires(s)
             \/ \E c \in challenges, k \in CodeSteps : VerifyLoginTOTP(r, c, k, s)
             \/ \E c \in challenges, code \in recoveryCodes : VerifyLoginRecoveryCode(r, c, code, s)
      PROVE  UNCHANGED users
    BY <1>4
       DEF CreateLoginSession, RevokeUserSession, Logout, SessionExpires, VerifyLoginTOTP,
       VerifyLoginRecoveryCode
<1>5. ASSUME NEW s \in SessionIds, Logout(s) \/ SessionExpires(s)
      PROVE  UNCHANGED users
    BY <1>5 DEF Logout, SessionExpires
<1>6. QED
    BY <1>1, <1>2, <1>3, <1>4, <1>5, SessionsFrame DEF SessionsWritten

\* Challenges, credentials and codes stay those of users that exist.
LEMMA OwnedStep ==
    ASSUME IdentityConstants, TypeInv, FactorInv, FactorOwned, [IdentityNext]_identityVars
    PROVE  FactorOwned'
<1>1. ASSUME NEW r \in Requests, DeleteAccount(r) PROVE FactorOwned'
  <2> DEFINE u == requests[r].user
  <2>1. u \in Users
    BY <1>1 DEF DeleteAccount, Is, TypeInv, RequestsOK, WithUser
  <2>2. /\ users' = [users EXCEPT ![u].status = "deleted"]
        /\ challenges' = {c \in challenges : c.user # u}
        /\ credentials' = [credentials EXCEPT ![u] = NoCredential]
        /\ recoveryCodes' = recoveryCodes \ {code \in recoveryCodes : code.user = u}
    BY <1>1 DEF DeleteAccount, UserDeleted, CredentialDeleted, CodesDeleted, CodesOf
  <2> HIDE DEF u
  <2>3. \A v \in Users : v # u => users'[v] = users[v] /\ credentials'[v] = credentials[v]
    BY <2>1, <2>2 DEF TypeInv, IdentityTypeOK
  <2>4. credentials'[u] = NoCredential
    BY <2>1, <2>2 DEF TypeInv, IdentityTypeOK
  <2>5. /\ \A c \in challenges : c.user \in Users
        /\ \A code \in recoveryCodes : code.user \in Users
    BY DEF TypeInv, IdentityTypeOK
  <2>6. QED
    BY <2>2, <2>3, <2>4, <2>5 DEF FactorOwned, Registered
<1>2. CASE \A r \in Requests : ~DeleteAccount(r)
  <2>1. \A u \in Users : Registered(u) => Registered(u)'
    BY <1>2, UsersStay
  <2>2. /\ \A c \in challenges : c.user \in Users /\ Registered(c.user)'
        /\ \A code \in recoveryCodes : code.user \in Users /\ Registered(code.user)'
        /\ \A u \in Users : credentials[u] # NoCredential => Registered(u)'
    BY <2>1 DEF TypeInv, IdentityTypeOK, FactorOwned
  <2>3. CASE /\ challenges' \subseteq challenges
             /\ recoveryCodes' \subseteq recoveryCodes
             /\ \A u \in Users : credentials'[u] = credentials[u] \/ credentials'[u] = NoCredential
    BY <2>2, <2>3 DEF FactorOwned, Registered
  <2>4. CASE \/ UNCHANGED <<challenges, credentials, recoveryCodes>>
             \/ \E c \in challenges : ChallengeExpires(c)
    BY <2>3, <2>4 DEF ChallengeExpires
  <2>5. ASSUME NEW r \in Requests, NEW k \in CodeSteps, DisableTOTP(r, k) PROVE FactorOwned'
    BY <2>3, <2>5 DEF DisableTOTP, CredentialDeleted, CodesDeleted, TypeInv, IdentityTypeOK
  <2>6. ASSUME NEW r \in Requests, CreateLoginChallenge(r) PROVE FactorOwned'
    <3>1. PICK u \in Users : u = requests[r].user
      BY <2>6 DEF CreateLoginChallenge, Is, TypeInv, RequestsOK, WithUser
    <3>2. Registered(u)'
      BY <2>1, <2>6, <3>1 DEF CreateLoginChallenge
    <3>3. \A c \in challenges' : c \in challenges \/ c.user = u
      BY <2>6, <3>1 DEF CreateLoginChallenge, ChallengeRow
    <3>4. UNCHANGED <<credentials, recoveryCodes>>
      BY <2>6 DEF CreateLoginChallenge
    <3>5. QED
      BY <2>2, <3>2, <3>3, <3>4 DEF FactorOwned, Registered
  <2>7. ASSUME NEW r \in Requests, NEW c \in challenges, SecondFactorWrong(r, c) PROVE FactorOwned'
    <3>1. \A d \in challenges' : d \in challenges \/ d.user = c.user
      BY <2>7 DEF SecondFactorWrong, AttemptCounted, TypeInv, IdentityTypeOK
    <3>2. UNCHANGED <<credentials, recoveryCodes>>
      BY <2>7 DEF SecondFactorWrong
    <3>3. QED
      BY <2>2, <3>1, <3>2 DEF FactorOwned, Registered
  <2>8. ASSUME NEW r \in Requests, NEW c \in challenges, NEW k \in CodeSteps, NEW s \in SessionIds,
               VerifyLoginTOTP(r, c, k, s)
        PROVE  FactorOwned'
    <3>1. challenges' \subseteq challenges /\ UNCHANGED recoveryCodes
      BY <2>8 DEF VerifyLoginTOTP, ChallengeConsumed
    <3>2. \A u \in Users : credentials'[u] = credentials[u] \/ u = c.user
      BY <2>8 DEF VerifyLoginTOTP, TypeInv, IdentityTypeOK
    <3>3. QED
      BY <2>2, <3>1, <3>2 DEF FactorOwned, Registered
  <2>9. ASSUME NEW r \in Requests, NEW c \in challenges, NEW code \in recoveryCodes,
               NEW s \in SessionIds, VerifyLoginRecoveryCode(r, c, code, s)
        PROVE  FactorOwned'
    <3>1. challenges' \subseteq challenges /\ UNCHANGED credentials
      BY <2>9 DEF VerifyLoginRecoveryCode, ChallengeConsumed
    <3>2. \A d \in recoveryCodes' : d \in recoveryCodes \/ d.user = code.user
      BY <2>9 DEF VerifyLoginRecoveryCode, CodeUsed, TypeInv, IdentityTypeOK
    <3>3. QED
      BY <2>2, <3>1, <3>2 DEF FactorOwned, Registered
  <2>10. ASSUME NEW r \in Requests, UpsertPendingTOTP(r) PROVE FactorOwned'
    <3>1. PICK u \in Users : u = requests[r].user
      BY <2>10 DEF UpsertPendingTOTP, Is, TypeInv, RequestsOK, WithUser
    <3>2. Registered(u)'
      BY <2>1, <2>10, <3>1 DEF UpsertPendingTOTP
    <3>3. \A v \in Users : credentials'[v] = credentials[v] \/ v = u
      BY <2>10, <3>1 DEF UpsertPendingTOTP, TypeInv, IdentityTypeOK
    <3>4. UNCHANGED <<challenges, recoveryCodes>>
      BY <2>10 DEF UpsertPendingTOTP
    <3>5. QED
      BY <2>2, <3>2, <3>3, <3>4 DEF FactorOwned, Registered
  <2>11. ASSUME NEW r \in Requests, NEW k \in CodeSteps, ConfirmTOTP(r, k) PROVE FactorOwned'
    <3>1. PICK u \in Users : u = requests[r].user
      BY <2>11 DEF ConfirmTOTP, Is, TypeInv, RequestsOK, WithUser
    <3>2. Registered(u)'
      BY <2>2, <2>11, <3>1 DEF ConfirmTOTP
    <3>3. \A v \in Users : credentials'[v] = credentials[v] \/ v = u
      BY <2>11, <3>1 DEF ConfirmTOTP, TypeInv, IdentityTypeOK
    <3>4. \A code \in recoveryCodes' : code \in recoveryCodes \/ code.user = u
      BY <2>11, <3>1 DEF ConfirmTOTP, CodesReplaced, CodesDeleted, CodeRow
    <3>5. UNCHANGED challenges
      BY <2>11 DEF ConfirmTOTP
    <3>6. QED
      BY <2>2, <3>2, <3>3, <3>4, <3>5 DEF FactorOwned, Registered
  <2>12. QED
    BY <1>2, <2>4, <2>5, <2>6, <2>7, <2>8, <2>9, <2>10, <2>11, FactorFrame
<1>3. QED
    BY <1>1, <1>2

(***************************************************************************)
(* The limiter.                                                            *)
(***************************************************************************)
CountedPoints(l) ==
    IF l = "login" THEN {"login", "rejected", "factor", "failed"}
    ELSE {"register", "taken"}

\* Requests that a limiter let through and whose failure is not counted yet.
Uncounted(l) ==
    {r \in Requests : requests[r].at \in CountedPoints(l)}

\* Limiters keep their type.
LimiterType == limiter \in [Limiters -> [failures : Nat, resetAt : Nat]]

\* The bound that concurrent requests leave to a limiter.
LimiterSum ==
    \A l \in Limiters :
        limiter[l].failures + Cardinality(Uncounted(l))
            <= Maximum + Cardinality(Requests) - 1

\* The number of requests not counted yet.
LEMMA UncountedSize ==
    ASSUME IdentityConstants, NEW l \in Limiters
    PROVE  /\ Cardinality(Uncounted(l)) \in Nat
           /\ Cardinality(Requests) \in Nat
           /\ Cardinality(Uncounted(l)) <= Cardinality(Requests)
<1>1. Uncounted(l) \in SUBSET Requests
    BY DEF Uncounted
<1>2. IsFiniteSet(Requests)
    BY DEF IdentityConstants
<1>3. QED
    BY <1>1, <1>2, FS_Subset, FS_CardinalityType

\* The number of requests not counted yet grows only when one arrives.
LEMMA UncountedStep ==
    ASSUME IdentityConstants, NEW l \in Limiters
    PROVE  /\ Cardinality(Uncounted(l))' \in Nat
           /\ Cardinality(Uncounted(l))' <= Cardinality(Requests)
           /\ Uncounted(l)' \subseteq Uncounted(l) =>
                 Cardinality(Uncounted(l))' <= Cardinality(Uncounted(l))
           /\ \A r \in Uncounted(l) : Uncounted(l)' \subseteq Uncounted(l) \ {r} =>
                 Cardinality(Uncounted(l))' <= Cardinality(Uncounted(l)) - 1
<1>1. Uncounted(l)' \in SUBSET Requests /\ Uncounted(l) \in SUBSET Requests
    BY DEF Uncounted
<1>2. IsFiniteSet(Requests)
    BY DEF IdentityConstants
<1>3. IsFiniteSet(Uncounted(l))
    BY <1>1, <1>2, FS_Subset
<1>4. \A r \in Uncounted(l) : /\ IsFiniteSet(Uncounted(l) \ {r})
                              /\ Cardinality(Uncounted(l) \ {r}) = Cardinality(Uncounted(l)) - 1
    BY <1>3, FS_RemoveElement
<1>5. /\ Cardinality(Uncounted(l)') \in Nat
      /\ Cardinality(Uncounted(l)') <= Cardinality(Requests)
    BY <1>1, <1>2, FS_Subset, FS_CardinalityType
<1>6. Uncounted(l)' \subseteq Uncounted(l) =>
          Cardinality(Uncounted(l)') <= Cardinality(Uncounted(l))
    BY <1>3, FS_Subset
<1>7. ASSUME NEW r \in Uncounted(l), Uncounted(l)' \subseteq Uncounted(l) \ {r}
      PROVE  Cardinality(Uncounted(l)') <= Cardinality(Uncounted(l)) - 1
  <2>1. Uncounted(l)' \in SUBSET (Uncounted(l) \ {r})
    BY <1>7
  <2>2. Cardinality(Uncounted(l)') <= Cardinality(Uncounted(l) \ {r})
    BY <1>4, <2>1, FS_Subset
  <2>3. QED
    BY <1>4, <2>2
<1>8. QED
    BY <1>5, <1>6, <1>7

\* What holds of the limiters.
LimiterInv == LimiterType /\ LimiterSum

\* Request r goes to one of the points P.
MovesTo(r, P) == \E q : requests' = [requests EXCEPT ![r] = q] /\ q.at \in P

\* The three ways in which a request moves to another point.
LEMMA GoingTo ==
    ASSUME RequestsOK, NEW r \in Requests, NEW p, Goes(r, p)
    PROVE  MovesTo(r, {p})
<1> DEFINE q == [requests[r] EXCEPT !.at = p]
<1>1. q.at = p
    BY DEF RequestsOK, RequestRows
<1>2. requests' = [requests EXCEPT ![r] = q]
    BY DEF Goes, Becomes
<1> HIDE DEF q
<1>3. QED
    BY <1>1, <1>2 DEF MovesTo

\* An ending request becomes idle.
LEMMA EndingAt ==
    ASSUME NEW r \in Requests, Ends(r)
    PROVE  MovesTo(r, {"idle"})
<1>1. NoRequest.at = "idle"
    BY DEF NoRequest
<1>2. QED
    BY <1>1 DEF Ends, Becomes, MovesTo

\* An arriving request goes to its first point.
LEMMA ArrivingAt ==
    ASSUME NEW r \in Requests, NEW l, NEW p, NEW now, Arrives(r, l, p, now)
    PROVE  MovesTo(r, {p})
<1> DEFINE q == [NoRequest EXCEPT !.at = p, !.now = now]
<1>1. q.at = p
    BY DEF NoRequest
<1>2. requests' = [requests EXCEPT ![r] = q]
    BY DEF Arrives, Becomes
<1> HIDE DEF q
<1>3. QED
    BY <1>1, <1>2 DEF MovesTo

\* Points whose failure no limiter waits for.
Settled == {"idle", "registered", "challenge", "session", "succeeded", "authenticated", "setup"}

\* How a request and the limiters move together.
LimiterMoves(r) ==
    \/ \E l \in Limiters, p \in Points :
          /\ p \in CountedPoints(l)
          /\ Allowed(l, step)
          /\ limiter' = AfterAllowed(l, step)
          /\ MovesTo(r, {p})
    \/ \E l \in Limiters, now \in Nat :
          /\ requests[r].at \in CountedPoints(l)
          /\ limiter' = AfterFailed(l, now)
          /\ MovesTo(r, {"idle"})
    \/ \E l \in Limiters : limiter' = AfterSucceeded(l) /\ MovesTo(r, {"idle"})
    \/ UNCHANGED limiter /\ MovesTo(r, Settled)
    \/ \E l \in Limiters :
          /\ requests[r].at \in CountedPoints(l)
          /\ UNCHANGED limiter
          /\ MovesTo(r, CountedPoints(l))

\* Every step is one of the moves above.
LEMMA LimiterFrame ==
    ASSUME IdentityConstants, TypeInv, [IdentityNext]_identityVars
    PROVE  UNCHANGED <<requests, limiter>> \/ \E r \in Requests : LimiterMoves(r)
<1> USE DEF Limiters, CountedPoints, Settled
<1>1. RequestsOK /\ step \in Nat /\ \A r \in Requests : requests[r].now \in Nat
    BY DEF TypeInv, IdentityTypeOK, IdentityConstants, RequestsOK, RequestRows
<1>2. ASSUME \/ UNCHANGED identityVars \/ Tick
             \/ \E s \in SessionIds : Logout(s) \/ SessionExpires(s)
             \/ \E c \in challenges : ChallengeExpires(c)
      PROVE UNCHANGED <<requests, limiter>>
    BY <1>2 DEF identityVars, Tick, Logout, SessionExpires, ChallengeExpires
<1>3. ASSUME NEW r \in Requests, LoginNext(r) \/ AuthenticatedNext(r)
      PROVE  LimiterMoves(r)
  <2>1. CASE RegisterArrives(r)
    <3>1. MovesTo(r, {"register"})
      BY <2>1, ArrivingAt DEF RegisterArrives
    <3>2. QED
      BY <2>1, <3>1 DEF RegisterArrives, Arrives, LimiterMoves, Points
  <2>2. CASE LoginArrives(r)
    <3>1. MovesTo(r, {"login"})
      BY <2>2, ArrivingAt DEF LoginArrives
    <3>2. QED
      BY <2>2, <3>1 DEF LoginArrives, Arrives, LimiterMoves, Points
  <2>3. CASE SecondFactorArrives(r)
    <3>1. MovesTo(r, {"factor"})
      BY <2>3, ArrivingAt DEF SecondFactorArrives
    <3>2. QED
      BY <2>3, <3>1 DEF SecondFactorArrives, Arrives, LimiterMoves, Points
  <2>4. CASE RegistrationFailed(r) \/ LoginFailed(r) \/ SecondFactorFailed(r)
    <3>1. MovesTo(r, {"idle"})
      BY <2>4, EndingAt DEF RegistrationFailed, LoginFailed, SecondFactorFailed, Reports
    <3>2. \E l \in Limiters, now \in Nat :
            requests[r].at \in CountedPoints(l) /\ limiter' = AfterFailed(l, now)
      BY <1>1, <2>4 DEF RegistrationFailed, LoginFailed, SecondFactorFailed, Reports, Is
    <3>3. QED
      BY <3>1, <3>2 DEF LimiterMoves
  <2>5. CASE RegistrationSucceeded(r) \/ LoginSucceeded(r)
    <3>1. MovesTo(r, {"idle"})
      BY <2>5, EndingAt DEF RegistrationSucceeded, LoginSucceeded, Reports
    <3>2. QED
      BY <2>5, <3>1 DEF RegistrationSucceeded, LoginSucceeded, Reports, LimiterMoves
  <2>6. ASSUME NEW p \in Settled, UNCHANGED limiter, MovesTo(r, {p}) PROVE LimiterMoves(r)
    BY <2>6 DEF LimiterMoves, MovesTo
  <2>7. CASE \/ Refused(r)
             \/ \E s \in SessionIds : RevokeUserSession(r, s)
             \/ UpsertPendingTOTP(r)
             \/ \E k \in CodeSteps : ConfirmTOTP(r, k) \/ DisableTOTP(r, k)
             \/ ChangePassword(r)
             \/ \E e \in Emails : UpdateProfile(r, e)
             \/ DeleteAccount(r)
    <3>1. UNCHANGED limiter /\ Ends(r)
      BY <2>7 DEF Refused, RevokeUserSession, UpsertPendingTOTP, ConfirmTOTP, DisableTOTP,
         ChangePassword, UpdateProfile, DeleteAccount
    <3>2. QED
      BY <2>6, <3>1, EndingAt
  <2>8. CASE \/ \E u \in Users, e \in Emails, s \in SessionIds : Register(r, u, e, s)
             \/ \E c \in challenges, k \in CodeSteps, s \in SessionIds : VerifyLoginTOTP(r, c, k, s)
             \/ \E c \in challenges, code \in recoveryCodes, s \in SessionIds :
                   VerifyLoginRecoveryCode(r, c, code, s)
    <3>1. UNCHANGED limiter /\ (Goes(r, "registered") \/ Goes(r, "succeeded"))
      BY <2>8 DEF Register, VerifyLoginTOTP, VerifyLoginRecoveryCode
    <3>2. QED
      BY <1>1, <2>6, <3>1, GoingTo
  <2>9. CASE \/ \E e \in Emails : RegisterTaken(r, e)
             \/ LoginPasswordWrong(r)
             \/ ChallengeNotFound(r)
             \/ \E c \in challenges : SecondFactorWrong(r, c)
    <3>1. /\ UNCHANGED limiter
          /\ \/ requests[r].at = "register" /\ Goes(r, "taken")
             \/ requests[r].at = "login" /\ Goes(r, "rejected")
             \/ requests[r].at = "factor" /\ Goes(r, "failed")
      BY <2>9
         DEF RegisterTaken, LoginPasswordWrong, ChallengeNotFound, SecondFactorWrong, Is
    <3>2. \/ requests[r].at = "register" /\ MovesTo(r, {"taken"})
          \/ requests[r].at = "login" /\ MovesTo(r, {"rejected"})
          \/ requests[r].at = "factor" /\ MovesTo(r, {"failed"})
      BY <1>1, <3>1, GoingTo
    <3>3. \E l \in Limiters :
              requests[r].at \in CountedPoints(l) /\ MovesTo(r, CountedPoints(l))
      BY <3>2 DEF MovesTo
    <3>4. QED
      BY <3>1, <3>3 DEF LimiterMoves
  <2>10. CASE CreateLoginChallenge(r) \/ \E s \in SessionIds : CreateLoginSession(r, s)
    <3> DEFINE q == [NoRequest EXCEPT !.at = "succeeded"]
    <3>1. requests' = [requests EXCEPT ![r] = q] /\ UNCHANGED limiter
      BY <2>10 DEF CreateLoginChallenge, CreateLoginSession, Becomes
    <3>2. q.at = "succeeded"
      BY DEF NoRequest
    <3> HIDE DEF q
    <3>3. QED
      BY <2>6, <3>1, <3>2 DEF MovesTo
  <2>11. ASSUME NEW u \in Users, LoginPasswordRight(r, u) PROVE LimiterMoves(r)
    <3> DEFINE p == IF TOTPEnabled(u) THEN "challenge" ELSE "session"
               q == [requests[r] EXCEPT !.at = p, !.user = u, !.password = users[u].password,
                                        !.seen = confirmed[u], !.now = 0]
    <3>1. requests' = [requests EXCEPT ![r] = q] /\ UNCHANGED limiter
      BY <2>11 DEF LoginPasswordRight, Becomes
    <3>2. p \in Settled
      OBVIOUS
    <3> HIDE DEF p
    <3>3. q.at = p
      BY <1>1 DEF RequestsOK, RequestRows
    <3> HIDE DEF q
    <3>4. QED
      BY <2>6, <3>1, <3>2, <3>3 DEF MovesTo
  <2>12. CASE CheckTOTPForSetup(r) \/ \E s \in SessionIds : Authenticate(r, s)
    <3> DEFINE a(u, s) == [NoRequest EXCEPT !.at = "authenticated", !.user = u,
                                             !.session = s]
               b(u, n) == [NoRequest EXCEPT !.at = "setup", !.user = u, !.seen = n]
    <3>1. /\ UNCHANGED limiter
          /\ \/ \E u, s : requests' = [requests EXCEPT ![r] = a(u, s)]
             \/ \E u, n : requests' = [requests EXCEPT ![r] = b(u, n)]
      BY <2>12 DEF CheckTOTPForSetup, Authenticate, Becomes
    <3>2. /\ \A u, s : a(u, s).at = "authenticated"
          /\ \A u, n : b(u, n).at = "setup"
      BY DEF NoRequest
    <3> HIDE DEF a, b
    <3>3. MovesTo(r, {"authenticated"}) \/ MovesTo(r, {"setup"})
      BY <3>1, <3>2 DEF MovesTo
    <3>4. QED
      BY <2>6, <3>1, <3>3
  <2>13. QED
    BY <1>3, <2>1, <2>2, <2>3, <2>4, <2>5, <2>7, <2>8, <2>9, <2>10, <2>11, <2>12
       DEF LoginNext, AuthenticatedNext
<1>4. QED
    BY <1>2, <1>3 DEF IdentityNext

\* Failures and requests not counted yet keep their bound together.
LEMMA LimiterStep ==
    ASSUME IdentityConstants, TypeInv, LimiterInv, [IdentityNext]_identityVars
    PROVE  LimiterInv'
<1>1. /\ Maximum \in Nat \ {0} /\ Window \in Nat \ {0}
      /\ step \in Nat
      /\ limiter \in [Limiters -> [failures : Nat, resetAt : Nat]]
      /\ NoEntry \in [failures : Nat, resetAt : Nat] /\ NoEntry.failures = 0
    BY DEF IdentityConstants, LimiterInv, LimiterType, TypeInv, IdentityTypeOK, NoEntry
<1>2. \A l \in Limiters : /\ limiter[l].failures \in Nat
                          /\ limiter[l].failures + Cardinality(Uncounted(l))
                                <= Maximum + Cardinality(Requests) - 1
                          /\ Cardinality(Uncounted(l)) \in Nat
                          /\ Cardinality(Requests) \in Nat
                          /\ Cardinality(Uncounted(l))' \in Nat
                          /\ Cardinality(Uncounted(l))' <= Cardinality(Requests)
    BY <1>1, UncountedSize, UncountedStep DEF LimiterInv, LimiterSum
<1>3. ASSUME UNCHANGED limiter, \A l \in Limiters : Uncounted(l)' \subseteq Uncounted(l)
      PROVE  LimiterInv'
  <2>1. \A l \in Limiters : Cardinality(Uncounted(l))' <= Cardinality(Uncounted(l))
    BY <1>3, UncountedStep
  <2>2. QED
    BY <1>2, <1>3, <2>1 DEF LimiterInv, LimiterType, LimiterSum
<1>4. CASE UNCHANGED <<requests, limiter>>
    BY <1>3, <1>4 DEF Uncounted
<1>5. ASSUME NEW r \in Requests, NEW P, MovesTo(r, P)
      PROVE  \A l \in Limiters :
                /\ Uncounted(l)' \subseteq Uncounted(l) \cup {r}
                /\ P \cap CountedPoints(l) = {} => Uncounted(l)' \subseteq Uncounted(l) \ {r}
                /\ r \in Uncounted(l) => Uncounted(l)' \subseteq Uncounted(l)
  <2>1. PICK q : requests' = [requests EXCEPT ![r] = q] /\ q.at \in P
    BY <1>5 DEF MovesTo
  <2>2. requests'[r] = q /\ \A p \in Requests : p # r => requests'[p] = requests[p]
    BY <2>1 DEF TypeInv, RequestsOK
  <2>3. QED
    BY <2>1, <2>2 DEF Uncounted
<1>6. ASSUME NEW l \in Limiters, NEW entry \in [failures : Nat, resetAt : Nat],
             limiter' = [limiter EXCEPT ![l] = entry],
             entry.failures + Cardinality(Uncounted(l))' <= Maximum + Cardinality(Requests) - 1,
             \A m \in Limiters : m # l => Uncounted(m)' \subseteq Uncounted(m)
      PROVE  LimiterInv'
  <2>1. LimiterType'
    BY <1>1, <1>6 DEF LimiterType
  <2>2. /\ limiter'[l] = entry
        /\ \A m \in Limiters : m # l =>
              /\ limiter'[m] = limiter[m]
              /\ Cardinality(Uncounted(m))' <= Cardinality(Uncounted(m))
    BY <1>1, <1>6, UncountedStep
  <2>3. LimiterSum'
    BY <1>2, <1>6, <2>2 DEF LimiterSum
  <2>4. QED
    BY <2>1, <2>3 DEF LimiterInv
<1>7. ASSUME NEW r \in Requests, LimiterMoves(r) PROVE LimiterInv'
  <2>1. ASSUME NEW l \in Limiters, NEW p \in CountedPoints(l), Allowed(l, step),
               limiter' = AfterAllowed(l, step), MovesTo(r, {p})
        PROVE  LimiterInv'
    <3>1. \A m \in Limiters : m # l => Uncounted(m)' \subseteq Uncounted(m)
      BY <1>5, <2>1 DEF CountedPoints, Limiters
    <3>2. CASE WindowOver(l, step)
      <4>1. limiter' = [limiter EXCEPT ![l] = NoEntry]
        BY <2>1, <3>2 DEF AfterAllowed
      <4>2. NoEntry.failures + Cardinality(Uncounted(l))' <= Maximum + Cardinality(Requests) - 1
        BY <1>1, <1>2
      <4>3. QED
        BY <1>1, <1>6, <3>1, <4>1, <4>2
    <3>3. CASE ~WindowOver(l, step)
      <4>1. limiter' = [limiter EXCEPT ![l] = limiter[l]] /\ limiter[l].failures < Maximum
        BY <1>1, <2>1, <3>3 DEF AfterAllowed, Allowed
      <4>2. limiter[l].failures + Cardinality(Uncounted(l))' <= Maximum + Cardinality(Requests) - 1
        BY <1>1, <1>2, <4>1
      <4>3. limiter[l] \in [failures : Nat, resetAt : Nat]
        BY <1>1
      <4>4. QED
        BY <1>6, <3>1, <4>1, <4>2, <4>3
    <3>4. QED
      BY <3>2, <3>3
  <2>2. ASSUME NEW l \in Limiters, NEW now \in Nat, requests[r].at \in CountedPoints(l),
               limiter' = AfterFailed(l, now), MovesTo(r, {"idle"})
        PROVE  LimiterInv'
    <3>1. \A m \in Limiters : Uncounted(m)' \subseteq Uncounted(m) \ {r}
      BY <1>5, <2>2 DEF CountedPoints
    <3>2. r \in Uncounted(l)
      BY <2>2 DEF Uncounted
    <3>3. Cardinality(Uncounted(l))' <= Cardinality(Uncounted(l)) - 1
      BY <3>1, <3>2, UncountedStep
    <3>4. CASE l \notin Limited
      BY <1>3, <2>2, <3>1, <3>4 DEF AfterFailed
    <3>5. CASE l \in Limited /\ WindowOver(l, now)
      <4> DEFINE entry == [failures |-> 1, resetAt |-> now + Window]
      <4>1. limiter' = [limiter EXCEPT ![l] = entry]
        BY <2>2, <3>5 DEF AfterFailed
      <4>2. entry \in [failures : Nat, resetAt : Nat] /\ entry.failures = 1
        BY <1>1
      <4> HIDE DEF entry
      <4>3. Cardinality(Uncounted(l)) <= Cardinality(Requests)
        BY UncountedSize
      <4>4. entry.failures + Cardinality(Uncounted(l))' <= Maximum + Cardinality(Requests) - 1
        BY <1>1, <1>2, <3>3, <4>2, <4>3
      <4>5. QED
        BY <1>6, <3>1, <4>1, <4>2, <4>4
    <3>6. CASE l \in Limited /\ ~WindowOver(l, now)
      <4> DEFINE entry == [limiter[l] EXCEPT !.failures = @ + 1]
      <4> DEFINE first == [failures |-> 1, resetAt |-> now + Window]
      <4>1. limiter' = [limiter EXCEPT ![l] = entry]
        <5>1. limiter' = [limiter EXCEPT ![l] = IF WindowOver(l, now) THEN first ELSE entry]
          BY <2>2, <3>6 DEF AfterFailed
        <5> HIDE DEF entry, first
        <5>2. QED
          BY <3>6, <5>1
      <4>2. entry \in [failures : Nat, resetAt : Nat] /\ entry.failures = limiter[l].failures + 1
        BY <1>1
      <4> HIDE DEF entry
      <4>3. entry.failures + Cardinality(Uncounted(l))' <= Maximum + Cardinality(Requests) - 1
        BY <1>1, <1>2, <3>3, <4>2
      <4>4. QED
        BY <1>6, <3>1, <4>1, <4>2, <4>3
    <3>7. QED
      BY <3>4, <3>5, <3>6
  <2>3. ASSUME NEW l \in Limiters, limiter' = AfterSucceeded(l), MovesTo(r, {"idle"})
        PROVE  LimiterInv'
    <3>1. \A m \in Limiters : Uncounted(m)' \subseteq Uncounted(m)
      BY <1>5, <2>3 DEF CountedPoints
    <3>2. NoEntry.failures + Cardinality(Uncounted(l))' <= Maximum + Cardinality(Requests) - 1
      BY <1>1, <1>2
    <3>3. QED
      BY <1>1, <1>6, <2>3, <3>1, <3>2 DEF AfterSucceeded
  <2>4. ASSUME UNCHANGED limiter, MovesTo(r, Settled)
        PROVE  LimiterInv'
    <3>1. \A l \in Limiters : Uncounted(l)' \subseteq Uncounted(l)
      BY <1>5, <2>4 DEF CountedPoints, Settled
    <3>2. QED
      BY <1>3, <2>4, <3>1
  <2>5. ASSUME NEW l \in Limiters, requests[r].at \in CountedPoints(l), UNCHANGED limiter,
               MovesTo(r, CountedPoints(l))
        PROVE  LimiterInv'
    <3>1. r \in Uncounted(l)
      BY <2>5 DEF Uncounted
    <3>2. \A m \in Limiters : m # l => CountedPoints(l) \cap CountedPoints(m) = {}
      BY DEF CountedPoints, Limiters
    <3>3. \A m \in Limiters : Uncounted(m)' \subseteq Uncounted(m)
      BY <1>5, <2>5, <3>1, <3>2
    <3>4. QED
      BY <1>3, <2>5, <3>3
  <2>6. QED
    BY <1>7, <2>1, <2>2, <2>3, <2>4, <2>5 DEF LimiterMoves
<1>8. QED
    BY <1>4, <1>7, LimiterFrame

\* The inductive invariant.
Inv ==
    /\ TypeInv
    /\ SessionInv
    /\ FactorInv
    /\ FactorOwned
    /\ IsFiniteSet(challenges)
    /\ SeenFresh
    /\ StaleOnly
    /\ LimiterInv

\* The invariant holds initially.
LEMMA InitHolds ==
    ASSUME IdentityConstants, IdentityInit
    PROVE  Inv
<1> USE DEF IdentityInit, NoUser, NoSession, NoCredential, NoRequest, NoEntry
<1>1. /\ SessionInv
      /\ FactorOwned
    BY DEF SessionInv, SessionTypes, SessionRows, SessionsOwned, FactorOwned,
       SessionUsable
<1>2. FactorInv
    BY DEF FactorInv, FactorTypes, ChallengesFresh, CredentialsOK, SecretsFresh, Pending,
       StepsSpent, CodesSpent, CodesOfLatestConfirmation
<1>3. RequestsOK
    BY <1>2 DEF RequestsOK, RequestRows, WithUser, Points
<1>4. SeenFresh /\ StaleOnly
    BY DEF SeenFresh, Pending, StaleOnly
<1>5. LimiterType /\ step \in FirstStep .. LastStep
    BY DEF LimiterType, IdentityConstants
<1>6. LimiterSum
  <2>1. \A l \in Limiters : limiter[l].failures = 0
    OBVIOUS
  <2>2. \A l \in Limiters : Uncounted(l) = {}
    BY DEF Uncounted, CountedPoints
  <2>3. \A l \in Limiters : Cardinality(Uncounted(l)) = 0
    BY <2>2, FS_EmptySet
  <2>4. Maximum \in Nat \ {0} /\ Cardinality(Requests) \in Nat
    BY FS_CardinalityType DEF IdentityConstants
  <2>5. QED
    BY <2>1, <2>3, <2>4 DEF LimiterSum
<1>7. IdentityTypeOK
    BY <1>1, <1>2, <1>3, <1>5
       DEF SessionInv, SessionTypes, SessionRows, FactorInv, FactorTypes,
       LimiterType, RequestsOK, RequestRows, IdentityTypeOK
<1>8. HistoryOK
    BY <1>1, <1>2 DEF HistoryOK, SessionInv, SessionTypes, FactorInv, FactorTypes
<1>9. QED
    BY <1>1, <1>2, <1>3, <1>4, <1>5, <1>6, <1>7, <1>8, FS_EmptySet
       DEF Inv, TypeInv, LimiterInv

\* Every step keeps the invariant.
LEMMA StepHolds ==
    ASSUME IdentityConstants, Inv, [IdentityNext]_identityVars
    PROVE  Inv'
<1>1. TypeInv /\ RequestsOK /\ SessionInv /\ FactorInv /\ FactorOwned /\ SeenFresh /\ StaleOnly
      /\ LimiterInv
    BY DEF Inv, TypeInv
<1>2. SessionInv'
    BY <1>1, SessionStep
<1>3. FactorInv'
    BY <1>1, FactorStep
<1>4. FactorOwned'
    BY <1>1, OwnedStep
<1>5. RequestsOK' /\ SeenFresh' /\ StaleOnly'
    BY <1>1, SeenStep
<1>6. LimiterInv'
    BY <1>1, LimiterStep
<1>7. step' \in FirstStep .. LastStep
  <2>1. step \in FirstStep .. LastStep
    BY <1>1 DEF TypeInv, IdentityTypeOK
  <2>2. UNCHANGED step \/ Tick
    <3>1. ASSUME \/ UNCHANGED identityVars
                 \/ \E s \in SessionIds : Logout(s) \/ SessionExpires(s)
                 \/ \E c \in challenges : ChallengeExpires(c)
          PROVE  UNCHANGED step
      BY <3>1 DEF identityVars, Logout, SessionExpires, ChallengeExpires
    <3>2. ASSUME NEW r \in Requests, QuietNext(r) PROVE UNCHANGED step
      BY <3>2, QuietTables
    <3>3. ASSUME NEW r \in Requests,
                 \/ \E u \in Users, e \in Emails, s \in SessionIds : Register(r, u, e, s)
                 \/ CreateLoginChallenge(r)
                 \/ \E s \in SessionIds : CreateLoginSession(r, s) \/ RevokeUserSession(r, s)
                 \/ UpsertPendingTOTP(r)
                 \/ ChangePassword(r)
                 \/ \E e \in Emails : UpdateProfile(r, e)
                 \/ DeleteAccount(r)
          PROVE  UNCHANGED step
      BY <3>3 DEF Register, CreateLoginChallenge, CreateLoginSession, RevokeUserSession,
         UpsertPendingTOTP, ChangePassword, UpdateProfile, DeleteAccount
    <3>4. ASSUME NEW r \in Requests,
                 \/ \E c \in challenges : SecondFactorWrong(r, c)
                 \/ \E c \in challenges, k \in CodeSteps, s \in SessionIds :
                       VerifyLoginTOTP(r, c, k, s)
                 \/ \E c \in challenges, code \in recoveryCodes, s \in SessionIds :
                       VerifyLoginRecoveryCode(r, c, code, s)
                 \/ \E k \in CodeSteps : ConfirmTOTP(r, k) \/ DisableTOTP(r, k)
          PROVE  UNCHANGED step
      BY <3>4 DEF SecondFactorWrong, VerifyLoginTOTP, VerifyLoginRecoveryCode, ConfirmTOTP,
         DisableTOTP
    <3>5. QED
      BY <3>1, <3>2, <3>3, <3>4 DEF IdentityNext, LoginNext, AuthenticatedNext, QuietNext
  <2>3. QED
    BY <2>1, <2>2 DEF Tick, IdentityConstants
<1>8. IdentityTypeOK'
    BY <1>2, <1>3, <1>5, <1>6, <1>7
       DEF SessionInv, SessionTypes, SessionRows, FactorInv, FactorTypes,
       LimiterInv, LimiterType, RequestsOK, RequestRows, IdentityTypeOK
<1>9. HistoryOK'
    BY <1>2, <1>3 DEF HistoryOK, SessionInv, SessionTypes, FactorInv, FactorTypes
<1>10. IsFiniteSet(challenges)'
    BY ChallengesFinite DEF Inv
<1>11. QED
    BY <1>2, <1>3, <1>4, <1>5, <1>6, <1>8, <1>9, <1>10 DEF Inv, TypeInv

\* Only the two handlers of the second factor accept one.
LEMMA AcceptedBy ==
    ASSUME RequestsOK, [IdentityNext]_identityVars, SecondFactorAccepted
    PROVE  \E r \in Requests, c \in challenges, s \in SessionIds :
              \/ \E k \in CodeSteps : VerifyLoginTOTP(r, c, k, s)
              \/ \E code \in recoveryCodes : VerifyLoginRecoveryCode(r, c, code, s)
<1>1. PICK p \in Requests : requests[p].at = "factor" /\ requests'[p].at = "succeeded"
    BY DEF SecondFactorAccepted, Is
<1>2. \A r \in Requests : \A q :
          requests' = [requests EXCEPT ![r] = q] => p = r /\ q.at = "succeeded"
    BY <1>1 DEF RequestsOK
<1>3. ~UNCHANGED requests
    BY <1>1
<1>4. ASSUME NEW r \in Requests
      PROVE  /\ ~Ends(r)
             /\ \A x : Goes(r, x) => x = "succeeded" /\ requests[r].at = "factor"
             /\ \A l, x, now : Arrives(r, l, x, now) => requests[r].at = "factor"
             /\ \A q : Becomes(r, q) => requests[r].at = "factor"
  <2>a. NoRequest.at = "idle"
    BY DEF NoRequest
  <2>1. ~Ends(r)
    BY <1>2, <2>a DEF Ends, Becomes
  <2>2. \A q : Becomes(r, q) => p = r /\ q.at = "succeeded"
    BY <1>2 DEF Becomes
  <2>3. \A x : [requests[r] EXCEPT !.at = x].at = x
    BY DEF RequestsOK, RequestRows
  <2>4. QED
    BY <1>1, <2>1, <2>2, <2>3 DEF Goes, Arrives
<1>5. ASSUME \/ UNCHANGED identityVars \/ Tick
             \/ \E s \in SessionIds : Logout(s) \/ SessionExpires(s)
             \/ \E c \in challenges : ChallengeExpires(c)
      PROVE  FALSE
    BY <1>3, <1>5 DEF identityVars, Tick, Logout, SessionExpires, ChallengeExpires
<1>6. ASSUME NEW r \in Requests, QuietNext(r) PROVE FALSE
  <2>1. CASE RegisterArrives(r) \/ LoginArrives(r) \/ SecondFactorArrives(r)
    BY <1>4, <2>1 DEF RegisterArrives, LoginArrives, SecondFactorArrives, Arrives, Is
  <2>2. CASE \/ RegistrationFailed(r) \/ RegistrationSucceeded(r) \/ LoginFailed(r)
             \/ LoginSucceeded(r) \/ SecondFactorFailed(r) \/ Refused(r)
    BY <1>4, <2>2
       DEF RegistrationFailed, RegistrationSucceeded, LoginFailed, LoginSucceeded,
       SecondFactorFailed, Reports, Refused
  <2>3. CASE \/ \E e \in Emails : RegisterTaken(r, e)
             \/ LoginPasswordWrong(r) \/ ChallengeNotFound(r)
    BY <1>4, <2>3 DEF RegisterTaken, LoginPasswordWrong, ChallengeNotFound
  <2>4. CASE \/ \E u \in Users : LoginPasswordRight(r, u)
             \/ \E s \in SessionIds : Authenticate(r, s)
             \/ CheckTOTPForSetup(r)
    BY <1>4, <2>4 DEF LoginPasswordRight, Authenticate, CheckTOTPForSetup, Is
  <2>5. QED
    BY <1>6, <2>1, <2>2, <2>3, <2>4 DEF QuietNext
<1>7. ASSUME NEW r \in Requests,
             \/ \E s \in SessionIds : RevokeUserSession(r, s)
             \/ UpsertPendingTOTP(r)
             \/ \E k \in CodeSteps : ConfirmTOTP(r, k) \/ DisableTOTP(r, k)
             \/ ChangePassword(r)
             \/ \E e \in Emails : UpdateProfile(r, e)
             \/ DeleteAccount(r)
      PROVE  FALSE
    BY <1>4, <1>7 DEF RevokeUserSession, UpsertPendingTOTP, ConfirmTOTP, DisableTOTP,
       ChangePassword, UpdateProfile, DeleteAccount
<1>8. ASSUME NEW r \in Requests,
             \/ \E u \in Users, e \in Emails, s \in SessionIds : Register(r, u, e, s)
             \/ \E c \in challenges : SecondFactorWrong(r, c)
             \/ CreateLoginChallenge(r)
             \/ \E s \in SessionIds : CreateLoginSession(r, s)
      PROVE  FALSE
    BY <1>4, <1>8
       DEF Register, SecondFactorWrong, CreateLoginChallenge, CreateLoginSession, Is
<1>9. QED
    BY <1>5, <1>6, <1>7, <1>8 DEF IdentityNext, LoginNext, AuthenticatedNext, QuietNext

-----------------------------------------------------------------------------
(***************************************************************************)
(* Theorems.                                                               *)
(***************************************************************************)
\* The invariant holds of every reachable state.
THEOREM IdentityInvariance == IdentitySpec => []Inv
<1>1. IdentityInit => Inv
    BY IdentityConstants, InitHolds
<1>2. Inv /\ [IdentityNext]_identityVars => Inv'
    BY IdentityConstants, StepHolds
<1>3. QED
    BY <1>1, <1>2, PTL DEF IdentitySpec

\* Rows, requests and limiters keep their types, and no challenge takes more
\* wrong codes than it may (SecondFactorWrong).
THEOREM IdentityTypeCorrect == IdentitySpec => []IdentityTypeOK
<1>1. Inv => IdentityTypeOK
    BY DEF Inv, TypeInv
<1>2. QED
    BY <1>1, IdentityInvariance, PTL

\* Nothing of a deleted user stays or comes back (DeleteAccount and the requests
\* in progress).
THEOREM NoOrphans == IdentitySpec => []NoOrphanRows
<1>1. Inv => NoOrphanRows
    BY DEF Inv, SessionInv, SessionsOwned, FactorOwned, NoOrphanRows
<1>2. QED
    BY <1>1, IdentityInvariance, PTL

\* An element is left out, or one element takes the place of another.
LEMMA Replacing ==
    ASSUME NEW S, NEW T, IsFiniteSet(S),
           T \subseteq S \/ \E x \in S : \E y : T \subseteq (S \ {x}) \cup {y}
    PROVE  Cardinality(T) <= Cardinality(S)
<1>1. CASE T \subseteq S
    BY <1>1, FS_Subset
<1>2. ASSUME NEW x \in S, NEW y, T \subseteq (S \ {x}) \cup {y}
      PROVE  Cardinality(T) <= Cardinality(S)
  <2> DEFINE R == S \ {x}
             Q == R \cup {y}
  <2>1. IsFiniteSet(R) /\ Cardinality(R) = Cardinality(S) - 1
    BY FS_RemoveElement
  <2>2. /\ IsFiniteSet(Q)
        /\ Cardinality(Q) = Cardinality(R) \/ Cardinality(Q) = Cardinality(R) + 1
    BY <2>1, FS_AddElement
  <2>3. Cardinality(T) <= Cardinality(Q) /\ IsFiniteSet(T)
    BY <1>2, <2>2, FS_Subset
  <2>4. /\ Cardinality(S) \in Nat /\ Cardinality(R) \in Nat
        /\ Cardinality(Q) \in Nat /\ Cardinality(T) \in Nat
    BY <2>1, <2>2, <2>3, FS_CardinalityType
  <2> HIDE DEF R, Q
  <2>5. QED
    BY <2>1, <2>2, <2>3, <2>4
<1>3. QED
    BY <1>1, <1>2

\* There are finitely many logins with an outdated password.
LEMMA OldLoginsFinite ==
    ASSUME IdentityConstants, IsFiniteSet(challenges), NEW u
    PROVE  IsFiniteSet(OldLogins(u))
<1>1. /\ IsFiniteSet({"session"}) /\ IsFiniteSet({"challenge"}) /\ IsFiniteSet({"request"})
      /\ IsFiniteSet(SessionIds) /\ IsFiniteSet(Requests)
    BY FS_Singleton DEF IdentityConstants
<1>2. /\ IsFiniteSet({"session"} \X SessionIds)
      /\ IsFiniteSet({"challenge"} \X challenges)
      /\ IsFiniteSet({"request"} \X Requests)
    BY <1>1, FS_Product
<1>3. IsFiniteSet(({"session"} \X SessionIds) \cup ({"challenge"} \X challenges))
    BY <1>2, FS_Union
<1>4. IsFiniteSet((({"session"} \X SessionIds) \cup ({"challenge"} \X challenges))
                    \cup ({"request"} \X Requests))
    BY <1>2, <1>3, FS_Union
<1>5. OldLogins(u) \subseteq (({"session"} \X SessionIds) \cup ({"challenge"} \X challenges))
                    \cup ({"request"} \X Requests)
    BY DEF OldLogins
<1>6. QED
    BY <1>4, <1>5, FS_Subset

\* A request that goes on to store a session or a challenge.
OldRequest(u, r) ==
    requests[r].at \in {"session", "challenge"} /\ Outdated(u, requests[r])

\* The members of OldLogins(u), one kind after the other.
LEMMA OldMembers ==
    ASSUME NEW u
    PROVE  \A p : p \in OldLogins(u) <=>
              \/ \E s \in SessionIds : p = <<"session", s>> /\ Outdated(u, sessions[s])
              \/ \E c \in challenges : p = <<"challenge", c>> /\ Outdated(u, c)
              \/ \E r \in Requests : p = <<"request", r>> /\ OldRequest(u, r)
    BY DEF OldLogins, OldRequest

\* No request verifies an outdated password.
LEMMA OldRequests ==
    ASSUME IdentityConstants, TypeInv, [IdentityNext]_identityVars,
           NEW u \in Users, users'[u].password = users[u].password,
           NEW r \in Requests, OldRequest(u, r)'
    PROVE  OldRequest(u, r)
<1>1. CASE UNCHANGED requests
    BY <1>1 DEF OldRequest, Outdated
<1>2. ASSUME NEW x \in Requests, RequestMoves(x) PROVE OldRequest(u, r)
  <2>1. PICK q \in RequestRows :
            /\ requests' = [requests EXCEPT ![x] = q]
            /\ q.at \in {"session", "challenge"} =>
                  q.password = users[q.user].password /\ UNCHANGED users
    BY <1>2 DEF RequestMoves
  <2>2. \A y \in Requests : requests'[y] = IF y = x THEN q ELSE requests[y]
    BY <2>1 DEF TypeInv, RequestsOK
  <2>3. CASE r = x
    BY <2>1, <2>2, <2>3 DEF OldRequest, Outdated
  <2>4. CASE r # x
    BY <2>2, <2>4 DEF OldRequest, Outdated
  <2>5. QED
    BY <2>3, <2>4
<1>3. QED
    BY <1>1, <1>2, RequestStep

\* A session with an outdated password was there, or has just been opened.
LEMMA OldSessions ==
    ASSUME IdentityConstants, TypeInv, SessionInv, [IdentityNext]_identityVars,
           NEW u \in Users, Registered(u), users'[u].password = users[u].password,
           NEW s \in SessionIds, Outdated(u, sessions[s])'
    PROVE  \/ Outdated(u, sessions[s])
           \/ \E r \in Requests :
                 \/ CreateLoginSession(r, s)
                 \/ \E c \in challenges, k \in CodeSteps : VerifyLoginTOTP(r, c, k, s)
                 \/ \E c \in challenges, code \in recoveryCodes :
                       VerifyLoginRecoveryCode(r, c, code, s)
<1> DEFINE Same == sessions'[s] = sessions[s] => Outdated(u, sessions[s])
<1>a. Same
    BY DEF Outdated
<1>b. sessions'[s] # NoSession
    BY DEF Outdated, NoSession, IdentityConstants
<1>1. CASE UNCHANGED <<users, sessions>>
    BY <1>1, <1>a
<1>2. ASSUME NEW r \in Requests, NEW v \in Users, NEW e \in Emails, NEW t \in SessionIds,
             Register(r, v, e, t)
      PROVE  Outdated(u, sessions[s])
  <2>1. v # u /\ sessions' = [sessions EXCEPT ![t] = [user |-> v, password |-> 1]]
    BY <1>2 DEF Register, Registered
  <2>2. sessions'[s] = sessions[s] \/ sessions'[s].user = v
    BY <2>1 DEF SessionInv, SessionTypes
  <2>3. QED
    BY <1>a, <2>1, <2>2 DEF Outdated
<1>3. ASSUME NEW r \in Requests, NEW t \in SessionIds,
             \/ CreateLoginSession(r, t)
             \/ \E c \in challenges, k \in CodeSteps : VerifyLoginTOTP(r, c, k, t)
             \/ \E c \in challenges, code \in recoveryCodes :
                   VerifyLoginRecoveryCode(r, c, code, t)
      PROVE  sessions'[s] = sessions[s] \/ s = t
  <2>1. \E row : sessions' = [sessions EXCEPT ![t] = row]
    BY <1>3
       DEF CreateLoginSession, VerifyLoginTOTP, VerifyLoginRecoveryCode, CreateSession
  <2>2. QED
    BY <2>1 DEF SessionInv, SessionTypes
<1>4. ASSUME NEW t \in SessionIds,
             Logout(t) \/ SessionExpires(t) \/ \E r \in Requests : RevokeUserSession(r, t)
      PROVE  sessions'[s] = sessions[s]
  <2>1. sessions' = [sessions EXCEPT ![t] = NoSession]
    BY <1>4 DEF Logout, SessionExpires, RevokeUserSession, SessionRevoked
  <2>2. QED
    BY <1>b, <2>1 DEF SessionInv, SessionTypes
<1>5. ASSUME NEW r \in Requests, ChangePassword(r)
      PROVE  sessions'[s] = sessions[s]
  <2> DEFINE v == requests[r].user
             t == requests[r].session
  <2>1. v \in Users /\ users' = [users EXCEPT ![v].password = @ + 1]
    BY <1>5 DEF ChangePassword, PasswordUpdated, Is, TypeInv, RequestsOK, WithUser
  <2>2. v # u
    BY <2>1 DEF SessionInv, SessionTypes
  <2>3. sessions' = Renewed(OtherSessionsRevoked(v, t), v, t, users'[v].password)
    BY <1>5 DEF ChangePassword
  <2>4. sessions'[s] = sessions[s] \/ sessions'[s] = NoSession \/ sessions'[s].user = v
    <3> DEFINE row == OtherSessionsRevoked(v, t)[s]
    <3>1. row = NoSession \/ row = sessions[s]
      BY DEF OtherSessionsRevoked
    <3>2. \/ sessions'[s] = row
          \/ /\ row.user = v
             /\ sessions'[s] = [row EXCEPT !.password = users'[v].password]
      BY <2>3 DEF Renewed
    <3>3. row \in {NoSession} \cup [user : Users, password : Nat]
      BY <3>1 DEF SessionInv, SessionTypes, SessionRows
    <3>4. NoSession.user # v
      BY <2>1 DEF NoSession, IdentityConstants
    <3> HIDE DEF row
    <3>5. row.user = v => row \in [user : Users, password : Nat]
      BY <3>3, <3>4
    <3>6. QED
      BY <3>1, <3>2, <3>5
  <2>5. QED
    BY <1>b, <2>2, <2>4 DEF Outdated
<1>6. ASSUME NEW r \in Requests, NEW e \in Emails, UpdateProfile(r, e)
      PROVE  sessions'[s] = sessions[s]
    BY <1>6 DEF UpdateProfile
<1>7. ASSUME NEW r \in Requests, DeleteAccount(r)
      PROVE  sessions'[s] = sessions[s]
    BY <1>7, <1>b DEF DeleteAccount, OtherSessionsRevoked
<1>8. QED
    BY <1>a, <1>1, <1>2, <1>3, <1>4, <1>5, <1>6, <1>7, SessionsFrame DEF SessionsWritten

\* While a password stays, logins with earlier ones only move on or go away.
LEMMA OldLoginsShrink ==
    ASSUME IdentityConstants, Inv, [IdentityNext]_identityVars,
           NEW u \in Users, Registered(u), users'[u].password = users[u].password
    PROVE  Cardinality(OldLogins(u))' <= Cardinality(OldLogins(u))
<1> DEFINE Old == OldLogins(u)
           New == OldLogins(u)'
<1>1. TypeInv /\ RequestsOK /\ SessionInv /\ FactorInv /\ IsFiniteSet(Old)
    BY OldLoginsFinite DEF Inv, TypeInv
<1>2. \A p : p \in Old <=>
          \/ \E s \in SessionIds : p = <<"session", s>> /\ Outdated(u, sessions[s])
          \/ \E c \in challenges : p = <<"challenge", c>> /\ Outdated(u, c)
          \/ \E r \in Requests : p = <<"request", r>> /\ OldRequest(u, r)
    BY OldMembers
<1>3. \A p : p \in New <=>
          \/ \E s \in SessionIds : p = <<"session", s>> /\ Outdated(u, sessions[s])'
          \/ \E c \in challenges' : p = <<"challenge", c>> /\ Outdated(u, c)'
          \/ \E r \in Requests : p = <<"request", r>> /\ OldRequest(u, r)'
    BY DEF OldLogins, OldRequest
<1>4. \A c : Outdated(u, c)' <=> Outdated(u, c)
    BY DEF Outdated
<1>5. \A r \in Requests : OldRequest(u, r)' => OldRequest(u, r)
    BY <1>1, OldRequests
<1> DEFINE Opens(r, s) ==
        \/ CreateLoginSession(r, s)
        \/ \E c \in challenges, k \in CodeSteps : VerifyLoginTOTP(r, c, k, s)
        \/ \E c \in challenges, code \in recoveryCodes : VerifyLoginRecoveryCode(r, c, code, s)
<1>6. \A s \in SessionIds : Outdated(u, sessions[s])' =>
          Outdated(u, sessions[s]) \/ \E r \in Requests : Opens(r, s)
    BY <1>1, OldSessions
<1> DEFINE Goal == New \subseteq Old \/ \E x \in Old : \E y : New \subseteq (Old \ {x}) \cup {y}
<1> HIDE DEF Old, New, Opens
<1>7. ASSUME NEW r \in Requests, CreateLoginChallenge(r) PROVE Goal
  <2> DEFINE c == ChallengeRow(requests[r].user, issued', requests[r].password)
  <2>1. /\ Is(r, "challenge")
        /\ challenges' = challenges \cup {c}
        /\ requests' = [requests EXCEPT ![r] = [NoRequest EXCEPT !.at = "succeeded"]]
        /\ UNCHANGED sessions
    BY <1>7 DEF CreateLoginChallenge, Becomes
  <2>2. requests'[r].at = "succeeded"
    BY <1>1, <2>1 DEF RequestsOK, NoRequest
  <2>3. c.user = requests[r].user /\ c.password = requests[r].password
    BY DEF ChallengeRow
  <2> HIDE DEF c
  <2>4. Outdated(u, c) => <<"request", r>> \in Old /\ <<"request", r>> \notin New
    <3>1. Outdated(u, c) => OldRequest(u, r)
      BY <2>1, <2>3 DEF OldRequest, Outdated, Is
    <3>2. ~OldRequest(u, r)'
      BY <2>2 DEF OldRequest
    <3>3. <<"request", r>> \notin New
      BY <1>3, <3>2
    <3>4. QED
      BY <1>2, <3>1, <3>3
  <2>5. \A s \in SessionIds : Outdated(u, sessions[s])' => Outdated(u, sessions[s])
    BY <2>1 DEF Outdated
  <2>6. New \subseteq Old \cup {<<"challenge", c>>}
    BY <1>2, <1>3, <1>4, <1>5, <2>1, <2>5
  <2>7. Outdated(u, c) \/ New \subseteq Old
    BY <1>2, <1>3, <1>4, <1>5, <2>1, <2>5
  <2>8. QED
    BY <2>4, <2>6, <2>7
<1>8. ASSUME NEW r \in Requests, NEW c \in challenges, SecondFactorWrong(r, c) PROVE Goal
  <2> DEFINE d == [c EXCEPT !.attempts = @ + 1]
  <2>1. challenges' = (challenges \ {c}) \cup {d} /\ UNCHANGED sessions
    BY <1>8 DEF SecondFactorWrong, AttemptCounted
  <2>2. d.user = c.user /\ d.password = c.password /\ d # c
    BY <1>1 DEF FactorInv, FactorTypes
  <2>3. \A s \in SessionIds : Outdated(u, sessions[s])' => Outdated(u, sessions[s])
    BY <2>1 DEF Outdated
  <2>4. Outdated(u, d) <=> Outdated(u, c)
    BY <2>2 DEF Outdated
  <2> HIDE DEF d
  <2>5. CASE Outdated(u, c)
    <3>1. <<"challenge", c>> \in Old
      BY <1>2, <2>5
    <3>2. <<"challenge", c>> \notin New
      BY <1>3, <2>1, <2>2
    <3>3. New \subseteq Old \cup {<<"challenge", d>>}
      BY <1>2, <1>3, <1>4, <1>5, <2>1, <2>3
    <3>4. QED
      BY <3>1, <3>2, <3>3
  <2>6. CASE ~Outdated(u, c)
    BY <1>2, <1>3, <1>4, <1>5, <2>1, <2>3, <2>4, <2>6
  <2>7. QED
    BY <2>5, <2>6
<1>9. ASSUME NEW r \in Requests, NEW s \in SessionIds, CreateLoginSession(r, s) PROVE Goal
  <2>1. /\ Is(r, "session")
        /\ sessions' = [sessions EXCEPT ![s] =
              [user |-> requests[r].user, password |-> requests[r].password]]
        /\ requests' = [requests EXCEPT ![r] = [NoRequest EXCEPT !.at = "succeeded"]]
        /\ UNCHANGED challenges
    BY <1>9 DEF CreateLoginSession, CreateSession, Becomes
  <2>2. requests'[r].at = "succeeded"
    BY <1>1, <2>1 DEF RequestsOK, NoRequest
  <2>3. \A t \in SessionIds : sessions'[t] = IF t = s
            THEN [user |-> requests[r].user, password |-> requests[r].password]
            ELSE sessions[t]
    BY <1>1, <2>1 DEF SessionInv, SessionTypes
  <2>4. \A t \in SessionIds : t # s /\ Outdated(u, sessions[t])' => Outdated(u, sessions[t])
    BY <2>3 DEF Outdated
  <2>5. Outdated(u, sessions[s])' => <<"request", r>> \in Old /\ <<"request", r>> \notin New
    <3>1. Outdated(u, sessions[s])' => Outdated(u, requests[r])
      BY <2>3 DEF Outdated
    <3>2. QED
      BY <1>2, <1>3, <2>1, <2>2, <3>1 DEF OldRequest, Is
  <2>6. New \subseteq Old \cup {<<"session", s>>}
    BY <1>2, <1>3, <1>4, <1>5, <2>1, <2>4
  <2>7. Outdated(u, sessions[s])' \/ New \subseteq Old
    BY <1>2, <1>3, <1>4, <1>5, <2>1, <2>4
  <2>8. QED
    BY <2>5, <2>6, <2>7
<1>10. ASSUME NEW r \in Requests, NEW c \in challenges, NEW s \in SessionIds,
              \/ \E k \in CodeSteps : VerifyLoginTOTP(r, c, k, s)
              \/ \E code \in recoveryCodes : VerifyLoginRecoveryCode(r, c, code, s)
       PROVE  Goal
  <2>1. /\ sessions' = [sessions EXCEPT ![s] = [user |-> c.user, password |-> c.password]]
        /\ challenges' = challenges \ {c}
    BY <1>10
       DEF VerifyLoginTOTP, VerifyLoginRecoveryCode, CreateSession, ChallengeConsumed
  <2>2. \A t \in SessionIds : sessions'[t] = IF t = s
            THEN [user |-> c.user, password |-> c.password] ELSE sessions[t]
    BY <1>1, <2>1 DEF SessionInv, SessionTypes
  <2>3. \A t \in SessionIds : t # s /\ Outdated(u, sessions[t])' => Outdated(u, sessions[t])
    BY <2>2 DEF Outdated
  <2>4. Outdated(u, sessions[s])' => <<"challenge", c>> \in Old /\ <<"challenge", c>> \notin New
    <3>1. Outdated(u, sessions[s])' => Outdated(u, c)
      BY <2>2 DEF Outdated
    <3>2. QED
      BY <1>2, <1>3, <2>1, <3>1
  <2>5. New \subseteq Old \cup {<<"session", s>>}
    BY <1>2, <1>3, <1>4, <1>5, <2>1, <2>3
  <2>6. Outdated(u, sessions[s])' \/ New \subseteq Old
    BY <1>2, <1>3, <1>4, <1>5, <2>1, <2>3
  <2>7. QED
    BY <2>4, <2>5, <2>6
<1>11. ASSUME challenges' \subseteq challenges,
              \A s \in SessionIds : Outdated(u, sessions[s])' => Outdated(u, sessions[s])
       PROVE  New \subseteq Old
  <2> SUFFICES ASSUME NEW p \in New PROVE p \in Old
    OBVIOUS
  <2>1. CASE \E s \in SessionIds : p = <<"session", s>> /\ Outdated(u, sessions[s])'
    BY <1>2, <1>11, <2>1
  <2>2. CASE \E c \in challenges' : p = <<"challenge", c>> /\ Outdated(u, c)'
    BY <1>2, <1>4, <1>11, <2>2
  <2>3. CASE \E r \in Requests : p = <<"request", r>> /\ OldRequest(u, r)'
    BY <1>2, <1>5, <2>3
  <2>4. QED
    BY <1>3, <2>1, <2>2, <2>3
<1>12. \/ challenges' \subseteq challenges
       \/ \E r \in Requests :
             CreateLoginChallenge(r) \/ \E c \in challenges : SecondFactorWrong(r, c)
    BY FactorFrame
       DEF VerifyLoginTOTP, VerifyLoginRecoveryCode, ChallengeConsumed, UpsertPendingTOTP,
       ConfirmTOTP, DisableTOTP, DeleteAccount, ChallengeExpires
<1>13. ASSUME NEW r \in Requests, NEW s \in SessionIds, Opens(r, s) PROVE Goal
    BY <1>9, <1>10, <1>13 DEF Opens
<1>14. Goal
  <2>1. CASE \E r \in Requests, s \in SessionIds : Opens(r, s)
    BY <1>13, <2>1
  <2>2. CASE \E r \in Requests :
                CreateLoginChallenge(r) \/ \E c \in challenges : SecondFactorWrong(r, c)
    BY <1>7, <1>8, <2>2
  <2>3. CASE /\ challenges' \subseteq challenges
             /\ \A r \in Requests, s \in SessionIds : ~Opens(r, s)
    <3>1. \A s \in SessionIds : Outdated(u, sessions[s])' => Outdated(u, sessions[s])
      BY <1>6, <2>3
    <3>2. QED
      BY <1>11, <2>3, <3>1
  <2>4. QED
    BY <1>12, <2>1, <2>2, <2>3
<1>15. Cardinality(New) <= Cardinality(Old)
    BY <1>1, <1>14, Replacing
<1>16. QED
    BY <1>15 DEF Old, New

\* A password is changed by ChangePassword alone.
LEMMA PasswordChangedBy ==
    ASSUME TypeInv, SessionInv, [IdentityNext]_identityVars,
           NEW u \in Users, Registered(u), users'[u].password # users[u].password
    PROVE  \E r \in Requests : ChangePassword(r) /\ requests[r].user = u
<1>1. ASSUME NEW r \in Requests, NEW v \in Users, NEW e \in Emails, NEW s \in SessionIds,
             Register(r, v, e, s)
      PROVE  FALSE
    BY <1>1 DEF Register, Registered, SessionInv, SessionTypes
<1>2. ASSUME NEW r \in Requests,
             ChangePassword(r) \/ DeleteAccount(r) \/ \E e \in Emails : UpdateProfile(r, e)
      PROVE  ChangePassword(r) /\ requests[r].user = u
  <2>1. requests[r].user \in Users
    BY <1>2 DEF ChangePassword, DeleteAccount, UpdateProfile, Is, TypeInv, RequestsOK, WithUser
  <2>2. ASSUME ChangePassword(r) PROVE requests[r].user = u
    BY <2>1, <2>2 DEF ChangePassword, PasswordUpdated, SessionInv, SessionTypes
  <2>3. ASSUME DeleteAccount(r) PROVE FALSE
    BY <2>1, <2>3 DEF DeleteAccount, UserDeleted, SessionInv, SessionTypes
  <2>4. ASSUME NEW e \in Emails, UpdateProfile(r, e) PROVE FALSE
    BY <2>1, <2>4 DEF UpdateProfile, ProfileUpdated, SessionInv, SessionTypes
  <2>5. QED
    BY <1>2, <2>2, <2>3, <2>4
<1>3. ASSUME NEW r \in Requests, NEW s \in SessionIds,
             \/ CreateLoginSession(r, s) \/ RevokeUserSession(r, s)
             \/ \E c \in challenges, k \in CodeSteps : VerifyLoginTOTP(r, c, k, s)
             \/ \E c \in challenges, code \in recoveryCodes : VerifyLoginRecoveryCode(r, c, code, s)
      PROVE  FALSE
    BY <1>3
       DEF CreateLoginSession, RevokeUserSession, VerifyLoginTOTP, VerifyLoginRecoveryCode
<1>4. ASSUME NEW s \in SessionIds, Logout(s) \/ SessionExpires(s) PROVE FALSE
    BY <1>4 DEF Logout, SessionExpires
<1>5. QED
    BY <1>1, <1>2, <1>3, <1>4, SessionsFrame DEF SessionsWritten

\* A change of the password leaves one session, and what verified the earlier
\* password before the change gains one session at most (ChangePassword, Login
\* and the handlers of the second factor).
THEOREM PasswordChangesRevoke == IdentitySpec => PasswordChangeRevokes
<1> DEFINE A == \A u \in Users : Registered(u) =>
          IF users'[u].password # users[u].password
          THEN \A s \in SessionIds : ~Outdated(u, sessions[s])'
          ELSE Cardinality(OldLogins(u))' <= Cardinality(OldLogins(u))
<1>1. ASSUME Inv, [IdentityNext]_identityVars PROVE A
  <2> SUFFICES ASSUME NEW u \in Users, Registered(u)
               PROVE  IF users'[u].password # users[u].password
                      THEN \A s \in SessionIds : ~Outdated(u, sessions[s])'
                      ELSE Cardinality(OldLogins(u))' <= Cardinality(OldLogins(u))
    OBVIOUS
  <2>1. CASE users'[u].password = users[u].password
    BY <1>1, <2>1, IdentityConstants, OldLoginsShrink
  <2>2. CASE users'[u].password # users[u].password
    <3>1. TypeInv /\ SessionInv
      BY <1>1 DEF Inv
    <3>2. PICK r \in Requests : ChangePassword(r) /\ requests[r].user = u
      BY <1>1, <2>2, <3>1, PasswordChangedBy
    <3> DEFINE t == requests[r].session
               p == users'[u].password
    <3>3. sessions' = Renewed(OtherSessionsRevoked(u, t), u, t, p)
      BY <3>2 DEF ChangePassword
    <3> HIDE DEF t
    <3>4. \A s \in SessionIds : sessions[s] \in SessionRows
      BY <3>1 DEF SessionInv, SessionTypes
    <3>5. NoSession.user # u
      BY IdentityConstants DEF NoSession, IdentityConstants
    <3>6. \A s \in SessionIds : sessions'[s].user = u => sessions'[s].password = p
      <4> SUFFICES ASSUME NEW s \in SessionIds, sessions'[s].user = u
                   PROVE  sessions'[s].password = p
        OBVIOUS
      <4> DEFINE row == OtherSessionsRevoked(u, t)[s]
      <4>1. row = IF sessions[s].user = u /\ s # t THEN NoSession ELSE sessions[s]
        BY DEF OtherSessionsRevoked
      <4>2. sessions'[s] = IF row.user = u /\ s = t THEN [row EXCEPT !.password = p] ELSE row
        BY <3>3 DEF Renewed
      <4>3. row.user = u => s = t /\ row \in [user : Users, password : Nat]
        BY <3>4, <3>5, <4>1 DEF SessionRows
      <4> HIDE DEF row
      <4>4. QED
        BY <4>2, <4>3
    <3>7. QED
      BY <2>2, <3>6 DEF Outdated
  <2>3. QED
    BY <2>1, <2>2
<1>2. QED
    BY <1>1, IdentityInvariance, PTL DEF IdentitySpec, PasswordChangeRevokes

\* The recovery codes are those of the last confirmation (ConfirmTOTP).
THEOREM CodesAreLatest == IdentitySpec => []CodesOfLatestConfirmation
<1>1. Inv => CodesOfLatestConfirmation
    BY DEF Inv, FactorInv
<1>2. QED
    BY <1>1, IdentityInvariance, PTL

\* Concurrent requests exceed a limiter by less than their number (loginLimiter).
THEOREM LimiterIsBounded == IdentitySpec => []LimiterBound
<1>1. Inv => LimiterBound
  <2> SUFFICES ASSUME Inv, NEW l \in Limiters
               PROVE  limiter[l].failures <= Maximum + Cardinality(Requests) - 1
    BY DEF LimiterBound
  <2>1. /\ limiter[l].failures \in Nat
        /\ limiter[l].failures + Cardinality(Uncounted(l))
              <= Maximum + Cardinality(Requests) - 1
    BY DEF Inv, LimiterInv, LimiterType, LimiterSum
  <2>2. Cardinality(Uncounted(l)) \in Nat /\ Cardinality(Requests) \in Nat
    BY IdentityConstants, UncountedSize
  <2>3. Maximum \in Nat
    BY IdentityConstants DEF IdentityConstants
  <2>4. QED
    BY <2>1, <2>2, <2>3
<1>2. QED
    BY <1>1, IdentityInvariance, PTL

\* What a second factor leaves in the history is new.
LEMMA AcceptedIsNew ==
    ASSUME Inv, [IdentityNext]_identityVars, SecondFactorAccepted
    PROVE  /\ Spent({"challenge"})' # Spent({"challenge"})
           /\ Spent({"step", "code"})' # Spent({"step", "code"})
<1>0. RequestsOK /\ FactorInv
    BY DEF Inv, TypeInv
<1>1. PICK r \in Requests, c \in challenges, s \in SessionIds :
          \/ \E k \in CodeSteps : VerifyLoginTOTP(r, c, k, s)
          \/ \E code \in recoveryCodes : VerifyLoginRecoveryCode(r, c, code, s)
    BY <1>0, AcceptedBy
<1>2. <<"challenge", c.id>> \notin opened
    BY <1>0 DEF FactorInv, ChallengesFresh
<1> DEFINE Fresh(x, y, z) ==
        /\ x \in {"step", "code"}
        /\ opened' = opened \cup {<<"challenge", c.id>>, <<x, y, z>>}
        /\ <<x, y, z>> \notin opened
<1>3. \E x, y, z : Fresh(x, y, z)
  <2>1. ASSUME NEW k \in CodeSteps, VerifyLoginTOTP(r, c, k, s)
        PROVE  /\ opened' = opened \cup {<<"challenge", c.id>>,
                                         <<"step", credentials[c.user].secret, k>>}
               /\ <<"step", credentials[c.user].secret, k>> \notin opened
    <3>1. c.user \in Users /\ credentials[c.user].lastUsed \in Int /\ k \in Int
      BY <1>0, IdentityConstants DEF FactorInv, FactorTypes, IdentityConstants
    <3>2. k > credentials[c.user].lastUsed
      BY <2>1 DEF VerifyLoginTOTP, ValidateTOTP
    <3>3. <<"step", credentials[c.user].secret, k>> \notin opened
      BY <1>0, <3>1, <3>2 DEF FactorInv, StepsSpent
    <3>4. QED
      BY <2>1, <3>3 DEF VerifyLoginTOTP
  <2>2. ASSUME NEW code \in recoveryCodes, VerifyLoginRecoveryCode(r, c, code, s)
        PROVE  /\ opened' = opened \cup {<<"challenge", c.id>>,
                                         <<"code", code.generation, code.number>>}
               /\ <<"code", code.generation, code.number>> \notin opened
    BY <1>0, <2>2 DEF VerifyLoginRecoveryCode, UnusedCode, FactorInv, CodesSpent
  <2>3. ASSUME NEW k \in CodeSteps, VerifyLoginTOTP(r, c, k, s)
        PROVE  Fresh("step", credentials[c.user].secret, k)
    BY <2>1, <2>3
  <2>4. ASSUME NEW code \in recoveryCodes, VerifyLoginRecoveryCode(r, c, code, s)
        PROVE  Fresh("code", code.generation, code.number)
    BY <2>2, <2>4
  <2> HIDE DEF Fresh
  <2>5. QED
    BY <1>1, <2>3, <2>4
<1>4. PICK x, y, z : Fresh(x, y, z)
    BY <1>3
<1>5. /\ <<"challenge", c.id>> \in Spent({"challenge"})'
      /\ <<x, y, z>> \in Spent({"step", "code"})'
    BY <1>4 DEF Spent
<1>6. QED
    BY <1>2, <1>4, <1>5 DEF Spent

\* A login challenge opens one session at most (ConsumeLoginChallenge).
THEOREM ChallengesOpenOnce == IdentitySpec => ChallengeOnce
<1>1. Inv /\ [IdentityNext]_identityVars =>
          [SecondFactorAccepted => Spent({"challenge"})' # Spent({"challenge"})]_identityVars
    BY AcceptedIsNew
<1>2. QED
    BY <1>1, IdentityInvariance, PTL DEF IdentitySpec, ChallengeOnce

\* Only the confirmation and the removal of a factor switch it.
LEMMA SwitchedBy ==
    ASSUME Inv, [IdentityNext]_identityVars, FactorSwitched
    PROVE  \E r \in Requests, k \in CodeSteps : ConfirmTOTP(r, k) \/ DisableTOTP(r, k)
<1>0. TypeInv /\ RequestsOK /\ FactorInv
    BY DEF Inv, TypeInv
<1>1. PICK u \in Users :
          \/ ~credentials[u].enabled /\ credentials'[u].enabled
          \/ credentials[u].enabled /\ credentials'[u] = NoCredential /\ Registered(u)'
    BY DEF FactorSwitched, TOTPEnabled
<1>2. CASE UNCHANGED credentials
    BY <1>1, <1>2 DEF NoCredential
<1>3. ASSUME \/ \E c \in challenges : ChallengeExpires(c)
             \/ \E r \in Requests : \/ CreateLoginChallenge(r)
                                    \/ \E c \in challenges : SecondFactorWrong(r, c)
             \/ \E r \in Requests, c \in challenges, code \in recoveryCodes, s \in SessionIds :
                   VerifyLoginRecoveryCode(r, c, code, s)
      PROVE  UNCHANGED credentials
    BY <1>3 DEF ChallengeExpires, CreateLoginChallenge, SecondFactorWrong,
       VerifyLoginRecoveryCode
<1>4. ASSUME NEW r \in Requests, NEW c \in challenges, NEW k \in CodeSteps,
             NEW s \in SessionIds, VerifyLoginTOTP(r, c, k, s)
      PROVE  FALSE
  <2>1. \A v \in Users : credentials'[v].enabled = credentials[v].enabled
    BY <1>0, <1>4 DEF VerifyLoginTOTP, LastUsedStep, FactorInv, FactorTypes
  <2>2. QED
    BY <1>1, <2>1 DEF NoCredential
<1>5. ASSUME NEW r \in Requests, UpsertPendingTOTP(r) PROVE FALSE
  <2> DEFINE new == PendingCredential(drawn')
  <2>1. credentials' = [credentials EXCEPT ![requests[r].user] = new] /\ drawn' # 0
    BY <1>0, <1>5 DEF UpsertPendingTOTP, FactorInv, FactorTypes
  <2>2. new.secret = drawn' /\ new.enabled = FALSE
    BY DEF PendingCredential, NoCredential
  <2> HIDE DEF new
  <2>3. credentials'[u] = credentials[u] \/ credentials'[u] = new
    BY <1>0, <2>1 DEF FactorInv, FactorTypes
  <2>4. QED
    BY <1>1, <2>1, <2>2, <2>3 DEF NoCredential
<1>6. ASSUME NEW r \in Requests, DeleteAccount(r) PROVE FALSE
  <2>1. PICK v \in Users : v = requests[r].user
    BY <1>0, <1>6 DEF DeleteAccount, Is, RequestsOK, WithUser
  <2>2. /\ credentials' = [credentials EXCEPT ![v] = NoCredential]
        /\ users' = [users EXCEPT ![v].status = "deleted"]
    BY <1>6, <2>1 DEF DeleteAccount, CredentialDeleted, UserDeleted
  <2>3. ~Registered(v)'
    BY <1>0, <2>2 DEF Registered, TypeInv, IdentityTypeOK
  <2>4. ~NoCredential.enabled
    BY DEF NoCredential
  <2>5. credentials'[v] = NoCredential /\ (u # v => credentials'[u] = credentials[u])
    BY <1>0, <2>2 DEF FactorInv, FactorTypes
  <2>6. QED
    BY <1>1, <2>3, <2>4, <2>5
<1>7. QED
    BY <1>2, <1>3, <1>4, <1>5, <1>6, FactorFrame

\* The code that switches a factor was not accepted before.
LEMMA SwitchIsNew ==
    ASSUME Inv, [IdentityNext]_identityVars, FactorSwitched
    PROVE  Spent({"step", "code"})' # Spent({"step", "code"})
<1>0. RequestsOK /\ FactorInv
    BY DEF Inv, TypeInv
<1>1. PICK r \in Requests, k \in CodeSteps : ConfirmTOTP(r, k) \/ DisableTOTP(r, k)
    BY SwitchedBy
<1> DEFINE u == requests[r].user
           p == <<"step", credentials[u].secret, k>>
<1>2. u \in Users
    BY <1>0, <1>1 DEF ConfirmTOTP, DisableTOTP, Is, RequestsOK, WithUser
<1>3. opened' = opened \cup {p}
    BY <1>1 DEF ConfirmTOTP, DisableTOTP
<1>4. p \notin opened
  <2>1. CASE ConfirmTOTP(r, k)
    BY <1>0, <1>2, <2>1 DEF ConfirmTOTP, FactorInv, StepsSpent
  <2>2. CASE DisableTOTP(r, k)
    <3>1. credentials[u].lastUsed \in Int /\ k \in Int
      BY <1>0, <1>2, IdentityConstants DEF FactorInv, FactorTypes, IdentityConstants
    <3>2. k > credentials[u].lastUsed
      BY <2>2 DEF DisableTOTP, ValidateTOTP
    <3>3. QED
      BY <1>0, <1>2, <3>1, <3>2 DEF FactorInv, StepsSpent
  <2>3. QED
    BY <1>1, <2>1, <2>2
<1>5. p[1] = "step"
    OBVIOUS
<1> HIDE DEF p
<1>6. p \in Spent({"step", "code"})' /\ p \notin Spent({"step", "code"})
    BY <1>3, <1>4, <1>5 DEF Spent
<1>7. QED
    BY <1>6

\* The code of a time step, or a recovery code, is accepted once, by a login,
\* the confirmation or the removal (UpdateTOTPLastUsedStep, UseRecoveryCode).
THEOREM CodesOpenOnce == IdentitySpec => CodeOnce
<1>1. Inv /\ [IdentityNext]_identityVars =>
          [SecondFactorAccepted \/ FactorSwitched =>
              Spent({"step", "code"})' # Spent({"step", "code"})]_identityVars
    BY AcceptedIsNew, SwitchIsNew
<1>2. QED
    BY <1>1, IdentityInvariance, PTL DEF IdentitySpec, CodeOnce

\* Only a login that read the user before the factor was confirmed does without
\* it (Login).
THEOREM StaleLoginsOnly == IdentitySpec => OnlyStaleLoginSkipsFactor
<1> DEFINE A == \A r \in Requests :
          Is(r, "session") /\ requests'[r].at = "succeeded" =>
              \/ ~TOTPEnabled(requests[r].user)
              \/ requests[r].seen # confirmed[requests[r].user]
<1>1. Inv => A
    BY DEF Inv, StaleOnly, Is
<1>2. QED
    BY <1>1, IdentityInvariance, PTL DEF IdentitySpec, OnlyStaleLoginSkipsFactor

\* Only a set-up that looked before the factor was confirmed takes it away
\* unasked (SetupTOTP).
THEOREM FactorsStay == IdentitySpec => FactorRemoved
<1> DEFINE A == \A u \in Users : TOTPEnabled(u) /\ ~TOTPEnabled(u)' =>
          \/ credentials'[u] = NoCredential
          \/ \E r \in Requests :
                /\ Is(r, "setup")
                /\ requests[r].user = u
                /\ requests[r].seen # confirmed[u]
<1>1. ASSUME Inv, [IdentityNext]_identityVars PROVE A
  <2>0. RequestsOK /\ FactorInv /\ StaleOnly
    BY <1>1 DEF Inv, TypeInv
  <2>1. CASE UNCHANGED credentials
    BY <2>1 DEF TOTPEnabled
  <2>2. ASSUME NEW r \in Requests, DeleteAccount(r) \/ \E k \in CodeSteps : DisableTOTP(r, k)
        PROVE  A
    <3>1. \A u \in Users : credentials'[u] = credentials[u] \/ credentials'[u] = NoCredential
      BY <2>0, <2>2
         DEF DeleteAccount, DisableTOTP, CredentialDeleted, FactorInv, FactorTypes
    <3>2. QED
      BY <3>1 DEF TOTPEnabled
  <2>3. ASSUME NEW r \in Requests, UpsertPendingTOTP(r) PROVE A
    <3>1. \A u \in Users : u # requests[r].user => credentials'[u] = credentials[u]
      BY <2>0, <2>3 DEF UpsertPendingTOTP, FactorInv, FactorTypes
    <3>2. Is(r, "setup")
      BY <2>3 DEF UpsertPendingTOTP
    <3>3. QED
      BY <2>0, <3>1, <3>2 DEF StaleOnly, TOTPEnabled, Is
  <2>4. ASSUME NEW r \in Requests, NEW k \in CodeSteps, ConfirmTOTP(r, k) PROVE A
    <3>1. /\ ~credentials[requests[r].user].enabled
          /\ \A u \in Users : u # requests[r].user => credentials'[u] = credentials[u]
      BY <2>0, <2>4 DEF ConfirmTOTP, FactorInv, FactorTypes
    <3>2. QED
      BY <3>1 DEF TOTPEnabled
  <2>5. ASSUME NEW r \in Requests, NEW c \in challenges, NEW k \in CodeSteps,
               NEW s \in SessionIds, VerifyLoginTOTP(r, c, k, s)
        PROVE  A
    <3>1. c.user \in Users
      BY <2>0 DEF FactorInv, FactorTypes
    <3>2. LastUsedStep(credentials[c.user], k).enabled = credentials[c.user].enabled
      BY <2>0, <3>1 DEF LastUsedStep, FactorInv, FactorTypes
    <3>3. credentials' = [credentials EXCEPT ![c.user] = LastUsedStep(credentials[c.user], k)]
      BY <2>0, <2>5, <3>1 DEF VerifyLoginTOTP, FactorInv, FactorTypes
    <3>4. \A u \in Users : credentials'[u].enabled = credentials[u].enabled
      BY <2>0, <3>1, <3>2, <3>3 DEF FactorInv, FactorTypes
    <3>5. QED
      BY <3>4 DEF TOTPEnabled
  <2>6. ASSUME \/ \E c \in challenges : ChallengeExpires(c)
               \/ \E r \in Requests : \/ CreateLoginChallenge(r)
                                      \/ \E c \in challenges : SecondFactorWrong(r, c)
               \/ \E r \in Requests, c \in challenges, code \in recoveryCodes, s \in SessionIds :
                     VerifyLoginRecoveryCode(r, c, code, s)
        PROVE  UNCHANGED credentials
    BY <2>6 DEF ChallengeExpires, CreateLoginChallenge, SecondFactorWrong,
       VerifyLoginRecoveryCode
  <2>7. QED
    BY <1>1, <2>1, <2>2, <2>3, <2>4, <2>5, <2>6, FactorFrame
<1>2. QED
    BY <1>1, IdentityInvariance, PTL DEF IdentitySpec, FactorRemoved

=============================================================================
