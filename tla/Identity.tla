------------------------------ MODULE Identity ------------------------------
(***************************************************************************)
(* Users, sessions, the second factor and the login limiter                *)
(* (internal/httpapi/auth.go, auth_helpers.go, register.go, sessions.go,   *)
(* profile.go, second_factor_login.go, totp_management.go, rate_limit.go,  *)
(* internal/auth/totp.go and the statements of identity.sql).              *)
(*                                                                         *)
(* Requests are served concurrently and a handler is not one transaction:  *)
(* the limiter is asked first and told the outcome last, Login and         *)
(* SetupTOTP run several statements without a transaction, and every       *)
(* authenticated handler looks its session up before its transaction       *)
(* starts.  A request is therefore a small process; its steps are the      *)
(* limiter calls, the single statements, and the SERIALIZABLE              *)
(* transactions.  Other requests run between any two of them.              *)
(*                                                                         *)
(* One address of a client stands for all: the limiter keeps them apart.   *)
(* Tokens, hashes, names and audit events are left out.  A session or a    *)
(* challenge may expire at any time; TOTP steps and the limiter's windows  *)
(* follow the clock.  A row that is revoked, consumed or expired is never  *)
(* found again, so it is left out at once; the worker's clean-up deletes   *)
(* only such rows and changes nothing here.                                *)
(***************************************************************************)
EXTENDS Integers, FiniteSets

CONSTANTS
    Users,             \* ids of users rows; a deleted user's id is not reused
    Emails,            \* normalized addresses
    Requests,          \* places of requests served at the same time
    SessionIds,        \* places of sessions that are live at the same time
    CodeNumbers,       \* recovery codes created together (ten in the code)
    MaxAttempts,       \* wrong codes a login challenge takes (five)
    Maximum,           \* failures a limiter takes in a window
    Limited,           \* the limiters that count (bound)
    Window,            \* length of a limiter's window, in TOTP steps
    FirstStep,         \* TOTP step at which the model starts
    LastStep,          \* bound on the clock
    CodeSteps,         \* steps whose codes a user enters (bound)
    MaxDrawn,          \* bound on the secrets and login challenges ever drawn
    MaxVersions        \* bound on the passwords of a user

Limiters == {"login", "registration"}

ASSUME IdentityConstants ==
    /\ Emails # {}
    /\ CodeNumbers # {}
    /\ {MaxAttempts, Maximum, Window, FirstStep} \subseteq Nat \ {0}
    /\ Limited \subseteq Limiters
    /\ CodeSteps \subseteq Nat
    /\ {MaxDrawn, MaxVersions} \subseteq Nat
    /\ LastStep \in Nat
    /\ FirstStep <= LastStep
    /\ IsFiniteSet(Requests)
    /\ IsFiniteSet(SessionIds)
    /\ "NONE" \notin Users \cup SessionIds

VARIABLES
    users,          \* users: [status, email, password]
    sessions,       \* sessions that are neither revoked nor expired
    challenges,     \* login_challenges neither consumed nor expired
    credentials,    \* totp_credentials, by user
    recoveryCodes,  \* recovery_codes
    limiter,        \* loginLimiter.entries of the two limiters of a Server
    requests,       \* what each request in progress does next
    step,           \* the clock: time.Now() in TOTP steps
    drawn,          \* number of secrets drawn so far
    issued,         \* number of challenges created so far
    confirmed,      \* the secret each user confirmed last (history)
    opened          \* the challenges and codes that were accepted (history)

tables == <<users, sessions, challenges, credentials, recoveryCodes>>

history == <<drawn, issued, confirmed, opened>>

identityVars == <<tables, history, limiter, requests, step>>

(***************************************************************************)
(* The limiter: a window of failures starts with the first one and is over *)
(* at resetAt.                                                             *)
(***************************************************************************)
NoEntry == [failures |-> 0, resetAt |-> 0]

WindowOver(l, now) == limiter[l] = NoEntry \/ now >= limiter[l].resetAt

\* Mutant: one failure more is let through.
AllowedOnceMore(l, now) ==
    WindowOver(l, now) \/ limiter[l].failures <= Maximum

Allowed(l, now) == WindowOver(l, now) \/ limiter[l].failures < Maximum

AfterAllowed(l, now) ==
    IF WindowOver(l, now) THEN [limiter EXCEPT ![l] = NoEntry] ELSE limiter

AfterFailed(l, now) ==
    IF l \notin Limited THEN limiter
    ELSE [limiter EXCEPT ![l] =
            IF WindowOver(l, now) THEN [failures |-> 1, resetAt |-> now + Window]
            ELSE [limiter[l] EXCEPT !.failures = @ + 1]]

AfterSucceeded(l) == [limiter EXCEPT ![l] = NoEntry]

(***************************************************************************)
(* Statements of identity.sql.                                             *)
(***************************************************************************)
NoUser == [status |-> "none", email |-> "NONE", password |-> 0]

CreateUser(e) == [status |-> "registered", email |-> e, password |-> 1]

Registered(u) == users[u].status = "registered"

EmailTaken(e) == \E u \in Users : Registered(u) /\ users[u].email = e

\* UpdateUserPassword and UpdateUserProfile; a password is a version.
PasswordUpdated(u) == [users EXCEPT ![u].password = @ + 1]

ProfileUpdated(u, e) == [users EXCEPT ![u].email = e]

UserDeleted(u) == [users EXCEPT ![u].status = "deleted"]

NoSession == [user |-> "NONE", password |-> 0]

\* GetUserBySession: neither revoked nor expired, of a user that exists.
SessionUsable(s) == sessions[s] # NoSession

\* An id is used again when no request remembers the session that had it.
SessionIdFree(s) ==
    /\ sessions[s] = NoSession
    /\ \A r \in Requests : requests[r].session # s

\* Mutant: a row of a user that is gone.
SessionFits(u) == TRUE

\* The foreign key to users.
SessionAccepted(u) == Registered(u)

\* CreateSession.  The password is the one that was verified for the session,
\* which no column keeps.
CreateSession(s, u, password) ==
    /\ SessionAccepted(u)
    /\ SessionIdFree(s)
    /\ sessions' = [sessions EXCEPT ![s] = [user |-> u, password |-> password]]

\* RevokeSession and RevokeUserSession.
SessionRevoked(s) == [sessions EXCEPT ![s] = NoSession]

\* Mutant: the comparison is the wrong way round.
OnlyCurrentRevoked(u, current) ==
    [s \in SessionIds |->
        IF sessions[s].user = u /\ s = current THEN NoSession ELSE sessions[s]]

\* RevokeOtherUserSessions.
OtherSessionsRevoked(u, current) ==
    [s \in SessionIds |->
        IF sessions[s].user = u /\ s # current THEN NoSession ELSE sessions[s]]

\* The session that changes its user's password knows the new one.
Renewed(rows, u, current, password) ==
    [s \in SessionIds |->
        IF rows[s].user = u /\ s = current
        THEN [rows[s] EXCEPT !.password = password] ELSE rows[s]]

NoCredential == [secret |-> 0, enabled |-> FALSE, lastUsed |-> -1]

\* UpsertPendingTOTP.
PendingCredential(secret) == [NoCredential EXCEPT !.secret = secret]

\* EnableTOTP.
EnabledCredential(credential) == [credential EXCEPT !.enabled = TRUE]

\* DisableTOTP deletes the row.
CredentialDeleted(u) == [credentials EXCEPT ![u] = NoCredential]

\* GetTOTPForUser, and the join of GetUserForLogin.
TOTPEnabled(u) == credentials[u].enabled

\* Mutant: an accepted step is forgotten.
LastUsedKept(credential, accepted) == credential

\* UpdateTOTPLastUsedStep.
LastUsedStep(credential, accepted) ==
    IF credential.lastUsed < accepted
    THEN [credential EXCEPT !.lastUsed = accepted] ELSE credential

CodeRow(u, secret, number) ==
    [user |-> u, generation |-> secret, number |-> number, used |-> FALSE]

CodesOf(u) == {code \in recoveryCodes : code.user = u}

\* DeleteRecoveryCodes.
CodesDeleted(u) == recoveryCodes \ CodesOf(u)

\* Mutant: the codes of an earlier confirmation stay.
CodesAdded(u, secret) ==
    recoveryCodes \cup {CodeRow(u, secret, n) : n \in CodeNumbers}

\* DeleteRecoveryCodes and ten times CreateRecoveryCode.
CodesReplaced(u, secret) ==
    CodesDeleted(u) \cup {CodeRow(u, secret, n) : n \in CodeNumbers}

\* GetRecoveryCodeForUpdate.
UnusedCode(u, code) == code \in CodesOf(u) /\ ~code.used

\* UseRecoveryCode.
CodeUsed(code) == (recoveryCodes \ {code}) \cup {[code EXCEPT !.used = TRUE]}

\* A row of login_challenges, with the password its login verified.
ChallengeRow(u, id, password) ==
    [id |-> id, user |-> u, attempts |-> 0, password |-> password]

\* Mutant: the attempts are not looked at.
UnlimitedChallenge(c) == TOTPEnabled(c.user)

\* GetLoginChallengeForUpdate.
UsableChallenge(c) == c.attempts < MaxAttempts /\ TOTPEnabled(c.user)

\* IncrementLoginChallengeAttempts.
AttemptCounted(c) ==
    (challenges \ {c}) \cup {[c EXCEPT !.attempts = @ + 1]}

\* Mutant: the challenge stays open.
ChallengeKept(c) == challenges

\* ConsumeLoginChallenge.
ChallengeConsumed(c) == challenges \ {c}

\* ValidateTOTP accepts the code of a step next to the current one that is
\* later than the last one used.
ValidateTOTP(codeStep, lastUsed) ==
    codeStep \in {step - 1, step, step + 1} /\ codeStep > lastUsed

(***************************************************************************)
(* Requests.  A request that is refused, fails or is given up goes back to *)
(* Idle; its transaction, if any, is rolled back.                          *)
(***************************************************************************)
NoRequest ==
    [at |-> "idle", user |-> "NONE", session |-> "NONE", password |-> 0,
     seen |-> 0, now |-> 0]

Is(r, point) == requests[r].at = point

Becomes(r, request) == requests' = [requests EXCEPT ![r] = request]

Goes(r, point) == Becomes(r, [requests[r] EXCEPT !.at = point])

Ends(r) == Becomes(r, NoRequest)

\* allowed, before anything else is done.
Arrives(r, l, point, now) ==
    /\ Is(r, "idle")
    /\ Allowed(l, step)
    /\ limiter' = AfterAllowed(l, step)
    /\ Becomes(r, [NoRequest EXCEPT !.at = point, !.now = now])
    /\ UNCHANGED <<tables, history, step>>

\* failed or succeeded, after everything else is done.
Reports(r, after) ==
    /\ limiter' = after
    /\ Ends(r)
    /\ UNCHANGED <<tables, history, step>>

-----------------------------------------------------------------------------
(***************************************************************************)
(* Registration.                                                           *)
(***************************************************************************)
RegisterArrives(r) == Arrives(r, "registration", "register", 0)

\* The transaction of Register, and its violation of a unique index.
Register(r, u, e, s) ==
    /\ Is(r, "register")
    /\ users[u].status = "none"
    /\ ~EmailTaken(e)
    /\ SessionIdFree(s)
    /\ users' = [users EXCEPT ![u] = CreateUser(e)]
    /\ sessions' = [sessions EXCEPT ![s] = [user |-> u, password |-> 1]]
    /\ Goes(r, "registered")
    /\ UNCHANGED <<challenges, credentials, recoveryCodes, history, limiter, step>>

RegisterTaken(r, e) ==
    /\ Is(r, "register")
    /\ EmailTaken(e)
    /\ Goes(r, "taken")
    /\ UNCHANGED <<tables, history, limiter, step>>

RegistrationFailed(r) ==
    /\ Is(r, "taken")
    /\ Reports(r, AfterFailed("registration", step))

RegistrationSucceeded(r) ==
    /\ Is(r, "registered")
    /\ Reports(r, AfterSucceeded("registration"))

(***************************************************************************)
(* Login: the time and the limiter first, then one statement that reads    *)
(* the user and the factor, one that writes, and the limiter again.  There *)
(* is no transaction.                                                      *)
(***************************************************************************)
LoginArrives(r) == Arrives(r, "login", "login", step)

\* Mutant: the factor is not looked at.
LoginWithoutFactor(r, u) ==
    /\ Is(r, "login")
    /\ Registered(u)
    /\ Becomes(r, [requests[r] EXCEPT !.at = "session", !.user = u,
                                      !.password = users[u].password,
                                      !.seen = confirmed[u], !.now = 0])
    /\ UNCHANGED <<tables, history, limiter, step>>

\* GetUserForLogin and VerifyPassword, for a user with this address.
LoginPasswordRight(r, u) ==
    /\ Is(r, "login")
    /\ Registered(u)
    /\ Becomes(r, [requests[r] EXCEPT
                      !.at       = IF TOTPEnabled(u) THEN "challenge" ELSE "session",
                      !.user     = u,
                      !.password = users[u].password,
                      !.seen     = confirmed[u],
                      !.now      = 0])
    /\ UNCHANGED <<tables, history, limiter, step>>

\* No such user, or another password: failed with the time of arrival.
LoginPasswordWrong(r) ==
    /\ Is(r, "login")
    /\ Goes(r, "rejected")
    /\ UNCHANGED <<tables, history, limiter, step>>

LoginFailed(r) ==
    /\ Is(r, "rejected")
    /\ Reports(r, AfterFailed("login", requests[r].now))

\* CreateLoginChallenge.
CreateLoginChallenge(r) ==
    /\ Is(r, "challenge")
    /\ Registered(requests[r].user)
    /\ issued + drawn < MaxDrawn
    /\ issued' = issued + 1
    /\ challenges' = challenges \cup
          {ChallengeRow(requests[r].user, issued', requests[r].password)}
    /\ Becomes(r, [NoRequest EXCEPT !.at = "succeeded"])
    /\ UNCHANGED <<users, sessions, credentials, recoveryCodes, drawn, confirmed,
                    opened, limiter, step>>

\* createSession in Login.
CreateLoginSession(r, s) ==
    /\ Is(r, "session")
    /\ CreateSession(s, requests[r].user, requests[r].password)
    /\ Becomes(r, [NoRequest EXCEPT !.at = "succeeded"])
    /\ UNCHANGED <<users, challenges, credentials, recoveryCodes, history,
                    limiter, step>>

LoginSucceeded(r) ==
    /\ Is(r, "succeeded")
    /\ Reports(r, AfterSucceeded("login"))

(***************************************************************************)
(* The second factor: both handlers ask the limiter, run one transaction,  *)
(* and tell the limiter.                                                   *)
(***************************************************************************)
SecondFactorArrives(r) == Arrives(r, "login", "factor", 0)

\* An unknown, used up or expired challenge token.
ChallengeNotFound(r) ==
    /\ Is(r, "factor")
    /\ Goes(r, "failed")
    /\ UNCHANGED <<tables, history, limiter, step>>

\* A wrong code counts on the challenge, in either handler.
SecondFactorWrong(r, c) ==
    /\ Is(r, "factor")
    /\ UsableChallenge(c)
    /\ challenges' = AttemptCounted(c)
    /\ Goes(r, "failed")
    /\ UNCHANGED <<users, sessions, credentials, recoveryCodes, history,
                    limiter, step>>

VerifyLoginTOTP(r, c, codeStep, s) ==
    LET u == c.user
    IN  /\ Is(r, "factor")
        /\ UsableChallenge(c)
        /\ ValidateTOTP(codeStep, credentials[u].lastUsed)
        /\ credentials' = [credentials EXCEPT ![u] = LastUsedStep(@, codeStep)]
        /\ challenges' = ChallengeConsumed(c)
        /\ CreateSession(s, u, c.password)
        /\ opened' = opened \cup {<<"challenge", c.id>>,
                                  <<"step", credentials[u].secret, codeStep>>}
        /\ Goes(r, "succeeded")
        /\ UNCHANGED <<users, recoveryCodes, drawn, issued, confirmed, limiter,
                        step>>

VerifyLoginRecoveryCode(r, c, code, s) ==
    LET u == c.user
    IN  /\ Is(r, "factor")
        /\ UsableChallenge(c)
        /\ UnusedCode(u, code)
        /\ recoveryCodes' = CodeUsed(code)
        /\ challenges' = ChallengeConsumed(c)
        /\ CreateSession(s, u, c.password)
        /\ opened' = opened \cup {<<"challenge", c.id>>,
                                  <<"code", code.generation, code.number>>}
        /\ Goes(r, "succeeded")
        /\ UNCHANGED <<users, credentials, drawn, issued, confirmed, limiter,
                        step>>

SecondFactorFailed(r) ==
    /\ Is(r, "failed")
    /\ Reports(r, AfterFailed("login", step))

(***************************************************************************)
(* Authenticated requests.  requireAuthenticatedSession reads the session  *)
(* and its user in a statement of its own, before the handler's            *)
(* transaction; GetCurrentUser and ListSessions do nothing else.           *)
(***************************************************************************)
Authenticate(r, s) ==
    /\ Is(r, "idle")
    /\ SessionUsable(s)
    /\ Becomes(r, [NoRequest EXCEPT !.at = "authenticated",
                                    !.user = sessions[s].user,
                                    !.session = s])
    /\ UNCHANGED <<tables, history, limiter, step>>

\* Any refusal or failure that reports nothing to a limiter.
Refused(r) ==
    /\ requests[r].at \in {"login", "register", "factor", "challenge", "session",
                           "authenticated", "setup"}
    /\ Ends(r)
    /\ UNCHANGED <<tables, history, limiter, step>>

\* Logout revokes the session of the cookie, whether it is usable or not.
Logout(s) ==
    /\ SessionUsable(s)
    /\ sessions' = SessionRevoked(s)
    /\ UNCHANGED <<users, challenges, credentials, recoveryCodes, history,
                    limiter, requests, step>>

\* RevokeSession of sessions.go, for one of the user's own sessions.
RevokeUserSession(r, s) ==
    /\ Is(r, "authenticated")
    /\ sessions[s].user = requests[r].user
    /\ SessionUsable(s)
    /\ sessions' = SessionRevoked(s)
    /\ Ends(r)
    /\ UNCHANGED <<users, challenges, credentials, recoveryCodes, history,
                    limiter, step>>

\* Mutant: the credential is not looked at.
SkipTOTPCheck(r) ==
    /\ Is(r, "authenticated")
    /\ Becomes(r, [NoRequest EXCEPT !.at = "setup", !.user = requests[r].user,
                                    !.seen = confirmed[requests[r].user]])
    /\ UNCHANGED <<tables, history, limiter, step>>

\* SetupTOTP reads the credential in one statement and refuses when it is
\* enabled; in another it stores the new secret, whatever is there by then.
CheckTOTPForSetup(r) ==
    /\ Is(r, "authenticated")
    /\ ~TOTPEnabled(requests[r].user)
    /\ Becomes(r, [NoRequest EXCEPT !.at = "setup", !.user = requests[r].user,
                                    !.seen = confirmed[requests[r].user]])
    /\ UNCHANGED <<tables, history, limiter, step>>

UpsertPendingTOTP(r) ==
    LET u == requests[r].user
    IN  /\ Is(r, "setup")
        /\ Registered(u)
        /\ issued + drawn < MaxDrawn
        /\ drawn' = drawn + 1
        /\ credentials' = [credentials EXCEPT ![u] = PendingCredential(drawn')]
        /\ Ends(r)
        /\ UNCHANGED <<users, sessions, challenges, recoveryCodes, issued,
                        confirmed, opened, limiter, step>>

ConfirmTOTP(r, codeStep) ==
    LET u == requests[r].user
        c == credentials[u]
    IN  /\ Is(r, "authenticated")
        /\ c # NoCredential
        /\ ~c.enabled
        /\ ValidateTOTP(codeStep, -1)
        /\ recoveryCodes' = CodesReplaced(u, c.secret)
        /\ credentials' = [credentials EXCEPT ![u] =
                              LastUsedStep(EnabledCredential(@), codeStep)]
        /\ confirmed' = [confirmed EXCEPT ![u] = c.secret]
        /\ opened' = opened \cup {<<"step", c.secret, codeStep>>}
        /\ Ends(r)
        /\ UNCHANGED <<users, sessions, challenges, drawn, issued, limiter, step>>

\* The password and a code are verified in the transaction.
DisableTOTP(r, codeStep) ==
    LET u == requests[r].user
    IN  /\ Is(r, "authenticated")
        /\ Registered(u)
        /\ TOTPEnabled(u)
        /\ ValidateTOTP(codeStep, credentials[u].lastUsed)
        /\ credentials' = CredentialDeleted(u)
        /\ recoveryCodes' = CodesDeleted(u)
        /\ opened' = opened \cup {<<"step", credentials[u].secret, codeStep>>}
        /\ Ends(r)
        /\ UNCHANGED <<users, sessions, challenges, drawn, issued, confirmed,
                        limiter, step>>

\* The current password is verified in the transaction.
ChangePassword(r) ==
    LET u == requests[r].user
        current == requests[r].session
    IN  /\ Is(r, "authenticated")
        /\ Registered(u)
        /\ users[u].password < MaxVersions
        /\ users' = PasswordUpdated(u)
        /\ sessions' = Renewed(OtherSessionsRevoked(u, current), u, current,
                                users'[u].password)
        /\ Ends(r)
        /\ UNCHANGED <<challenges, credentials, recoveryCodes, history, limiter,
                        step>>

\* Another address than the stored one needs the right password, which the
\* client supplies; without it the request is refused, or ends in a nil
\* dereference when the address read with the session was another.
UpdateProfile(r, e) ==
    LET u == requests[r].user
    IN  /\ Is(r, "authenticated")
        /\ Registered(u)
        /\ e # users[u].email => ~EmailTaken(e)
        /\ users' = ProfileUpdated(u, e)
        /\ Ends(r)
        /\ UNCHANGED <<sessions, challenges, credentials, recoveryCodes, history,
                        limiter, step>>

\* DeleteUser cascades to every table.
DeleteAccount(r) ==
    LET u == requests[r].user
    IN  /\ Is(r, "authenticated")
        /\ Registered(u)
        /\ users' = UserDeleted(u)
        /\ sessions' = OtherSessionsRevoked(u, "NONE")
        /\ challenges' = {c \in challenges : c.user # u}
        /\ credentials' = CredentialDeleted(u)
        /\ recoveryCodes' = CodesDeleted(u)
        /\ Ends(r)
        /\ UNCHANGED <<history, limiter, step>>

(***************************************************************************)
(* The clock and expiry.                                                   *)
(***************************************************************************)
Tick ==
    /\ step < LastStep
    /\ step' = step + 1
    /\ UNCHANGED <<tables, history, limiter, requests>>

SessionExpires(s) ==
    /\ SessionUsable(s)
    /\ sessions' = [sessions EXCEPT ![s] = NoSession]
    /\ UNCHANGED <<users, challenges, credentials, recoveryCodes, history,
                    limiter, requests, step>>

ChallengeExpires(c) ==
    /\ challenges' = challenges \ {c}
    /\ UNCHANGED <<users, sessions, credentials, recoveryCodes, history,
                    limiter, requests, step>>

IdentityInit ==
    /\ users = [u \in Users |-> NoUser]
    /\ sessions = [s \in SessionIds |-> NoSession]
    /\ challenges = {}
    /\ credentials = [u \in Users |-> NoCredential]
    /\ recoveryCodes = {}
    /\ limiter = [l \in Limiters |-> NoEntry]
    /\ requests = [r \in Requests |-> NoRequest]
    /\ step = FirstStep
    /\ drawn = 0
    /\ issued = 0
    /\ confirmed = [u \in Users |-> 0]
    /\ opened = {}

LoginNext(r) ==
    \/ RegisterArrives(r)
    \/ \E u \in Users, e \in Emails, s \in SessionIds : Register(r, u, e, s)
    \/ \E e \in Emails : RegisterTaken(r, e)
    \/ RegistrationFailed(r)
    \/ RegistrationSucceeded(r)
    \/ LoginArrives(r)
    \/ \E u \in Users : LoginPasswordRight(r, u)
    \/ LoginPasswordWrong(r)
    \/ LoginFailed(r)
    \/ CreateLoginChallenge(r)
    \/ \E s \in SessionIds : CreateLoginSession(r, s)
    \/ LoginSucceeded(r)
    \/ SecondFactorArrives(r)
    \/ ChallengeNotFound(r)
    \/ \E c \in challenges : SecondFactorWrong(r, c)
    \/ \E c \in challenges, codeStep \in CodeSteps, s \in SessionIds :
          VerifyLoginTOTP(r, c, codeStep, s)
    \/ \E c \in challenges, code \in recoveryCodes, s \in SessionIds :
          VerifyLoginRecoveryCode(r, c, code, s)
    \/ SecondFactorFailed(r)

AuthenticatedNext(r) ==
    \/ \E s \in SessionIds : Authenticate(r, s) \/ RevokeUserSession(r, s)
    \/ Refused(r)
    \/ CheckTOTPForSetup(r)
    \/ UpsertPendingTOTP(r)
    \/ \E codeStep \in CodeSteps : ConfirmTOTP(r, codeStep) \/ DisableTOTP(r, codeStep)
    \/ ChangePassword(r)
    \/ \E e \in Emails : UpdateProfile(r, e)
    \/ DeleteAccount(r)

IdentityNext ==
    \/ \E r \in Requests : LoginNext(r) \/ AuthenticatedNext(r)
    \/ \E s \in SessionIds : Logout(s) \/ SessionExpires(s)
    \/ \E c \in challenges : ChallengeExpires(c)
    \/ Tick

IdentitySpec == IdentityInit /\ [][IdentityNext]_identityVars

-----------------------------------------------------------------------------
(***************************************************************************)
(* Properties.                                                             *)
(***************************************************************************)
Points ==
    {"idle", "register", "taken", "registered", "login", "rejected", "session",
     "challenge", "succeeded", "factor", "failed", "authenticated", "setup"}

\* The rows, the limiter and the requests in progress keep their types; no
\* challenge takes more than MaxAttempts wrong codes.
IdentityTypeOK ==
    /\ users \in [Users -> [status : {"none", "registered", "deleted"},
                            email : Emails \cup {"NONE"}, password : Nat]]
    /\ sessions \in [SessionIds -> {NoSession} \cup [user : Users, password : Nat]]
    /\ challenges \subseteq
          [id : 1 .. issued, user : Users, attempts : 0 .. MaxAttempts,
           password : Nat]
    /\ credentials \in [Users -> [secret : 0 .. drawn, enabled : BOOLEAN,
                                  lastUsed : Int]]
    /\ recoveryCodes \subseteq
          [user : Users, generation : 1 .. drawn, number : CodeNumbers,
           used : BOOLEAN]
    /\ limiter \in [Limiters -> [failures : Nat, resetAt : Nat]]
    /\ \A r \in Requests :
          /\ requests[r].at \in Points
          /\ requests[r].user \in Users \cup {"NONE"}
          /\ requests[r].session \in SessionIds \cup {"NONE"}
    /\ step \in FirstStep .. LastStep

\* Requests whose second factor has just been accepted.
SecondFactorAccepted ==
    \E r \in Requests : Is(r, "factor") /\ requests'[r].at = "succeeded"

Spent(kinds) == {proof \in opened : proof[1] \in kinds}

\* A login challenge opens one session at most, by either factor, although two
\* requests may present its token at the same time (VerifyLoginTOTP and
\* VerifyLoginRecoveryCode).
ChallengeOnce ==
    [][SecondFactorAccepted => Spent({"challenge"})' # Spent({"challenge"})
      ]_identityVars

\* A factor is confirmed, or removed although its user stays.
FactorSwitched ==
    \E u \in Users :
        \/ ~TOTPEnabled(u) /\ TOTPEnabled(u)'
        \/ TOTPEnabled(u) /\ credentials'[u] = NoCredential /\ Registered(u)'

\* The code of one time step of one secret, or one recovery code, is accepted
\* once: it opens a session, confirms the factor or removes it, and a code that
\* has done one of these does none of them again, although a TOTP code stays
\* valid for three steps and the user may have several challenges (LastUsedStep,
\* GetRecoveryCodeForUpdate, DisableTOTP).
CodeOnce ==
    [][SecondFactorAccepted \/ FactorSwitched =>
          Spent({"step", "code"})' # Spent({"step", "code"})]_identityVars

\* Whatever set-ups, confirmations and removals interleave, the codes a user
\* can log in with are those shown at the last confirmation (ConfirmTOTP).
CodesOfLatestConfirmation ==
    \A code \in recoveryCodes : code.generation = confirmed[code.user]

\* Sessions, challenges and credentials are those of users that exist, also
\* when a request that authenticated before the deletion runs on.
NoOrphanRows ==
    /\ \A s \in SessionIds : SessionUsable(s) => Registered(sessions[s].user)
    /\ \A c \in challenges : Registered(c.user)
    /\ \A u \in Users : credentials[u] # NoCredential => Registered(u)
    /\ \A code \in recoveryCodes : Registered(code.user)

Outdated(u, row) == row.user = u /\ row.password # users[u].password

\* What a login with an outdated password left of a user: sessions, challenges,
\* and requests that go on to store one of these.
OldLogins(u) ==
    {<<"session", s>> : s \in {s \in SessionIds : Outdated(u, sessions[s])}}
    \cup {<<"challenge", c>> : c \in {c \in challenges : Outdated(u, c)}}
    \cup {<<"request", r>> : r \in
        {r \in Requests : /\ requests[r].at \in {"session", "challenge"}
                          /\ Outdated(u, requests[r])}}

\* A change of the password ends every session but the one that changes it, and
\* from then on the old password gains nothing: a session or a challenge of an
\* outdated password comes from a challenge or a request that had verified that
\* password before the change, and uses it up (ChangePassword revokes no
\* challenge, and Login writes after it verified).
PasswordChangeRevokes ==
    [][\A u \in Users : Registered(u) =>
          IF users'[u].password # users[u].password
          THEN \A s \in SessionIds : ~Outdated(u, sessions[s])'
          ELSE Cardinality(OldLogins(u))' <= Cardinality(OldLogins(u))
      ]_identityVars

\* In a window no more failures are counted than the limiter allows, but for
\* the requests let through before the last of them was counted: allowed and
\* failed are separate calls with the handler between them.
LimiterBound ==
    \A l \in Limiters :
        limiter[l].failures <= Maximum + Cardinality(Requests) - 1

\* While a factor is enabled, a login opens a session with the password alone
\* only if it read the user before the factor was confirmed (Login reads and
\* writes in separate statements).
OnlyStaleLoginSkipsFactor ==
    [][\A r \in Requests :
          Is(r, "session") /\ requests'[r].at = "succeeded" =>
              \/ ~TOTPEnabled(requests[r].user)
              \/ requests[r].seen # confirmed[requests[r].user]]_identityVars

\* An enabled factor goes away by DisableTOTP or DeleteAccount, or by a set-up
\* that had found no factor before the factor was confirmed (SetupTOTP looks
\* and stores in two statements without a transaction).
FactorRemoved ==
    [][\A u \in Users : TOTPEnabled(u) /\ ~TOTPEnabled(u)' =>
          \/ credentials'[u] = NoCredential
          \/ \E r \in Requests :
                /\ Is(r, "setup")
                /\ requests[r].user = u
                /\ requests[r].seen # confirmed[u]]_identityVars
=============================================================================
