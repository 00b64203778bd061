------------------------------ MODULE Sessions -------------------------------
(***************************************************************************)
(* app/routes/auth.py, app/utils/otp.py: accounts, one-time codes, refresh *)
(* tokens, password resets, two-factor set-up and sign-in with Google.     *)
(* A handler runs from one await to the next as one action; the job of a   *)
(* request keeps what it has read.  Profile fields, the log of logins and  *)
(* the end of an access token (a signed claim of the e-mail address) are   *)
(* left out.                                                               *)
(***************************************************************************)
EXTENDS SharedStore, FiniteSets

CONSTANTS
    Users,          \* e-mail addresses; one row of users each at most
    Requests,       \* requests in flight
    HostOf,         \* the process that serves each of them
    Passwords, Secrets,
    Ids,            \* ids of codes, tokens and reset links
    States,         \* OAuth states
    MaxAttempts,    \* _OTP_MAX_ATTEMPTS
    Nothing         \* SQL NULL

Purposes == {"verification", "login"}

\* _otp_attempts_key, and the key google_login stores a state under
AttemptsKey(u, purpose) == <<"otp-attempts", u, purpose>>
StateKey(s) == <<"oauth-state", s>>

AttemptsKeys == {AttemptsKey(u, p) : u \in Users, p \in Purposes}

ASSUME SessionsAssumption ==
    /\ MaxAttempts \in Nat \ {0}
    /\ IsFiniteSet(Requests)
    /\ HostOf \in [Requests -> Processes]
    /\ AttemptsKeys \subseteq Keys /\ {StateKey(s) : s \in States} \subseteq Keys
    /\ Nothing \notin Passwords \cup Secrets \cup Ids \cup Users
    /\ \A n \in 1 .. MaxAttempts + Cardinality(Requests) :
          \A b \in BOOLEAN : [val |-> n, expires |-> b] # Absent

VARIABLES
    account,    \* users: address -> row
    otps,       \* otp_records
    tokens,     \* refresh_tokens
    resets,     \* password_resets
    oauth,      \* what has become of each OAuth state
    proven,     \* the secret whose code switched two-factor on
    signedIn,   \* who has been given an access token
    job         \* what each request is doing and has read

sessionVars == <<storeVars, account, otps, tokens, resets, oauth, proven, signedIn, job>>
tables == <<account, otps, tokens, resets>>

Accounts == [registered : BOOLEAN, password : Passwords \cup {Nothing},
             verified : BOOLEAN, google : BOOLEAN, merchant : BOOLEAN,
             secret : Secrets \cup {Nothing}, enabled : BOOLEAN,
             leaving : BOOLEAN]

NoAccount == [registered |-> FALSE, password |-> Nothing, verified |-> FALSE,
              google |-> FALSE, merchant |-> FALSE, secret |-> Nothing,
              enabled |-> FALSE, leaving |-> FALSE]

\* An account that accept_invite has created (team_management.py:288)
Invited(pw) == [NoAccount EXCEPT !.registered = TRUE, !.verified = TRUE,
                                 !.password = pw, !.merchant = TRUE]

Steps == {"idle", "save", "insert", "select", "consume", "consumed", "count",
          "expire", "confirm", "provision", "rotate", "issue", "setup",
          "enable", "disable", "change", "exchange", "link"}

Idle == [step |-> "idle", user |-> Nothing, purpose |-> "login",
         row |-> Nothing, rows |-> {}, loaded |-> FALSE]

Jobs == [step : Steps, user : Users \cup {Nothing}, purpose : Purposes,
         row : Ids \cup Secrets \cup {Nothing}, rows : SUBSET Ids,
         loaded : BOOLEAN]

SessionsInit ==
    /\ StoreInit
    /\ account \in [Users -> {NoAccount} \cup {Invited(pw) : pw \in Passwords}]
    /\ otps = {} /\ tokens = {} /\ resets = {}
    /\ oauth = [s \in States |-> "new"]
    /\ proven = [u \in Users |-> Nothing]
    /\ signedIn = {}
    /\ job = [r \in Requests |-> Idle]

\* A request starts, goes on and ends.
Begin(r, step, u) ==
    /\ job[r] = Idle
    /\ job' = [job EXCEPT ![r] = [Idle EXCEPT !.step = step, !.user = u]]
GoOn(r, step) == job' = [job EXCEPT ![r].step = step]
End(r) == job' = [job EXCEPT ![r] = Idle]

At(r, step) == job[r].step = step
Account(r) == account[job[r].user]

\* An id no row has and no request in flight holds
Fresh(id) ==
    /\ id \notin {x.id : x \in otps \cup tokens \cup resets}
    /\ \A r \in Requests : id # job[r].row /\ id \notin job[r].rows

RowsOf(table, u) == {x \in table : x.user = u}
Token(id, u) == [id |-> id, user |-> u, stale |-> FALSE]
Code(id, u, purpose) ==
    [id |-> id, user |-> u, purpose |-> purpose, stale |-> FALSE]
CodesFor(u, purpose) == {x \in otps : x.user = u /\ x.purpose = purpose}
-----------------------------------------------------------------------------
(* Registration and one-time codes *)

\* A row that is there already keeps its password.
Register(r, u, pw) ==
    /\ ~account[u].verified
    /\ account' = [account EXCEPT ![u] =
          IF account[u].registered THEN @
          ELSE [@ EXCEPT !.registered = TRUE, !.password = pw]]
    /\ job[r] = Idle
    /\ job' = [job EXCEPT ![r] = [Idle EXCEPT !.step = "save", !.user = u,
                                              !.purpose = "verification"]]
    /\ UNCHANGED <<storeVars, otps, tokens, resets, oauth, proven, signedIn>>

\* A code for a login is sent to verified accounts only.
BugSends(u, purpose) ==   \* a bug: the test for "login" is left out
    /\ account[u].registered
    /\ purpose = "verification" => ~account[u].verified
Sends(u, purpose) ==
    /\ account[u].registered
    /\ (purpose = "login") = account[u].verified
ResendOtp(r, u, purpose) ==
    /\ Sends(u, purpose)
    /\ job[r] = Idle
    /\ job' = [job EXCEPT ![r] = [Idle EXCEPT !.step = "save", !.user = u,
                                              !.purpose = purpose]]
    /\ UNCHANGED <<storeVars, tables, oauth, proven, signedIn>>

\* save_otp: the rows its DELETE finds, then the INSERT and the commit
SaveDelete(r) ==
    /\ At(r, "save")
    /\ job' = [job EXCEPT ![r].step = "insert",
          ![r].rows = {x.id : x \in CodesFor(job[r].user, job[r].purpose)}]
    /\ UNCHANGED <<storeVars, tables, oauth, proven, signedIn>>

SaveInsert(r, id) ==
    /\ At(r, "insert") /\ Fresh(id)
    /\ otps' = {x \in otps : x.id \notin job[r].rows}
                  \cup {Code(id, job[r].user, job[r].purpose)}
    /\ End(r)
    /\ UNCHANGED <<storeVars, account, tokens, resets, oauth, proven, signedIn>>

\* verify_otp_route: too many wrong codes are turned away.
BugLocked(n) == n > MaxAttempts   \* a bug: one attempt too many
Locked(n) == n >= MaxAttempts
VerifyStart(r, u, purpose) ==
    /\ job[r] = Idle
    /\ \E route \in Routes :
          /\ Read(HostOf[r], AttemptsKey(u, purpose), route)
          /\ ~Locked(CountOf(Seen(HostOf[r], AttemptsKey(u, purpose), route)))
    /\ job' = [job EXCEPT ![r] = [Idle EXCEPT !.step = "select", !.user = u,
                                              !.purpose = purpose]]
    /\ UNCHANGED <<tables, oauth, proven, signedIn>>

\* verify_otp reads the newest code; codes that exist together were saved at
\* the same time, and any of them may be it.  No code, or a wrong one:
VerifyWrong(r) ==
    /\ At(r, "select")
    /\ LET found == CodesFor(job[r].user, job[r].purpose)
       IN  found = {} \/ \E x \in found : ~x.stale
    /\ GoOn(r, "count")
    /\ UNCHANGED <<storeVars, tables, oauth, proven, signedIn>>

VerifyStale(r, x) ==
    /\ At(r, "select")
    /\ x \in CodesFor(job[r].user, job[r].purpose) /\ x.stale
    /\ otps' = otps \ {x}
    /\ GoOn(r, "count")
    /\ UNCHANGED <<storeVars, account, tokens, resets, oauth, proven, signedIn>>

VerifyMatches(r, x) ==
    /\ At(r, "select")
    /\ x \in CodesFor(job[r].user, job[r].purpose) /\ ~x.stale
    /\ job' = [job EXCEPT ![r].step = "consume", ![r].row = x.id]
    /\ UNCHANGED <<storeVars, tables, oauth, proven, signedIn>>

\* The row may be gone already: that no row was deleted is not noticed.
Consume(r) ==
    /\ At(r, "consume")
    /\ otps' = {x \in otps : x.id # job[r].row}
    /\ job' = [job EXCEPT ![r].step = "consumed", ![r].row = Nothing]
    /\ UNCHANGED <<storeVars, account, tokens, resets, oauth, proven, signedIn>>

\* A code for a login needs the password too.
LoginDenied(r) ==
    /\ At(r, "consumed") /\ job[r].purpose = "login"
    /\ Account(r).registered
    /\ GoOn(r, "count")
    /\ UNCHANGED <<storeVars, tables, oauth, proven, signedIn>>

VerifyDone(r) ==
    /\ At(r, "consumed") /\ Account(r).registered
    /\ job[r].purpose = "login" => Account(r).password # Nothing
    /\ \E route \in Routes :
          DeleteValue(HostOf[r], AttemptsKey(job[r].user, job[r].purpose), route)
    /\ GoOn(r, IF job[r].purpose = "login" THEN "issue" ELSE "confirm")
    /\ UNCHANGED <<tables, oauth, proven, signedIn>>

Confirm(r) ==
    /\ At(r, "confirm")
    /\ account' = [account EXCEPT ![job[r].user].verified = TRUE]
    /\ GoOn(r, "provision")
    /\ UNCHANGED <<storeVars, otps, tokens, resets, oauth, proven, signedIn>>

\* ensure_merchant_provisioned, in a transaction of its own
Provision(r) ==
    /\ At(r, "provision")
    /\ account' = [account EXCEPT ![job[r].user].merchant = TRUE]
    /\ GoOn(r, "issue")
    /\ UNCHANGED <<storeVars, otps, tokens, resets, oauth, proven, signedIn>>

\* Bound: a counter that no longer runs out is not counted further.  While the
\* store is sound no counter gets there (LockoutBounded).
CountBound == MaxAttempts + Cardinality(Requests)
Bounded(r, k) ==
    /\ CountOf(redis[k]) < CountBound
    /\ CountOf(memory[HostOf[r]][k]) < CountBound

\* incr_with_ttl: INCR, then EXPIRE
CountWrong(r) ==
    LET k == AttemptsKey(job[r].user, job[r].purpose)
    IN  /\ At(r, "count")
        /\ Bounded(r, k)
        /\ \E route \in Routes :
              /\ Increment(HostOf[r], k, route)
              /\ job' = [job EXCEPT ![r] =
                    IF OwesExpiry(HostOf[r], k, route)
                      THEN [@ EXCEPT !.step = "expire"] ELSE Idle]
        /\ UNCHANGED <<tables, oauth, proven, signedIn>>

TimeCounter(r) ==
    LET k == AttemptsKey(job[r].user, job[r].purpose)
    IN  /\ At(r, "expire")
        /\ \E route \in Routes :
              /\ route # "redis" => Bounded(r, k)
              /\ SetExpiry(HostOf[r], k, route)
        /\ End(r)
        /\ UNCHANGED <<tables, oauth, proven, signedIn>>
-----------------------------------------------------------------------------
(* Login, tokens and passwords *)

\* _issue_tokens: a refresh token, and an access token
Issue(r, id) ==
    /\ At(r, "issue") /\ Fresh(id)
    /\ tokens' = tokens \cup {Token(id, job[r].user)}
    /\ signedIn' = signedIn \cup {job[r].user}
    /\ End(r)
    /\ UNCHANGED <<storeVars, account, otps, resets, oauth, proven>>

\* login; with two-factor on it ends without tokens
Login(r, u, pw) ==
    /\ account[u].registered /\ account[u].password = pw
    /\ account[u].verified /\ ~account[u].enabled
    /\ Begin(r, "issue", u)
    /\ UNCHANGED <<storeVars, tables, oauth, proven, signedIn>>

\* verify_2fa_login: the password, and a code of the secret that is stored
LoginWithCode(r, u, pw, secret) ==
    /\ account[u].registered /\ account[u].password = pw
    /\ account[u].enabled /\ account[u].secret = secret
    /\ Begin(r, "issue", u)
    /\ UNCHANGED <<storeVars, tables, oauth, proven, signedIn>>

RefreshRead(r, x) ==
    /\ x \in tokens /\ ~x.stale
    /\ account[x.user].registered
    /\ job[r] = Idle
    /\ job' = [job EXCEPT ![r] = [Idle EXCEPT !.step = "rotate",
                                              !.user = x.user, !.row = x.id]]
    /\ UNCHANGED <<storeVars, tables, oauth, proven, signedIn>>

RefreshDelete(r) ==
    /\ At(r, "rotate")
    /\ tokens' = {x \in tokens : x.id # job[r].row}
    /\ job' = [job EXCEPT ![r].step = "issue", ![r].row = Nothing]
    /\ UNCHANGED <<storeVars, account, otps, resets, oauth, proven, signedIn>>

\* logout, revoke_session
Revoke(x) ==
    /\ x \in tokens
    /\ tokens' = tokens \ {x}
    /\ UNCHANGED <<storeVars, account, otps, resets, oauth, proven, signedIn, job>>

\* get_current_user: the caller shows an access token of an account that is
\* there.  It may be any that was ever given out.
Authenticated(u) == u \in signedIn /\ account[u].registered

\* change_password: the row is read and the password checked, then written.
ChangeRead(r, u, pw) ==
    /\ Authenticated(u) /\ account[u].password = pw
    /\ Begin(r, "change", u)
    /\ UNCHANGED <<storeVars, tables, oauth, proven, signedIn>>

Repassword(u, pw) ==
    /\ account' = [account EXCEPT ![u].password = pw]
    /\ tokens' = tokens \ RowsOf(tokens, u)

ChangeWrite(r, pw) ==
    /\ At(r, "change")
    /\ Repassword(job[r].user, pw)
    /\ End(r)
    /\ UNCHANGED <<storeVars, otps, resets, oauth, proven, signedIn>>

ForgotPassword(u, id) ==
    /\ account[u].registered /\ account[u].verified
    /\ Fresh(id)
    /\ resets' = (resets \ RowsOf(resets, u)) \cup {Token(id, u)}
    /\ UNCHANGED <<storeVars, account, otps, tokens, oauth, proven, signedIn, job>>

ResetPassword(x, pw) ==
    /\ x \in resets /\ ~x.stale
    /\ account[x.user].registered
    /\ Repassword(x.user, pw)
    /\ resets' = resets \ RowsOf(resets, x.user)
    /\ UNCHANGED <<storeVars, otps, oauth, proven, signedIn, job>>

\* request_account_deletion and its cancellation
DeleteAccount(u) ==
    /\ Authenticated(u)
    /\ account' = [account EXCEPT ![u].leaving = TRUE]
    /\ tokens' = tokens \ RowsOf(tokens, u)
    /\ UNCHANGED <<storeVars, otps, resets, oauth, proven, signedIn, job>>

CancelDeletion(u) ==
    /\ Authenticated(u) /\ account[u].leaving
    /\ account' = [account EXCEPT ![u].leaving = FALSE]
    /\ UNCHANGED <<storeVars, otps, tokens, resets, oauth, proven, signedIn, job>>

\* me, update_profile, upload_avatar: the merchant is made up for.
Me(u) ==
    /\ Authenticated(u)
    /\ account' = [account EXCEPT ![u].merchant = TRUE]
    /\ UNCHANGED <<storeVars, otps, tokens, resets, oauth, proven, signedIn, job>>
-----------------------------------------------------------------------------
(* Two-factor authentication.  A column is written when its new value is   *)
(* not the one the request has read.                                       *)

SetupRead(r, u) ==
    /\ Authenticated(u)
    /\ job[r] = Idle
    /\ job' = [job EXCEPT ![r] = [Idle EXCEPT !.step = "setup", !.user = u,
                                              !.loaded = account[u].enabled]]
    /\ UNCHANGED <<storeVars, tables, oauth, proven, signedIn>>

SetupWrite(r, secret) ==
    /\ At(r, "setup") /\ secret # Account(r).secret
    /\ account' = [account EXCEPT ![job[r].user].secret = secret,
          ![job[r].user].enabled = IF job[r].loaded THEN FALSE ELSE @]
    /\ End(r)
    /\ UNCHANGED <<storeVars, otps, tokens, resets, oauth, proven, signedIn>>

EnableRead(r, u) ==
    /\ Authenticated(u) /\ account[u].secret # Nothing
    /\ job[r] = Idle
    /\ job' = [job EXCEPT ![r] = [Idle EXCEPT !.step = "enable", !.user = u,
          !.row = account[u].secret, !.loaded = account[u].enabled]]
    /\ UNCHANGED <<storeVars, tables, oauth, proven, signedIn>>

EnableWrite(r) ==
    /\ At(r, "enable")
    /\ account' = [account EXCEPT ![job[r].user].enabled =
                      IF job[r].loaded THEN @ ELSE TRUE]
    /\ proven' = IF job[r].loaded THEN proven
                 ELSE [proven EXCEPT ![job[r].user] = job[r].row]
    /\ End(r)
    /\ UNCHANGED <<storeVars, otps, tokens, resets, oauth, signedIn>>

DisableRead(r, u, pw) ==
    /\ Authenticated(u) /\ account[u].password = pw
    /\ job[r] = Idle
    /\ job' = [job EXCEPT ![r] = [Idle EXCEPT !.step = "disable", !.user = u,
          !.row = account[u].secret, !.loaded = account[u].enabled]]
    /\ UNCHANGED <<storeVars, tables, oauth, proven, signedIn>>

DisableWrite(r) ==
    /\ At(r, "disable")
    /\ account' = [account EXCEPT
          ![job[r].user].enabled = IF job[r].loaded THEN FALSE ELSE @,
          ![job[r].user].secret = IF job[r].row = Nothing THEN @ ELSE Nothing]
    /\ End(r)
    /\ UNCHANGED <<storeVars, otps, tokens, resets, oauth, proven, signedIn>>
-----------------------------------------------------------------------------
(* Sign-in with Google *)

GoogleLogin(r, s) ==
    /\ oauth[s] = "new"
    /\ \E route \in Routes : SetValue(HostOf[r], StateKey(s), route, "origin")
    /\ oauth' = [oauth EXCEPT ![s] = "given"]
    /\ UNCHANGED <<tables, proven, signedIn, job>>

\* google_callback takes the state; the value must be there.
Took(r, s, route) == Seen(HostOf[r], StateKey(s), route) # Absent
Callback(r, s, u) ==
    /\ \E route \in Routes :
          /\ PopValue(HostOf[r], StateKey(s), route)
          /\ Took(r, s, route)
    /\ oauth' = [oauth EXCEPT ![s] = IF @ = "given" THEN "used" ELSE "reused"]
    /\ Begin(r, "exchange", u)
    /\ UNCHANGED <<tables, proven, signedIn>>

\* Google answers, and the account is read; or Google refuses.
ExchangeCode(r) ==
    /\ At(r, "exchange")
    /\ job' = [job EXCEPT ![r].step = "link", ![r].loaded = Account(r).registered]
    /\ UNCHANGED <<storeVars, tables, oauth, proven, signedIn>>

ExchangeFails(r) ==
    /\ At(r, "exchange")
    /\ End(r)
    /\ UNCHANGED <<storeVars, tables, oauth, proven, signedIn>>

\* The row read is updated; a new one is inserted unless the address is taken.
LinkAccount(r) ==
    /\ At(r, "link")
    /\ job[r].loaded \/ ~Account(r).registered
    /\ account' = [account EXCEPT ![job[r].user] =
          [@ EXCEPT !.registered = TRUE, !.verified = TRUE, !.google = TRUE]]
    /\ GoOn(r, "provision")
    /\ UNCHANGED <<storeVars, otps, tokens, resets, oauth, proven, signedIn>>

LinkConflict(r) ==
    /\ At(r, "link")
    /\ ~job[r].loaded /\ Account(r).registered
    /\ End(r)
    /\ UNCHANGED <<storeVars, tables, oauth, proven, signedIn>>
-----------------------------------------------------------------------------
\* The lifetime of a code, a token, a link or a key of the store ends.
Age(table, x) == x \in table /\ ~x.stale
Aged(table, x) == (table \ {x}) \cup {[x EXCEPT !.stale = TRUE]}

CodeAges(x) ==
    /\ Age(otps, x) /\ otps' = Aged(otps, x)
    /\ UNCHANGED <<storeVars, account, tokens, resets, oauth, proven, signedIn, job>>
TokenAges(x) ==
    /\ Age(tokens, x) /\ tokens' = Aged(tokens, x)
    /\ UNCHANGED <<storeVars, account, otps, resets, oauth, proven, signedIn, job>>
LinkAges(x) ==
    /\ Age(resets, x) /\ resets' = Aged(resets, x)
    /\ UNCHANGED <<storeVars, account, otps, tokens, oauth, proven, signedIn, job>>

KeyLapses(k) == Lapse(k) /\ UNCHANGED <<tables, oauth, proven, signedIn, job>>

\* The second halves of the requests
Continue(r) ==
    \/ SaveDelete(r) \/ \E id \in Ids : SaveInsert(r, id)
    \/ VerifyWrong(r) \/ \E x \in otps : VerifyStale(r, x) \/ VerifyMatches(r, x)
    \/ Consume(r) \/ LoginDenied(r) \/ VerifyDone(r) \/ Confirm(r) \/ Provision(r)
    \/ CountWrong(r) \/ TimeCounter(r)
    \/ \E id \in Ids : Issue(r, id)
    \/ RefreshDelete(r) \/ \E pw \in Passwords : ChangeWrite(r, pw)
    \/ \E secret \in Secrets : SetupWrite(r, secret)
    \/ EnableWrite(r) \/ DisableWrite(r)
    \/ ExchangeCode(r) \/ ExchangeFails(r) \/ LinkAccount(r) \/ LinkConflict(r)

\* The handlers, by subject
StartCode(r, u) ==
    \/ \E pw \in Passwords : Register(r, u, pw)
    \/ \E purpose \in Purposes : ResendOtp(r, u, purpose) \/ VerifyStart(r, u, purpose)
StartLogin(r, u) ==
    \E pw \in Passwords :
        \/ Login(r, u, pw)
        \/ \E secret \in Secrets : LoginWithCode(r, u, pw, secret)
StartPassword(r, u) ==
    \/ \E pw \in Passwords : ChangeRead(r, u, pw)
    \/ \E id \in Ids : ForgotPassword(u, id)
    \/ \E x \in resets, pw \in Passwords : ResetPassword(x, pw)
StartToken(r, u) ==
    \/ \E x \in tokens : RefreshRead(r, x) \/ Revoke(x)
    \/ DeleteAccount(u) \/ CancelDeletion(u) \/ Me(u)
StartTwoFactor(r, u) ==
    \/ SetupRead(r, u) \/ EnableRead(r, u)
    \/ \E pw \in Passwords : DisableRead(r, u, pw)
StartGoogle(r, u) ==
    \E s \in States : GoogleLogin(r, s) \/ Callback(r, s, u)
Ageing ==
    \/ \E x \in otps : CodeAges(x)
    \/ \E x \in tokens : TokenAges(x)
    \/ \E x \in resets : LinkAges(x)
    \/ \E k \in AttemptsKeys \cup {StateKey(s) : s \in States} : KeyLapses(k)

Start(r, u) ==
    \/ StartCode(r, u) \/ StartLogin(r, u) \/ StartPassword(r, u)
    \/ StartToken(r, u) \/ StartTwoFactor(r, u) \/ StartGoogle(r, u)

SessionsNext ==
    \/ Ageing
    \/ \E r \in Requests : Continue(r) \/ \E u \in Users : Start(r, u)

SessionsSpec == SessionsInit /\ [][SessionsNext]_sessionVars

\* A request goes on unless its process dies; keys run out.
SessionsFairness ==
    /\ \A r \in Requests : WF_sessionVars(CountWrong(r)) /\ WF_sessionVars(TimeCounter(r))
    /\ \A k \in AttemptsKeys : WF_sessionVars(KeyLapses(k))
-----------------------------------------------------------------------------
AttemptsEntries == [val : 1 .. CountBound, expires : BOOLEAN]
StateEntries == [val : {"origin"}, expires : BOOLEAN]

CodeRows == [id : Ids, user : Users, purpose : Purposes, stale : BOOLEAN]
TokenRows == [id : Ids, user : Users, stale : BOOLEAN]

SessionsTypeOK ==
    /\ StoreShape
    /\ \A k \in AttemptsKeys : Holds(k, AttemptsEntries \cup {Absent})
    /\ \A s \in States : Holds(StateKey(s), StateEntries \cup {Absent})
    /\ account \in [Users -> Accounts]
    /\ otps \subseteq CodeRows
    /\ tokens \subseteq TokenRows /\ resets \subseteq TokenRows
    /\ oauth \in [States -> {"new", "given", "used", "reused"}]
    /\ proven \in [Users -> Secrets \cup {Nothing}]
    /\ signedIn \subseteq Users
    /\ job \in [Requests -> Jobs]

(***************************************************************************)
(* A refresh token belongs to an account whose address was confirmed, by   *)
(* whichever of the ways in it was issued, and whatever codes and requests *)
(* were under way meanwhile; the way in with a two-factor code does not    *)
(* test it (auth.py:302, 337, 368).                                        *)
(***************************************************************************)
TokensOnlyForVerified == \A x \in tokens : account[x.user].verified

(***************************************************************************)
(* The attempts are tested before a code is checked and counted after it,  *)
(* so requests that run together go past the limit, by no more than one    *)
(* less than their number (auth.py:247, 255).                              *)
(***************************************************************************)
LockoutBounded ==
    Sound => \A k \in AttemptsKeys :
        CountOf(Entry(k)) <= MaxAttempts - 1 + Cardinality(Requests)

(***************************************************************************)
(* A counter of attempts without a time to live is the work of a request   *)
(* that is still to set it (redis_client.py:255).                          *)
(***************************************************************************)
AttemptsAreTimed ==
    Sound => \A k \in AttemptsKeys :
        Entry(k) # Absent /\ ~Entry(k).expires =>
            \E r \in Requests : At(r, "expire") /\
                AttemptsKey(job[r].user, job[r].purpose) = k

(***************************************************************************)
(* A state given out for a sign-in with Google is taken by one callback    *)
(* only, however many arrive with it (auth.py:781).                        *)
(***************************************************************************)
StateTakenOnce == Sound => \A s \in States : oauth[s] # "reused"

(***************************************************************************)
(* What signing in keeps in Redis guards it, whatever requests run         *)
(* together: wrong codes are bounded and their counter lapses, and a state *)
(* is good for one callback.                                               *)
(***************************************************************************)
SignInGuarded == LockoutBounded /\ AttemptsAreTimed /\ StateTakenOnce

(***************************************************************************)
(* An account that is locked out for its wrong codes comes free again      *)
(* (auth.py:71).                                                           *)
(***************************************************************************)
LockoutEnds ==
    link = "up" =>
        \A k \in AttemptsKeys : []<>(CountOf(redis[k]) < MaxAttempts)

(***************************************************************************)
(* Two-factor authentication that is on asks for codes of the secret with  *)
(* which it was switched on: opening the set-up again leaves no other      *)
(* secret active (auth.py:492).                                            *)
(***************************************************************************)
ActiveSecretProven ==
    \A u \in Users : account[u].enabled => account[u].secret = proven[u]
=============================================================================
