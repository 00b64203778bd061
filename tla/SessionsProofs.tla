--------------------------- MODULE SessionsProofs ----------------------------
(***************************************************************************)
(* Proofs about Sessions, Rates and all the services on one Redis:         *)
(*   - whichever way a refresh token is issued, and whatever else is under *)
(*     way, its account has a confirmed address.  The shared store plays   *)
(*     no part in it: what it counts may be lost;                          *)
(*   - the two-factor counter bounds the attempts of a window, is timed by *)
(*     whoever counted first, and a Google sign-in's state is taken once,  *)
(*     while the store fails and recovers;                                 *)
(*   - a stored exchange rate is one the provider gave, for a recent day;  *)
(*   - the rate limiter, the lock, the sign-ins and the exchange rates     *)
(*     keep all that of each other when they interleave on one store, as   *)
(*     their keys differ.                                                  *)
(***************************************************************************)
EXTENDS MCServices, LimiterProofs, FiniteSetTheorems, WellFoundedInduction, TLAPS

-----------------------------------------------------------------------------
(* The inductive invariant *)

\* What a request has read makes sure of, at each of its steps
JobOK(j) ==
    /\ j.step # "idle" => j.user \in Users
    /\ j.step \in {"provision", "issue", "rotate", "enable"} => account[j.user].verified
    /\ j.step \in {"save", "insert", "consume", "consumed"} /\ j.purpose = "login"
          => account[j.user].verified

\* A code for a login was sent to a confirmed address.
CodeOK(x) == x.purpose = "login" => account[x.user].verified
TokenOK(x) == account[x.user].verified

Verified ==
    /\ account \in [Users -> Accounts]
    /\ \A u \in Users : account[u].enabled => account[u].verified
    /\ signedIn \subseteq Users /\ \A u \in signedIn : account[u].verified
    /\ otps \subseteq CodeRows /\ \A x \in otps : CodeOK(x)
    /\ tokens \subseteq TokenRows /\ \A x \in tokens : TokenOK(x)
    /\ resets \subseteq TokenRows
    /\ job \in [Requests -> Jobs] /\ \A r \in Requests : JobOK(job[r])

\* An account that is verified stays so.
Stays == \A u \in Users : account[u].verified => account'[u].verified

LEMMA RowWrite ==
    ASSUME Verified, NEW u \in Users, NEW row \in Accounts,
           account' = [account EXCEPT ![u] = row], account[u].verified => row.verified,
           row.enabled => row.verified
    PROVE  /\ account' \in [Users -> Accounts] /\ Stays /\ account'[u] = row
           /\ \A v \in Users : account'[v].enabled => account'[v].verified
BY DEF Verified, Stays

LEMMA JobWrite ==
    ASSUME Verified, NEW r \in Requests, NEW j \in Jobs, job' = [job EXCEPT ![r] = j],
           account' \in [Users -> Accounts], Stays, JobOK(j)'
    PROVE  job' \in [Requests -> Jobs] /\ (\A q \in Requests : JobOK(job[q]))'
<1>1. job' \in [Requests -> Jobs]
  BY DEF Verified
<1>2. ASSUME NEW q \in Requests PROVE JobOK(job[q])'
  <2>1. CASE q = r
    <3>1. job'[q] = j
      BY <2>1 DEF Verified
    <3> QED
      BY <3>1 DEF JobOK
  <2>2. CASE q # r
    <3>1. job'[q] = job[q] /\ JobOK(job[q]) /\ job[q] \in Jobs
      BY <2>2 DEF Verified
    <3>2. "idle" \notin {"provision", "issue", "rotate", "enable", "save", "insert", "consume",
                        "consumed"}
      OBVIOUS
    <3> QED
      BY <3>1, <3>2 DEF JobOK, Stays
  <2> QED
    BY <2>1, <2>2
<1> QED
  BY <1>1, <1>2

LEMMA RowsStay ==
    ASSUME Verified, account' \in [Users -> Accounts], Stays
    PROVE  /\ \A x \in otps : x \in CodeRows /\ CodeOK(x)'
           /\ \A x \in tokens : x \in TokenRows /\ TokenOK(x)'
           /\ \A u \in signedIn : u \in Users /\ account'[u].verified
BY DEF Verified, Stays, CodeOK, TokenOK, CodeRows, TokenRows

\* A step that writes no rows
LEMMA JobOnly ==
    ASSUME Verified, NEW r \in Requests, NEW j \in Jobs, job' = [job EXCEPT ![r] = j],
           UNCHANGED <<tables, signedIn>>, JobOK(j)
    PROVE  Verified'
<1>1. account' = account /\ otps' = otps /\ tokens' = tokens /\ resets' = resets
     /\ signedIn' = signedIn
  BY DEF tables
<1>2. account' \in [Users -> Accounts] /\ Stays /\ JobOK(j)'
  BY <1>1 DEF Verified, Stays, JobOK
<1>3. job' \in [Requests -> Jobs] /\ (\A q \in Requests : JobOK(job[q]))'
  BY <1>2, JobWrite
<1> QED
  BY <1>1, <1>2, <1>3 DEF Verified, CodeOK, TokenOK

\* A step that writes an account and moves its request on
LEMMA AccountAndJob ==
    ASSUME Verified, NEW r \in Requests, NEW j \in Jobs, job' = [job EXCEPT ![r] = j],
           NEW u \in Users, NEW row \in Accounts, account' = [account EXCEPT ![u] = row],
           account[u].verified => row.verified, row.enabled => row.verified,
           tokens' \subseteq tokens, UNCHANGED <<otps, resets, signedIn>>, JobOK(j)'
    PROVE  Verified'
<1>1. /\ account' \in [Users -> Accounts] /\ Stays
      /\ \A v \in Users : account'[v].enabled => account'[v].verified
  BY RowWrite
<1>2. job' \in [Requests -> Jobs] /\ (\A q \in Requests : JobOK(job[q]))'
  BY <1>1, JobWrite
<1>3. /\ otps' \subseteq CodeRows /\ (\A x \in otps : CodeOK(x))'
      /\ tokens' \subseteq TokenRows /\ (\A x \in tokens : TokenOK(x))'
      /\ resets' \subseteq TokenRows
      /\ signedIn' \subseteq Users /\ \A v \in signedIn' : account'[v].verified
  BY <1>1, RowsStay DEF Verified
<1> QED
  BY <1>1, <1>2, <1>3 DEF Verified

\* A step that writes an account, and takes rows away
LEMMA AccountOnly ==
    ASSUME Verified, UNCHANGED job,
           NEW u \in Users, NEW row \in Accounts, account' = [account EXCEPT ![u] = row],
           account[u].verified => row.verified, row.enabled => row.verified,
           tokens' \subseteq tokens, resets' \subseteq resets, UNCHANGED <<otps, signedIn>>
    PROVE  Verified'
<1>1. /\ account' \in [Users -> Accounts] /\ Stays
      /\ \A v \in Users : account'[v].enabled => account'[v].verified
  BY RowWrite
<1>2. (\A q \in Requests : JobOK(job[q]))'
  <2>1. ASSUME NEW q \in Requests PROVE JobOK(job[q])'
    <3>1. JobOK(job[q]) /\ job'[q] = job[q]
      BY DEF Verified
    <3>2. "idle" \notin {"provision", "issue", "rotate", "enable", "save", "insert", "consume",
                        "consumed"}
      OBVIOUS
    <3> QED
      BY <1>1, <3>1, <3>2 DEF JobOK, Stays
  <2> QED
    BY <2>1
<1>3. /\ otps' \subseteq CodeRows /\ (\A x \in otps : CodeOK(x))'
      /\ tokens' \subseteq TokenRows /\ (\A x \in tokens : TokenOK(x))'
      /\ resets' \subseteq TokenRows
      /\ signedIn' \subseteq Users /\ \A v \in signedIn' : account'[v].verified
  BY <1>1, RowsStay DEF Verified
<1> QED
  BY <1>1, <1>2, <1>3 DEF Verified

\* A step that writes codes, tokens or links
LEMMA RowsOnly ==
    ASSUME Verified, UNCHANGED account,
           otps' \subseteq CodeRows, \A x \in otps' : CodeOK(x),
           tokens' \subseteq TokenRows, \A x \in tokens' : TokenOK(x),
           resets' \subseteq TokenRows,
           signedIn' \subseteq Users, \A u \in signedIn' : account[u].verified,
           \/ UNCHANGED job
           \/ \E r \in Requests, j \in Jobs : job' = [job EXCEPT ![r] = j] /\ JobOK(j)
    PROVE  Verified'
<1>1. account' \in [Users -> Accounts] /\ Stays
  BY DEF Verified, Stays
<1>2. job' \in [Requests -> Jobs] /\ (\A q \in Requests : JobOK(job[q]))'
  <2>1. CASE UNCHANGED job
    BY <2>1 DEF Verified, JobOK
  <2>2. ASSUME NEW r \in Requests, NEW j \in Jobs, job' = [job EXCEPT ![r] = j], JobOK(j)
        PROVE  job' \in [Requests -> Jobs] /\ (\A q \in Requests : JobOK(job[q]))'
    <3>1. JobOK(j)'
      BY <2>2 DEF JobOK
    <3> QED
      BY <1>1, <2>2, <3>1, JobWrite
  <2> QED
    BY <2>1, <2>2
<1> QED
  BY <1>1, <1>2 DEF Verified, CodeOK, TokenOK
-----------------------------------------------------------------------------
(* The steps of a request: each names the job it leaves *)

LEMMA ARequest ==
    ASSUME Verified, NEW r \in Requests
    PROVE  /\ job[r] \in Jobs /\ JobOK(job[r])
           /\ job[r].step # "idle" => job[r].user \in Users
BY DEF Verified, JobOK

LEMMA IdleIsJob == Idle \in Jobs /\ JobOK(Idle)
BY DEF Idle, Jobs, JobOK, Steps, Purposes

LEMMA BeginKeeps ==
    ASSUME Verified, NEW r \in Requests, NEW u \in Users, NEW step \in Steps,
           Begin(r, step, u), UNCHANGED <<tables, signedIn>>,
           step \in {"issue", "change", "exchange"}, step = "issue" => account[u].verified
    PROVE  Verified'
<1> DEFINE j == [Idle EXCEPT !.step = step, !.user = u]
<1>1. j \in Jobs
  BY DEF Idle, Jobs, Steps, Purposes
<1>2. JobOK(j)
  BY DEF Idle, JobOK
<1>3. job' = [job EXCEPT ![r] = j]
  BY DEF Begin
<1> QED
  BY <1>1, <1>2, <1>3, JobOnly

LEMMA EndKeeps ==
    ASSUME Verified, NEW r \in Requests, End(r), UNCHANGED <<tables, signedIn>>
    PROVE  Verified'
BY IdleIsJob, JobOnly DEF End

\* A request that goes on with what it has read
LEMMA Onward ==
    ASSUME Verified, NEW r \in Requests, NEW step \in Steps, GoOn(r, step)
    PROVE  LET j == [job[r] EXCEPT !.step = step]
           IN  j \in Jobs /\ job' = [job EXCEPT ![r] = j]
BY ARequest DEF GoOn, Verified, Jobs

LEMMA InSteps ==
    /\ {"count", "confirm", "issue"} \subseteq Steps
    /\ \A s \in {"count", "confirm"} : s # "issue"
    /\ "select" # "idle" /\ "consumed" # "idle"
BY DEF Steps

LEMMA GoOnKeeps ==
    ASSUME Verified, NEW r \in Requests, NEW step \in Steps, GoOn(r, step),
           UNCHANGED <<tables, signedIn>>, job[r].step # "idle",
           step \in {"count", "confirm", "issue"},
           step = "issue" => account[job[r].user].verified
    PROVE  Verified'
<1> DEFINE j == [job[r] EXCEPT !.step = step]
<1>1. j \in Jobs /\ job' = [job EXCEPT ![r] = j]
  BY Onward
<1>2. JobOK(j)
  BY ARequest DEF JobOK, Jobs
<1> QED
  BY <1>1, <1>2, JobOnly
-----------------------------------------------------------------------------
(* Codes *)

LEMMA StartCodeKeeps ==
    ASSUME Verified, NEW r \in Requests, NEW u \in Users, StartCode(r, u)
    PROVE  Verified'
<1>1. ASSUME NEW pw \in Passwords, Register(r, u, pw)
      PROVE  Verified'
  <2> DEFINE row == IF account[u].registered THEN account[u]
                    ELSE [account[u] EXCEPT !.registered = TRUE, !.password = pw]
             j == [Idle EXCEPT !.step = "save", !.user = u, !.purpose = "verification"]
  <2>1. row \in Accounts /\ row.verified = account[u].verified
        /\ row.enabled = account[u].enabled
    BY DEF Verified, Accounts
  <2>2. account' = [account EXCEPT ![u] = row] /\ job' = [job EXCEPT ![r] = j]
    BY <1>1 DEF Register
  <2>3. j \in Jobs /\ JobOK(j)'
    BY DEF Idle, Jobs, Steps, Purposes, JobOK
  <2>4. UNCHANGED <<otps, tokens, resets, signedIn>>
    BY <1>1 DEF Register
  <2>5. row.enabled => row.verified
    BY <2>1 DEF Verified
  <2> QED
    BY <2>1, <2>2, <2>3, <2>4, <2>5, AccountAndJob
<1>2. ASSUME NEW p \in Purposes, ResendOtp(r, u, p)
      PROVE  Verified'
  <2> DEFINE j == [Idle EXCEPT !.step = "save", !.user = u, !.purpose = p]
  <2>1. j \in Jobs
    BY DEF Idle, Jobs, Steps
  <2>2. JobOK(j)
    BY <1>2 DEF ResendOtp, Sends, Idle, JobOK
  <2>3. job' = [job EXCEPT ![r] = j] /\ UNCHANGED <<tables, signedIn>>
    BY <1>2 DEF ResendOtp
  <2> QED
    BY <2>1, <2>2, <2>3, JobOnly
<1>3. ASSUME NEW p \in Purposes, VerifyStart(r, u, p)
      PROVE  Verified'
  <2> DEFINE j == [Idle EXCEPT !.step = "select", !.user = u, !.purpose = p]
  <2>1. j \in Jobs /\ JobOK(j)
    BY DEF Idle, Jobs, Steps, JobOK
  <2>2. job' = [job EXCEPT ![r] = j] /\ UNCHANGED <<tables, signedIn>>
    BY <1>3 DEF VerifyStart
  <2> QED
    BY <2>1, <2>2, JobOnly
<1> QED
  BY <1>1, <1>2, <1>3 DEF StartCode

LEMMA SaveKeeps ==
    ASSUME Verified, NEW r \in Requests,
           SaveDelete(r) \/ \E id \in Ids : SaveInsert(r, id)
    PROVE  Verified'
<1>1. CASE SaveDelete(r)
  <2> DEFINE R == {x.id : x \in CodesFor(job[r].user, job[r].purpose)}
             j == [job[r] EXCEPT !.step = "insert", !.rows = R]
  <2>1. R \in SUBSET Ids
    BY DEF CodesFor, Verified, CodeRows
  <2>2. j \in Jobs
    BY <2>1, ARequest DEF Jobs, Steps
  <2>3. job' = [job EXCEPT ![r] = j] /\ UNCHANGED <<tables, signedIn>> /\ job[r].step = "save"
    BY <1>1, ARequest DEF SaveDelete, At, Verified, Jobs
  <2>4. JobOK(j)
    BY <2>3, ARequest DEF JobOK, Jobs
  <2> QED
    BY <2>2, <2>3, <2>4, JobOnly
<1>2. ASSUME NEW id \in Ids, SaveInsert(r, id) PROVE Verified'
  <2> DEFINE c == Code(id, job[r].user, job[r].purpose)
  <2>1. job[r].step = "insert" /\ job[r].user \in Users /\ job[r].purpose \in Purposes
    BY <1>2, ARequest DEF SaveInsert, At, Jobs
  <2>2. c \in CodeRows /\ CodeOK(c)
    BY <2>1, ARequest DEF Code, CodeRows, CodeOK, JobOK
  <2>3. \A x \in otps' : x = c \/ x \in otps
    BY <1>2 DEF SaveInsert
  <2>4. otps' \subseteq CodeRows /\ \A x \in otps' : CodeOK(x)
    BY <2>2, <2>3 DEF Verified
  <2>5. job' = [job EXCEPT ![r] = Idle] /\ UNCHANGED <<account, tokens, resets, signedIn>>
    BY <1>2 DEF SaveInsert, End
  <2> QED
    BY <2>4, <2>5, IdleIsJob, RowsOnly DEF Verified
<1> QED
  BY <1>1, <1>2

LEMMA SelectKeeps ==
    ASSUME Verified, NEW r \in Requests,
           VerifyWrong(r) \/ \E x \in otps : VerifyStale(r, x) \/ VerifyMatches(r, x)
    PROVE  Verified'
<1>1. CASE VerifyWrong(r)
  <2>1. job[r].step = "select" /\ GoOn(r, "count") /\ UNCHANGED <<tables, signedIn>>
    BY <1>1 DEF VerifyWrong, At
  <2> QED
    BY <2>1, GoOnKeeps, InSteps
<1>2. ASSUME NEW x \in otps, VerifyStale(r, x) PROVE Verified'
  <2> DEFINE j == [job[r] EXCEPT !.step = "count"]
  <2>1. j \in Jobs /\ job' = [job EXCEPT ![r] = j]
    BY <1>2, Onward DEF VerifyStale, Steps
  <2>2. job[r].step = "select"
    BY <1>2 DEF VerifyStale, At
  <2>3. JobOK(j)
    BY <2>2, ARequest DEF JobOK, Jobs
  <2>4. otps' \subseteq otps /\ UNCHANGED <<account, tokens, resets, signedIn>>
    BY <1>2 DEF VerifyStale
  <2> QED
    BY <2>1, <2>3, <2>4, RowsOnly DEF Verified
<1>3. ASSUME NEW x \in otps, VerifyMatches(r, x) PROVE Verified'
  <2> DEFINE j == [job[r] EXCEPT !.step = "consume", !.row = x.id]
  <2>1. /\ x.id \in Ids /\ CodeOK(x) /\ x.user = job[r].user /\ x.purpose = job[r].purpose
        /\ job[r].step = "select"
    BY <1>3 DEF VerifyMatches, CodesFor, Verified, CodeRows, At
  <2>2. j \in Jobs /\ job' = [job EXCEPT ![r] = j] /\ UNCHANGED <<tables, signedIn>>
    BY <1>3, <2>1, ARequest DEF VerifyMatches, Jobs, Verified, Steps
  <2>3. JobOK(j)
    BY <2>1, ARequest DEF JobOK, CodeOK, Jobs
  <2> QED
    BY <2>2, <2>3, JobOnly
<1> QED
  BY <1>1, <1>2, <1>3

LEMMA ConsumeKeeps ==
    ASSUME Verified, NEW r \in Requests,
           Consume(r) \/ LoginDenied(r) \/ VerifyDone(r)
    PROVE  Verified'
<1>1. CASE Consume(r)
  <2> DEFINE j == [job[r] EXCEPT !.step = "consumed", !.row = Nothing]
  <2>1. j \in Jobs /\ job' = [job EXCEPT ![r] = j] /\ job[r].step = "consume"
    BY <1>1, ARequest DEF Consume, At, Jobs, Verified, Steps
  <2>2. JobOK(j)
    BY <2>1, ARequest DEF JobOK, Jobs
  <2>3. otps' \subseteq otps /\ UNCHANGED <<account, tokens, resets, signedIn>>
    BY <1>1 DEF Consume
  <2> QED
    BY <2>1, <2>2, <2>3, RowsOnly DEF Verified
<1>2. CASE LoginDenied(r)
  <2>1. job[r].step = "consumed" /\ GoOn(r, "count") /\ UNCHANGED <<tables, signedIn>>
    BY <1>2 DEF LoginDenied, At
  <2> QED
    BY <2>1, GoOnKeeps, InSteps
<1>3. CASE VerifyDone(r)
  <2>1. job[r].step = "consumed" /\ UNCHANGED <<tables, signedIn>>
    BY <1>3 DEF VerifyDone, At
  <2>2. CASE job[r].purpose = "login"
    <3>1. GoOn(r, "issue") /\ account[job[r].user].verified
      BY <1>3, <2>1, <2>2, ARequest DEF VerifyDone, JobOK
    <3> QED
      BY <2>1, <3>1, GoOnKeeps, InSteps
  <2>3. CASE job[r].purpose # "login"
    <3>1. GoOn(r, "confirm")
      BY <1>3, <2>3 DEF VerifyDone
    <3> QED
      BY <2>1, <3>1, GoOnKeeps, InSteps
  <2> QED
    BY <2>2, <2>3
<1> QED
  BY <1>1, <1>2, <1>3

LEMMA ConfirmKeeps ==
    ASSUME Verified, NEW r \in Requests, Confirm(r) \/ Provision(r)
    PROVE  Verified'
<1> DEFINE u == job[r].user
<1>1. CASE Confirm(r)
  <2> DEFINE row == [account[u] EXCEPT !.verified = TRUE]
  <2>1. u \in Users /\ account[u] \in Accounts
    BY <1>1, ARequest DEF Confirm, At, Verified
  <2>2. row \in Accounts /\ row.verified
    BY <2>1 DEF Accounts
  <2>3. account' = [account EXCEPT ![u] = row] /\ UNCHANGED <<otps, tokens, resets, signedIn>>
    BY <1>1, <2>1 DEF Confirm, Verified, Accounts
  <2>4. PICK j \in Jobs : job' = [job EXCEPT ![r] = j] /\ j = [job[r] EXCEPT !.step = "provision"]
    BY <1>1, Onward DEF Confirm, Steps
  <2>5. JobOK(j)'
    <3>1. account'[u].verified
      BY <2>1, <2>2, <2>3 DEF Verified
    <3>2. j.user = u /\ j.step \in {"provision", "issue"}
      BY <2>4, ARequest DEF Jobs
    <3> QED
      BY <2>1, <3>1, <3>2 DEF JobOK
  <2> QED
    BY <2>1, <2>2, <2>3, <2>4, <2>5, AccountAndJob
<1>2. CASE Provision(r)
  <2> DEFINE row == [account[u] EXCEPT !.merchant = TRUE]
  <2>1. u \in Users /\ account[u] \in Accounts /\ account[u].verified
    BY <1>2, ARequest DEF Provision, At, Verified, JobOK
  <2>2. row \in Accounts /\ row.verified
    BY <2>1 DEF Accounts
  <2>3. account' = [account EXCEPT ![u] = row] /\ UNCHANGED <<otps, tokens, resets, signedIn>>
    BY <1>2, <2>1 DEF Provision, Verified, Accounts
  <2>4. PICK j \in Jobs : job' = [job EXCEPT ![r] = j] /\ j = [job[r] EXCEPT !.step = "issue"]
    BY <1>2, Onward DEF Provision, Steps
  <2>5. JobOK(j)'
    <3>1. account'[u].verified
      BY <2>1, <2>2, <2>3 DEF Verified
    <3>2. j.user = u /\ j.step \in {"provision", "issue"}
      BY <2>4, ARequest DEF Jobs
    <3> QED
      BY <2>1, <3>1, <3>2 DEF JobOK
  <2> QED
    BY <2>1, <2>2, <2>3, <2>4, <2>5, AccountAndJob
<1> QED
  BY <1>1, <1>2

LEMMA CountKeeps ==
    ASSUME Verified, NEW r \in Requests, CountWrong(r) \/ TimeCounter(r)
    PROVE  Verified'
<1> DEFINE j == [job[r] EXCEPT !.step = "expire"]
<1>1. j \in Jobs
  BY ARequest DEF Jobs, Steps
<1>2. CASE CountWrong(r)
  <2>1. job[r].step = "count" /\ UNCHANGED <<tables, signedIn>>
    BY <1>2 DEF CountWrong, At
  <2>2. JobOK(j)
    BY <2>1, ARequest DEF JobOK, Jobs
  <2>3. job' = [job EXCEPT ![r] = j] \/ job' = [job EXCEPT ![r] = Idle]
    BY <1>2, <2>1, ARequest DEF CountWrong, Verified, Jobs
  <2> QED
    BY <1>1, <2>1, <2>2, <2>3, IdleIsJob, JobOnly
<1>3. CASE TimeCounter(r)
  BY <1>3, EndKeeps DEF TimeCounter
<1> QED
  BY <1>2, <1>3
-----------------------------------------------------------------------------
(* Tokens and passwords *)

LEMMA IssueKeeps ==
    ASSUME Verified, NEW r \in Requests,
           RefreshDelete(r) \/ \E id \in Ids : Issue(r, id)
    PROVE  Verified'
<1>1. CASE RefreshDelete(r)
  <2> DEFINE j == [job[r] EXCEPT !.step = "issue", !.row = Nothing]
  <2>1. j \in Jobs /\ job' = [job EXCEPT ![r] = j] /\ job[r].step = "rotate"
    BY <1>1, ARequest DEF RefreshDelete, At, Jobs, Verified, Steps
  <2>2. JobOK(j)
    BY <2>1, ARequest DEF JobOK, Jobs
  <2>3. tokens' \subseteq tokens /\ UNCHANGED <<account, otps, resets, signedIn>>
    BY <1>1 DEF RefreshDelete
  <2> QED
    BY <2>1, <2>2, <2>3, RowsOnly DEF Verified
<1>2. ASSUME NEW id \in Ids, Issue(r, id) PROVE Verified'
  <2> DEFINE u == job[r].user
  <2>1. u \in Users /\ account[u].verified
    BY <1>2, ARequest DEF Issue, At, JobOK
  <2>2. Token(id, u) \in TokenRows /\ TokenOK(Token(id, u))
    BY <2>1 DEF Token, TokenRows, TokenOK
  <2>3. tokens' = tokens \cup {Token(id, u)} /\ signedIn' = signedIn \cup {u}
        /\ job' = [job EXCEPT ![r] = Idle] /\ UNCHANGED <<account, otps, resets>>
    BY <1>2 DEF Issue, End
  <2>4. /\ tokens' \subseteq TokenRows /\ (\A x \in tokens' : TokenOK(x))
        /\ signedIn' \subseteq Users /\ (\A v \in signedIn' : account[v].verified)
    BY <2>1, <2>2, <2>3 DEF Verified
  <2> QED
    BY <2>3, <2>4, IdleIsJob, RowsOnly DEF Verified
<1> QED
  BY <1>1, <1>2

\* What a request leaves of an account, once it has ended
LEMMA WriteAndEnd ==
    ASSUME Verified, NEW r \in Requests, End(r),
           NEW u \in Users, NEW row \in Accounts, account' = [account EXCEPT ![u] = row],
           account[u].verified => row.verified, row.enabled => row.verified,
           tokens' \subseteq tokens, UNCHANGED <<otps, resets, signedIn>>
    PROVE  Verified'
<1>1. job' = [job EXCEPT ![r] = Idle]
  BY DEF End
<1>2. JobOK(Idle)'
  BY DEF JobOK, Idle
<1> QED
  BY <1>1, <1>2, IdleIsJob, AccountAndJob

LEMMA ChangeKeeps ==
    ASSUME Verified, NEW r \in Requests, NEW pw \in Passwords, ChangeWrite(r, pw)
    PROVE  Verified'
<1> DEFINE u == job[r].user
           row == [account[u] EXCEPT !.password = pw]
<1>1. u \in Users
  BY ARequest DEF ChangeWrite, At
<1>2. /\ account[u] \in Accounts /\ row \in Accounts /\ row.verified = account[u].verified
      /\ row.enabled = account[u].enabled
  BY <1>1 DEF Verified, Accounts
<1>3. /\ account' = [account EXCEPT ![u] = row] /\ tokens' \subseteq tokens
      /\ UNCHANGED <<otps, resets, signedIn>> /\ End(r)
  BY DEF ChangeWrite, Repassword
<1>4. row.enabled => row.verified
  BY <1>1, <1>2 DEF Verified
<1> QED
  BY <1>1, <1>2, <1>3, <1>4, WriteAndEnd

LEMMA TwoFactorKeeps ==
    ASSUME Verified, NEW r \in Requests,
           \/ \E secret \in Secrets : SetupWrite(r, secret)
           \/ EnableWrite(r) \/ DisableWrite(r)
    PROVE  Verified'
<1> DEFINE u == job[r].user
<1>1. u \in Users /\ account[u] \in Accounts /\ job[r] \in Jobs
  BY ARequest DEF SetupWrite, EnableWrite, DisableWrite, At, Verified
<1>2. ASSUME NEW secret \in Secrets, SetupWrite(r, secret) PROVE Verified'
  <2> DEFINE row == [account[u] EXCEPT !.secret = secret,
                        !.enabled = IF job[r].loaded THEN FALSE ELSE @]
  <2>1. row \in Accounts /\ row.verified = account[u].verified
        /\ (row.enabled => account[u].enabled)
    BY <1>1 DEF Accounts
  <2>2. /\ account' = [account EXCEPT ![u] = row] /\ End(r)
        /\ UNCHANGED <<otps, tokens, resets, signedIn>>
    BY <1>1, <1>2 DEF SetupWrite, Verified, Accounts
  <2>3. row.enabled => row.verified
    BY <1>1, <2>1 DEF Verified
  <2> QED
    BY <1>1, <2>1, <2>2, <2>3, WriteAndEnd
<1>3. CASE EnableWrite(r)
  <2> DEFINE row == [account[u] EXCEPT !.enabled = IF job[r].loaded THEN @ ELSE TRUE]
  <2>1. account[u].verified
    BY <1>3, ARequest DEF EnableWrite, At, JobOK
  <2>2. row \in Accounts /\ row.verified = account[u].verified
    BY <1>1 DEF Accounts
  <2>3. /\ account' = [account EXCEPT ![u] = row] /\ End(r)
        /\ UNCHANGED <<otps, tokens, resets, signedIn>>
    BY <1>1, <1>3 DEF EnableWrite
  <2>4. row.verified /\ (account[u].verified => row.verified)
    BY <2>1, <2>2
  <2> QED
    BY <1>1, <2>2, <2>3, <2>4, WriteAndEnd
<1>4. CASE DisableWrite(r)
  <2> DEFINE row == [account[u] EXCEPT !.enabled = IF job[r].loaded THEN FALSE ELSE @,
                        !.secret = IF job[r].row = Nothing THEN @ ELSE Nothing]
  <2>1. row \in Accounts /\ row.verified = account[u].verified
        /\ (row.enabled => account[u].enabled)
    BY <1>1 DEF Accounts
  <2>2. /\ account' = [account EXCEPT ![u] = row] /\ End(r)
        /\ UNCHANGED <<otps, tokens, resets, signedIn>>
    BY <1>1, <1>4 DEF DisableWrite, Verified, Accounts
  <2>3. row.enabled => row.verified
    BY <1>1, <2>1 DEF Verified
  <2> QED
    BY <1>1, <2>1, <2>2, <2>3, WriteAndEnd
<1> QED
  BY <1>2, <1>3, <1>4

LEMMA LinkKeeps ==
    ASSUME Verified, NEW r \in Requests,
           ExchangeCode(r) \/ ExchangeFails(r) \/ LinkAccount(r) \/ LinkConflict(r)
    PROVE  Verified'
<1> DEFINE u == job[r].user
<1>1. u \in Users /\ account[u] \in Accounts /\ job[r] \in Jobs
  BY ARequest DEF ExchangeCode, ExchangeFails, LinkAccount, LinkConflict, At, Verified
<1>2. CASE ExchangeCode(r)
  <2> DEFINE j == [job[r] EXCEPT !.step = "link", !.loaded = Account(r).registered]
  <2>1. j \in Jobs /\ job' = [job EXCEPT ![r] = j] /\ UNCHANGED <<tables, signedIn>>
    BY <1>1, <1>2 DEF ExchangeCode, Account, Accounts, Jobs, Verified, Steps
  <2>2. JobOK(j)
    BY <1>1 DEF JobOK, Jobs
  <2> QED
    BY <2>1, <2>2, JobOnly
<1>3. CASE ExchangeFails(r) \/ LinkConflict(r)
  <2>1. End(r) /\ UNCHANGED <<tables, signedIn>>
    BY <1>3 DEF ExchangeFails, LinkConflict
  <2> QED
    BY <2>1, EndKeeps
<1>4. CASE LinkAccount(r)
  <2> DEFINE row == [account[u] EXCEPT !.registered = TRUE, !.verified = TRUE,
                                       !.google = TRUE]
  <2>1. row \in Accounts /\ row.verified
    BY <1>1 DEF Accounts
  <2>2. account' = [account EXCEPT ![u] = row] /\ UNCHANGED <<otps, tokens, resets, signedIn>>
    BY <1>4 DEF LinkAccount
  <2>3. PICK j \in Jobs : job' = [job EXCEPT ![r] = j]
                          /\ j = [job[r] EXCEPT !.step = "provision"]
    BY <1>4, Onward DEF LinkAccount, Steps
  <2>4. JobOK(j)'
    <3>1. account'[u].verified
      BY <1>1, <2>1, <2>2 DEF Verified
    <3>2. j.user = u /\ j.step = "provision"
      BY <2>3, <1>1 DEF Jobs
    <3> QED
      BY <1>1, <3>1, <3>2 DEF JobOK
  <2> QED
    BY <1>1, <2>1, <2>2, <2>3, <2>4, AccountAndJob
<1> QED
  BY <1>2, <1>3, <1>4

LEMMA ContinueKeeps ==
    ASSUME Verified, NEW r \in Requests, Continue(r)
    PROVE  Verified'
BY SaveKeeps, SelectKeeps, ConsumeKeeps, ConfirmKeeps, CountKeeps, IssueKeeps, ChangeKeeps,
   TwoFactorKeeps, LinkKeeps DEF Continue
-----------------------------------------------------------------------------
(* The handlers *)

LEMMA StartLoginKeeps ==
    ASSUME Verified, NEW r \in Requests, NEW u \in Users, StartLogin(r, u)
    PROVE  Verified'
<1>1. Begin(r, "issue", u) /\ UNCHANGED <<tables, signedIn>>
  BY DEF StartLogin, Login, LoginWithCode
<1>2. account[u].verified
  BY DEF StartLogin, Login, LoginWithCode, Verified
<1>3. "issue" \in Steps
  BY DEF Steps
<1> QED
  BY <1>1, <1>2, <1>3, BeginKeeps

LEMMA StartPasswordKeeps ==
    ASSUME Verified, NEW r \in Requests, NEW u \in Users, StartPassword(r, u)
    PROVE  Verified'
<1>1. ASSUME NEW pw \in Passwords, ChangeRead(r, u, pw) PROVE Verified'
  <2>1. Begin(r, "change", u) /\ UNCHANGED <<tables, signedIn>>
    BY <1>1 DEF ChangeRead
  <2>2. "change" \in Steps /\ "change" # "issue"
    BY DEF Steps
  <2> QED
    BY <2>1, <2>2, BeginKeeps
<1>2. ASSUME NEW id \in Ids, ForgotPassword(u, id) PROVE Verified'
  <2>1. Token(id, u) \in TokenRows
    BY DEF Token, TokenRows
  <2>2. resets' \subseteq TokenRows
    BY <1>2, <2>1 DEF ForgotPassword, Verified
  <2>3. UNCHANGED <<account, otps, tokens, signedIn, job>>
    BY <1>2 DEF ForgotPassword
  <2> QED
    BY <2>2, <2>3, RowsOnly DEF Verified
<1>3. ASSUME NEW x \in resets, NEW pw \in Passwords, ResetPassword(x, pw) PROVE Verified'
  <2> DEFINE v == x.user
             row == [account[v] EXCEPT !.password = pw]
  <2>1. v \in Users
    BY DEF Verified, TokenRows
  <2>2. /\ account[v] \in Accounts /\ row \in Accounts
        /\ row.verified = account[v].verified /\ row.enabled = account[v].enabled
    BY <2>1 DEF Verified, Accounts
  <2>3. /\ account' = [account EXCEPT ![v] = row] /\ tokens' \subseteq tokens
        /\ resets' \subseteq resets /\ UNCHANGED <<otps, signedIn>> /\ UNCHANGED job
    BY <1>3 DEF ResetPassword, Repassword
  <2>4. row.enabled => row.verified
    BY <2>1, <2>2 DEF Verified
  <2> QED
    BY <2>1, <2>2, <2>3, <2>4, AccountOnly
<1> QED
  BY <1>1, <1>2, <1>3 DEF StartPassword

\* A handler that writes a column which has no part in this
LEMMA FlagKeeps ==
    ASSUME Verified, NEW u \in Users, NEW row \in Accounts, UNCHANGED job,
           row.verified = account[u].verified, row.enabled = account[u].enabled,
           account' = [account EXCEPT ![u] = row],
           tokens' \subseteq tokens, UNCHANGED <<otps, resets, signedIn>>
    PROVE  Verified'
<1>1. row.enabled => row.verified
  BY DEF Verified
<1> QED
  BY <1>1, AccountOnly

LEMMA StartTokenKeeps ==
    ASSUME Verified, NEW r \in Requests, NEW u \in Users, StartToken(r, u)
    PROVE  Verified'
<1>1. ASSUME NEW x \in tokens, RefreshRead(r, x) PROVE Verified'
  <2> DEFINE j == [Idle EXCEPT !.step = "rotate", !.user = x.user, !.row = x.id]
  <2>1. x \in TokenRows /\ account[x.user].verified
    BY DEF Verified, TokenOK
  <2>2. j \in Jobs /\ JobOK(j)
    BY <2>1 DEF Idle, Jobs, Steps, Purposes, JobOK, TokenRows
  <2>3. job' = [job EXCEPT ![r] = j] /\ UNCHANGED <<tables, signedIn>>
    BY <1>1 DEF RefreshRead
  <2> QED
    BY <2>2, <2>3, JobOnly
<1>2. ASSUME NEW x \in tokens, Revoke(x) PROVE Verified'
  <2>1. tokens' \subseteq tokens /\ UNCHANGED <<account, otps, resets, signedIn, job>>
    BY <1>2 DEF Revoke
  <2> QED
    BY <2>1, RowsOnly DEF Verified
<1>3. account[u] \in Accounts
  BY DEF Verified
<1>4. CASE DeleteAccount(u)
  <2> DEFINE row == [account[u] EXCEPT !.leaving = TRUE]
  <2>1. /\ row \in Accounts /\ row.verified = account[u].verified
        /\ row.enabled = account[u].enabled
    BY <1>3 DEF Accounts
  <2> QED
    BY <1>4, <2>1, FlagKeeps DEF DeleteAccount
<1>5. CASE CancelDeletion(u)
  <2> DEFINE row == [account[u] EXCEPT !.leaving = FALSE]
  <2>1. /\ row \in Accounts /\ row.verified = account[u].verified
        /\ row.enabled = account[u].enabled
    BY <1>3 DEF Accounts
  <2> QED
    BY <1>5, <2>1, FlagKeeps DEF CancelDeletion
<1>6. CASE Me(u)
  <2> DEFINE row == [account[u] EXCEPT !.merchant = TRUE]
  <2>1. /\ row \in Accounts /\ row.verified = account[u].verified
        /\ row.enabled = account[u].enabled
    BY <1>3 DEF Accounts
  <2> QED
    BY <1>6, <2>1, FlagKeeps DEF Me
<1> QED
  BY <1>1, <1>2, <1>4, <1>5, <1>6 DEF StartToken

LEMMA StartTwoFactorKeeps ==
    ASSUME Verified, NEW r \in Requests, NEW u \in Users, StartTwoFactor(r, u)
    PROVE  Verified'
<1>0. account[u] \in Accounts /\ (Authenticated(u) => account[u].verified)
  BY DEF Verified, Authenticated
<1>1. CASE SetupRead(r, u)
  <2> DEFINE j == [Idle EXCEPT !.step = "setup", !.user = u, !.loaded = account[u].enabled]
  <2>1. j \in Jobs /\ JobOK(j)
    BY <1>0 DEF Idle, Jobs, Steps, Purposes, JobOK, Accounts
  <2>2. job' = [job EXCEPT ![r] = j] /\ UNCHANGED <<tables, signedIn>>
    BY <1>1 DEF SetupRead
  <2> QED
    BY <2>1, <2>2, JobOnly
<1>2. CASE EnableRead(r, u)
  <2> DEFINE j == [Idle EXCEPT !.step = "enable", !.user = u,
                      !.row = account[u].secret, !.loaded = account[u].enabled]
  <2>1. j \in Jobs
    BY <1>0 DEF Idle, Jobs, Steps, Purposes, Accounts
  <2>2. JobOK(j)
    BY <1>0, <1>2 DEF EnableRead, Idle, JobOK
  <2>3. job' = [job EXCEPT ![r] = j] /\ UNCHANGED <<tables, signedIn>>
    BY <1>2 DEF EnableRead
  <2> QED
    BY <2>1, <2>2, <2>3, JobOnly
<1>3. ASSUME NEW pw \in Passwords, DisableRead(r, u, pw) PROVE Verified'
  <2> DEFINE j == [Idle EXCEPT !.step = "disable", !.user = u,
                      !.row = account[u].secret, !.loaded = account[u].enabled]
  <2>1. j \in Jobs /\ JobOK(j)
    BY <1>0 DEF Idle, Jobs, Steps, Purposes, Accounts, JobOK
  <2>2. job' = [job EXCEPT ![r] = j] /\ UNCHANGED <<tables, signedIn>>
    BY <1>3 DEF DisableRead
  <2> QED
    BY <2>1, <2>2, JobOnly
<1> QED
  BY <1>1, <1>2, <1>3 DEF StartTwoFactor

\* A step that touches the shared store only
LEMMA StoreOnly ==
    ASSUME Verified, UNCHANGED <<account, otps, tokens, resets, signedIn, job>>
    PROVE  Verified'
BY RowsOnly DEF Verified

LEMMA StartGoogleKeeps ==
    ASSUME Verified, NEW r \in Requests, NEW u \in Users, StartGoogle(r, u)
    PROVE  Verified'
<1>1. ASSUME NEW s \in States, GoogleLogin(r, s) PROVE Verified'
  BY <1>1, StoreOnly DEF GoogleLogin, tables
<1>2. ASSUME NEW s \in States, Callback(r, s, u) PROVE Verified'
  <2>1. Begin(r, "exchange", u) /\ UNCHANGED <<tables, signedIn>>
    BY <1>2 DEF Callback
  <2>2. "exchange" \in Steps /\ "exchange" # "issue"
    BY DEF Steps
  <2> QED
    BY <2>1, <2>2, BeginKeeps
<1> QED
  BY <1>1, <1>2 DEF StartGoogle

LEMMA AgeingKeeps == Verified /\ Ageing => Verified'
<1> SUFFICES ASSUME Verified, Ageing PROVE Verified'
  OBVIOUS
<1>1. ASSUME NEW x \in otps, CodeAges(x) PROVE Verified'
  <2> DEFINE y == [x EXCEPT !.stale = TRUE]
  <2>1. y \in CodeRows /\ CodeOK(y)
    BY DEF Verified, CodeRows, CodeOK
  <2>2. otps' = (otps \ {x}) \cup {y} /\ UNCHANGED <<account, tokens, resets, signedIn, job>>
    BY <1>1 DEF CodeAges, Aged
  <2>3. otps' \subseteq CodeRows /\ \A z \in otps' : CodeOK(z)
    BY <2>1, <2>2 DEF Verified
  <2> QED
    BY <2>2, <2>3, RowsOnly DEF Verified
<1>2. ASSUME NEW x \in tokens, TokenAges(x) PROVE Verified'
  <2> DEFINE y == [x EXCEPT !.stale = TRUE]
  <2>1. y \in TokenRows /\ TokenOK(y)
    BY DEF Verified, TokenRows, TokenOK
  <2>2. tokens' = (tokens \ {x}) \cup {y} /\ UNCHANGED <<account, otps, resets, signedIn, job>>
    BY <1>2 DEF TokenAges, Aged
  <2>3. tokens' \subseteq TokenRows /\ \A z \in tokens' : TokenOK(z)
    BY <2>1, <2>2 DEF Verified
  <2> QED
    BY <2>2, <2>3, RowsOnly DEF Verified
<1>3. ASSUME NEW x \in resets, LinkAges(x) PROVE Verified'
  <2> DEFINE y == [x EXCEPT !.stale = TRUE]
  <2>1. y \in TokenRows
    BY DEF Verified, TokenRows
  <2>2. resets' = (resets \ {x}) \cup {y} /\ UNCHANGED <<account, otps, tokens, signedIn, job>>
    BY <1>3 DEF LinkAges, Aged
  <2>3. resets' \subseteq TokenRows
    BY <2>1, <2>2 DEF Verified
  <2> QED
    BY <2>2, <2>3, RowsOnly DEF Verified
<1>4. ASSUME NEW k, KeyLapses(k) PROVE Verified'
  BY <1>4, StoreOnly DEF KeyLapses, tables
<1> QED
  BY <1>1, <1>2, <1>3, <1>4 DEF Ageing
-----------------------------------------------------------------------------
LEMMA InitHolds == SessionsInit => Verified
<1> SUFFICES ASSUME SessionsInit PROVE Verified
  OBVIOUS
<1>1. NoAccount \in Accounts /\ ~NoAccount.enabled
  BY DEF NoAccount, Accounts
<1>2. ASSUME NEW pw \in Passwords PROVE Invited(pw) \in Accounts /\ ~Invited(pw).enabled
  BY DEF Invited, NoAccount, Accounts
<1>3. ASSUME NEW u \in Users PROVE account[u] \in Accounts /\ ~account[u].enabled
  <2>1. account[u] = NoAccount \/ \E pw \in Passwords : account[u] = Invited(pw)
    BY DEF SessionsInit
  <2> QED
    BY <1>1, <1>2, <2>1
<1>4. account \in [Users -> Accounts]
  BY <1>3 DEF SessionsInit
<1>5. job \in [Requests -> Jobs] /\ \A r \in Requests : JobOK(job[r])
  BY IdleIsJob DEF SessionsInit
<1>6. otps = {} /\ tokens = {} /\ resets = {} /\ signedIn = {}
  BY DEF SessionsInit
<1> QED
  BY <1>3, <1>4, <1>5, <1>6 DEF Verified

LEMMA NextHolds == Verified /\ [SessionsNext]_sessionVars => Verified'
<1> SUFFICES ASSUME Verified, [SessionsNext]_sessionVars PROVE Verified'
  OBVIOUS
<1>1. ASSUME NEW r \in Requests, NEW u \in Users, Start(r, u) PROVE Verified'
  BY <1>1, StartCodeKeeps, StartLoginKeeps, StartPasswordKeeps, StartTokenKeeps,
     StartTwoFactorKeeps, StartGoogleKeeps DEF Start
<1>2. CASE UNCHANGED sessionVars
  BY <1>2, StoreOnly DEF sessionVars
<1> QED
  BY <1>1, <1>2, AgeingKeeps, ContinueKeeps DEF SessionsNext

\* What an account, a code or a request under way holds of a confirmed
\* address, however the requests interleave
THEOREM SessionsInvariant == SessionsSpec => []Verified
BY InitHolds, NextHolds, PTL DEF SessionsSpec

\* A refresh token is of an account whose address was confirmed (auth.py:302,
\* 337, 368).
THEOREM TokensVerified == SessionsSpec => []TokensOnlyForVerified
<1>1. Verified => TokensOnlyForVerified
  BY DEF Verified, TokensOnlyForVerified, TokenOK
<1> QED
  BY <1>1, SessionsInvariant, PTL
-----------------------------------------------------------------------------
(* What signing in keeps in the shared store *)

\* The steps of a request that has passed the test of its attempts and has
\* not counted a wrong code
Verifying == {"select", "consume", "consumed", "count"}

Others(r) == \A o \in Requests \ {r} : job'[o] = job[o]

\* A step that touches neither the store nor a counter in sight
Moves(r) ==
    /\ UNCHANGED <<storeVars, oauth, proven>> /\ Others(r)
    /\ job[r].step # "expire" /\ job'[r].step \notin {"expire", "enable"}
    /\ job'[r].step \in Verifying =>
          /\ job[r].step \in Verifying
          /\ job'[r].user = job[r].user /\ job'[r].purpose = job[r].purpose

LEMMA IdleMoves ==
    ASSUME Verified, NEW r \in Requests, job' = [job EXCEPT ![r] = Idle],
           job[r].step # "expire", UNCHANGED <<storeVars, oauth, proven>>
    PROVE  Moves(r)
BY DEF Verified, Moves, Others, Verifying, Idle

\* A request starts, and knows nothing but its user.
LEMMA StartMoves ==
    ASSUME Verified, NEW r \in Requests, job[r] = Idle, NEW j \in Jobs,
           job' = [job EXCEPT ![r] = j], j.step \notin Verifying \cup {"expire", "enable"},
           UNCHANGED <<storeVars, oauth, proven>>
    PROVE  Moves(r)
BY DEF Verified, Moves, Others, Verifying, Idle

\* A request goes on, perhaps with what it has read.
LEMMA NextMoves ==
    ASSUME Verified, NEW r \in Requests, NEW j \in Jobs, job' = [job EXCEPT ![r] = j],
           j.user = job[r].user, j.purpose = job[r].purpose, job[r].step # "expire",
           j.step \notin {"expire", "enable"},
           j.step \in Verifying => job[r].step \in Verifying,
           UNCHANGED <<storeVars, oauth, proven>>
    PROVE  Moves(r)
BY DEF Verified, Moves, Others, Verifying

LEMMA GoOnMoves ==
    ASSUME Verified, NEW r \in Requests, NEW step \in Steps, GoOn(r, step),
           job[r].step # "expire", step \notin {"expire", "enable"},
           step \in Verifying => job[r].step \in Verifying,
           UNCHANGED <<storeVars, oauth, proven>>
    PROVE  Moves(r)
<1> DEFINE j == [job[r] EXCEPT !.step = step]
<1>1. j \in Jobs /\ job' = [job EXCEPT ![r] = j]
  BY Onward
<1>2. j.user = job[r].user /\ j.purpose = job[r].purpose /\ j.step = step
  BY ARequest DEF Jobs
<1> QED
  BY <1>1, <1>2, NextMoves

\* The steps that do more, each by its name
Touches(r) ==
    \/ \E u \in Users, p \in Purposes : VerifyStart(r, u, p)
    \/ \E u \in Users : EnableRead(r, u)
    \/ EnableWrite(r) \/ VerifyDone(r) \/ CountWrong(r) \/ TimeCounter(r)
    \/ \E s \in States : GoogleLogin(r, s) \/ \E u \in Users : Callback(r, s, u)

Rests == UNCHANGED <<storeVars, oauth, proven, job>>

LEMMA CodesMove ==
    ASSUME Verified, NEW r \in Requests,
           \/ SaveDelete(r) \/ \E id \in Ids : SaveInsert(r, id)
           \/ VerifyWrong(r) \/ \E x \in otps : VerifyStale(r, x) \/ VerifyMatches(r, x)
           \/ Consume(r) \/ LoginDenied(r) \/ Confirm(r) \/ Provision(r)
    PROVE  Moves(r)
<1>0. job[r] \in Jobs /\ job \in [Requests -> Jobs]
  BY ARequest DEF Verified
<1>1. CASE SaveDelete(r)
  <2> DEFINE j == [job[r] EXCEPT !.step = "insert",
                      !.rows = {x.id : x \in CodesFor(job[r].user, job[r].purpose)}]
  <2>1. {x.id : x \in CodesFor(job[r].user, job[r].purpose)} \in SUBSET Ids
    BY DEF CodesFor, Verified, CodeRows
  <2>2. j \in Jobs /\ job' = [job EXCEPT ![r] = j] /\ job[r].step = "save"
    BY <1>0, <1>1, <2>1 DEF SaveDelete, At, Jobs, Steps
  <2>3. j.user = job[r].user /\ j.purpose = job[r].purpose /\ j.step = "insert"
    BY <1>0 DEF Jobs
  <2> QED
    BY <1>1, <2>2, <2>3, NextMoves DEF SaveDelete, Verifying
<1>2. ASSUME NEW id \in Ids, SaveInsert(r, id) PROVE Moves(r)
  BY <1>2, IdleMoves DEF SaveInsert, End, At
<1>3. CASE VerifyWrong(r) \/ LoginDenied(r) \/ \E x \in otps : VerifyStale(r, x)
  <2>1. GoOn(r, "count") /\ job[r].step \in {"select", "consumed"}
        /\ UNCHANGED <<storeVars, oauth, proven>>
    BY <1>3 DEF VerifyWrong, LoginDenied, VerifyStale, At
  <2> QED
    BY <2>1, InSteps, GoOnMoves DEF Verifying
<1>4. ASSUME NEW x \in otps, VerifyMatches(r, x) PROVE Moves(r)
  <2> DEFINE j == [job[r] EXCEPT !.step = "consume", !.row = x.id]
  <2>1. x.id \in Ids
    BY DEF Verified, CodeRows
  <2>2. j \in Jobs /\ job' = [job EXCEPT ![r] = j] /\ job[r].step = "select"
    BY <1>0, <1>4, <2>1 DEF VerifyMatches, At, Jobs, Steps
  <2>3. j.user = job[r].user /\ j.purpose = job[r].purpose /\ j.step = "consume"
    BY <1>0 DEF Jobs
  <2> QED
    BY <1>4, <2>2, <2>3, NextMoves DEF VerifyMatches, Verifying
<1>5. CASE Consume(r)
  <2> DEFINE j == [job[r] EXCEPT !.step = "consumed", !.row = Nothing]
  <2>1. j \in Jobs /\ job' = [job EXCEPT ![r] = j] /\ job[r].step = "consume"
    BY <1>0, <1>5 DEF Consume, At, Jobs, Steps
  <2>2. j.user = job[r].user /\ j.purpose = job[r].purpose /\ j.step = "consumed"
    BY <1>0 DEF Jobs
  <2> QED
    BY <1>5, <2>1, <2>2, NextMoves DEF Consume, Verifying
<1>6. CASE Confirm(r) \/ Provision(r)
  <2>1. \E step \in {"provision", "issue"} : GoOn(r, step)
    BY <1>6 DEF Confirm, Provision
  <2>2. job[r].step # "expire" /\ UNCHANGED <<storeVars, oauth, proven>>
    BY <1>6 DEF Confirm, Provision, At
  <2> QED
    BY <2>1, <2>2, GoOnMoves DEF Verifying, Steps
<1> QED
  BY <1>1, <1>2, <1>3, <1>4, <1>5, <1>6

LEMMA OthersMove ==
    ASSUME Verified, NEW r \in Requests,
           \/ \E id \in Ids : Issue(r, id)
           \/ RefreshDelete(r) \/ \E pw \in Passwords : ChangeWrite(r, pw)
           \/ \E secret \in Secrets : SetupWrite(r, secret)
           \/ DisableWrite(r)
           \/ ExchangeCode(r) \/ ExchangeFails(r) \/ LinkAccount(r) \/ LinkConflict(r)
    PROVE  Moves(r)
<1>0. job[r] \in Jobs /\ job \in [Requests -> Jobs]
  BY ARequest DEF Verified
<1>1. CASE \/ \E id \in Ids : Issue(r, id)
           \/ \E pw \in Passwords : ChangeWrite(r, pw)
           \/ \E secret \in Secrets : SetupWrite(r, secret)
           \/ DisableWrite(r) \/ ExchangeFails(r) \/ LinkConflict(r)
  <2>1. End(r) /\ UNCHANGED <<storeVars, oauth, proven>> /\ job[r].step # "expire"
    BY <1>1 DEF Issue, ChangeWrite, SetupWrite, DisableWrite, ExchangeFails, LinkConflict, At
  <2> QED
    BY <2>1, IdleMoves DEF End
<1>2. CASE RefreshDelete(r)
  <2> DEFINE j == [job[r] EXCEPT !.step = "issue", !.row = Nothing]
  <2>1. j \in Jobs /\ job' = [job EXCEPT ![r] = j] /\ job[r].step = "rotate"
    BY <1>0, <1>2 DEF RefreshDelete, At, Jobs, Steps
  <2>2. j.user = job[r].user /\ j.purpose = job[r].purpose /\ j.step = "issue"
    BY <1>0 DEF Jobs
  <2> QED
    BY <1>2, <2>1, <2>2, NextMoves DEF RefreshDelete, Verifying
<1>3. CASE ExchangeCode(r)
  <2> DEFINE j == [job[r] EXCEPT !.step = "link", !.loaded = Account(r).registered]
  <2>1. job[r].step = "exchange" /\ job[r].user \in Users
    BY <1>3, ARequest DEF ExchangeCode, At
  <2>2. j \in Jobs /\ job' = [job EXCEPT ![r] = j]
    BY <1>0, <1>3, <2>1 DEF ExchangeCode, Jobs, Steps, Account, Verified, Accounts
  <2>3. j.user = job[r].user /\ j.purpose = job[r].purpose /\ j.step = "link"
    BY <1>0 DEF Jobs
  <2> QED
    BY <1>3, <2>1, <2>2, <2>3, NextMoves DEF ExchangeCode, Verifying
<1>4. CASE LinkAccount(r)
  <2>1. GoOn(r, "provision") /\ job[r].step # "expire" /\ UNCHANGED <<storeVars, oauth, proven>>
    BY <1>4 DEF LinkAccount, At
  <2> QED
    BY <2>1, GoOnMoves DEF Verifying, Steps
<1> QED
  BY <1>1, <1>2, <1>3, <1>4

LEMMA StartsMove ==
    ASSUME Verified, NEW r \in Requests, NEW u \in Users, Start(r, u)
    PROVE  Rests \/ Moves(r) \/ Touches(r)
<1>1. CASE \E pw \in Passwords : Register(r, u, pw)
  <2> DEFINE j == [Idle EXCEPT !.step = "save", !.user = u, !.purpose = "verification"]
  <2>1. j \in Jobs /\ j.step = "save"
    BY DEF Idle, Jobs, Steps, Purposes
  <2> QED
    BY <1>1, <2>1, StartMoves DEF Register, Verifying
<1>2. ASSUME NEW p \in Purposes, ResendOtp(r, u, p) PROVE Moves(r)
  <2> DEFINE j == [Idle EXCEPT !.step = "save", !.user = u, !.purpose = p]
  <2>1. j \in Jobs /\ j.step = "save"
    BY DEF Idle, Jobs, Steps
  <2> QED
    BY <1>2, <2>1, StartMoves DEF ResendOtp, Verifying
<1>3. CASE StartLogin(r, u) \/ \E pw \in Passwords : ChangeRead(r, u, pw)
  <2>1. PICK step \in {"issue", "change"} : Begin(r, step, u)
    BY <1>3 DEF StartLogin, Login, LoginWithCode, ChangeRead
  <2> DEFINE j == [Idle EXCEPT !.step = step, !.user = u]
  <2>2. j \in Jobs /\ j.step = step
    BY DEF Idle, Jobs, Steps, Purposes
  <2>3. UNCHANGED <<storeVars, oauth, proven>>
    BY <1>3 DEF StartLogin, Login, LoginWithCode, ChangeRead
  <2> QED
    BY <2>1, <2>2, <2>3, StartMoves DEF Begin, Verifying
<1>4. CASE \/ \E id \in Ids : ForgotPassword(u, id)
           \/ \E x \in resets, pw \in Passwords : ResetPassword(x, pw)
           \/ \E x \in tokens : Revoke(x)
           \/ DeleteAccount(u) \/ CancelDeletion(u) \/ Me(u)
  BY <1>4 DEF ForgotPassword, ResetPassword, Revoke, DeleteAccount, CancelDeletion, Me, Rests
<1>5. ASSUME NEW x \in tokens, RefreshRead(r, x) PROVE Moves(r)
  <2> DEFINE j == [Idle EXCEPT !.step = "rotate", !.user = x.user, !.row = x.id]
  <2>1. j \in Jobs /\ j.step = "rotate"
    BY DEF Idle, Jobs, Steps, Purposes, Verified, TokenRows
  <2> QED
    BY <1>5, <2>1, StartMoves DEF RefreshRead, Verifying
<1>6. CASE SetupRead(r, u)
  <2> DEFINE j == [Idle EXCEPT !.step = "setup", !.user = u, !.loaded = account[u].enabled]
  <2>1. j \in Jobs /\ j.step = "setup"
    BY DEF Idle, Jobs, Steps, Purposes, Verified, Accounts
  <2> QED
    BY <1>6, <2>1, StartMoves DEF SetupRead, Verifying
<1>7. CASE \E pw \in Passwords : DisableRead(r, u, pw)
  <2> DEFINE j == [Idle EXCEPT !.step = "disable", !.user = u,
                      !.row = account[u].secret, !.loaded = account[u].enabled]
  <2>1. j \in Jobs /\ j.step = "disable"
    BY DEF Idle, Jobs, Steps, Purposes, Verified, Accounts
  <2> QED
    BY <1>7, <2>1, StartMoves DEF DisableRead, Verifying
<1> QED
  BY <1>1, <1>2, <1>3, <1>4, <1>5, <1>6, <1>7
  DEF Start, StartCode, StartLogin, StartPassword, StartToken, StartTwoFactor,
      StartGoogle, Touches

LEMMA StepKinds ==
    ASSUME Verified, [SessionsNext]_sessionVars
    PROVE  \/ Rests
           \/ \E r \in Requests : Moves(r) \/ Touches(r)
           \/ \E k \in AttemptsKeys \cup {StateKey(s) : s \in States} : KeyLapses(k)
<1>1. CASE UNCHANGED sessionVars
  BY <1>1 DEF sessionVars, Rests
<1>2. ASSUME NEW r \in Requests, Continue(r) PROVE Moves(r) \/ Touches(r)
  BY <1>2, CodesMove, OthersMove DEF Continue, Touches
<1>3. CASE Ageing
  BY <1>3 DEF Ageing, CodeAges, TokenAges, LinkAges, Rests
<1> QED
  BY <1>1, <1>2, <1>3, StartsMove DEF SessionsNext
-----------------------------------------------------------------------------
(* Entries of the store *)

Attempts == AttemptsEntries \cup {Absent}
Origins == StateEntries \cup {Absent}
StateKeys == {StateKey(s) : s \in States}

StoreOK ==
    /\ StoreShape
    /\ \A k \in AttemptsKeys : Holds(k, Attempts)
    /\ \A k \in StateKeys : Holds(k, Origins)

\* The keys of different subjects are different.
LEMMA SessionKeys ==
    /\ \A k \in AttemptsKeys, s \in States : k # StateKey(s) /\ k \in Keys /\ StateKey(s) \in Keys
    /\ \A s, t \in States : StateKey(s) = StateKey(t) => s = t
    /\ \A u \in Users, p \in Purposes : AttemptsKey(u, p) \in AttemptsKeys
    /\ AttemptsKeys \cap StateKeys = {} /\ AttemptsKeys \cup StateKeys \subseteq Keys
<1>1. ASSUME NEW u, NEW p, NEW s PROVE AttemptsKey(u, p) # StateKey(s)
  <2>1. AttemptsKey(u, p)[1] = "otp-attempts" /\ StateKey(s)[1] = "oauth-state"
    BY DEF AttemptsKey, StateKey
  <2> QED
    BY <2>1
<1>2. \A s, t \in States : StateKey(s) = StateKey(t) => s = t
  <2>1. \A s \in States : StateKey(s)[2] = s
    BY DEF StateKey
  <2> QED
    BY <2>1
<1> QED
  BY <1>1, <1>2, SessionsAssumption DEF AttemptsKeys, StateKeys

LEMMA BoundIsNat == CountBound \in Nat /\ Cardinality(Requests) \in Nat /\ MaxAttempts \in Nat
                    /\ CountBound = MaxAttempts + Cardinality(Requests) /\ 1 <= MaxAttempts
BY SessionsAssumption, FS_CardinalityType DEF CountBound

LEMMA AbsentIsNoCount == Absent \notin AttemptsEntries
BY SessionsAssumption DEF AttemptsEntries, CountBound

LEMMA CountingAttempts ==
    ASSUME NEW e \in Attempts
    PROVE  /\ CountOf(e) \in 0 .. CountBound
           /\ e # Absent => CountOf(e) = e.val /\ e \in AttemptsEntries
           /\ CountOf(e) < CountBound =>
                 /\ Incremented(e) \in AttemptsEntries
                 /\ IncrementedInMemory(e) \in AttemptsEntries
           /\ Incremented(e).val = CountOf(e) + 1
           /\ IncrementedInMemory(e).val = CountOf(e) + 1
           /\ e = Absent => ~Incremented(e).expires /\ IncrementedInMemory(e).expires
           /\ e # Absent => /\ Incremented(e).expires = e.expires
                            /\ IncrementedInMemory(e).expires = e.expires
<1>1. CASE e = Absent
  BY <1>1, BoundIsNat
     DEF CountOf, Incremented, IncrementedInMemory, Lasting, Expiring, AttemptsEntries
<1>2. CASE e # Absent
  <2>1. e \in AttemptsEntries
    BY <1>2 DEF Attempts
  <2> QED
    BY <1>2, <2>1, BoundIsNat DEF CountOf, Incremented, IncrementedInMemory, AttemptsEntries
<1> QED
  BY <1>1, <1>2

LEMMA TimingAttempts ==
    ASSUME NEW e \in Attempts
    PROVE  /\ Timed(e) \in Attempts
           /\ CountOf(Timed(e)) = CountOf(e)
           /\ Timed(e) # Absent => Timed(e).expires
<1>1. CASE e = Absent
  BY <1>1 DEF Timed, Attempts
<1>2. CASE e # Absent
  <2>1. e \in AttemptsEntries /\ Timed(e) = [e EXCEPT !.expires = TRUE]
    BY <1>2 DEF Attempts, Timed
  <2>2. Timed(e) \in AttemptsEntries /\ Timed(e).val = e.val /\ Timed(e).expires
    BY <2>1 DEF AttemptsEntries
  <2> QED
    BY <1>2, <2>2, AbsentIsNoCount DEF Attempts, CountOf
<1> QED
  BY <1>1, <1>2

\* A call on a key with entries of its kind
LEMMA WriteStored ==
    ASSUME StoreOK, NEW p \in Processes, NEW k \in AttemptsKeys \cup StateKeys, NEW route,
           NEW r, NEW m, Write(p, k, route, r, m),
           k \in AttemptsKeys => r \in Attempts /\ m \in Attempts,
           k \in StateKeys => r \in Origins /\ m \in Origins
    PROVE  StoreOK'
<1>0. StoreShape /\ k \in Keys /\ AttemptsKeys \cup StateKeys \subseteq Keys
  BY SessionKeys DEF StoreOK
<1>1. StoreShape'
  BY <1>0, WriteShape
<1>2. ASSUME NEW j \in AttemptsKeys \cup StateKeys, NEW S, Holds(j, S), j = k => r \in S /\ m \in S
      PROVE  Holds(j, S)'
  <2>1. CASE j = k
    BY <1>0, <1>2, <2>1, WriteHolds
  <2>2. CASE j # k
    BY <1>0, <1>2, <2>2, WriteKeepsOthers DEF Holds
  <2> QED
    BY <2>1, <2>2
<1>3. \A j \in AttemptsKeys : Holds(j, Attempts)'
  BY <1>2 DEF StoreOK
<1>4. \A j \in StateKeys : Holds(j, Origins)'
  BY <1>2 DEF StoreOK
<1> QED
  BY <1>1, <1>3, <1>4 DEF StoreOK, Holds, AttemptsKeys, StateKeys

LEMMA LapseStored ==
    ASSUME StoreOK, NEW k \in AttemptsKeys \cup StateKeys, Lapse(k)
    PROVE  StoreOK'
<1>1. StoreShape /\ k \in Keys /\ AttemptsKeys \cup StateKeys \subseteq Keys
  BY SessionKeys DEF StoreOK
<1>2. /\ StoreShape'
      /\ \A j \in Keys : redis'[j] \in {redis[j], Absent}
      /\ \A o \in Processes, j \in Keys : memory'[o][j] \in {memory[o][j], Absent}
  BY <1>1, LapseWrites
<1>3. \A j \in AttemptsKeys : Holds(j, Attempts)'
  BY <1>1, <1>2 DEF StoreOK, Holds, Attempts
<1>4. \A j \in StateKeys : Holds(j, Origins)'
  BY <1>1, <1>2 DEF StoreOK, Holds, Origins
<1> QED
  BY <1>2, <1>3, <1>4 DEF StoreOK, Holds, AttemptsKeys, StateKeys

\* What a request finds under a key, and the one entry there is
LEMMA StoredEntries ==
    ASSUME StoreOK, NEW p \in Processes, NEW k \in AttemptsKeys
    PROVE  /\ redis[k] \in Attempts /\ memory[p][k] \in Attempts
           /\ Entry(k) \in Attempts
           /\ k \in Keys /\ StoreShape
<1>1. redis[k] \in Attempts /\ \A o \in Processes : memory[o][k] \in Attempts
  BY DEF StoreOK, Holds
<1>2. (CHOOSE o \in Processes : TRUE) \in Processes
  OBVIOUS
<1> QED
  BY <1>1, <1>2, SessionKeys DEF StoreOK, Entry
-----------------------------------------------------------------------------
(* The counters and the states of a sound store *)

KeyOf(r) == AttemptsKey(job[r].user, job[r].purpose)

\* Those that may still count a wrong code under the key k
InFlight(k) == {r \in Requests : job[r].step \in Verifying /\ KeyOf(r) = k}

\* A request passes the test below the limit: from there on the counter and
\* those that may still count have room for all requests but one.
WithinLimit ==
    \A k \in AttemptsKeys :
        CountOf(Entry(k)) + Cardinality(InFlight(k)) <= MaxAttempts - 1 + Cardinality(Requests)

\* A dictionary gives its counters a time to live at once.
BeingTimed ==
    /\ \A k \in AttemptsKeys :
          Entry(k) # Absent /\ ~Entry(k).expires =>
              link = "up" /\ \E r \in Requests : At(r, "expire") /\ KeyOf(r) = k
    /\ link = "down" => \A r \in Requests : ~At(r, "expire")

\* A state is under its key from when it is given out until it is taken.
TakenOnce ==
    \A s \in States : /\ oauth[s] # "reused"
                      /\ Entry(StateKey(s)) # Absent => oauth[s] = "given"

Guard == WithinLimit /\ BeingTimed /\ TakenOnce

RestOK ==
    /\ oauth \in [States -> {"new", "given", "used", "reused"}]
    /\ proven \in [Users -> Secrets \cup {Nothing}]
    /\ \A r \in Requests : At(r, "enable") => job[r].row \in Secrets

SessionsIInv == Verified /\ StoreOK /\ RestOK /\ (Sound => Guard)

LEMMA Crowd ==
    ASSUME NEW T \in SUBSET Requests
    PROVE  /\ Cardinality(T) \in Nat /\ Cardinality(T) <= Cardinality(Requests)
           /\ \A S \in SUBSET T : Cardinality(S) <= Cardinality(T)
           /\ \A r \in T : \A S \in SUBSET (T \ {r}) : Cardinality(S) <= Cardinality(T) - 1
<1>1. IsFiniteSet(T) /\ Cardinality(T) <= Cardinality(Requests)
  BY SessionsAssumption, FS_Subset
<1>2. \A S \in SUBSET T : Cardinality(S) <= Cardinality(T)
  BY <1>1, FS_Subset
<1>3. ASSUME NEW r \in T, NEW S \in SUBSET (T \ {r})
      PROVE  Cardinality(S) <= Cardinality(T) - 1
  <2>1. IsFiniteSet(T \ {r}) /\ Cardinality(T \ {r}) = Cardinality(T) - 1
    BY <1>1, FS_RemoveElement
  <2> QED
    BY <2>1, FS_Subset
<1> QED
  BY <1>1, <1>2, <1>3, FS_CardinalityType

LEMMA SoundEntry ==
    ASSUME StoreOK, Sound, NEW k \in AttemptsKeys
    PROVE  Entry(k) \in Attempts
<1>1. CASE link = "up"
  BY <1>1 DEF StoreOK, Holds, Entry
<1>2. CASE link # "up"
  BY <1>2, StoredEntries DEF Sound
<1> QED
  BY <1>1, <1>2

\* A key under which as many may count after a step, and as much is counted
LEMMA NoMoreCounted ==
    ASSUME NEW k, StoreOK, Sound, WithinLimit, k \in AttemptsKeys,
           CountOf(Entry(k)') <= CountOf(Entry(k)), CountOf(Entry(k)') \in Nat,
           InFlight(k)' \subseteq InFlight(k)
    PROVE  CountOf(Entry(k)') + Cardinality(InFlight(k)')
              <= MaxAttempts - 1 + Cardinality(Requests)
<1>1. InFlight(k) \in SUBSET Requests /\ InFlight(k)' \in SUBSET InFlight(k)
  BY DEF InFlight
<1>2. /\ Cardinality(InFlight(k)) \in Nat /\ Cardinality(InFlight(k)') \in Nat
      /\ Cardinality(InFlight(k)') <= Cardinality(InFlight(k))
  BY <1>1, Crowd
<1>3. CountOf(Entry(k)) + Cardinality(InFlight(k)) <= MaxAttempts - 1 + Cardinality(Requests)
  BY DEF WithinLimit
<1>4. CountOf(Entry(k)) \in Nat
  <2>1. Entry(k) \in Attempts
    BY SoundEntry
  <2> QED
    BY <2>1, CountingAttempts
<1> QED
  BY <1>2, <1>3, <1>4, BoundIsNat

\* A request that counts nothing
Quiet(r) ==
    /\ Others(r) /\ job[r].step # "expire" /\ job'[r].step # "expire"
    /\ job'[r].step \in Verifying =>
          /\ job[r].step \in Verifying
          /\ job'[r].user = job[r].user /\ job'[r].purpose = job[r].purpose

\* ... and leaves the counters alone
LEMMA QuietCounters ==
    ASSUME StoreOK, Sound, Guard, NEW r \in Requests, UNCHANGED job \/ Quiet(r),
           link' = link, \A k \in AttemptsKeys : Entry(k)' = Entry(k)
    PROVE  WithinLimit' /\ BeingTimed'
<1>1. \A q \in Requests : job'[q] = job[q] \/ (q = r /\ Quiet(r))
  BY DEF Others, Quiet
<1>2. WithinLimit'
  <2> SUFFICES ASSUME NEW k \in AttemptsKeys
               PROVE  CountOf(Entry(k)') + Cardinality(InFlight(k)')
                         <= MaxAttempts - 1 + Cardinality(Requests)
    BY DEF WithinLimit, CountOf, AttemptsKeys
  <2>1. CountOf(Entry(k)') = CountOf(Entry(k)) /\ CountOf(Entry(k)) \in 0 .. CountBound
    BY SoundEntry, CountingAttempts
  <2>2. InFlight(k)' \subseteq InFlight(k)
    BY <1>1 DEF InFlight, KeyOf, Quiet
  <2> QED
    BY <2>1, <2>2, NoMoreCounted, BoundIsNat DEF Guard
<1>3. ASSUME NEW k \in AttemptsKeys, Entry(k)' # Absent, ~Entry(k)'.expires
      PROVE  link' = "up" /\ \E q \in Requests : At(q, "expire")' /\ KeyOf(q)' = k
  <2>1. PICK q \in Requests : At(q, "expire") /\ KeyOf(q) = k /\ link = "up"
    BY <1>3 DEF Guard, BeingTimed
  <2>2. job'[q] = job[q]
    BY <1>1, <2>1 DEF At, Quiet
  <2> QED
    BY <2>1, <2>2 DEF At, KeyOf
<1>4. link' = "down" => \A q \in Requests : ~At(q, "expire")'
  BY <1>1 DEF Guard, BeingTimed, At, Quiet
<1>5. BeingTimed'
  BY <1>3, <1>4 DEF BeingTimed, AttemptsKeys
<1> QED
  BY <1>2, <1>5

\* ... and the states too
LEMMA QuietKeeps ==
    ASSUME StoreOK, Sound => Guard, NEW r \in Requests, UNCHANGED job \/ Quiet(r),
           UNCHANGED <<storeVars, oauth>>
    PROVE  Sound' => Guard'
<1> SUFFICES ASSUME Sound' PROVE Guard'
  OBVIOUS
<1>1. Sound /\ Guard /\ link' = link /\ \A k : Entry(k)' = Entry(k)
  BY SoundStays DEF storeVars, Entry
<1>2. WithinLimit' /\ BeingTimed'
  BY <1>1, QuietCounters
<1>3. TakenOnce'
  BY <1>1 DEF Guard, TakenOnce
<1> QED
  BY <1>2, <1>3 DEF Guard

LEMMA LapseGuards ==
    ASSUME StoreOK, Sound => Guard, NEW k \in AttemptsKeys \cup StateKeys, KeyLapses(k)
    PROVE  Sound' => Guard'
<1> SUFFICES ASSUME Sound' PROVE Guard'
  OBVIOUS
<1>1. /\ StoreShape /\ k \in Keys /\ AttemptsKeys \cup StateKeys \subseteq Keys
      /\ link' = link /\ job' = job /\ oauth' = oauth
  BY SessionKeys, LapseWrites DEF StoreOK, KeyLapses
<1>2. Sound /\ Guard
  BY <1>1, SoundStays
<1>3. \A j \in AttemptsKeys \cup StateKeys : Entry(j)' \in {Entry(j), Absent}
  BY <1>1, <1>2, SoundLapse DEF KeyLapses
<1>4. WithinLimit'
  <2> SUFFICES ASSUME NEW j \in AttemptsKeys
               PROVE  CountOf(Entry(j)') + Cardinality(InFlight(j)')
                         <= MaxAttempts - 1 + Cardinality(Requests)
    BY DEF WithinLimit, CountOf, AttemptsKeys
  <2>1. CountOf(Entry(j)) \in Nat
    BY <1>2, SoundEntry, CountingAttempts
  <2>2. CountOf(Entry(j)') <= CountOf(Entry(j)) /\ CountOf(Entry(j)') \in Nat
    BY <1>3, <2>1 DEF CountOf
  <2>3. InFlight(j)' \subseteq InFlight(j)
    BY <1>1 DEF InFlight, KeyOf
  <2> QED
    BY <1>2, <2>2, <2>3, NoMoreCounted DEF Guard
<1>5. BeingTimed'
  <2>1. ASSUME NEW j \in AttemptsKeys, Entry(j)' # Absent, ~Entry(j)'.expires
        PROVE  link' = "up" /\ \E q \in Requests : At(q, "expire")' /\ KeyOf(q)' = j
    BY <1>1, <1>2, <1>3, <2>1 DEF Guard, BeingTimed, At, KeyOf
  <2>2. link' = "down" => \A q \in Requests : ~At(q, "expire")'
    BY <1>1, <1>2 DEF Guard, BeingTimed, At
  <2> QED
    BY <2>1, <2>2 DEF BeingTimed, AttemptsKeys
<1>6. TakenOnce'
  <2>1. \A s \in States : Entry(StateKey(s))' \in {Entry(StateKey(s)), Absent}
    BY <1>3 DEF StateKeys
  <2> QED
    BY <1>1, <1>2, <2>1 DEF Guard, TakenOnce
<1> QED
  BY <1>4, <1>5, <1>6 DEF Guard

\* What a call on a key of sign-in does while the store is sound
LEMMA StoreCall ==
    ASSUME StoreOK, Sound, NEW r \in Requests, NEW k \in AttemptsKeys \cup StateKeys,
           NEW route \in Routes, NEW e, NEW m, Write(HostOf[r], k, route, e, m)
    PROVE  /\ link' = link /\ route = IF link = "up" THEN "redis" ELSE "memory"
           /\ Seen(HostOf[r], k, route) = Entry(k)
           /\ SeenNext(HostOf[r], k, route) = Entry(k)'
           /\ Entry(k)' = IF link = "up" THEN e ELSE m
           /\ Entry(k) = IF link = "up" THEN redis[k] ELSE memory[HostOf[r]][k]
<1>1. StoreShape /\ k \in Keys /\ HostOf[r] \in Processes
  BY SessionKeys, SessionsAssumption DEF StoreOK
<1> QED
  BY <1>1, SoundWrite DEF Write

LEMMA StoreCallRest ==
    ASSUME StoreOK, Sound, NEW r \in Requests, NEW k \in AttemptsKeys \cup StateKeys,
           NEW route \in Routes, NEW e, NEW m, Write(HostOf[r], k, route, e, m)
    PROVE  \A j \in (AttemptsKeys \cup StateKeys) \ {k} : Entry(j)' = Entry(j)
<1>1. /\ StoreShape /\ k \in Keys /\ AttemptsKeys \cup StateKeys \subseteq Keys
      /\ HostOf[r] \in Processes
  BY SessionKeys, SessionsAssumption DEF StoreOK
<1> QED
  BY <1>1, SoundKeepsOthers

\* A key with little counted has room for everyone.
LEMMA Room ==
    ASSUME NEW n \in Nat, n < MaxAttempts, NEW T \in SUBSET Requests
    PROVE  n + Cardinality(T) <= MaxAttempts - 1 + Cardinality(Requests)
BY Crowd, BoundIsNat

LEMMA VerifyStartGuards ==
    ASSUME Verified, StoreOK, Sound => Guard, NEW r \in Requests,
           NEW u \in Users, NEW p \in Purposes, VerifyStart(r, u, p)
    PROVE  Sound' => Guard'
<1> DEFINE k0 == AttemptsKey(u, p)
<1> SUFFICES ASSUME Sound' PROVE Guard'
  OBVIOUS
<1>1. PICK route \in Routes : ~Locked(CountOf(Seen(HostOf[r], k0, route)))
  BY DEF VerifyStart
<1>2. Sound /\ Guard /\ link' = link /\ \A k : Entry(k)' = Entry(k)
  BY SoundStays DEF VerifyStart, Read, storeVars, Entry
<1>3. k0 \in AttemptsKeys /\ HostOf[r] \in Processes
  BY SessionKeys, SessionsAssumption
<1>4. CountOf(Entry(k0)) < MaxAttempts /\ CountOf(Entry(k0)) \in Nat
  <2>1. Seen(HostOf[r], k0, route) = Entry(k0)
    BY <1>2, <1>3 DEF Sound, Routes, Seen, Entry
  <2>2. CountOf(Entry(k0)) \in 0 .. CountBound
    BY <1>2, <1>3, SoundEntry, CountingAttempts
  <2> QED
    BY <1>1, <2>1, <2>2, BoundIsNat DEF Locked
<1>5. /\ job'[r].step = "select" /\ job'[r].user = u /\ job'[r].purpose = p
      /\ job[r].step = "idle" /\ \A q \in Requests \ {r} : job'[q] = job[q]
  BY DEF VerifyStart, Verified, Idle
<1>6. WithinLimit'
  <2> SUFFICES ASSUME NEW k \in AttemptsKeys
               PROVE  CountOf(Entry(k)') + Cardinality(InFlight(k)')
                         <= MaxAttempts - 1 + Cardinality(Requests)
    BY DEF WithinLimit, CountOf, AttemptsKeys
  <2>1. CASE k = k0
    <3>1. InFlight(k)' \in SUBSET Requests /\ CountOf(Entry(k)') = CountOf(Entry(k0))
      BY <1>2, <2>1 DEF InFlight
    <3> QED
      BY <1>4, <3>1, Room
  <2>2. CASE k # k0
    <3>1. InFlight(k)' \subseteq InFlight(k)
      BY <1>5, <2>2 DEF InFlight, KeyOf
    <3>2. CountOf(Entry(k)') = CountOf(Entry(k)) /\ CountOf(Entry(k)) \in 0 .. CountBound
      BY <1>2, SoundEntry, CountingAttempts
    <3> QED
      BY <1>2, <3>1, <3>2, NoMoreCounted, BoundIsNat DEF Guard
  <2> QED
    BY <2>1, <2>2
<1>7. BeingTimed'
  <2>1. \A q \in Requests : At(q, "expire")' <=> At(q, "expire")
    BY <1>5 DEF At
  <2>2. \A q \in Requests : At(q, "expire") => KeyOf(q)' = KeyOf(q)
    BY <1>5 DEF At, KeyOf
  <2> QED
    BY <1>2, <2>1, <2>2 DEF Guard, BeingTimed, AttemptsKeys
<1>8. TakenOnce'
  BY <1>2 DEF Guard, TakenOnce, VerifyStart
<1> QED
  BY <1>6, <1>7, <1>8 DEF Guard

LEMMA VerifyDoneGuards ==
    ASSUME Verified, StoreOK, Sound => Guard, NEW r \in Requests, VerifyDone(r)
    PROVE  Sound' => Guard'
<1> SUFFICES ASSUME Sound' PROVE Guard'
  OBVIOUS
<1>1. PICK k0 \in AttemptsKeys : KeyOf(r) = k0
  BY ARequest, SessionKeys DEF KeyOf, VerifyDone, At, Jobs
<1>2. PICK route \in Routes : Write(HostOf[r], k0, route, Absent, Absent)
  <2>1. PICK route \in Routes :
            DeleteValue(HostOf[r], AttemptsKey(job[r].user, job[r].purpose), route)
    BY DEF VerifyDone
  <2>2. Write(HostOf[r], k0, route, Absent, Absent)
    BY <1>1, <2>1 DEF DeleteValue, KeyOf, Write
  <2> QED
    BY <2>2
<1>3. link' = link /\ Sound /\ Guard
  BY <1>2, SoundStays DEF Write
<1>4. Entry(k0)' = Absent /\ \A j \in (AttemptsKeys \cup StateKeys) \ {k0} : Entry(j)' = Entry(j)
  <2>1. k0 \in AttemptsKeys \cup StateKeys
    OBVIOUS
  <2>2. Entry(k0)' = IF link = "up" THEN Absent ELSE Absent
    BY <1>2, <1>3, <2>1, StoreCall
  <2>3. \A j \in (AttemptsKeys \cup StateKeys) \ {k0} : Entry(j)' = Entry(j)
    BY <1>2, <1>3, <2>1, StoreCallRest
  <2> QED
    BY <2>2, <2>3
<1>5. /\ job[r].step = "consumed" /\ job'[r].step \in {"issue", "confirm"}
      /\ \A q \in Requests \ {r} : job'[q] = job[q]
  BY DEF VerifyDone, At, GoOn, Verified, Jobs
<1>6. WithinLimit'
  <2> SUFFICES ASSUME NEW k \in AttemptsKeys
               PROVE  CountOf(Entry(k)') + Cardinality(InFlight(k)')
                         <= MaxAttempts - 1 + Cardinality(Requests)
    BY DEF WithinLimit, CountOf, AttemptsKeys
  <2>1. CountOf(Entry(k)) \in 0 .. CountBound
    BY <1>3, SoundEntry, CountingAttempts
  <2>2. CountOf(Entry(k)') <= CountOf(Entry(k)) /\ CountOf(Entry(k)') \in Nat
    BY <1>4, <2>1, BoundIsNat DEF CountOf
  <2>3. InFlight(k)' \subseteq InFlight(k)
    BY <1>5 DEF InFlight, KeyOf, Verifying
  <2> QED
    BY <1>3, <2>2, <2>3, NoMoreCounted DEF Guard
<1>7. BeingTimed'
  <2>1. \A q \in Requests : At(q, "expire") => At(q, "expire")' /\ KeyOf(q)' = KeyOf(q)
    BY <1>5 DEF At, KeyOf
  <2>2. \A q \in Requests : At(q, "expire")' => At(q, "expire")
    BY <1>5 DEF At
  <2>3. \A k \in AttemptsKeys : Entry(k)' \in {Entry(k), Absent}
    BY <1>4
  <2> QED
    BY <1>3, <2>1, <2>2, <2>3 DEF Guard, BeingTimed, AttemptsKeys
<1>8. TakenOnce'
  <2>1. \A s \in States : Entry(StateKey(s))' = Entry(StateKey(s))
    BY <1>1, <1>4, SessionKeys DEF StateKeys
  <2> QED
    BY <1>3, <2>1 DEF Guard, TakenOnce, VerifyDone
<1> QED
  BY <1>6, <1>7, <1>8 DEF Guard

\* A wrong code is counted by one that was let in before.
LEMMA CountWrongGuards ==
    ASSUME Verified, StoreOK, Sound => Guard, NEW r \in Requests, CountWrong(r)
    PROVE  Sound' => Guard'
<1> SUFFICES ASSUME Sound' PROVE Guard'
  OBVIOUS
<1>1. PICK k0 \in AttemptsKeys : KeyOf(r) = k0
  BY ARequest, SessionKeys DEF KeyOf, CountWrong, At, Jobs
<1>2. PICK route \in Routes :
          /\ Write(HostOf[r], k0, route, Incremented(redis[k0]),
                   IncrementedInMemory(memory[HostOf[r]][k0]))
          /\ job' = [job EXCEPT ![r] = IF route = "redis" /\ redis'[k0].val = 1
                                       THEN [@ EXCEPT !.step = "expire"] ELSE Idle]
  <2>1. PICK route \in Routes :
            /\ Increment(HostOf[r], AttemptsKey(job[r].user, job[r].purpose), route)
            /\ job' = [job EXCEPT ![r] =
                  IF OwesExpiry(HostOf[r], AttemptsKey(job[r].user, job[r].purpose), route)
                    THEN [@ EXCEPT !.step = "expire"] ELSE Idle]
    BY DEF CountWrong
  <2>2. Write(HostOf[r], k0, route, Incremented(redis[k0]),
              IncrementedInMemory(memory[HostOf[r]][k0]))
    BY <1>1, <2>1 DEF Increment, KeyOf, Write
  <2>3. job' = [job EXCEPT ![r] = IF route = "redis" /\ redis'[k0].val = 1
                                  THEN [@ EXCEPT !.step = "expire"] ELSE Idle]
    BY <1>1, <2>1 DEF OwesExpiry, KeyOf
  <2> QED
    BY <2>2, <2>3
<1>3. link' = link /\ Sound /\ Guard
  BY <1>2, SoundStays DEF Write
<1>4. /\ route = IF link = "up" THEN "redis" ELSE "memory"
      /\ Entry(k0)' = IF link = "up" THEN Incremented(Entry(k0)) ELSE IncrementedInMemory(Entry(k0))
      /\ SeenNext(HostOf[r], k0, route) = Entry(k0)'
      /\ \A j \in (AttemptsKeys \cup StateKeys) \ {k0} : Entry(j)' = Entry(j)
  <2>1. k0 \in AttemptsKeys \cup StateKeys
    OBVIOUS
  <2> DEFINE e == Incremented(redis[k0])
             m == IncrementedInMemory(memory[HostOf[r]][k0])
  <2>2. Write(HostOf[r], k0, route, e, m)
    BY <1>2
  <2> HIDE DEF e, m
  <2>3. /\ route = IF link = "up" THEN "redis" ELSE "memory"
        /\ Entry(k0) = IF link = "up" THEN redis[k0] ELSE memory[HostOf[r]][k0]
        /\ Entry(k0)' = IF link = "up" THEN e ELSE m
        /\ SeenNext(HostOf[r], k0, route) = Entry(k0)'
    BY <1>3, <2>1, <2>2, StoreCall
  <2>4. \A j \in (AttemptsKeys \cup StateKeys) \ {k0} : Entry(j)' = Entry(j)
    BY <1>3, <2>1, <2>2, StoreCallRest
  <2> QED
    BY <2>3, <2>4 DEF e, m
<1>5. /\ job[r].step = "count" /\ job[r] \in Jobs /\ job \in [Requests -> Jobs]
      /\ job'[r] = IF route = "redis" /\ redis'[k0].val = 1
                   THEN [job[r] EXCEPT !.step = "expire"] ELSE Idle
      /\ \A q \in Requests \ {r} : job'[q] = job[q]
  BY <1>2, ARequest DEF CountWrong, At, Verified
<1>6. job'[r].step \in {"expire", "idle"}
  BY <1>5 DEF Jobs, Idle
<1>7. Entry(k0) \in Attempts /\ CountOf(Entry(k0)) \in 0 .. CountBound
  BY <1>3, SoundEntry, CountingAttempts
<1>8. Entry(k0)'.val = CountOf(Entry(k0)) + 1
  BY <1>4, <1>7, CountingAttempts
<1>9. WithinLimit'
  <2> SUFFICES ASSUME NEW k \in AttemptsKeys
               PROVE  CountOf(Entry(k)') + Cardinality(InFlight(k)')
                         <= MaxAttempts - 1 + Cardinality(Requests)
    BY DEF WithinLimit, CountOf, AttemptsKeys
  <2>1. CASE k = k0
    <3>1. r \in InFlight(k) /\ InFlight(k)' \subseteq InFlight(k) \ {r}
      BY <1>1, <1>5, <1>6, <2>1 DEF InFlight, KeyOf, Verifying
    <3>2. InFlight(k) \in SUBSET Requests /\ InFlight(k)' \in SUBSET (InFlight(k) \ {r})
      BY <3>1 DEF InFlight
    <3>3. InFlight(k)' \in SUBSET Requests
      BY <3>2
    <3>4. /\ Cardinality(InFlight(k)') <= Cardinality(InFlight(k)) - 1
          /\ Cardinality(InFlight(k)) \in Nat /\ Cardinality(InFlight(k)') \in Nat
      BY <3>1, <3>2, <3>3, Crowd
    <3>5. CountOf(Entry(k)) + Cardinality(InFlight(k)) <= MaxAttempts - 1 + Cardinality(Requests)
      BY <1>3 DEF Guard, WithinLimit
    <3>6. CountOf(Entry(k)') \in {0, CountOf(Entry(k)) + 1}
      BY <1>8, <2>1 DEF CountOf
    <3>7. CountOf(Entry(k)) \in Nat
      BY <1>7, <2>1, BoundIsNat
    <3> QED
      BY <3>4, <3>5, <3>6, <3>7, BoundIsNat
  <2>2. CASE k # k0
    <3>1. InFlight(k)' \subseteq InFlight(k)
      BY <1>5, <1>6 DEF InFlight, KeyOf, Verifying
    <3>2. CountOf(Entry(k)') = CountOf(Entry(k)) /\ CountOf(Entry(k)) \in 0 .. CountBound
      BY <1>3, <1>4, <2>2, SoundEntry, CountingAttempts
    <3> QED
      BY <1>3, <3>1, <3>2, NoMoreCounted, BoundIsNat DEF Guard
  <2> QED
    BY <2>1, <2>2
<1>10. ASSUME NEW k \in AttemptsKeys, Entry(k)' # Absent, ~Entry(k)'.expires
       PROVE  link' = "up" /\ \E q \in Requests : At(q, "expire")' /\ KeyOf(q)' = k
  <2>1. CASE k = k0 /\ Entry(k0) = Absent
    <3>1. link = "up" /\ route = "redis" /\ Entry(k0)'.val = 1
      BY <1>4, <1>7, <1>8, <1>10, <2>1, CountingAttempts DEF CountOf
    <3>2. redis'[k0].val = 1
      BY <1>4, <3>1 DEF SeenNext
    <3>3. job'[r] = [job[r] EXCEPT !.step = "expire"]
      BY <1>5, <3>1, <3>2
    <3>4. job'[r].step = "expire" /\ job'[r].user = job[r].user /\ job'[r].purpose = job[r].purpose
      BY <1>5, <3>3 DEF Jobs
    <3> QED
      BY <1>1, <1>3, <2>1, <3>1, <3>4 DEF At, KeyOf
  <2>2. CASE ~(k = k0 /\ Entry(k0) = Absent)
    <3>1. Entry(k) # Absent /\ ~Entry(k).expires
      BY <1>4, <1>7, <1>10, <2>2, CountingAttempts
    <3>2. PICK q \in Requests : At(q, "expire") /\ KeyOf(q) = k /\ link = "up"
      BY <1>3, <3>1 DEF Guard, BeingTimed
    <3>3. job'[q] = job[q]
      BY <1>5, <3>2 DEF At
    <3> QED
      BY <1>3, <3>2, <3>3 DEF At, KeyOf
  <2> QED
    BY <2>1, <2>2
<1>11. link' = "down" => \A q \in Requests : ~At(q, "expire")'
  <2> SUFFICES ASSUME link = "down", NEW q \in Requests PROVE ~At(q, "expire")'
    BY <1>3
  <2>1. CASE q = r
    <3>1. route # "redis"
      BY <1>4
    <3>2. job'[r] = Idle
      BY <1>5, <3>1
    <3> QED
      BY <2>1, <3>2 DEF At, Idle
  <2>2. CASE q # r
    BY <1>3, <1>5, <2>2 DEF Guard, BeingTimed, At
  <2> QED
    BY <2>1, <2>2
<1>12. BeingTimed'
  BY <1>10, <1>11 DEF BeingTimed, AttemptsKeys
<1>13. TakenOnce'
  <2>1. \A s \in States : Entry(StateKey(s))' = Entry(StateKey(s))
    BY <1>1, <1>4, SessionKeys DEF StateKeys
  <2> QED
    BY <1>3, <2>1 DEF Guard, TakenOnce, CountWrong
<1> QED
  BY <1>9, <1>12, <1>13 DEF Guard

\* The time to live is set by one that still owed it.
LEMMA TimeCounterGuards ==
    ASSUME Verified, StoreOK, Sound => Guard, NEW r \in Requests, TimeCounter(r)
    PROVE  Sound' => Guard'
<1> SUFFICES ASSUME Sound' PROVE Guard'
  OBVIOUS
<1>1. PICK k0 \in AttemptsKeys : KeyOf(r) = k0
  BY ARequest, SessionKeys DEF KeyOf, TimeCounter, At, Jobs
<1>2. PICK route \in Routes :
          Write(HostOf[r], k0, route, Timed(redis[k0]),
                IncrementedInMemory(memory[HostOf[r]][k0]))
  <2>1. PICK route \in Routes :
            SetExpiry(HostOf[r], AttemptsKey(job[r].user, job[r].purpose), route)
    BY DEF TimeCounter
  <2>2. Write(HostOf[r], k0, route, Timed(redis[k0]), IncrementedInMemory(memory[HostOf[r]][k0]))
    BY <1>1, <2>1 DEF SetExpiry, KeyOf, Write
  <2> QED
    BY <2>2
<1>3. link' = link /\ Sound /\ Guard
  BY <1>2, SoundStays DEF Write
<1>4. /\ job[r].step = "expire" /\ job'[r] = Idle /\ Idle.step = "idle"
      /\ \A q \in Requests \ {r} : job'[q] = job[q]
  BY DEF TimeCounter, At, End, Verified, Idle
<1>5. link = "up"
  BY <1>3, <1>4 DEF Sound, Guard, BeingTimed, At
<1>6. /\ Entry(k0)' = Timed(Entry(k0))
      /\ \A j \in (AttemptsKeys \cup StateKeys) \ {k0} : Entry(j)' = Entry(j)
  <2>1. k0 \in AttemptsKeys \cup StateKeys
    OBVIOUS
  <2> DEFINE e == Timed(redis[k0])
             m == IncrementedInMemory(memory[HostOf[r]][k0])
  <2>2. Write(HostOf[r], k0, route, e, m)
    BY <1>2
  <2> HIDE DEF e, m
  <2>3. /\ Entry(k0) = IF link = "up" THEN redis[k0] ELSE memory[HostOf[r]][k0]
        /\ Entry(k0)' = IF link = "up" THEN e ELSE m
    BY <1>3, <2>1, <2>2, StoreCall
  <2>4. \A j \in (AttemptsKeys \cup StateKeys) \ {k0} : Entry(j)' = Entry(j)
    BY <1>3, <2>1, <2>2, StoreCallRest
  <2> QED
    BY <1>5, <2>3, <2>4 DEF e, m
<1>7. /\ CountOf(Entry(k0)') = CountOf(Entry(k0))
      /\ Entry(k0)' # Absent => Entry(k0)'.expires
  BY <1>3, <1>6, SoundEntry, TimingAttempts
<1>8. WithinLimit'
  <2> SUFFICES ASSUME NEW k \in AttemptsKeys
               PROVE  CountOf(Entry(k)') + Cardinality(InFlight(k)')
                         <= MaxAttempts - 1 + Cardinality(Requests)
    BY DEF WithinLimit, CountOf, AttemptsKeys
  <2>1. CountOf(Entry(k)') = CountOf(Entry(k)) /\ CountOf(Entry(k)) \in 0 .. CountBound
    BY <1>3, <1>6, <1>7, SoundEntry, CountingAttempts
  <2>2. InFlight(k)' \subseteq InFlight(k)
    BY <1>4 DEF InFlight, KeyOf, Verifying
  <2> QED
    BY <1>3, <2>1, <2>2, NoMoreCounted, BoundIsNat DEF Guard
<1>9. ASSUME NEW k \in AttemptsKeys, Entry(k)' # Absent, ~Entry(k)'.expires
      PROVE  link' = "up" /\ \E q \in Requests : At(q, "expire")' /\ KeyOf(q)' = k
  <2>1. k # k0 /\ Entry(k)' = Entry(k)
    BY <1>6, <1>7, <1>9
  <2>2. PICK q \in Requests : At(q, "expire") /\ KeyOf(q) = k
    BY <1>3, <1>9, <2>1 DEF Guard, BeingTimed
  <2>3. q # r
    BY <1>1, <2>1, <2>2
  <2> QED
    BY <1>3, <1>4, <1>5, <2>2, <2>3 DEF At, KeyOf
<1>10. BeingTimed'
  BY <1>3, <1>5, <1>9 DEF BeingTimed, AttemptsKeys
<1>11. TakenOnce'
  <2>1. \A s \in States : Entry(StateKey(s))' = Entry(StateKey(s))
    BY <1>1, <1>6, SessionKeys DEF StateKeys
  <2> QED
    BY <1>3, <2>1 DEF Guard, TakenOnce, TimeCounter
<1> QED
  BY <1>8, <1>10, <1>11 DEF Guard

\* A state is stored when it is given out, and gone when it is taken.
LEMMA GoogleGuards ==
    ASSUME Verified, StoreOK, RestOK, Sound => Guard, NEW r \in Requests, NEW s \in States,
           GoogleLogin(r, s) \/ \E u \in Users : Callback(r, s, u)
    PROVE  Sound' => Guard'
<1> DEFINE k0 == StateKey(s)
<1> SUFFICES ASSUME Sound' PROVE Guard'
  OBVIOUS
<1>1. k0 \in AttemptsKeys \cup StateKeys /\ k0 \notin AttemptsKeys
  BY SessionKeys DEF StateKeys
<1>2. ASSUME NEW route \in Routes, NEW e, Write(HostOf[r], k0, route, e, e),
             UNCHANGED job \/ Quiet(r)
      PROVE  /\ Sound /\ Guard /\ WithinLimit' /\ BeingTimed'
             /\ Seen(HostOf[r], k0, route) = Entry(k0) /\ Entry(k0)' = e
             /\ \A t \in States \ {s} : Entry(StateKey(t))' = Entry(StateKey(t))
  <2>1. link' = link /\ Sound /\ Guard
    BY <1>2, SoundStays DEF Write
  <2>2. Seen(HostOf[r], k0, route) = Entry(k0) /\ Entry(k0)' = e
    BY <1>1, <1>2, <2>1, StoreCall
  <2>3. \A j \in (AttemptsKeys \cup StateKeys) \ {k0} : Entry(j)' = Entry(j)
    BY <1>1, <1>2, <2>1, StoreCallRest
  <2>4. \A k \in AttemptsKeys : Entry(k)' = Entry(k)
    BY <1>1, <2>3
  <2>5. WithinLimit' /\ BeingTimed'
    BY <1>2, <2>1, <2>4, QuietCounters
  <2>6. \A t \in States \ {s} : StateKey(t) \in (AttemptsKeys \cup StateKeys) \ {k0}
    BY SessionKeys DEF StateKeys
  <2> QED
    BY <2>1, <2>2, <2>3, <2>5, <2>6
<1>3. CASE GoogleLogin(r, s)
  <2>1. PICK route \in Routes : Write(HostOf[r], k0, route, Expiring("origin"), Expiring("origin"))
    BY <1>3 DEF GoogleLogin, SetValue
  <2>2. /\ Sound /\ Guard /\ WithinLimit' /\ BeingTimed'
        /\ \A t \in States \ {s} : Entry(StateKey(t))' = Entry(StateKey(t))
    BY <1>2, <1>3, <2>1 DEF GoogleLogin
  <2>3. oauth' = [oauth EXCEPT ![s] = "given"]
    BY <1>3 DEF GoogleLogin
  <2>4. TakenOnce'
    BY <2>2, <2>3 DEF Guard, TakenOnce, RestOK
  <2> QED
    BY <2>2, <2>4 DEF Guard
<1>4. ASSUME NEW u \in Users, Callback(r, s, u) PROVE Guard'
  <2>1. PICK route \in Routes : /\ Write(HostOf[r], k0, route, Absent, Absent)
                               /\ Seen(HostOf[r], k0, route) # Absent
    BY <1>4 DEF Callback, PopValue, Took
  <2>2. Quiet(r)
    <3>1. /\ job \in [Requests -> Jobs] /\ job[r].step = "idle"
          /\ job' = [job EXCEPT ![r] = [Idle EXCEPT !.step = "exchange", !.user = u]]
      <4>1. Begin(r, "exchange", u)
        BY <1>4 DEF Callback
      <4> QED
        BY <4>1 DEF Begin, Verified, Idle
    <3>2. job'[r].step = "exchange" /\ \A o \in Requests \ {r} : job'[o] = job[o]
      BY <3>1 DEF Idle
    <3> QED
      BY <3>1, <3>2 DEF Quiet, Others, Verifying
  <2>3. /\ Sound /\ Guard /\ WithinLimit' /\ BeingTimed' /\ Entry(k0)' = Absent
        /\ Entry(k0) # Absent
        /\ \A t \in States \ {s} : Entry(StateKey(t))' = Entry(StateKey(t))
    BY <1>2, <2>1, <2>2
  <2>4. oauth[s] = "given"
    BY <2>3 DEF Guard, TakenOnce
  <2>5. oauth' = [oauth EXCEPT ![s] = "used"]
    BY <1>4, <2>4 DEF Callback, RestOK
  <2>6. TakenOnce'
    BY <2>3, <2>5 DEF Guard, TakenOnce, RestOK
  <2> QED
    BY <2>3, <2>6 DEF Guard
<1>5. CASE \E u \in Users : Callback(r, s, u)
  BY <1>4, <1>5
<1> QED
  BY <1>3, <1>5
-----------------------------------------------------------------------------
(* Every step keeps the store, the states and the counters *)

\* A step that leaves the store alone
LEMMA StoreStays ==
    ASSUME StoreOK, UNCHANGED storeVars PROVE StoreOK'
<1>1. link' = link /\ redis' = redis /\ memory' = memory
  BY DEF storeVars
<1>2. StoreShape'
  BY <1>1 DEF StoreOK, StoreShape
<1>3. \A k \in AttemptsKeys : Holds(k, Attempts)'
  BY <1>1 DEF StoreOK, Holds
<1>4. \A k \in StateKeys : Holds(k, Origins)'
  BY <1>1 DEF StoreOK, Holds
<1> QED
  BY <1>2, <1>3, <1>4 DEF StoreOK, Holds, AttemptsKeys, StateKeys

LEMMA AttemptsAreCounted ==
    ASSUME StoreOK, NEW p \in Processes, NEW k \in AttemptsKeys
    PROVE  /\ CountOf(redis[k]) < CountBound => Incremented(redis[k]) \in Attempts
           /\ CountOf(memory[p][k]) < CountBound => IncrementedInMemory(memory[p][k]) \in Attempts
           /\ Timed(redis[k]) \in Attempts /\ Absent \in Attempts
BY StoredEntries, CountingAttempts, TimingAttempts DEF Attempts

\* A request reads the store, or writes under a key of its own an entry of the
\* kind the key holds.
Serves(r) ==
    \/ UNCHANGED storeVars
    \/ \E k \in AttemptsKeys, route \in Routes, e \in Attempts, m \in Attempts :
          Write(HostOf[r], k, route, e, m)
    \/ \E k \in StateKeys, route \in Routes, e \in Origins : Write(HostOf[r], k, route, e, e)

LEMMA TouchesServe ==
    ASSUME Verified, StoreOK, NEW r \in Requests, Touches(r)
    PROVE  Serves(r)
<1>0. HostOf[r] \in Processes /\ \A u \in Users, p \in Purposes : AttemptsKey(u, p) \in AttemptsKeys
  BY SessionsAssumption, SessionKeys
<1>1. ASSUME job[r].step # "idle" PROVE KeyOf(r) \in AttemptsKeys
  BY <1>0, <1>1, ARequest DEF KeyOf, Jobs
<1>2. CASE \/ \E u \in Users, p \in Purposes : VerifyStart(r, u, p)
           \/ \E u \in Users : EnableRead(r, u)
           \/ EnableWrite(r)
  BY <1>2 DEF VerifyStart, Read, EnableRead, EnableWrite, Serves
<1>3. CASE VerifyDone(r)
  <2>1. PICK k \in AttemptsKeys : KeyOf(r) = k
    BY <1>1, <1>3 DEF VerifyDone, At
  <2>2. PICK route \in Routes : DeleteValue(HostOf[r], AttemptsKey(job[r].user, job[r].purpose), route)
    BY <1>3 DEF VerifyDone
  <2>3. Write(HostOf[r], k, route, Absent, Absent)
    BY <2>1, <2>2 DEF DeleteValue, KeyOf, Write
  <2>4. Absent \in Attempts
    BY DEF Attempts
  <2> QED
    BY <2>3, <2>4 DEF Serves
<1>4. CASE CountWrong(r)
  <2>1. PICK k \in AttemptsKeys : KeyOf(r) = k
    BY <1>1, <1>4 DEF CountWrong, At
  <2>2. PICK route \in Routes : Increment(HostOf[r], AttemptsKey(job[r].user, job[r].purpose), route)
    BY <1>4 DEF CountWrong
  <2> DEFINE e == Incremented(redis[k])
             m == IncrementedInMemory(memory[HostOf[r]][k])
  <2>3. Write(HostOf[r], k, route, e, m)
    BY <2>1, <2>2 DEF Increment, KeyOf, Write
  <2>4. Bounded(r, k)
    BY <1>4, <2>1 DEF CountWrong, KeyOf
  <2>5. e \in Attempts /\ m \in Attempts 
    BY <1>0, <2>4, AttemptsAreCounted DEF Bounded
  <2> HIDE DEF e, m
  <2> QED
    BY <2>3, <2>5 DEF Serves
<1>5. CASE TimeCounter(r)
  <2>1. PICK k \in AttemptsKeys : KeyOf(r) = k
    BY <1>1, <1>5 DEF TimeCounter, At
  <2>2. PICK route \in Routes :
            /\ route # "redis" => Bounded(r, AttemptsKey(job[r].user, job[r].purpose))
            /\ SetExpiry(HostOf[r], AttemptsKey(job[r].user, job[r].purpose), route)
    BY <1>5 DEF TimeCounter
  <2> DEFINE e == Timed(redis[k])
             m == IF route = "redis" THEN Absent ELSE IncrementedInMemory(memory[HostOf[r]][k])
  <2>3. Write(HostOf[r], k, route, e, m)
    BY <2>1, <2>2 DEF SetExpiry, KeyOf, Write
  <2>4. route # "redis" => Bounded(r, k)
    BY <2>1, <2>2 DEF KeyOf
  <2>5. e \in Attempts /\ m \in Attempts 
    BY <1>0, <2>4, AttemptsAreCounted DEF Bounded
  <2> HIDE DEF e, m
  <2> QED
    BY <2>3, <2>5 DEF Serves
<1>6. ASSUME NEW s \in States, GoogleLogin(r, s) \/ \E u \in Users : Callback(r, s, u)
      PROVE  Serves(r)
  <2>1. PICK k \in StateKeys : k = StateKey(s)
    BY DEF StateKeys
  <2>2. PICK route \in Routes, e \in Origins : Write(HostOf[r], k, route, e, e)
    <3>1. Expiring("origin") \in Origins /\ Absent \in Origins
      BY DEF Origins, StateEntries, Expiring
    <3>2. CASE GoogleLogin(r, s)
      <4>1. PICK route : SetValue(HostOf[r], StateKey(s), route, "origin")
        BY <3>2 DEF GoogleLogin
      <4>2. route \in Routes /\ Write(HostOf[r], k, route, Expiring("origin"), Expiring("origin"))
        BY <2>1, <4>1 DEF SetValue, Write
      <4> QED
        BY <3>1, <4>2
    <3>3. CASE \E u \in Users : Callback(r, s, u)
      <4>1. PICK route : PopValue(HostOf[r], StateKey(s), route)
        BY <3>3 DEF Callback
      <4>2. route \in Routes /\ Write(HostOf[r], k, route, Absent, Absent)
        BY <2>1, <4>1 DEF PopValue, Write
      <4> QED
        BY <3>1, <4>2
    <3> QED
      BY <1>6, <3>2, <3>3
  <2> QED
    BY <2>2 DEF Serves
<1> QED
  BY <1>2, <1>3, <1>4, <1>5, <1>6 DEF Touches

LEMMA ServesWrite ==
    ASSUME NEW r \in Requests, Serves(r)
    PROVE  \/ UNCHANGED storeVars
           \/ \E k \in AttemptsKeys \cup StateKeys : \E route, e, m :
                 /\ Write(HostOf[r], k, route, e, m)
                 /\ k \in AttemptsKeys => e \in Attempts /\ m \in Attempts
                 /\ k \in StateKeys => e \in Origins /\ m \in Origins
BY SessionKeys DEF Serves

LEMMA ServesStored ==
    ASSUME StoreOK, NEW r \in Requests, Serves(r)
    PROVE  StoreOK'
BY StoreStays, ServesWrite, WriteStored, SessionsAssumption

LEMMA ServesApart ==
    ASSUME StoreShape, NEW r \in Requests, Serves(r),
           NEW j \in Keys \ (AttemptsKeys \cup StateKeys)
    PROVE  /\ link' = link /\ redis'[j] = redis[j]
           /\ \A o \in Processes : memory'[o][j] = memory[o][j]
<1>1. CASE UNCHANGED storeVars
  BY <1>1 DEF storeVars
<1>2. ASSUME NEW k \in AttemptsKeys \cup StateKeys, NEW route, NEW e, NEW m,
             Write(HostOf[r], k, route, e, m)
      PROVE  /\ link' = link /\ redis'[j] = redis[j]
             /\ \A o \in Processes : memory'[o][j] = memory[o][j]
  <2>1. k \in Keys /\ j \in Keys /\ j # k /\ HostOf[r] \in Processes
    BY SessionKeys, SessionsAssumption
  <2>2. link' = link
    BY <1>2 DEF Write
  <2>3. redis'[j] = redis[j] /\ \A o \in Processes : memory'[o][j] = memory[o][j]
    BY <1>2, <2>1, WriteKeepsOthers
  <2> QED
    BY <2>2, <2>3
<1> QED
  BY <1>1, <1>2, ServesWrite

LEMMA TouchesGuards ==
    ASSUME Verified, StoreOK, RestOK, Sound => Guard, NEW r \in Requests, Touches(r)
    PROVE  Sound' => Guard'
<1>1. ASSUME NEW u \in Users, EnableRead(r, u) PROVE Sound' => Guard'
  <2>1. /\ job \in [Requests -> Jobs] /\ job[r].step = "idle"
        /\ job' = [job EXCEPT ![r] = [Idle EXCEPT !.step = "enable", !.user = u,
              !.row = account[u].secret, !.loaded = account[u].enabled]]
        /\ UNCHANGED <<storeVars, oauth>>
    BY <1>1 DEF EnableRead, Verified, Idle
  <2>2. job'[r].step = "enable" /\ \A o \in Requests \ {r} : job'[o] = job[o]
    BY <2>1 DEF Idle
  <2> QED
    BY <2>1, <2>2, QuietKeeps DEF Quiet, Others, Verifying
<1>2. CASE EnableWrite(r)
  <2>1. /\ job \in [Requests -> Jobs] /\ job[r].step = "enable"
        /\ job' = [job EXCEPT ![r] = Idle] /\ UNCHANGED <<storeVars, oauth>>
    BY <1>2 DEF EnableWrite, At, End, Verified
  <2>2. job'[r].step = "idle" /\ \A o \in Requests \ {r} : job'[o] = job[o]
    BY <2>1 DEF Idle
  <2> QED
    BY <2>1, <2>2, QuietKeeps DEF Quiet, Others, Verifying
<1> QED
  BY <1>1, <1>2, VerifyStartGuards, VerifyDoneGuards, CountWrongGuards, TimeCounterGuards,
     GoogleGuards DEF Touches

LEMMA RestKeeps ==
    ASSUME Verified, Verified', RestOK, NEW r \in Requests, Moves(r) \/ Touches(r)
    PROVE  RestOK'
<1>0. job \in [Requests -> Jobs] /\ \A q \in Requests : At(q, "enable") => job[q].row \in Secrets
  BY DEF Verified, RestOK
<1>1. CASE Moves(r)
  <2>1. \A q \in Requests : At(q, "enable")' => q # r /\ job'[q] = job[q]
    BY <1>1 DEF Moves, Others, At
  <2> QED
    BY <1>0, <1>1, <2>1 DEF Moves, RestOK, At
<1>2. ASSUME NEW j, job' = [job EXCEPT ![r] = j] \/ job' = job, j.step # "enable",
             proven' = proven, oauth' \in [States -> {"new", "given", "used", "reused"}]
      PROVE  RestOK'
  <2>1. \A q \in Requests : At(q, "enable")' => job'[q] = job[q]
    BY <1>0, <1>2 DEF At
  <2> QED
    BY <1>0, <1>2, <2>1 DEF RestOK, At
<1>3. ASSUME NEW u \in Users, NEW p \in Purposes, VerifyStart(r, u, p) PROVE RestOK'
  <2> DEFINE j == [Idle EXCEPT !.step = "select", !.user = u, !.purpose = p]
  <2>1. job' = [job EXCEPT ![r] = j] /\ j.step # "enable" /\ UNCHANGED <<oauth, proven>>
    BY <1>3 DEF VerifyStart, Idle
  <2> QED
    BY <1>2, <2>1 DEF RestOK
<1>4. ASSUME NEW u \in Users, EnableRead(r, u) PROVE RestOK'
  <2>1. account[u].secret \in Secrets
    BY <1>4 DEF EnableRead, Verified, Accounts
  <2>2. \A q \in Requests : q # r => job'[q] = job[q]
    BY <1>0, <1>4 DEF EnableRead
  <2>3. job'[r].row = account[u].secret
    BY <1>0, <1>4 DEF EnableRead, Idle
  <2>4. \A q \in Requests : At(q, "enable")' => job'[q].row \in Secrets
    BY <1>0, <2>1, <2>2, <2>3 DEF At
  <2> QED
    BY <1>4, <2>4 DEF EnableRead, RestOK
<1>5. CASE EnableWrite(r)
  <2>1. job[r].row \in Secrets /\ job[r].user \in Users
    BY <1>0, <1>5, ARequest DEF EnableWrite, At
  <2>2. proven' \in [Users -> Secrets \cup {Nothing}]
    BY <1>5, <2>1 DEF EnableWrite, RestOK
  <2>3. \A q \in Requests : At(q, "enable")' => job'[q] = job[q]
    BY <1>0, <1>5 DEF EnableWrite, End, Idle, At
  <2> QED
    BY <1>0, <1>5, <2>2, <2>3 DEF EnableWrite, RestOK, At
<1>6. CASE VerifyDone(r)
  <2>1. PICK step \in {"issue", "confirm"} : job' = [job EXCEPT ![r].step = step]
    BY <1>6 DEF VerifyDone, GoOn
  <2> DEFINE j == [job[r] EXCEPT !.step = step]
  <2>2. job' = [job EXCEPT ![r] = j] /\ j.step # "enable" /\ UNCHANGED <<oauth, proven>>
    BY <1>0, <1>6, <2>1 DEF VerifyDone, Jobs
  <2> QED
    BY <1>2, <2>2 DEF RestOK
<1>7. CASE CountWrong(r) \/ TimeCounter(r)
  <2>1. \E j \in {Idle, [job[r] EXCEPT !.step = "expire"]} : job' = [job EXCEPT ![r] = j]
    BY <1>7 DEF CountWrong, TimeCounter, End
  <2>2. \A j \in {Idle, [job[r] EXCEPT !.step = "expire"]} : j.step # "enable"
    BY <1>0 DEF Idle, Jobs
  <2>3. UNCHANGED <<oauth, proven>>
    BY <1>7 DEF CountWrong, TimeCounter
  <2> QED
    BY <1>2, <2>1, <2>2, <2>3 DEF RestOK
<1>8. ASSUME NEW s \in States, GoogleLogin(r, s) PROVE RestOK'
  <2>1. Idle.step # "enable"
    BY DEF Idle
  <2> QED
    BY <1>2, <1>8, <2>1 DEF GoogleLogin, RestOK
<1>9. ASSUME NEW s \in States, NEW u \in Users, Callback(r, s, u) PROVE RestOK'
  <2> DEFINE j == [Idle EXCEPT !.step = "exchange", !.user = u]
  <2>1. job' = [job EXCEPT ![r] = j] /\ j.step # "enable" /\ proven' = proven
    BY <1>9 DEF Callback, Begin, Idle
  <2> QED
    BY <1>2, <1>9, <2>1 DEF Callback, RestOK
<1> QED
  BY <1>1, <1>3, <1>4, <1>5, <1>6, <1>7, <1>8, <1>9 DEF Touches

LEMMA SessionsStart == SessionsInit => SessionsIInv
<1> SUFFICES ASSUME SessionsInit PROVE SessionsIInv
  OBVIOUS
<1>1. Verified
  BY InitHolds
<1>2. StoreOK
  <2>1. StoreShape /\ AttemptsKeys \subseteq Keys /\ StateKeys \subseteq Keys
    BY SessionKeys DEF SessionsInit, StoreInit, StoreShape
  <2>2. \A k \in Keys : redis[k] = Absent /\ \A p \in Processes : memory[p][k] = Absent
    BY DEF SessionsInit, StoreInit
  <2> QED
    BY <2>1, <2>2 DEF StoreOK, Holds, Attempts, Origins
<1>3. RestOK
  BY DEF SessionsInit, RestOK, At, Idle
<1>4. ASSUME Sound PROVE Guard
  <2>1. \A k \in Keys : Entry(k) = Absent
    BY <1>4 DEF SessionsInit, StoreInit, Sound, Entry
  <2>2. AttemptsKeys \subseteq Keys /\ StateKeys \subseteq Keys
    BY SessionKeys
  <2>3. \A r \in Requests : job[r].step = "idle"
    BY DEF SessionsInit, Idle
  <2>4. ASSUME NEW k \in AttemptsKeys
        PROVE  CountOf(Entry(k)) + Cardinality(InFlight(k))
                  <= MaxAttempts - 1 + Cardinality(Requests)
    <3>1. CountOf(Entry(k)) = 0 /\ 0 < MaxAttempts /\ 0 \in Nat
      BY <2>1, <2>2, BoundIsNat DEF CountOf
    <3>2. InFlight(k) \in SUBSET Requests
      BY DEF InFlight
    <3> QED
      BY <3>1, <3>2, Room
  <2>5. WithinLimit
    BY <2>4 DEF WithinLimit
  <2>6. BeingTimed
    BY <2>1, <2>2, <2>3 DEF BeingTimed, At
  <2>7. TakenOnce
    BY <2>1, <2>2 DEF TakenOnce, SessionsInit, StateKeys
  <2> QED
    BY <2>5, <2>6, <2>7 DEF Guard
<1> QED
  BY <1>1, <1>2, <1>3, <1>4 DEF SessionsIInv

LEMMA SessionsKeep ==
    ASSUME SessionsIInv, [SessionsNext]_sessionVars
    PROVE  SessionsIInv'
<1>1. Verified /\ StoreOK /\ RestOK /\ (Sound => Guard) /\ Verified'
  BY NextHolds DEF SessionsIInv
<1>2. CASE Rests
  <2>1. StoreOK'
    BY <1>1, <1>2, StoreStays DEF Rests
  <2>2. RestOK'
    BY <1>1, <1>2 DEF Rests, RestOK, At
  <2>3. ASSUME Sound' PROVE Guard'
    <3>1. Sound /\ Guard /\ link' = link /\ \A k : Entry(k)' = Entry(k)
      BY <1>1, <1>2, <2>3, SoundStays DEF Rests, storeVars, Entry
    <3>2. job' = job /\ oauth' = oauth
      BY <1>2 DEF Rests
    <3>3. WithinLimit'
      BY <3>1, <3>2 DEF Guard, WithinLimit, CountOf, InFlight, KeyOf, AttemptsKeys
    <3>4. BeingTimed'
      BY <3>1, <3>2 DEF Guard, BeingTimed, At, KeyOf, AttemptsKeys
    <3>5. TakenOnce'
      BY <3>1, <3>2 DEF Guard, TakenOnce
    <3> QED
      BY <3>3, <3>4, <3>5 DEF Guard
  <2> QED
    BY <1>1, <2>1, <2>2, <2>3 DEF SessionsIInv
<1>3. ASSUME NEW r \in Requests, Moves(r) PROVE SessionsIInv'
  <2>1. StoreOK' /\ RestOK'
    BY <1>1, <1>3, StoreStays, RestKeeps DEF Moves
  <2>2. Quiet(r) /\ UNCHANGED <<storeVars, oauth>>
    BY <1>3 DEF Moves, Quiet
  <2> QED
    BY <1>1, <2>1, <2>2, QuietKeeps DEF SessionsIInv
<1>4. ASSUME NEW r \in Requests, Touches(r) PROVE SessionsIInv'
  BY <1>1, <1>4, TouchesServe, ServesStored, RestKeeps, TouchesGuards DEF SessionsIInv
<1>5. ASSUME NEW k \in AttemptsKeys \cup StateKeys, KeyLapses(k) PROVE SessionsIInv'
  <2>1. StoreOK'
    BY <1>1, <1>5, LapseStored DEF KeyLapses
  <2>2. RestOK'
    BY <1>1, <1>5 DEF KeyLapses, RestOK, At
  <2> QED
    BY <1>1, <1>5, <2>1, <2>2, LapseGuards DEF SessionsIInv
<1> QED
  BY <1>1, <1>2, <1>3, <1>4, <1>5, StepKinds DEF StateKeys

\* What signing in keeps of its counters and states, however the requests
\* interleave
THEOREM SessionsHold == SessionsSpec => []SessionsIInv
<1>1. SessionsIInv /\ [SessionsNext]_sessionVars => SessionsIInv'
  BY SessionsKeep
<1> QED
  BY SessionsStart, <1>1, PTL DEF SessionsSpec

\* The tables, the keys of the store and what a request has read are of their
\* types: a counter stays within its bound while the store fails too.
THEOREM SessionsTyped == SessionsSpec => []SessionsTypeOK
<1>1. SessionsIInv => SessionsTypeOK
  BY DEF SessionsIInv, Verified, StoreOK, RestOK, SessionsTypeOK, Attempts, Origins, StateKeys
<1> QED
  BY SessionsHold, <1>1, PTL

LEMMA GuardShows == SessionsIInv => SignInGuarded
<1> SUFFICES ASSUME SessionsIInv, Sound
             PROVE  /\ \A k \in AttemptsKeys :
                          /\ CountOf(Entry(k)) <= MaxAttempts - 1 + Cardinality(Requests)
                          /\ Entry(k) # Absent /\ ~Entry(k).expires =>
                                \E r \in Requests : At(r, "expire") /\ KeyOf(r) = k
                    /\ \A s \in States : oauth[s] # "reused"
  BY DEF SignInGuarded, LockoutBounded, AttemptsAreTimed, StateTakenOnce, KeyOf
<1>1. Guard /\ StoreOK
  BY DEF SessionsIInv
<1>2. ASSUME NEW k \in AttemptsKeys
      PROVE  CountOf(Entry(k)) <= MaxAttempts - 1 + Cardinality(Requests)
  <2>1. InFlight(k) \in SUBSET Requests
    BY DEF InFlight
  <2>2. Cardinality(InFlight(k)) \in Nat
    BY <2>1, Crowd
  <2>3. CountOf(Entry(k)) \in 0 .. CountBound
    BY <1>1, SoundEntry, CountingAttempts
  <2> QED
    BY <1>1, <2>2, <2>3, BoundIsNat DEF Guard, WithinLimit
<1> QED
  BY <1>1, <1>2 DEF Guard, BeingTimed, TakenOnce

\* Wrong codes are bounded by the limit and the requests that were let in
\* together, their counter is timed or about to be, and a state given out for
\* a sign-in with Google is taken once (auth.py:247, 777, redis_client.py:255).
THEOREM SigningInIsGuarded == SessionsSpec => []SignInGuarded
BY SessionsHold, GuardShows, PTL
-----------------------------------------------------------------------------
(* Exchange rates *)

\* A call to the provider spans one midnight, and the row is looked for on the
\* day it is written to or the day before.
JobRateOK(j) ==
    /\ pricing[j].step \in {"fetch", "store", "insert", "update"} =>
          pricing[j].day \in {today - 1, today}
    /\ pricing[j].step = "store" => pricing[j].rate = pricing[j].day
    /\ pricing[j].step \in {"insert", "update"} =>
          pricing[j].rate \in {pricing[j].day - 1, pricing[j].day} \cap Days

RatesIInv == RatesTypeOK /\ StoredRateRecent /\ \A j \in RateJobs : JobRateOK(j)

LEMMA LatestOf ==
    ASSUME NEW d \in Nat, NEW T \in SUBSET (1 .. d), T # {}
    PROVE  \E e \in T : \A f \in T : f <= e
<1> DEFINE R == {p \in Nat \X Nat : p[1] < p[2]}
           S == {d - e : e \in T}
<1>0. S \subseteq Nat /\ S # {}
  <2>1. \A e \in T : d - e \in Nat
    <3>1. \A e \in T : e \in 1 .. d
      OBVIOUS
    <3> QED
      BY <3>1
  <2>2. PICK e \in T : TRUE
    OBVIOUS
  <2>3. d - e \in S
    OBVIOUS
  <2> QED
    BY <2>1, <2>3
<1>1. IsWellFoundedOn(R, Nat)
  BY NatLessThanWellFounded DEF OpToRel
<1> HIDE DEF R
<1>2. PICK x \in S : \A y \in S : <<y, x>> \notin R
  <2> HIDE DEF S
  <2> QED
    BY <1>0, <1>1, WFMin
<1>3. \A y \in S : x <= y
  <2> HIDE DEF S
  <2>1. \A y \in S : ~(y < x)
    BY <1>0, <1>2 DEF R
  <2> QED
    BY <1>0, <1>2, <2>1
<1>5. PICK e \in T : x = d - e
  BY <1>2
<1>6. ASSUME NEW f \in T PROVE f <= e
  <2>1. d - f \in S
    OBVIOUS
  <2> QED
    BY <1>3, <1>5, <2>1
<1> QED
  BY <1>6

\* The latest rate known is one that is stored.
LEMMA RateAsOfStored ==
    ASSUME RatesTypeOK, NEW d \in Days
    PROVE  RateAsOf(d) \in Days \cup {NoRate}
<1> DEFINE known == {e \in 1 .. d : rateOf[e] # NoRate}
<1>1. CASE known = {}
  BY <1>1 DEF RateAsOf
<1>2. CASE known # {}
  <2>1. known \in SUBSET (1 .. d) /\ d \in Nat /\ LastDay \in Nat /\ d <= LastDay
    BY RatesAssumption DEF Days
  <2>2. \E e \in known : \A f \in known : f <= e
    BY <1>2, <2>1, LatestOf
  <2>3. (CHOOSE e \in known : \A f \in known : f <= e) \in known
    BY <2>2
  <2>4. known \subseteq Days
    BY <2>1 DEF Days
  <2> QED
    BY <1>2, <2>3, <2>4 DEF RateAsOf, RatesTypeOK
<1> QED
  BY <1>1, <1>2

LEMMA RatesStart == RatesInit => RatesIInv
BY RatesAssumption
   DEF RatesInit, RatesIInv, RatesTypeOK, StoredRateRecent, JobRateOK, Resting, Days, NoRate

RateSteps == {"idle", "fetch", "store", "insert", "update", "done", "failed"}

\* A step that stores nothing: what its job holds afterwards is all there is to
\* look at.
LEMMA GoesKeeps ==
    ASSUME RatesIInv, NEW j \in RateJobs, NEW step \in RateSteps, NEW day \in Days,
           NEW rate \in Days \cup {NoRate, Fallback}, Goes(j, step, day, rate),
           today' = today, rateOf' \in [Days -> Days \cup {NoRate}], StoredRateRecent',
           step \in {"fetch", "store", "insert", "update"} => day \in {today - 1, today},
           step = "store" => rate = day,
           step \in {"insert", "update"} => rate \in {day - 1, day} \cap Days
    PROVE  RatesIInv'
<1>1. pricing \in [RateJobs -> [step : RateSteps, day : Days, rate : Days \cup {NoRate, Fallback}]]
  BY DEF RatesIInv, RatesTypeOK, RateSteps
<1> DEFINE new == [step |-> step, day |-> day, rate |-> rate]
<1>2. /\ new \in [step : RateSteps, day : Days, rate : Days \cup {NoRate, Fallback}]
      /\ pricing' = [pricing EXCEPT ![j] = new]
      /\ new.step = step /\ new.day = day /\ new.rate = rate
  BY DEF Goes
<1> HIDE DEF new
<1>3. pricing' \in [RateJobs -> [step : RateSteps, day : Days, rate : Days \cup {NoRate, Fallback}]]
  BY <1>1, <1>2
<1>4. RatesTypeOK'
  BY <1>3 DEF RatesIInv, RatesTypeOK, RateSteps
<1>5. ASSUME NEW i \in RateJobs PROVE JobRateOK(i)'
  <2>1. CASE i = j
    <3>1. pricing'[i] = new
      BY <1>1, <1>2, <2>1
    <3> QED
      BY <1>2, <3>1 DEF JobRateOK
  <2>2. CASE i # j
    <3>1. pricing'[i] = pricing[i] /\ JobRateOK(i)
      BY <1>1, <1>2, <2>2 DEF RatesIInv
    <3> QED
      BY <3>1 DEF JobRateOK
  <2> QED
    BY <2>1, <2>2
<1> QED
  BY <1>4, <1>5 DEF RatesIInv

LEMMA RateStepsKeep ==
    ASSUME RatesIInv, NEW j \in RateJobs, Price(j) \/ BeginSync(j) \/ RatesStep(j)
    PROVE  RatesIInv'
<1>1. /\ today \in Days /\ rateOf \in [Days -> Days \cup {NoRate}] /\ 1 \in Days
      /\ Days \subseteq Int /\ NoRate \notin Days
      /\ pricing[j].day \in Days /\ pricing[j].rate \in Days \cup {NoRate, Fallback}
      /\ JobRateOK(j) /\ StoredRateRecent
  BY RatesAssumption DEF RatesIInv, RatesTypeOK, Days, NoRate
<1>2. UNCHANGED rateOf => StoredRateRecent' /\ rateOf' \in [Days -> Days \cup {NoRate}]
  BY <1>1 DEF StoredRateRecent
<1>3. CASE Price(j) \/ BeginSync(j)
  <2>1. RateAsOf(today) \in Days \cup {NoRate}
    BY <1>1, RateAsOfStored DEF RatesIInv
  <2>2. /\ UNCHANGED <<today, rateOf>>
        /\ \/ Goes(j, "done", today, RateAsOf(today))
           \/ Goes(j, "fetch", today, NoRate)
    BY <1>3 DEF Price, BeginSync
  <2> QED
    BY <1>1, <1>2, <2>1, <2>2, GoesKeeps DEF RateSteps
<1>4. CASE Quote(j)
  BY <1>1, <1>2, <1>4, GoesKeeps DEF Quote, RateSteps
<1>5. CASE Refuse(j) \/ Outage(j)
  BY <1>1, <1>2, <1>5, GoesKeeps DEF Refuse, Outage, RateSteps
<1>6. CASE FindRow(j)
  <2>1. pricing[j].rate \in {today - 1, today} \cap Days
    BY <1>1, <1>6 DEF FindRow, Stands, JobRateOK
  <2>2. \E step \in {"insert", "update"} : Goes(j, step, today, pricing[j].rate)
    BY <1>6 DEF FindRow
  <2> QED
    BY <1>1, <1>2, <1>6, <2>1, <2>2, GoesKeeps DEF FindRow, RateSteps
<1>7. CASE StoreRate(j)
  <2> DEFINE d == pricing[j].day
  <2>1. /\ pricing[j].rate \in {d - 1, d} \cap Days
        /\ rateOf' = [rateOf EXCEPT ![d] = pricing[j].rate]
        /\ Goes(j, "done", d, pricing[j].rate) /\ today' = today
    BY <1>1, <1>7 DEF StoreRate, Stands, JobRateOK
  <2>2. StoredRateRecent' /\ rateOf' \in [Days -> Days \cup {NoRate}]
    BY <1>1, <2>1 DEF StoredRateRecent
  <2> QED
    BY <1>1, <2>1, <2>2, GoesKeeps DEF RateSteps
<1>8. CASE InsertFails(j) \/ EndPricing(j)
  BY <1>1, <1>2, <1>8, GoesKeeps DEF InsertFails, EndPricing, RateSteps
<1> QED
  BY <1>3, <1>4, <1>5, <1>6, <1>7, <1>8 DEF RatesStep

LEMMA MidnightKeeps ==
    ASSUME RatesIInv, Midnight PROVE RatesIInv'
<1>1. today' = today + 1 /\ today' \in Days /\ UNCHANGED <<rateOf, pricing>>
  BY RatesAssumption DEF Midnight, RatesIInv, RatesTypeOK, Days
<1>2. ASSUME NEW j \in RateJobs PROVE JobRateOK(j)'
  <2>1. /\ JobRateOK(j) /\ today \in Int
        /\ pricing[j].step \in {"fetch", "store", "insert", "update"} => pricing[j].day = today
    BY DEF RatesIInv, RatesTypeOK, Midnight, Days
  <2> QED
    BY <1>1, <2>1 DEF JobRateOK
<1> QED
  BY <1>1, <1>2 DEF RatesIInv, RatesTypeOK, StoredRateRecent

LEMMA RatesKeep ==
    ASSUME RatesIInv, [RatesNext]_ratesVars PROVE RatesIInv'
<1>1. CASE UNCHANGED ratesVars
  BY <1>1 DEF ratesVars, RatesIInv, RatesTypeOK, StoredRateRecent, JobRateOK
<1> QED
  BY <1>1, MidnightKeeps, RateStepsKeep DEF RatesNext

\* What is stored as the rate of a day was quoted that day or the day before,
\* for any number of checkouts, tasks and days (fx_rates.py:71).
THEOREM StoredRatesAreRecent == RatesSpec => [](RatesTypeOK /\ StoredRateRecent)
<1>1. RatesIInv /\ [RatesNext]_ratesVars => RatesIInv'
  BY RatesKeep
<1>2. RatesIInv => RatesTypeOK /\ StoredRateRecent
  BY DEF RatesIInv
<1> QED
  BY RatesStart, <1>1, <1>2, PTL DEF RatesSpec
-----------------------------------------------------------------------------
(* The services on one Redis, all at once *)

TogetherNext ==
    \/ LimiterNext /\ UNCHANGED <<tables, oauth, proven, signedIn, job, ratesVars>>
    \/ SessionsNext /\ UNCHANGED <<call, admitted, ratesVars>>
    \/ RatesNext /\ UNCHANGED <<limiterVars, tables, oauth, proven, signedIn, job>>

servicesVars == <<limiterVars, sessionVars, ratesVars>>

TogetherSpec ==
    LimiterInit /\ SessionsInit /\ RatesInit /\ [][TogetherNext]_servicesVars

ServicesIInv == LimiterIInv /\ SessionsIInv /\ RatesIInv

SameEntry(k) == redis'[k] = redis[k] /\ \A p \in Processes : memory'[p][k] = memory[p][k]

LEMMA EntrySame ==
    ASSUME link' = link, NEW k, SameEntry(k), Sound
    PROVE  Entry(k)' = Entry(k)
<1>1. CASE link = "up"
  BY <1>1 DEF Entry, SameEntry
<1>2. CASE link # "up"
  <2>1. (CHOOSE p \in Processes : TRUE) \in Processes
    BY <1>2 DEF Sound
  <2> QED
    BY <1>2, <2>1 DEF Entry, SameEntry
<1> QED
  BY <1>1, <1>2

\* Whoever writes under other keys leaves the limiter and the locks alone,
LEMMA LimiterApart ==
    ASSUME LimiterIInv, StoreShape', link' = link, UNCHANGED <<call, admitted>>,
           SameEntry(LimitKey), SameEntry(LockKey)
    PROVE  LimiterIInv'
<1>1. LimiterTypeOK'
  BY DEF LimiterIInv, LimiterTypeOK, Holds, SameEntry
<1>2. ASSUME Sound' PROVE Counted' /\ Ticking' /\ Owned'
  <2>1. /\ Sound /\ Counted /\ Ticking /\ Owned
        /\ Entry(LimitKey)' = Entry(LimitKey) /\ Entry(LockKey)' = Entry(LockKey)
    BY <1>2, SoundStays, EntrySame DEF LimiterIInv
  <2> QED
    BY <2>1 DEF Counted, Ticking, Owned
<1> QED
  BY <1>1, <1>2 DEF LimiterIInv

\* and whoever writes those leaves the counters and states of signing in.
LEMMA SessionsApart ==
    ASSUME SessionsIInv, StoreShape', link' = link,
           UNCHANGED <<tables, oauth, proven, signedIn, job>>,
           \A k \in AttemptsKeys \cup StateKeys : SameEntry(k)
    PROVE  SessionsIInv'
<1>1. Verified'
  BY StoreOnly DEF SessionsIInv, tables
<1>2. StoreOK'
  <2>1. \A k \in AttemptsKeys : Holds(k, Attempts)'
    BY DEF SessionsIInv, StoreOK, Holds, SameEntry
  <2>2. \A k \in StateKeys : Holds(k, Origins)'
    BY DEF SessionsIInv, StoreOK, Holds, SameEntry
  <2> QED
    BY <2>1, <2>2 DEF StoreOK, Holds, AttemptsKeys, StateKeys
<1>3. RestOK'
  BY DEF SessionsIInv, RestOK, At
<1>4. ASSUME Sound' PROVE Guard'
  <2>1. Sound /\ Guard
    BY <1>4, SoundStays DEF SessionsIInv
  <2>2. \A k \in AttemptsKeys \cup StateKeys : Entry(k)' = Entry(k)
    BY <2>1, EntrySame
  <2>3. WithinLimit'
    BY <2>1, <2>2 DEF Guard, WithinLimit, CountOf, InFlight, KeyOf, AttemptsKeys
  <2>4. BeingTimed'
    BY <2>1, <2>2 DEF Guard, BeingTimed, At, KeyOf, AttemptsKeys
  <2>5. TakenOnce'
    BY <2>1, <2>2 DEF Guard, TakenOnce, StateKeys
  <2> QED
    BY <2>3, <2>4, <2>5 DEF Guard
<1> QED
  BY <1>1, <1>2, <1>3, <1>4 DEF SessionsIInv

\* No step of the limiter changes what calls to Redis meet.
LEMMA LimiterLink ==
    ASSUME LimiterNext PROVE link' = link
BY DEF LimiterNext, LimiterStep, LimiterLapse, Lapse, LapseInRedis, LapseInMemory, RateLimit,
       StartWindow, TakeLock, GiveLock, Increment, SetExpiry, Acquire, Release, Write

\* The limiter and the locks write their two keys only.
LEMMA LimiterWrites ==
    ASSUME LimiterIInv, LimiterNext,
           NEW j \in Keys \ {LimitKey, LockKey}
    PROVE  link' = link /\ SameEntry(j)
<1>0. StoreShape /\ LimitKey \in Keys /\ LockKey \in Keys
  BY LimiterAssumption DEF LimiterIInv, LimiterTypeOK
<1>1. ASSUME NEW k \in {LimitKey, LockKey}, Lapse(k) PROVE link' = link /\ SameEntry(j)
  BY <1>0, <1>1, LapseWrites DEF SameEntry
<1>2. ASSUME NEW c \in Callers, NEW k \in {LimitKey, LockKey}, NEW route, NEW e, NEW m,
             Write(ProcessOf[c], k, route, e, m)
      PROVE  link' = link /\ SameEntry(j)
  <2>1. link' = link /\ ProcessOf[c] \in Processes /\ j # k /\ k \in Keys
    BY <1>0, <1>2, LimiterAssumption DEF Write
  <2>2. redis'[j] = redis[j] /\ \A o \in Processes : memory'[o][j] = memory[o][j]
    BY <1>0, <1>2, <2>1, WriteKeepsOthers
  <2> QED
    BY <2>1, <2>2 DEF SameEntry
<1>3. ASSUME NEW c \in Callers, LimiterStep(c) PROVE link' = link /\ SameEntry(j)
  <2>1. CASE RateLimit(c)
    BY <1>2, <2>1 DEF RateLimit, Increment
  <2>2. CASE StartWindow(c)
    BY <1>2, <2>2 DEF StartWindow, SetExpiry
  <2>3. CASE TakeLock(c)
    BY <1>2, <2>3 DEF TakeLock, Acquire
  <2>4. CASE GiveLock(c)
    BY <1>2, <2>4 DEF GiveLock, Release
  <2> QED
    BY <1>3, <2>1, <2>2, <2>3, <2>4 DEF LimiterStep
<1> QED
  BY <1>1, <1>3 DEF LimiterNext, LimiterLapse

\* Signing in writes no other keys than its own.
LEMMA SessionsWrites ==
    ASSUME SessionsIInv, [SessionsNext]_sessionVars,
           NEW j \in Keys \ (AttemptsKeys \cup StateKeys)
    PROVE  link' = link /\ SameEntry(j)
<1>0. Verified /\ StoreOK /\ StoreShape
  BY DEF SessionsIInv, StoreOK
<1>1. CASE UNCHANGED storeVars
  BY <1>1 DEF storeVars, SameEntry
<1>2. ASSUME NEW r \in Requests, Touches(r) PROVE link' = link /\ SameEntry(j)
  BY <1>0, <1>2, TouchesServe, ServesApart DEF SameEntry
<1>3. ASSUME NEW k \in AttemptsKeys \cup StateKeys, KeyLapses(k)
      PROVE  link' = link /\ SameEntry(j)
  <2>1. k \in Keys /\ j # k /\ Lapse(k)
    BY <1>3, SessionKeys DEF KeyLapses
  <2> QED
    BY <1>0, <2>1, LapseWrites DEF SameEntry
<1> QED
  BY <1>0, <1>1, <1>2, <1>3, StepKinds DEF Rests, Moves, StateKeys

LEMMA TogetherKeeps ==
    ASSUME ServicesIInv, [TogetherNext]_servicesVars PROVE ServicesIInv'
<1>0. /\ LimiterIInv /\ SessionsIInv /\ RatesIInv
      /\ LimitKey \in Keys \ (AttemptsKeys \cup StateKeys)
      /\ LockKey \in Keys \ (AttemptsKeys \cup StateKeys)
      /\ AttemptsKeys \cup StateKeys \subseteq Keys \ {LimitKey, LockKey}
  BY KeysApart, LimiterAssumption, SessionKeys DEF ServicesIInv, StateKeys
<1>1. CASE LimiterNext /\ UNCHANGED <<tables, oauth, proven, signedIn, job, ratesVars>>
  <2>1. LimiterIInv'
    BY <1>0, <1>1, LimiterKeeps
  <2>2. StoreShape'
    BY <2>1 DEF LimiterIInv, LimiterTypeOK
  <2>3. LimiterNext
    BY <1>1
  <2>4. link' = link /\ \A k \in AttemptsKeys \cup StateKeys : SameEntry(k)
    BY <1>0, <2>3, LimiterWrites, LimiterLink
  <2>5. SessionsIInv'
    BY <1>0, <1>1, <2>2, <2>4, SessionsApart
  <2>6. RatesIInv'
    BY <1>0, <1>1, RatesKeep
  <2> QED
    BY <2>1, <2>5, <2>6 DEF ServicesIInv
<1>2. CASE SessionsNext /\ UNCHANGED <<call, admitted, ratesVars>>
  <2>1. SessionsIInv'
    BY <1>0, <1>2, SessionsKeep
  <2>2. StoreShape'
    BY <2>1 DEF SessionsIInv, StoreOK
  <2>3. link' = link /\ SameEntry(LimitKey) /\ SameEntry(LockKey)
    BY <1>0, <1>2, SessionsWrites
  <2>4. LimiterIInv'
    BY <1>0, <1>2, <2>2, <2>3, LimiterApart
  <2>5. RatesIInv'
    BY <1>0, <1>2, RatesKeep
  <2> QED
    BY <2>1, <2>4, <2>5 DEF ServicesIInv
<1>3. CASE \/ RatesNext /\ UNCHANGED <<limiterVars, tables, oauth, proven, signedIn, job>>
           \/ UNCHANGED servicesVars
  <2>1. RatesIInv'
    BY <1>0, <1>3, RatesKeep DEF servicesVars
  <2>2. UNCHANGED <<limiterVars, tables, oauth, proven, signedIn, job>>
    BY <1>3 DEF servicesVars, sessionVars, tables
  <2>3. LimiterIInv'
    BY <1>0, <2>2, LimiterKeeps
  <2>4. UNCHANGED sessionVars
    BY <2>2 DEF limiterVars, tables, sessionVars
  <2>5. SessionsIInv'
    BY <1>0, <2>4, SessionsKeep
  <2> QED
    BY <2>1, <2>3, <2>5 DEF ServicesIInv
<1> QED
  BY <1>1, <1>2, <1>3 DEF TogetherNext

\* The services keep what they keep alone when they share one Redis and run
\* all at once: the type invariants, the limit of a window, the owner of a
\* lock, confirmed addresses behind refresh tokens, and guarded signing in.
THEOREM ServicesHold ==
    TogetherSpec => [](/\ ServicesTypeOK /\ WindowBounded /\ HolderOwnsLock
                       /\ TokensOnlyForVerified /\ SignInGuarded)
<1>1. ServicesIInv /\ [TogetherNext]_servicesVars => ServicesIInv'
  BY TogetherKeeps
<1>2. LimiterInit /\ SessionsInit /\ RatesInit => ServicesIInv
  BY LimiterStarts, SessionsStart, RatesStart DEF ServicesIInv
<1>3. ServicesIInv => ServicesTypeOK
  BY DEF ServicesIInv, LimiterIInv, RatesIInv, ServicesTypeOK, SessionsIInv, Verified, StoreOK,
         RestOK, SessionsTypeOK, Attempts, Origins, StateKeys
<1>4. ServicesIInv => WindowBounded /\ HolderOwnsLock
  BY DEF ServicesIInv, LimiterIInv, WindowBounded, Counted, HolderOwnsLock, Owned
<1>5. ServicesIInv => TokensOnlyForVerified /\ SignInGuarded
  BY GuardShows DEF ServicesIInv, SessionsIInv, Verified, TokensOnlyForVerified, TokenOK
<1> QED
  BY <1>1, <1>2, <1>3, <1>4, <1>5, PTL DEF TogetherSpec

\* One part at a time is a way for all to run.
LEMMA MCStepsTogether == [MCNext]_mcVars => [TogetherNext]_servicesVars
<1>1. ASSUME NEW r \in Requests, NEW u \in Users, StartOf(r, u) PROVE Start(r, u)
  BY <1>1 DEF StartOf, Start
<1>2. ASSUME Ageing \/ \E r \in Requests : Continue(r) \/ \E u \in Users : StartOf(r, u)
      PROVE  SessionsNext
  BY <1>1, <1>2 DEF SessionsNext
<1>3. CASE UNCHANGED mcVars
  BY <1>3 DEF mcVars, servicesVars
<1> QED
  BY <1>2, <1>3 DEF MCNext, TogetherNext

\* The type invariants of the services, in the runs
THEOREM ServicesTypedInRuns == MCSpec => []ServicesTypeOK
<1>1. MCInit => LimiterInit /\ SessionsInit /\ RatesInit
  BY DEF MCInit
<1> QED
  BY <1>1, MCStepsTogether, ServicesHold, PTL DEF MCSpec, TogetherSpec

\* Signing in is guarded, in the runs (auth.py:247, 781, redis_client.py:255).
THEOREM GuardedInRuns == MCSpec => []SignInGuarded
<1>1. MCInit => LimiterInit /\ SessionsInit /\ RatesInit
  BY DEF MCInit
<1> QED
  BY <1>1, MCStepsTogether, ServicesHold, PTL DEF MCSpec, TogetherSpec
=============================================================================
