----------------------------- MODULE MCServices -----------------------------
(***************************************************************************)
(* The services that share Redis or stand behind a checkout, one part at a *)
(* time: requests of the other parts rest.                                 *)
(***************************************************************************)
EXTENDS Limiter, Sessions, Rates

CONSTANTS p1, c1, c2, c3, r1, r2, u1, s1

\* Each subject prefixes its keys (main.py:72, auth.py:77, auth.py:741).
ASSUME KeysApart ==
    {LimitKey, LockKey} \cap (AttemptsKeys \cup {StateKey(s) : s \in States}) = {}

VARIABLE part   \* what is under way in this behaviour

mcVars == <<limiterVars, sessionVars, ratesVars, part>>

OneProcess == [c \in Callers |-> p1]
OneHost == [r \in Requests |-> p1]
AllKeys == AttemptsKeys \cup {StateKey(s) : s \in States}
              \cup {<<"ratelimit">>, <<"lock">>}
LimiterKey == <<"ratelimit">>
LocksKey == <<"lock">>

Parts == {"limiter", "codes", "tokens", "two-factor", "google", "rates"}
SessionParts == {"codes", "tokens", "two-factor", "google"}

\* The store fails in the limiter and in sign-in with Google, where it is all
\* there is; a request of two-factor authentication finds an account.
MCInit ==
    /\ part \in Parts
    /\ LimiterInit /\ SessionsInit /\ RatesInit
    /\ part = "codes" => link \in {"up", "down"}
    /\ part \in {"tokens", "two-factor", "rates"} => link = "up"
    /\ part \in {"limiter", "two-factor", "rates"} => account[u1] # NoAccount

StartOf(r, u) ==
    \/ part = "codes" /\ StartCode(r, u)
    \/ part = "tokens" /\ (StartPassword(r, u) \/ StartLogin(r, u) \/ StartToken(r, u))
    \/ part = "two-factor" /\ (StartTwoFactor(r, u) \/ StartLogin(r, u))
    \/ part = "google" /\ StartGoogle(r, u)

MCNext ==
    \/ /\ part = "limiter" /\ LimiterNext
       /\ UNCHANGED <<tables, oauth, proven, signedIn, job, ratesVars, part>>
    \/ /\ part \in SessionParts
       /\ \/ Ageing
          \/ \E r \in Requests : Continue(r) \/ \E u \in Users : StartOf(r, u)
       /\ UNCHANGED <<call, admitted, ratesVars, part>>
    \/ /\ part = "rates" /\ RatesNext
       /\ UNCHANGED <<limiterVars, tables, oauth, proven, signedIn, job, part>>

MCSpec ==
    /\ MCInit /\ [][MCNext]_mcVars
    /\ LimiterFairness /\ SessionsFairness
    /\ part = "rates" => RatesFairness

\* One part alone, for what it does not keep
TwoFactorSpec == MCInit /\ part = "two-factor" /\ [][MCNext]_mcVars
PricingSpec == MCInit /\ part = "rates" /\ [][MCNext]_mcVars

\* The type invariants of the three modules
ServicesTypeOK == LimiterTypeOK /\ SessionsTypeOK /\ RatesTypeOK

\* Whoever is turned away by a counter is not turned away for good: the window
\* of the limiter and the lock-out of an account end (redis_client.py:257).
CountersLapse == WindowEnds /\ LockoutEnds

\* Each day gets its exchange rate while it lasts (DayGetsRate of Rates), where
\* the hourly task runs (celery_app.py:48), and what is stored was quoted on that
\* day or, by a call that spans midnight, on the day before (StoredRateRecent).
EachDayGetsRate == part = "rates" => DayGetsRate /\ []StoredRateRecent
=============================================================================
