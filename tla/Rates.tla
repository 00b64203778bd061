-------------------------------- MODULE Rates --------------------------------
(***************************************************************************)
(* The exchange rate a checkout is priced with: app/services/fx_rates.py   *)
(* over the table of app/services/exchange_rates.py.  A rate is named by   *)
(* the day the provider quoted it, so that its age can be told.            *)
(***************************************************************************)
EXTENDS Integers

CONSTANTS
    Pricings,    \* checkouts that need a rate
    Syncs,       \* hourly tasks
    LastDay,     \* bound: days are 1 .. LastDay
    Answers      \* what the provider may do: "rate", "refusal" (an error
                 \* status or no NGN in the reply), "outage" (no reply)

ASSUME RatesAssumption ==
    /\ LastDay \in Nat \ {0}
    /\ Answers \subseteq {"rate", "refusal", "outage"}
    /\ Pricings \cap Syncs = {}

Days == 1 .. LastDay
NoRate == 0
Fallback == -1      \* fallback_usd_ngn_rate of the settings
RateJobs == Pricings \cup Syncs

VARIABLES
    today,      \* the date in UTC
    rateOf,     \* exchange_rates: day -> the rate stored for it
    pricing     \* per checkout and task: step, the day it is at, its rate

ratesVars == <<today, rateOf, pricing>>

Resting == [step |-> "idle", day |-> 1, rate |-> NoRate]

RatesInit ==
    /\ today = 1
    /\ rateOf = [d \in Days |-> NoRate]
    /\ pricing = [j \in RateJobs |-> Resting]

\* get_historical_rate: the latest row on or before the day
RateAsOf(d) ==
    LET known == {e \in 1 .. d : rateOf[e] # NoRate}
    IN  IF known = {} THEN NoRate
        ELSE rateOf[CHOOSE e \in known : \A f \in known : f <= e]

Goes(j, step, day, rate) ==
    pricing' = [pricing EXCEPT ![j] = [step |-> step, day |-> day, rate |-> rate]]
Stands(j, step) == pricing[j].step = step

\* get_current_usd_ngn_rate: a stored rate, or else a live one
Price(j) ==
    /\ j \in Pricings /\ Stands(j, "idle")
    /\ IF RateAsOf(today) # NoRate
       THEN Goes(j, "done", today, RateAsOf(today))
       ELSE Goes(j, "fetch", today, NoRate)
    /\ UNCHANGED <<today, rateOf>>

BugBeginSync(j) ==   \* a bug: any known rate is taken for today's
    /\ j \in Syncs /\ Stands(j, "idle") /\ RateAsOf(today) = NoRate
    /\ Goes(j, "fetch", today, NoRate)
    /\ UNCHANGED <<today, rateOf>>
BeginSync(j) ==
    /\ j \in Syncs /\ Stands(j, "idle")
    /\ Goes(j, "fetch", today, NoRate)
    /\ UNCHANGED <<today, rateOf>>

\* fetch_live_usd_ngn_rate
Quote(j) ==
    /\ Stands(j, "fetch") /\ "rate" \in Answers
    /\ Goes(j, "store", today, today)
    /\ UNCHANGED <<today, rateOf>>

\* FxRateFetchError is caught: the checkout goes on with the emergency rate.
BugRefuse(j) ==   \* a bug: the emergency rate is stored like a live one
    /\ Stands(j, "fetch") /\ "refusal" \in Answers
    /\ Goes(j, "store", today, Fallback)
    /\ UNCHANGED <<today, rateOf>>
Refuse(j) ==
    /\ Stands(j, "fetch") /\ "refusal" \in Answers
    /\ Goes(j, "done", today, Fallback)
    /\ UNCHANGED <<today, rateOf>>

\* A time-out or a broken connection is an exception of httpx; no handler.
Outage(j) ==
    /\ Stands(j, "fetch") /\ "outage" \in Answers
    /\ Goes(j, "failed", today, NoRate)
    /\ UNCHANGED <<today, rateOf>>

\* upsert_exchange_rate looks for the row of what is today by then.
FindRow(j) ==
    /\ Stands(j, "store")
    /\ Goes(j, IF rateOf[today] = NoRate THEN "insert" ELSE "update",
            today, pricing[j].rate)
    /\ UNCHANGED <<today, rateOf>>

\* The unique constraint admits one row a day: the other insert fails.
StoreRate(j) ==
    LET d == pricing[j].day
    IN  /\ \/ Stands(j, "update")
           \/ Stands(j, "insert") /\ rateOf[d] = NoRate
        /\ rateOf' = [rateOf EXCEPT ![d] = pricing[j].rate]
        /\ Goes(j, "done", d, pricing[j].rate)
        /\ UNCHANGED today

InsertFails(j) ==
    /\ Stands(j, "insert") /\ rateOf[pricing[j].day] # NoRate
    /\ Goes(j, "failed", pricing[j].day, NoRate)
    /\ UNCHANGED <<today, rateOf>>

\* The next checkout, the next hour
EndPricing(j) ==
    /\ Stands(j, "done") \/ Stands(j, "failed")
    /\ Goes(j, "idle", 1, NoRate)
    /\ UNCHANGED <<today, rateOf>>

\* Bound: a call to the provider (10 s) spans one midnight at most.
Midnight ==
    /\ today < LastDay
    /\ \A j \in RateJobs :
          pricing[j].step \in {"fetch", "store", "insert", "update"} =>
              pricing[j].day = today /\ pricing[j].rate \in {NoRate, today}
    /\ today' = today + 1
    /\ UNCHANGED <<rateOf, pricing>>

RatesStep(j) ==
    \/ Quote(j) \/ Refuse(j) \/ Outage(j) \/ FindRow(j)
    \/ StoreRate(j) \/ InsertFails(j) \/ EndPricing(j)
RatesNext ==
    \/ Midnight
    \/ \E j \in RateJobs : Price(j) \/ BeginSync(j) \/ RatesStep(j)

\* Tasks and checkouts run on; the task starts every hour; a provider that is
\* asked again and again answers some time.
RatesFairness ==
    \A j \in RateJobs : /\ WF_ratesVars(RatesStep(j)) /\ WF_ratesVars(BeginSync(j))
                     /\ SF_ratesVars(Quote(j))

RatesSpec == RatesInit /\ [][RatesNext]_ratesVars

RatesTypeOK ==
    /\ today \in Days
    /\ rateOf \in [Days -> Days \cup {NoRate}]
    /\ pricing \in [RateJobs ->
          [step : {"idle", "fetch", "store", "insert", "update", "done", "failed"},
           day : Days, rate : Days \cup {NoRate, Fallback}]]

(***************************************************************************)
(* What is stored as the rate of a day was quoted on that day or, by a     *)
(* call that spans midnight, on the day before: never the emergency rate,  *)
(* and never a rate kept from earlier (fx_rates.py:71).                    *)
(***************************************************************************)
StoredRateRecent ==
    \A d \in Days : rateOf[d] # NoRate => rateOf[d] \in {d - 1, d}

(***************************************************************************)
(* Each day gets its rate while it lasts, whoever stores it first and      *)
(* whatever inserts fail on the way (fx_rates.py:70).                      *)
(***************************************************************************)
DayGetsRate ==
    \A d \in Days : today = d ~> (rateOf[d] # NoRate \/ today # d)

(***************************************************************************)
(* "The rate used is always current": a checkout is priced with a rate     *)
(* quoted that day or the day before, unless the provider refused to quote *)
(* (fx_rates.py:85).                                                       *)
(***************************************************************************)
RateIsCurrent ==
    \A j \in Pricings : Stands(j, "done") =>
        \/ pricing[j].rate = Fallback
        \/ pricing[j].rate >= pricing[j].day - 1
=============================================================================
