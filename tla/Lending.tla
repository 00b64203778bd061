------------------------------- MODULE Lending -------------------------------
(***************************************************************************)
(* What the analyses say of one bank account: app/services/bank_*.py.      *)
(*                                                                         *)
(* A statement prints its entries with a running balance.  Each becomes a  *)
(* row, unless the reader rejects it; its id is random, and the analyses   *)
(* read rows by date and id, so that rows of one day come in any order.    *)
(* Rows are later marked as transfers between own accounts (module         *)
(* TransferScan) or as falling in a contextual marker (module Ingestion),  *)
(* and drop out of the analyses, which are functions of the rows.          *)
(*                                                                         *)
(* Money is in whole units, dates are days of a calendar of 30-day months. *)
(***************************************************************************)
EXTENDS Scoring, Sequences, FiniteSets, FiniteSetsExt

CONSTANTS Entries,    \* what a statement may print
          Histories,  \* what it may begin with: sequences of entries
          Markers,    \* the days a contextual marker may cover
          RoundModulus, \* what a round amount is a multiple of
          MaxEntries, \* bound on the entries after those
          MaxLost,    \* bound on the entries the reader rejects
          MaxOwn      \* bound on the rows that are own transfers

\* An entry: its amount in the currency of the account, None without a rate, has
\* no other sign than its own.
IsEntry(e) ==
    /\ e.day \in Int /\ e.amount \in Int
    /\ e.base # None =>
          /\ e.base \in Int
          /\ (e.amount >= 0 => e.base >= 0) /\ (e.amount <= 0 => e.base <= 0)

\* What a statement prints is dated in order.
ASSUME LendingAssumption ==
    /\ None \notin Int /\ MaxEntries \in Nat
    /\ \A e \in Entries : IsEntry(e)
    /\ \A h \in Histories :
          /\ Len(h) \in Nat /\ DOMAIN h = 1 .. Len(h)
          /\ \A i \in DOMAIN h : IsEntry(h[i])
          /\ \A i, j \in DOMAIN h : i < j => h[i].day <= h[j].day

VARIABLES
    stated,     \* does the statement print balances?
    begun,      \* number of entries of its history
    printed,    \* number of entries printed
    running,    \* the running balance
    ledger,     \* bank_transactions of the account
    lost        \* positions and amounts of the entries that were rejected

lendingVars == <<stated, begun, printed, running, ledger, lost>>

\* A row: an entry, its position and id, and what is later said of it.
RowOf(e, i, id, balance) ==
    [day |-> e.day, amount |-> e.amount, base |-> e.base, payee |-> e.payee,
     words |-> e.words, at |-> i, id |-> id, balance |-> balance,
     own |-> FALSE, anomalous |-> FALSE]

Size(x) == IF x < 0 THEN -x ELSE x

PrintedBalance(x) == IF stated THEN x ELSE None

LendingInit ==
    /\ stated \in BOOLEAN
    /\ \E h \in Histories :
          LET Upto(i) == Total([j \in 1 .. i |-> h[j].amount])
          IN  /\ begun = Len(h) /\ printed = Len(h)
              /\ running = Upto(Len(h))
              /\ ledger = {RowOf(h[i], i, i, PrintedBalance(Upto(i))) : i \in DOMAIN h}
    /\ lost = {}

\* Entries are printed by date; an id comes before or after those
\* of the day.
Book(e) ==
    /\ \A t \in ledger : t.day <= e.day
    /\ printed' = printed + 1
    /\ running' = running + e.amount
    /\ \E id \in {printed'} \cup {-printed' : t \in {u \in ledger : u.day = e.day}} :
          ledger' = ledger \cup {RowOf(e, printed', id, PrintedBalance(running'))}
    /\ UNCHANGED <<stated, begun, lost>>

\* An entry the reader rejects
Reject(e) ==
    /\ \A t \in ledger : t.day <= e.day
    /\ printed' = printed + 1
    /\ running' = running + e.amount
    /\ lost' = lost \cup {[at |-> printed', amount |-> e.amount]}
    /\ UNCHANGED <<stated, begun, ledger>>

\* The scan of module TransferScan flags a row.
MarkOwn(t) ==
    /\ ~t.own /\ Cardinality({u \in ledger : u.own}) < MaxOwn
    /\ ledger' = (ledger \ {t}) \cup {[t EXCEPT !.own = TRUE]}
    /\ UNCHANGED <<stated, begun, printed, running, lost>>

\* The job of module Ingestion flags the rows in the first marker.
MarkAnomalous(days) ==
    /\ \A t \in ledger : ~t.anomalous
    /\ ledger' = {[t EXCEPT !.anomalous = t.day \in days] : t \in ledger}
    /\ UNCHANGED <<stated, begun, printed, running, lost>>

\* The statement is deleted and imported again: two rows of a day change ids.
Reimport ==
    /\ \E t, u \in ledger :
          /\ t.day = u.day /\ t.id < u.id
          /\ ledger' = (ledger \ {t, u}) \cup {[t EXCEPT !.id = u.id],
                                           [u EXCEPT !.id = t.id]}
    /\ UNCHANGED <<stated, begun, printed, running, lost>>

LendingNext ==
    \/ /\ printed < begun + MaxEntries
       /\ \E e \in Entries : Book(e) \/ (Cardinality(lost) < MaxLost /\ Reject(e))
    \/ \E t \in ledger : MarkOwn(t)
    \/ \E m \in Markers : MarkAnomalous(m)
    \/ Reimport

LendingSpec == LendingInit /\ [][LendingNext]_lendingVars

-----------------------------------------------------------------------------
(* What the analyses read *)

\* _load_transactions; the order it gives its rows
Loaded == {t \in ledger : ~t.anomalous}
Before(t, u) == t.day < u.day \/ (t.day = u.day /\ t.id < u.id)

\* Rows with nothing of the set between them
Adjacent(t, u, S) == Before(t, u) /\ ~\E w \in S : Before(t, w) /\ Before(w, u)

Effective(t) == IF t.base # None THEN t.base ELSE t.amount

Outgoing(S) == {t \in S : t.amount < 0}
Incoming(S) == {t \in S : t.amount > 0}

Eligible(S) == {t \in S : ~t.anomalous /\ ~t.own}

\* monthly_cashflow: the months with rows, and their totals
Month(t) == t.day \div 30
Months(S) == {Month(t) : t \in S}
BugInflowOf(S) ==                  \* a bug: amounts of several currencies
    Total([t \in {u \in S : u.amount > 0} |-> t.amount])
InflowOf(S) == Total([t \in {u \in S : Effective(u) > 0} |-> Effective(t)])
OutflowOf(S) == Total([t \in {u \in S : Effective(u) <= 0} |-> Size(Effective(t))])
MonthOf(S, m) == {t \in S : Month(t) = m}

Monthly(S) == [m \in Months(S) |-> [inflow |-> InflowOf(MonthOf(S, m)),
                                   outflow |-> OutflowOf(MonthOf(S, m))]]
AllInflow(S) == LET m == Monthly(S) IN Total([k \in DOMAIN m |-> m[k].inflow])
AllOutflow(S) == LET m == Monthly(S) IN Total([k \in DOMAIN m |-> m[k].outflow])

\* detect_recurring_payees: payees paid twice or more, each time within a
\* tenth of the average; their rows
PaidTo(S, p) == {t \in Outgoing(S) : t.payee = p}
RecurringPayees(S) ==
    {p \in {t.payee : t \in Outgoing(S)} \ {None} :
        LET paid == PaidTo(S, p)
            n == Cardinality(paid)
            sum == Total([t \in paid |-> Size(Effective(t))])
        IN  /\ n >= 2 /\ sum # 0
            /\ \A t \in paid : 10 * Size(n * Size(Effective(t)) - sum) <= sum}
BugRecurring(S) == {t \in S : t.payee \in RecurringPayees(S)}  \* a bug: refunds too
Recurring(S) == {t \in Outgoing(S) : t.payee \in RecurringPayees(S)}

-----------------------------------------------------------------------------
(* Balances *)

WithBalance(S) == {t \in S : t.balance # None}

LastOf(S) == CHOOSE t \in S : \A u \in S : u = t \/ Before(u, t)
FirstOf(S) == CHOOSE t \in S : \A u \in S : u = t \/ Before(t, u)

\* compute_daily_closing_balances: the day closes at its last row, a quiet
\* day at the balance of the day before it.
ClosingDays(S) == {t.day : t \in WithBalance(S)}
Closing(S, day) == LastOf({t \in WithBalance(S) : t.day = day}).balance

\* The last balance, or the one stated for the account
CurrentBalance(S, account) ==
    IF ClosingDays(S) = {} THEN account.closing ELSE Closing(S, Max(ClosingDays(S)))

\* _average_for_window: the sum of the daily balances of the last days, and
\* the number of those days
Window(S, length) ==
    LET last == Max(ClosingDays(S))
        from == Larger(last - length, Min(ClosingDays(S)))
        Until(d) == Min({e \in ClosingDays(S) : e > d} \cup {last + 1})
        Held(d) == Larger(0, Until(d) - Larger(d, from))
    IN  [sum |-> Total([d \in ClosingDays(S) |-> Held(d) * Closing(S, d)]),
         days |-> last - from + 1]

\* compute_abm: the change between the averages of 3 and 12 months, in
\* percent of the second
Abm(S) ==
    IF ClosingDays(S) = {} THEN None
    ELSE LET short == Window(S, 90)
             long == Window(S, 360)
             change == 100 * (short.sum * long.days - long.sum * short.days)
             against == long.sum * short.days
             up == IF against < 0 THEN -change ELSE change
             of == IF against = 0 THEN 1 ELSE Size(against)
         IN  [trend |-> IF against = 0 THEN "stable"
                        ELSE IF up > 2 * of THEN "improving"
                        ELSE IF up < -2 * of THEN "declining" ELSE "stable",
              score |-> IF against = 0 THEN 50 ELSE Clamped(Rounded(50 * of + up, of))]

\* The rows of an import in the order of the statement
FirstAt(S) == CHOOSE t \in S : \A u \in S : t.at <= u.at
LastAt(S) == CHOOSE t \in S : \A u \in S : u.at <= t.at

BugOpening(t) == t.balance         \* a bug: the first row is in it
Opening(t) == t.balance - t.amount

\* compute_balance_integrity_for_rows, over the rows of an import
AccountFrom(S) ==
    LET with == WithBalance(S)
        opening == Opening(FirstAt(with))
        closing == LastAt(with).balance
        computed == opening + Total([t \in S |-> t.amount])
    IN  IF with = {} THEN [opening |-> None, closing |-> None, passed |-> None]
        ELSE [opening |-> opening, closing |-> closing, passed |-> computed = closing]

-----------------------------------------------------------------------------
(* Income stability and fraud risk *)

\* compute_income_stability: the coefficient of variation of monthly inflows
\* is 100 * sqrt(spread) / sum percent.
IncomeStability(S) ==
    LET m == Monthly(S)
        n == Cardinality(DOMAIN m)
        sum == AllInflow(S)
        spread == n * Total([k \in DOMAIN m |-> m[k].inflow * m[k].inflow]) - sum * sum
        AtLeast(k) ==     \* is 100 less the coefficient, rounded, at least k?
            LET a == 40000 * spread
                b == (201 - 2 * k) * (201 - 2 * k) * sum * sum
            IN  a < b \/ (a = b /\ k % 2 = 0)
    IN  IF n < 3 \/ sum = 0 THEN None
        ELSE [score |-> Cardinality({k \in 1 .. 100 : AtLeast(k)}),
              label |-> IF 25 * spread < sum * sum THEN "stable"
                        ELSE IF 25 * spread <= 4 * sum * sum THEN "moderate"
                        ELSE "volatile"]

\* _detect_contributory_savings: three or more named contributions, each at
\* most 45 days after the one before and within a fifth of the median
Contributions(S) ==
    LET named == {t \in Outgoing(S) : "savings" \in t.words}
        Below(t) == Cardinality({u \in named : Size(Effective(u)) < Size(Effective(t))})
        AtMost(t) == Cardinality({u \in named : Size(Effective(u)) <= Size(Effective(t))})
        n == Cardinality(named)
        Ranked(k) == Size(Effective(CHOOSE t \in named : Below(t) < k /\ k <= AtMost(t)))
        twice == Ranked((n + 1) \div 2) + Ranked(n \div 2 + 1)    \* the median
    IN  IF /\ n >= 3 /\ twice > 0
           /\ \A t \in named : 5 * Size(2 * Size(Effective(t)) - twice) <= twice
           /\ \A t, u \in named :
                 Adjacent(t, u, named) => u.day - t.day \in 1 .. 45
        THEN named ELSE {}

\* _detect_z_score_anomalies: more than three standard deviations away
Outliers(S) ==
    LET n == Cardinality(S)
        sum == Total([t \in S |-> Effective(t)])
        spread == n * Total([t \in S |-> Effective(t) * Effective(t)]) - sum * sum
        Away(t) == n * Effective(t) - sum
    IN  {t \in S : n > 5 /\ spread # 0 /\ Away(t) * Away(t) > 9 * spread}

\* _detect_structuring: one flag if more than 30 % of the debits are round
Structuring(S) ==
    LET round == {t \in Outgoing(S) : t.amount % RoundModulus = 0}
    IN  IF 100 * Cardinality(round) > 30 * Cardinality(Outgoing(S)) THEN {round} ELSE {}

\* _detect_duplicate_payee: debits of one amount, day and payee
Duplicates(S) ==
    LET Same(t) == {u \in Outgoing(S) : u.amount = t.amount /\ u.day = t.day
                                          /\ u.payee = t.payee}
    IN  {g \in {Same(t) : t \in {u \in Outgoing(S) : u.payee # None}} :
            Cardinality(g) >= 2}

\* The debits a credit may match
BugUnmatched(pairs, S) == Outgoing(S)      \* a bug: those matched stay
Unmatched(pairs, S) == Outgoing(S) \ {p[2] : p \in pairs}

\* _detect_timing_anomalies: for each credit by date, the first debit of about
\* its size within three days
CreditAt(k, S) ==
    CHOOSE c \in Incoming(S) : Cardinality({u \in Incoming(S) : Before(u, c)}) = k - 1

Explains(d, c) == /\ d.day - c.day \in 0 .. 3
                  /\ 20 * Size(Size(Effective(d)) - Effective(c)) <= Effective(c)

Matched(pairs, c, S) ==
    LET free == {d \in Unmatched(pairs, S) : Explains(d, c)}
    IN  IF free = {} THEN pairs ELSE pairs \cup {<<c, FirstOf(free)>>}

PassThrough(S) ==
    LET n == Cardinality(Incoming(S))
        upto[k \in 0 .. n] ==
            IF k = 0 THEN {} ELSE Matched(upto[k - 1], CreditAt(k, S), S)
    IN  upto[n]

\* _statement_integrity, over every row that was loaded
BugChecked(S) == Eligible(S)       \* a bug: own transfers are left out
Checked(S) == S
StatementIntegrity(account, S) ==
    LET all == Checked(S)
        with == WithBalance(all)
    IN  [balance |-> account.passed,
         continuity |-> \A t, u \in all : Adjacent(t, u, all) => u.day - t.day <= 30,
         ordering |-> \A t, u \in with :
                         Adjacent(t, u, with) => t.balance + u.amount = u.balance]

\* compute_fraud_risk; the callers differ in what they leave out themselves
BugConsidered(S) == S              \* a bug: it is left to the callers
Considered(S) == Eligible(S)
FraudRisk(account, S) ==
    LET eligible == Considered(S)
        saved == Contributions(eligible)
        flags == [z_score_anomaly |-> Outliers(eligible \ saved),
                  structuring |-> Structuring(eligible \ saved),
                  duplicate_payee |-> Duplicates(eligible),
                  timing_anomaly |-> PassThrough(eligible)]
        score == FraudScore[[c \in Categories |-> Cardinality(flags[c])]]
    IN  [score |-> score, level |-> RiskLevel(score), flags |-> flags,
         integrity |-> StatementIntegrity(account, S)]

-----------------------------------------------------------------------------
(* The reports *)

ScoreOf(component) == IF component = None THEN None ELSE component.score

\* What compute_loan_readiness says of its components
Trends == {"improving", "stable", "declining", None}
Scored == [Factors -> Int \cup {None}]
LoanReport[c \in Scored] == [trend \in Trends |->
    [components |-> c, score |-> LoanReadinessScore(c),
     tier |-> Tier(LoanReadinessScore(c)), reachable |-> MaxAchievable(c),
     gains |-> [f \in Recommended(c, trend) |-> Gain(c, f)]]]

\* compute_loan_readiness; its fraud risk is computed from the eligible rows,
\* unless the caller has it
LoanReadinessWith(account, S, fraud) ==
    LET eligible == Eligible(S)
        abm == Abm(eligible)
        buffer == CashBuffer(CurrentBalance(eligible, account), AllOutflow(eligible),
                             Cardinality(Months(eligible)))
    IN  LoanReport[[income_stability |-> ScoreOf(IncomeStability(eligible)),
                    abm_trend |-> ScoreOf(abm),
                    fraud_risk_inverted |-> 100 - fraud.score,
                    cash_buffer |-> ScoreOf(buffer)]][
                   IF abm = None THEN None ELSE abm.trend]

LoanReadiness(account, S) ==
    LoanReadinessWith(account, S, FraudRisk(account, Eligible(S)))

\* compute_dashboard_summary
Dashboard(account, S) ==
    LET eligible == Eligible(S)
    IN  [inflows |-> Total([t \in Incoming(eligible) |-> Effective(t)]),
         outflows |-> Total([t \in Outgoing(eligible) |-> Size(Effective(t))]),
         balance |-> account, trend |-> Monthly(eligible)]

\* classify_mode: the first group of keywords the description has
Modes == <<"pos", "cash_withdrawal", "mobile_money", "direct_debit",
           "standing_order", "bank_charge", "bank_transfer">>
Mode(t) ==
    LET found == {i \in DOMAIN Modes : Modes[i] \in t.words}
    IN  IF found = {} THEN "unclassified" ELSE Modes[Min(found)]

\* classify_business_or_personal
Label(t) == IF "business" \in t.words THEN "business"
            ELSE IF "personal" \in t.words THEN "personal" ELSE "unclassified"

SplitBy(Class(_), S) ==
    [c \in {Class(t) : t \in S} |->
        Total([t \in {u \in S : Class(u) = c} |-> Size(Effective(t))])]

\* The three largest totals
TopThree(totals) ==
    Max({Total([p \in P |-> totals[p]]) :
            P \in {Q \in SUBSET DOMAIN totals : Cardinality(Q) <= 3}})

\* compute_cashflow_analysis
CashflowAnalysis(account, S) ==
    LET eligible == Eligible(S)
        outgoing == Outgoing(eligible)
        payees == SplitBy(LAMBDA t : t.payee, outgoing)
        outflow == Total([t \in outgoing |-> Size(Effective(t))])
        recurring == Total([t \in Recurring(eligible) |-> Size(Effective(t))])
    IN  [buffer |-> CashBuffer(CurrentBalance(eligible, account), AllOutflow(eligible),
                               Cardinality(Months(eligible))),
         concentration |-> IF outflow = 0 THEN None
                           ELSE Rounded(1000 * TopThree(payees), outflow),
         recurring |-> recurring, variable |-> outflow - recurring,
         modes |-> SplitBy(Mode, eligible), labels |-> SplitBy(Label, outgoing)]

\* compute_cashflow_forecast: where it starts, how long the money lasts and
\* when recurring payees are due again within 90 days
CashflowForecast(account, S) ==
    LET eligible == Eligible(S)
        known == CurrentBalance(eligible, account)
        balance == IF known = None THEN 0 ELSE known
        n == Cardinality(Months(eligible))
        today == IF ClosingDays(eligible) = {} THEN None ELSE Max(ClosingDays(eligible))
        Due(p) == LET paid == Max({t.day : t \in PaidTo(eligible, p)})
                  IN  {d \in {30 * (today \div 30 + k) + (paid % 30) : k \in 1 .. 3} :
                          d - today <= 90}
    IN  [start |-> balance, assumed |-> known = None,
         primary |-> PrimaryRunway(balance, AllInflow(eligible), AllOutflow(eligible), n),
         stress |-> StressRunway(balance, AllInflow(eligible), AllOutflow(eligible), n),
         commitments |-> IF today = None THEN {}    \* by the clock
                         ELSE {[payee |-> p, due |-> Due(p)] : p \in RecurringPayees(eligible)}]

\* The key metrics of the lender brief, which computes the fraud risk once
LenderBrief(account, S) ==
    LET fraud == FraudRisk(account, S)
    IN  [loan |-> LoanReadinessWith(account, S, fraud).score, fraud |-> fraud.score,
         income |-> ScoreOf(IncomeStability(Eligible(S))),
         buffer |-> CashflowAnalysis(account, S).buffer]

\* What an analysis finds now
Examined == AccountFrom(ledger)

-----------------------------------------------------------------------------
(* Properties *)

LendingTypeOK ==
    /\ stated \in BOOLEAN
    /\ begun \in Nat /\ printed \in begun .. begun + MaxEntries
    /\ running \in Int
    /\ \A t \in ledger : t.at \in (1 .. printed) \ {x.at : x \in lost}
    /\ \A t, u \in ledger : t.id = u.id => t = u
    /\ LoanReadiness(Examined, Loaded).components \in Components

\* The check of the balances tells a statement that was read in full from one
\* with an entry missing between two that were read
\* (bank_account_integrity.py:15).
IntegrityTellsLoss ==
    stated /\ ledger # {} =>
        /\ lost = {} => Examined.passed
        /\ \A x \in lost :
              /\ lost = {x} /\ x.amount # 0
              /\ \E t, u \in ledger : t.at < x.at /\ x.at < u.at
              => ~Examined.passed

\* A statement read in full, with no two rows of a day and none in a
\* contextual marker, is in sequence, whatever rows are own transfers
\* (bank_fraud_risk.py:262).
IntactIsInSequence ==
    (/\ lost = {} /\ \A t \in ledger : ~t.anomalous
     /\ \A t, u \in ledger : t.day = u.day => t = u)
        => StatementIntegrity(Examined, Loaded).ordering

\* The integrity of a statement is judged by the statement: it is told from one
\* that lost an entry, and what is filtered or reordered does not break it.
IntegrityHolds == IntegrityTellsLoss /\ IntactIsInSequence

\* The reports one moment would give
Pages ==
    [loan |-> LoanReadiness(Examined, Loaded), brief |-> LenderBrief(Examined, Loaded),
     fraud |-> FraudRisk(Examined, Loaded), dashboard |-> Dashboard(Examined, Loaded),
     cashflow |-> CashflowAnalysis(Examined, Loaded),
     forecast |-> CashflowForecast(Examined, Loaded)]

\* The score does not exceed the maximum announced with it
\* (bank_loan_readiness.py:302).
ScoreInReach(loan) == loan.score \in 0 .. loan.reachable

\* Following a recommendation is not promised to lift the score above the
\* maximum announced with it, but for a point of rounding (bank_loan_readiness.py:179).
GainInReach(loan) ==
    \A f \in DOMAIN loan.gains : loan.score + loan.gains[f] <= loan.reachable + 1

\* The loan score of the lender brief, which hands over a fraud risk of all
\* rows, is that of the loan-readiness page, which computes one of the
\* eligible rows (bank_loan_readiness.py:236, bank_fraud_risk.py:290).
BriefAgrees(brief, loan) == brief.loan = loan.score

\* Money that is not overdrawn lasts no longer in the stress scenario
\* (bank_cashflow_forecast.py:60).
StressIsShorter(forecast) ==
    forecast.start >= 0 /\ forecast.primary # None =>
        forecast.stress # None /\ forecast.stress <= forecast.primary

\* No debit explains two credits as money passing through
\* (bank_fraud_risk.py:205).
DebitsMatchedOnce(pairs) ==
    \A p, q \in pairs : p = q \/ (p[1] # q[1] /\ p[2] # q[2])

\* Recurring payments are part of what was spent: the variable rest is not
\* negative (bank_cashflow_analysis.py:48).
RecurringIsSpent(cashflow) == cashflow.variable >= 0

\* The totals of the dashboard, of its months and of the splits of the
\* cash-flow analysis agree, with rows of several currencies
\* (bank_cashflow.py:16).
ReportsAddUp(dashboard, cashflow) ==
    LET Column(side) == Total([m \in DOMAIN dashboard.trend |-> dashboard.trend[m][side]])
    IN  /\ dashboard.inflows = Column("inflow")
        /\ dashboard.outflows = Column("outflow")
        /\ Total(cashflow.labels) = dashboard.outflows
        /\ cashflow.recurring + cashflow.variable = dashboard.outflows
        /\ Total(cashflow.modes) = dashboard.inflows + dashboard.outflows

\* The reports on one account agree with each other, though each filters and
\* adds up the same rows for itself: totals, splits, pairs, forecasts, scores,
\* promised gains and what the lender is told.
ReportsAgree ==
    \A r \in {Pages} :
        /\ ReportsAddUp(r.dashboard, r.cashflow) /\ RecurringIsSpent(r.cashflow)
        /\ DebitsMatchedOnce(r.fraud.flags.timing_anomaly) /\ StressIsShorter(r.forecast)
        /\ ScoreInReach(r.loan) /\ GainInReach(r.loan) /\ BriefAgrees(r.brief, r.loan)
=============================================================================
