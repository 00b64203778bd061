------------------------------- MODULE Scoring -------------------------------
(***************************************************************************)
(* The arithmetic of the loan-readiness and fraud-risk scores:             *)
(* app/services/bank_loan_readiness.py and bank_fraud_risk.py.             *)
(*                                                                         *)
(* Numbers are integers: weights are percentages, a figure shown with one  *)
(* decimal counts tenths.                                                  *)
(***************************************************************************)
EXTENDS Integers, Functions

CONSTANT None    \* a component that cannot be computed

\* round(a / b) of Python for b > 0: half goes to the even neighbour
Rounded(a, b) ==
    LET q == a \div b
        r == a % b
    IN  IF 2 * r < b \/ (2 * r = b /\ q % 2 = 0) THEN q ELSE q + 1

Percent == 0 .. 100

Total(f) == SumFunction(f)

BugClamped(x) == IF x < 0 THEN 0 ELSE x   \* a bug: no upper end
Clamped(x) == IF x < 0 THEN 0 ELSE IF x > 100 THEN 100 ELSE x

Larger(a, b) == IF a >= b THEN a ELSE b

-----------------------------------------------------------------------------
(* Loan readiness *)

Factors == {"income_stability", "abm_trend", "fraud_risk_inverted", "cash_buffer"}

\* LOAN_READINESS_WEIGHTS
Weight == [income_stability |-> 30, abm_trend |-> 25,
           fraud_risk_inverted |-> 25, cash_buffer |-> 20]

\* The score of each factor, None where the data do not allow it
Components == [Factors -> Percent \cup {None}]

\* What a factor adds to the score, in tenths
Contribution(c, f) == IF c[f] = None THEN 0 ELSE Rounded(Weight[f] * c[f], 10)

Reachable(c, f) == IF c[f] = None THEN 0 ELSE Weight[f]

OverFactors(F(_)) == F("income_stability") + F("abm_trend")
                         + F("fraud_risk_inverted") + F("cash_buffer")

LoanReadinessScore(c) == Rounded(OverFactors(LAMBDA f : Contribution(c, f)), 10)

MaxAchievable(c) == OverFactors(LAMBDA f : Reachable(c, f))

Tier(score) == IF score >= 80 THEN "A"
               ELSE IF score >= 60 THEN "B"
               ELSE IF score >= 40 THEN "C" ELSE "D"

\* The factors a business is told to improve: a low score, or for balances a
\* trend that is not "improving" whatever its score.
Recommended(c, trend) ==
    {f \in {"cash_buffer", "income_stability"} : c[f] # None /\ c[f] < 70}
        \cup {f \in {"abm_trend"} : c[f] # None /\ trend # "improving"}

BugGain(c, f) ==                   \* a bug: the weight of another factor
    Larger(1, Rounded((100 - c[f]) * Weight["income_stability"], 100))
Gain(c, f) == Larger(1, Rounded((100 - c[f]) * Weight[f], 100))

-----------------------------------------------------------------------------
(* Fraud risk *)

Categories == {"z_score_anomaly", "structuring", "duplicate_payee", "timing_anomaly"}

\* SCORE_WEIGHTS
FraudWeight == [z_score_anomaly |-> 30, structuring |-> 30,
                duplicate_payee |-> 20, timing_anomaly |-> 20]

\* _category_subscore
Subscore(count) == IF count >= 4 THEN 100 ELSE 25 * count

\* The score of a number of flags in each category
FlagCounts == [Categories -> Nat]
FraudScore[count \in FlagCounts] ==
    LET Part(c) == FraudWeight[c] * Subscore(count[c])
    IN  Rounded(Part("z_score_anomaly") + Part("structuring")
                  + Part("duplicate_payee") + Part("timing_anomaly"), 100)

RiskLevel(score) == IF score >= 75 THEN "critical"
                    ELSE IF score >= 50 THEN "high"
                    ELSE IF score >= 25 THEN "medium" ELSE "low"

-----------------------------------------------------------------------------
(* Money that lasts *)

\* compute_cash_buffer: what a balance is worth against months of outflow.
CashBuffer(balance, outflow, months) ==
    IF balance = None \/ outflow = 0 THEN None
    ELSE [score |-> Clamped(Rounded(balance * months * 100, outflow * 6)),
          tenths |-> Rounded(balance * months * 10, outflow)]

\* _cash_runway_months, in tenths: how long a balance lasts against a burn of
\* burn / of a month, None when it does not shrink.
RunwayTenths(balance, burn, of) ==
    IF burn <= 0 THEN None ELSE Rounded(balance * of * 10, burn)

PrimaryRunway(balance, inflow, outflow, months) ==
    RunwayTenths(balance, outflow - inflow, months)

\* The stress scenario: a fifth less income
BugStressRunway(balance, inflow, outflow, months) ==   \* a bug: less spending
    RunwayTenths(balance, 4 * outflow - 5 * inflow, 5 * months)
StressRunway(balance, inflow, outflow, months) ==
    RunwayTenths(balance, 5 * outflow - 4 * inflow, 5 * months)
=============================================================================
