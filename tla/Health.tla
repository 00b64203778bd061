-------------------------------- MODULE Health --------------------------------
(***************************************************************************)
(* The health score of an uploaded table: the six quality checks, one      *)
(* scorer for each industry and the components a plan may see              *)
(* (app/utils/analyzer.py, app/services/entitlements.py).                  *)
(*                                                                         *)
(* A scorer is a table of metrics; the ladder of a metric turns its figure *)
(* into points.  Figures are integers in the unit of their ladder: a       *)
(* fraction earns what the neighbour on its worse side does.  The figures  *)
(* themselves, which the industry analysers read off the columns, are      *)
(* inputs.                                                                 *)
(***************************************************************************)
EXTENDS Scoring, Sequences, FiniteSets, FiniteSetsExt

CONSTANTS MaxMeasured, MaxFlaws   \* bounds: figures, quality checks that differ

Smaller(a, b) == IF a <= b THEN a ELSE b

-----------------------------------------------------------------------------
(* Ladders *)

\* v >= at earns the points of the first rung it meets; a cost meets v <= at
Benefit(rungs, rest) == [cost |-> FALSE, rungs |-> rungs, rest |-> rest]
Cost(rungs, rest) == [cost |-> TRUE, rungs |-> rungs, rest |-> rest]

Met(ladder, v) ==
    {k \in DOMAIN ladder.rungs :
        IF ladder.cost THEN v <= ladder.rungs[k][1] ELSE v >= ladder.rungs[k][1]}

Points(ladder, v) ==
    IF Met(ladder, v) = {} THEN ladder.rest ELSE ladder.rungs[Min(Met(ladder, v))][2]

\* What a metric without a figure does: it is listed with points that do not
\* count (the scorer raises ValueError before "score += s"), it counts a fixed
\* number of points, or it is taken for another figure ("or" in the code, which
\* takes a figure of zero for none as well).
Uncounted(n) == [kind |-> "uncounted", n |-> n]
Counted(n) == [kind |-> "counted", n |-> n]
CountedAtZero(n) == [kind |-> "counted at zero", n |-> n]   \* zero is none
TakenFor(n) == [kind |-> "taken", n |-> n]

Metric(name, max, ladder, gap, needs) ==
    [name |-> name, max |-> max, ladder |-> ladder, gap |-> gap, needs |-> needs]

\* The code takes the figure as it is
Known(m, v) ==
    /\ v # None
    /\ v = 0 => /\ m.gap.kind # "counted at zero"
                /\ m.gap.kind = "taken" => m.gap.n = 0

\* a bug: the points of a metric without a figure count
BugEarned(m, v) ==
    IF Known(m, v) THEN Points(m.ladder, v)
    ELSE IF m.gap.kind = "taken" THEN Points(m.ladder, m.gap.n) ELSE m.gap.n
\* What a metric adds to the score
Earned(m, v) ==
    IF Known(m, v) THEN Points(m.ladder, v)
    ELSE CASE m.gap.kind = "taken" -> Points(m.ladder, m.gap.n)
           [] m.gap.kind = "uncounted" -> 0
           [] OTHER -> m.gap.n

\* What it is shown with
Shown(m, v) == IF ~Known(m, v) /\ m.gap.kind = "uncounted" THEN m.gap.n ELSE Earned(m, v)

\* _trend_score: the change over the last three months, in per cent; fewer
\* months, or a first one of zero, give no figure and count as ten points
Trend(name) ==
    Metric(name, 25, Benefit(<<<<15, 25>>, <<5, 18>>, <<-5, 12>>, <<-15, 6>>>>, 0),
           Counted(10), "free")

\* round(dq / 100 * 10): five tenths of a point go to the even neighbour
DataQuality ==
    Metric("Data Quality", 10,
           Benefit([k \in 1 .. 10 |-> <<10 * (11 - k) - 5 + ((11 - k) % 2), 11 - k>>], 0),
           TakenFor(50), "free")

-----------------------------------------------------------------------------
(* The scorers *)

Share(name, max, rungs, rest) ==   \* the largest share; half where there is none
    Metric(name, max, Cost(rungs, rest), TakenFor(50), "free")

Hr == <<
    Trend("Headcount Trend"),
    Metric("Salary Equity", 20, Benefit(<<<<90, 20>>, <<75, 14>>, <<60, 8>>>>, 3),
           TakenFor(0), "free"),
    Metric("Staff Retention", 20, Cost(<<<<10, 20>>, <<20, 14>>, <<30, 8>>>>, 2),
           Uncounted(10), "basic"),
    Share("Dept Balance", 20, <<<<35, 20>>, <<55, 14>>, <<70, 8>>>>, 3),
    Metric("Pay Equity", 10, Cost(<<<<5, 10>>, <<10, 7>>, <<20, 4>>>>, 1),
           Uncounted(5), "premium"),
    DataQuality>>

RealEstate == <<
    Metric("Gross Yield", 25, Benefit(<<<<8, 25>>, <<6, 18>>, <<4, 11>>, <<2, 5>>>>, 1),
           TakenFor(0), "free"),
    Metric("Vacancy Rate", 25, Cost(<<<<5, 25>>, <<10, 18>>, <<20, 10>>>>, 3),
           Uncounted(12), "basic"),
    Trend("Value Trend"),
    Share("Portfolio Diversity", 15, <<<<40, 15>>, <<60, 10>>, <<80, 6>>>>, 2),
    Metric("LTV Ratio", 10, Cost(<<<<60, 10>>, <<75, 7>>, <<85, 4>>>>, 1),
           Uncounted(5), "premium"),
    DataQuality>>

\* The tier for beds used too little (below 75 per cent, 10 points) follows
\* the one up to 90 per cent and is never reached: below 75 earns 14 as well.
Healthcare == <<
    Trend("Patient Volume Trend"),
    Metric("Revenue per Patient", 20,              \* in cents
           Benefit(<<<<60000, 20>>, <<40000, 14>>, <<20000, 8>>>>, 4),
           CountedAtZero(8), "free"),
    Metric("Bed Occupancy", 20, Cost(<<<<749, 14>>, <<850, 20>>, <<900, 14>>>>, 5),  \* tenths
           Uncounted(10), "basic"),
    Metric("Avg Length of Stay", 20, Cost(<<<<4, 20>>, <<7, 14>>, <<10, 8>>>>, 3),
           Uncounted(10), "basic"),
    Metric("Readmission Rate", 10, Cost(<<<<5, 10>>, <<10, 7>>, <<15, 4>>>>, 1),
           Uncounted(5), "premium"),
    DataQuality>>

Logistics == <<
    Metric("On-Time Rate", 25, Benefit(<<<<95, 25>>, <<90, 18>>, <<80, 10>>, <<70, 5>>>>, 1),
           TakenFor(0), "free"),
    Metric("First Attempt Rate", 20, Benefit(<<<<90, 20>>, <<80, 14>>, <<70, 8>>>>, 3),
           Uncounted(10), "basic"),
    Metric("Return/Damage Rate", 20, Cost(<<<<2, 20>>, <<5, 14>>, <<10, 8>>>>, 2),
           TakenFor(0), "basic"),
    Trend("Volume Trend"),
    Metric("Perfect Order Rate", 10, Benefit(<<<<95, 10>>, <<85, 7>>, <<75, 4>>>>, 1),
           Uncounted(5), "premium"),
    DataQuality>>

\* round(revpar / 10), at most 20, of a revenue in cents
RevPar == Metric("RevPAR", 20,
                 Benefit([k \in 1 .. 20 |-> <<1000 * (21 - k) - 500 + ((21 - k) % 2), 21 - k>>], 0),
                 CountedAtZero(8), "free")
\* ... and where only the average daily rate is known
DailyRate == Metric("RevPAR", 20, Benefit(<<<<1, 10>>>>, 8), Counted(8), "free")

Hospitality(room) == <<
    Metric("Occupancy Rate", 25, Benefit(<<<<85, 25>>, <<70, 18>>, <<55, 10>>, <<40, 5>>>>, 1),
           TakenFor(0), "free"),
    room,
    Metric("Cancellation Rate", 20, Cost(<<<<10, 20>>, <<20, 14>>, <<30, 8>>>>, 3),
           Uncounted(10), "basic"),
    Trend("Revenue Trend"),
    Metric("GOPPAR", 10, Benefit(<<<<30, 10>>, <<20, 7>>, <<10, 4>>>>, 1),
           Uncounted(5), "premium"),
    DataQuality>>

Construction == <<
    Metric("Budget Performance", 25, Benefit(<<<<80, 25>>, <<65, 18>>, <<50, 10>>>>, 3),
           TakenFor(0), "free"),
    Metric("Schedule Performance", 20, Benefit(<<<<100, 20>>, <<90, 14>>, <<75, 8>>>>, 2),
           Uncounted(10), "basic"),
    Metric("Cost Performance", 20, Benefit(<<<<100, 20>>, <<90, 14>>, <<75, 8>>>>, 2),
           Uncounted(10), "premium"),
    Trend("Pipeline Trend"),
    Metric("Safety Record", 10, Cost(<<<<0, 10>>, <<2, 6>>>>, 2), TakenFor(0), "premium"),
    DataQuality>>

CacLtv == Metric("CAC:LTV Ratio", 10, Benefit(<<<<3, 10>>, <<1, 7>>>>, 2),
                 Uncounted(5), "premium")

Marketing == <<
    Metric("ROAS", 25, Benefit(<<<<6, 25>>, <<4, 18>>, <<2, 10>>, <<1, 5>>>>, 0),
           TakenFor(0), "free"),
    Metric("Click-Through Rate", 20, Benefit(<<<<3, 20>>, <<2, 14>>, <<1, 8>>>>, 3),
           Uncounted(10), "basic"),
    Trend("Spend Trend"),
    Share("Channel Diversity", 15, <<<<40, 15>>, <<60, 10>>, <<80, 6>>>>, 2),
    CacLtv, DataQuality>>

\* The buffer in months, or the months in the red where there is no buffer
Buffer == Metric("Liquidity Buffer", 20,
                 Benefit(<<<<6, 20>>, <<3, 15>>, <<1, 8>>, <<0, 3>>>>, 0), Counted(15), "free")
Overdrafts == Metric("Liquidity Buffer", 20, Cost(<<<<0, 15>>, <<1, 8>>>>, 3),
                     TakenFor(0), "free")

BankStatement(liquidity) == <<
    Metric("Cash Flow Trend", 20, Benefit(<<<<10, 20>>, <<2, 15>>, <<-2, 10>>, <<-10, 5>>>>, 0),
           Counted(10), "free"),
    Metric("Net Position", 20, Benefit(<<<<30, 20>>, <<15, 15>>, <<5, 10>>, <<0, 4>>>>, 0),
           Counted(5), "free"),
    liquidity,
    Metric("Income Stability", 20, Benefit(<<<<75, 20>>, <<55, 15>>, <<35, 8>>>>, 3),
           Uncounted(8), "basic"),
    Metric("Expense Concentration", 10, Cost(<<<<15, 10>>, <<30, 7>>, <<50, 4>>>>, 1),
           TakenFor(0), "free"),
    Metric("Fraud Risk", 10, Cost(<<<<0, 10>>, <<20, 7>>, <<40, 4>>>>, 1),
           TakenFor(0), "premium"),
    DataQuality>>

Sales == <<
    Metric("Profit Margin", 20, Benefit(<<<<25, 20>>, <<15, 14>>, <<8, 8>>, <<0, 3>>>>, 0),
           TakenFor(0), "free"),
    Trend("Revenue Trend"),
    Metric("Win Rate", 20, Benefit(<<<<40, 20>>, <<25, 14>>, <<15, 8>>>>, 3),
           Uncounted(10), "basic"),
    Share("Customer Diversity", 15, <<<<20, 15>>, <<35, 10>>, <<50, 6>>>>, 2),
    Metric("Churn Risk Score", 10, Cost(<<<<5, 10>>, <<15, 7>>, <<30, 4>>>>, 1),
           Uncounted(5), "premium"),
    DataQuality>>

BugStock(name) ==   \* a bug: the points of two rungs swapped
    Metric(name, 20, Cost(<<<<0, 20>>, <<5, 14>>, <<15, 3>>, <<30, 8>>>>, 0),
           TakenFor(0), "free")
Stock(name) ==   \* the share of the articles that ran out, or do not sell
    Metric(name, 20, Cost(<<<<0, 20>>, <<5, 14>>, <<15, 8>>, <<30, 3>>>>, 0),
           TakenFor(0), "free")

Inventory == <<
    Metric("Inventory Turnover", 25, Benefit(<<<<8, 25>>, <<5, 18>>, <<3, 10>>, <<1, 5>>>>, 1),
           TakenFor(0), "free"),
    Stock("Stockout Risk"), Stock("Dead Stock"),
    Metric("Fill Rate", 15, Benefit(<<<<98, 15>>, <<95, 11>>, <<90, 7>>>>, 2),
           Uncounted(7), "basic"),
    Metric("GMROI", 10, Benefit(<<<<3, 10>>, <<2, 7>>, <<1, 4>>>>, 1),
           Uncounted(5), "premium"),
    DataQuality>>

Restaurant == <<
    Metric("Food Cost %", 25, Cost(<<<<28, 25>>, <<32, 18>>, <<35, 12>>, <<40, 6>>>>, 1),
           TakenFor(0), "free"),
    Metric("Prime Cost %", 20, Cost(<<<<549, 20>>, <<649, 14>>, <<749, 8>>>>, 2),  \* tenths
           Uncounted(10), "basic"),
    Trend("Revenue Trend"),
    Metric("Revenue per Cover", 15, Benefit(<<<<1, 15>>>>, 8), TakenFor(0), "free"),
    Metric("Menu Profitability", 10, Benefit(<<<<60, 10>>, <<40, 7>>>>, 3),
           Uncounted(5), "premium"),
    DataQuality>>

Ecommerce == <<
    Metric("Repeat Purchase Rate", 25, Benefit(<<<<40, 25>>, <<25, 18>>, <<15, 10>>, <<5, 5>>>>, 1),
           TakenFor(0), "free"),
    Metric("Return Rate", 20, Cost(<<<<3, 20>>, <<8, 14>>, <<15, 8>>, <<25, 3>>>>, 0),
           TakenFor(0), "free"),
    Trend("Revenue Trend"),
    Metric("Cart Abandonment", 20, Cost(<<<<50, 20>>, <<65, 14>>, <<75, 8>>>>, 3),
           TakenFor(65), "basic"),
    CacLtv, DataQuality>>

General == <<
    Metric("Profit Margin", 30, Benefit(<<<<25, 30>>, <<15, 22>>, <<8, 14>>, <<0, 6>>>>, 0),
           TakenFor(0), "free"),
    Trend("Revenue Trend"),
    Share("Customer Diversity", 25, <<<<20, 25>>, <<35, 18>>, <<50, 10>>>>, 4),
    Share("Category Mix", 20, <<<<40, 20>>, <<60, 14>>, <<80, 8>>>>, 3)>>

\* compute_health_score: the scorer of each type of table; two types have a
\* second form, for tables without one of the figures
Scorers == [
    hr |-> Hr, real_estate |-> RealEstate, healthcare |-> Healthcare,
    logistics |-> Logistics, construction |-> Construction, marketing |-> Marketing,
    hospitality |-> Hospitality(RevPar), hospitality_by_rate |-> Hospitality(DailyRate),
    bank_statement |-> BankStatement(Buffer), bank_statement_unbuffered |-> BankStatement(Overdrafts),
    sales |-> Sales, inventory |-> Inventory, restaurant |-> Restaurant,
    ecommerce |-> Ecommerce, general |-> General]

-----------------------------------------------------------------------------
(* compute_data_quality *)

Mark(status, points) == [status |-> status, points |-> points]

\* What each check may report.  Without a revenue column the first of the two
\* checks on it warns for 10 points and the other passes with 10, as it does
\* for fewer than ten rows.
Outcomes == [
    missing_values |-> {Mark("pass", 20), Mark("warn", 10), Mark("fail", 0)},
    duplicate_rows |-> {Mark("pass", 15), Mark("warn", 8), Mark("fail", 0)},
    revenue_column |-> {Mark("pass", 20), Mark("warn", 10), Mark("warn", 8)},
    date_parsing |-> {Mark("pass", 15), Mark("warn", 8), Mark("fail", 0)},
    revenue_outliers |-> {Mark("pass", 15), Mark("pass", 10), Mark("warn", 8)},
    column_coverage |-> {Mark("pass", 15), Mark("warn", 8), Mark("fail", 0)}]

Checks == DOMAIN Outcomes

Reports == {q \in [Checks -> UNION {Outcomes[c] : c \in Checks}] :
                /\ \A c \in Checks : q[c] \in Outcomes[c]
                /\ q.revenue_column = Mark("warn", 10) => q.revenue_outliers = Mark("pass", 10)}

Spotless == [c \in Checks |-> CHOOSE m \in Outcomes[c] : \A n \in Outcomes[c] : n.points <= m.points]

BugMarks(q, c) == IF q[c].status = "fail" THEN 8 ELSE q[c].points   \* a bug: as a warning
Marks(q, c) == q[c].points

QualityScore(q) == Smaller(100, Total([c \in Checks |-> Marks(q, c)]))

Quality(q) == IF QualityScore(q) >= 85 THEN "Excellent"
              ELSE IF QualityScore(q) >= 65 THEN "Good"
              ELSE IF QualityScore(q) >= 45 THEN "Fair" ELSE "Poor"

Failed(q) == {c \in Checks : q[c].status = "fail"}

-----------------------------------------------------------------------------
(* gate_premium_components *)

Plans == {"free", "basic", "premium", "unknown"}

Rank(plan) == CASE plan = "free" -> 0 [] plan = "basic" -> 1 [] plan = "premium" -> 2
                [] OTHER -> -1

\* a bug: the component's own plan and no other
BugOpen(plan, m) == m.needs = "free" \/ plan = m.needs
Open(plan, m) == Rank(plan) >= Rank(m.needs)

-----------------------------------------------------------------------------
(* The tables a user uploads, one after the other *)

VARIABLES
    industry,   \* the type of the table
    measured,   \* the figure of each metric, None where the columns give none
    quality,    \* what the quality checks report
    plan,       \* of the user
    first       \* the figures of the first table, for the bound

healthVars == <<industry, measured, quality, plan, first>>

scorer == Scorers[industry]

\* The figures on either side of each rung, and zero
Figures(m) ==
    IF m.name = "Data Quality" THEN {None}      \* read off the checks
    ELSE {None, 0} \cup {m.ladder.rungs[k][1] + d : k \in DOMAIN m.ladder.rungs, d \in {-1, 0, 1}}

Figure(i) == IF scorer[i].name = "Data Quality" THEN QualityScore(quality) ELSE measured[i]

BestFigure(m) ==
    CHOOSE v \in Figures(m) : \A w \in Figures(m) : Earned(m, w) <= Earned(m, v)

BugCapped(n) == n   \* a bug: no upper end
Capped(n) == Smaller(100, n)

\* "score" of the scorers
Score == Capped(Total([i \in DOMAIN scorer |-> Earned(scorer[i], Figure(i))]))

Grade(score) == IF score >= 80 THEN "A" ELSE IF score >= 65 THEN "B"
                ELSE IF score >= 50 THEN "C" ELSE IF score >= 35 THEN "D" ELSE "F"

\* The components as a user of the plan sees them: points, or None
ShownComponents == [i \in DOMAIN scorer |->
              IF Open(plan, scorer[i]) THEN Shown(scorer[i], Figure(i)) ELSE None]

Unmeasured == [i \in DOMAIN scorer |-> None]

HealthInit ==
    /\ industry \in DOMAIN Scorers
    /\ measured \in {Unmeasured,
                     [i \in DOMAIN scorer |-> BestFigure(scorer[i])]}
    /\ quality = Spotless /\ plan = "free" /\ first = measured

\* A table of the same type with another figure
Measure(i) ==
    /\ \E v \in Figures(scorer[i]) : measured' = [measured EXCEPT ![i] = v]
    /\ Cardinality({j \in DOMAIN scorer : measured'[j] # first[j]}) <= MaxMeasured
    /\ UNCHANGED <<industry, quality, plan, first>>

\* A table of the same figures that one check reports on otherwise
Inspect(c) ==
    /\ \E m \in Outcomes[c] : quality' = [quality EXCEPT ![c] = m]
    /\ quality' \in Reports
    /\ Cardinality({d \in Checks : quality'[d] # Spotless[d]}) <= MaxFlaws
    /\ UNCHANGED <<industry, measured, plan, first>>

\* The user changes plans
Subscribe ==
    /\ plan' \in Plans
    /\ UNCHANGED <<industry, measured, quality, first>>

HealthNext ==
    \/ \E i \in DOMAIN scorer : Measure(i)
    \/ \E c \in Checks : Inspect(c)
    \/ Subscribe

HealthSpec == HealthInit /\ [][HealthNext]_healthVars

-----------------------------------------------------------------------------
(* Properties *)

\* A score lies between 0 and 100 and no component has more points than its
\* maximum.
HealthTypeOK ==
    /\ industry \in DOMAIN Scorers /\ quality \in Reports /\ plan \in Plans
    /\ Score \in Percent
    /\ \A i \in DOMAIN scorer :
          /\ measured[i] \in Figures(scorer[i])
          /\ Shown(scorer[i], Figure(i)) \in 0 .. scorer[i].max

\* A table none of whose columns tells anything is not graded A or B, though
\* many a metric has points for a missing figure.
NoDataNotHealthy ==
    (\A i \in DOMAIN scorer : measured[i] = None) => Grade(Score) \in {"C", "D", "F"}

\* Data of excellent quality failed one check at most.
ExcellentFailsOnce == Quality(quality) = "Excellent" => Cardinality(Failed(quality)) <= 1

\* A good verdict is earned, on health as on the quality of the data.
HealthEarned == NoDataNotHealthy /\ ExcellentFailsOnce

\* The better of two figures: beds are best used between 75 and 85 per cent
Better(m, w, v) ==
    IF m.name = "Bed Occupancy" THEN (v < w /\ w <= 850) \/ (750 <= w /\ w < v)
    ELSE IF m.ladder.cost THEN w < v ELSE w > v

\* A better figure of any metric of any scorer never costs points (where the
\* code knows the figure: a zero that is taken for another figure may cost).
BetterNeverCosts ==
    \A i \in DOMAIN scorer :
        /\ Known(scorer[i], measured[i]) /\ Known(scorer[i], measured'[i])
        /\ Better(scorer[i], measured'[i], measured[i])
        => Score' >= Score

\* A plan of a higher rank shows every component the lower one shows, with the
\* same points, and the score does not depend on the plan.
UpgradeShowsMore ==
    plan' # plan =>
        /\ Score' = Score
        /\ Rank(plan) <= Rank(plan') =>
              \A i \in DOMAIN scorer :
                  ShownComponents[i] # None => ShownComponents'[i] = ShownComponents[i]

\* Neither a better figure nor a higher plan takes anything away.
GainsNeverCost == [][BetterNeverCosts /\ UpgradeShowsMore]_healthVars
=============================================================================
