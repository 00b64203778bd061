------------------------------ MODULE MCReports ------------------------------
(***************************************************************************)
(* What the server says of uploaded data, one part at a time: the reports  *)
(* on a bank account (Lending) and the health score of a table (Health).   *)
(***************************************************************************)
EXTENDS Lending, Health

VARIABLE part   \* what is under way in this behaviour

mcVars == <<lendingVars, healthVars, part>>

Line(day, amount, base, payee, words) ==
    [day |-> day, amount |-> amount, base |-> base, payee |-> payee, words |-> words]

SomeEntries == {
    Line(3, 20, None, "customer", {}),
    Line(3, -10, None, "landlord", {"business", "bank_transfer"}),
    Line(5, -20, None, "shop", {"pos", "bank_charge"}),
    Line(33, 7, 30, "customer", {"bank_transfer"}),
    Line(33, -11, None, "landlord", {"personal"}),
    Line(63, 10, None, "landlord", {}),
    Line(100, -5, None, None, {}) }

Quiet == [i \in 1 .. 10 |-> Line(i - 8, 1, None, "customer", {})]
Saver == <<Line(1, 30, None, "customer", {}),
           Line(2, -4, None, "circle", {"savings"}), Line(32, -4, None, "circle", {"savings"}),
           Line(62, -5, None, "circle", {"savings"}), Line(63, 20, None, "customer", {})>>
Overdrawn == <<Line(1, -9, None, "shop", {}), Line(33, 3, None, "customer", {})>>
Tenant == <<Line(3, 20, None, "customer", {}), Line(3, -10, None, "landlord", {"business"})>>
SomeHistories == {<<>>, Tenant, Quiet, Saver, Overdrawn}

MCInit ==
    /\ part \in {"lending", "health"}
    /\ part = "lending" => industry = "general" /\ measured = Unmeasured
    /\ HealthInit /\ LendingInit
    /\ part = "health" => stated /\ printed = 0

\* A table differs from the first in its figures or in its quality, and is
\* uploaded before the plan changes.
HealthPart ==
    /\ HealthNext
    /\ quality' # Spotless => measured' = first /\ plan' = "free"
    /\ plan # "free" => plan' # plan

\* A long history has one more entry.
LendingPart == LendingNext /\ (begun > 5 => printed' <= begun + 1)

MCNext ==
    \/ part = "lending" /\ LendingPart /\ UNCHANGED <<healthVars, part>>
    \/ part = "health" /\ HealthPart /\ UNCHANGED <<lendingVars, part>>

\* The type invariants of the two modules
ReportsTypeOK == LendingTypeOK /\ HealthTypeOK

MCSpec == MCInit /\ [][MCNext]_mcVars
=============================================================================
