------------------------------ MODULE MCRoutes ------------------------------
(***************************************************************************)
(* Requests at once, one part at a time: what changes a plan (Billing),    *)
(* what plans and roles admit and show (Access), the columns of an upload  *)
(* (Intake), the scan for transfers between own accounts that precedes an  *)
(* analysis (TransferScan), and its loops (Pairing).                       *)
(***************************************************************************)
EXTENDS Billing, Access, Intake, TransferScan, Pairing, TLC

CONSTANTS d1, d2, d3, c1, c2, c3, a1, a2

VARIABLE part   \* what is under way in this behaviour

mcVars == <<vars, accessVars, intakeVars, scanVars, pairingVars, part>>

\* Every gateway has a plan code for every tier.
AllPlans == Gateways \X PaidTiers

\* Two accounts: two debits agree with one credit, so that two scans at once may
\* take different ones.
TwoAccounts == [r \in {d1, d2, c1} |-> IF r = c1 THEN a2 ELSE a1]
Shared == {<<d1, c1>>, <<d2, c1>>}

\* Two fields, of which one is money, and three headers: the name of the amount,
\* what looks like it, and what looks like the other field
FieldsInOrder == <<"amount", "note">>
Synonyms == [amount |-> {"total"}, note |-> {}]
Similar(amount, note) == [total |-> [amount |-> 0, note |-> 0],
                          amt |-> [amount |-> amount, note |-> note],
                          memo |-> [amount |-> 60, note |-> 85]]
SomeTables == {Similar(85, 60), Similar(60, 85), Similar(85, 85)}

Plain(w) == [word |-> w, spelling |-> "plain"]
Padded(w) == [word |-> w, spelling |-> "padded"]
SomeFiles == {<<Plain("amt"), Plain("memo")>>, <<Plain("memo"), Padded("amt")>>,
              <<Plain("total"), Padded("total")>>}
SomeAmounts == [signed : BOOLEAN, whole : {12}, fraction : {<<>>, <<5>>, <<0, 7>>, <<1, 2, 9>>},
                unit : {1, 1000}]
SomeCells == {<<3, 4>>, <<12, 12>>, <<12, 5>>, <<25, 3>>, <<3, 25>>, <<25, 25>>}

\* One group of model values stands for users, processes and uploads, another
\* for sessions and requests.
Symmetry == Permutations(Processes) \cup Permutations(Requests)

\* The loops take debits and credits in any order: which agree is any relation,
\* so that one order stands for all.
MCInit ==
    /\ part \in {"billing", "access", "mapping", "scan", "loops"}
    /\ debits = <<d1, d2, d3>> /\ credits = <<c1, c2, c3>>
    /\ part # "loops" => compatible = {}
    /\ part # "access" => /\ tier = [u \in Members |-> "free"]
                         /\ roles = [u \in Members |-> [bank |-> NoRole, ecommerce |-> NoRole]]
    /\ part # "mapping" => table = Similar(85, 85)
    /\ Init /\ AccessInit /\ IntakeInit /\ ScanInit /\ PairingInit

MCNext ==
    \/ /\ part = "billing" /\ Next
       /\ UNCHANGED <<accessVars, intakeVars, scanVars, pairingVars, part>>
    \/ /\ part = "access" /\ AccessNext
       /\ UNCHANGED <<vars, intakeVars, scanVars, pairingVars, part>>
    \/ /\ part = "mapping" /\ IntakeNext
       /\ UNCHANGED <<vars, accessVars, scanVars, pairingVars, part>>
    \/ /\ part = "scan" /\ ScanNext
       /\ UNCHANGED <<vars, accessVars, intakeVars, pairingVars, part>>
    \/ /\ part = "loops" /\ Turn
       /\ UNCHANGED <<vars, accessVars, intakeVars, scanVars, part>>

MCSpec == MCInit /\ [][MCNext]_mcVars

\* The type invariants of the modules that have variables of their own
RoutesTypeOK ==
    /\ part = "billing" => TypeOK
    /\ part = "access" => AccessTypeOK
    /\ part = "mapping" => IntakeTypeOK
    /\ part = "scan" => ScanTypeOK

\* One part alone, for what it does not keep
MappingSpec == MCInit /\ part = "mapping" /\ [][MCNext]_mcVars
=============================================================================
