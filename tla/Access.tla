------------------------------- MODULE Access --------------------------------
(***************************************************************************)
(* Who may ask for what, and how much of it is answered: app/services/     *)
(* rbac.py, merchant_dependencies.py, plan_permissions.py, entitlements.py *)
(* and the handlers of app/routes/bank.py, ecommerce.py, reconciliation.py *)
(* and uploads.py that use them.                                           *)
(*                                                                         *)
(* A request reads the plan with its user, then the role of the user for   *)
(* the business, then looks the feature up in the plan; it may write (the  *)
(* scan of module TransferScan, an upload) before it answers.  Roles and   *)
(* plans change in between: what a request read is what it goes by.        *)
(*                                                                         *)
(* One business; an answer is the set of the kinds of content it has.      *)
(***************************************************************************)
EXTENDS Integers, FiniteSets

CONSTANTS Members,     \* users who may have a role for the business
          Inquiries,   \* requests in flight at once
          MaxChanges,  \* bound on the changes of roles and plans
          NoRole

-----------------------------------------------------------------------------
(* Roles *)

BankRoles == {"bank_owner", "bank_admin", "loan_officer", "bank_viewer"}
EcommerceRoles == {"owner", "admin", "manager", "viewer"}
Roles == [bank : BankRoles \cup {NoRole}, ecommerce : EcommerceRoles \cup {NoRole}]

BankIngest == {"bank_owner", "bank_admin"}
FullData == {"bank_owner", "bank_admin", "bank_viewer"}
BriefOnly == FullData \cup {"loan_officer"}
FraudFullDetail == {"bank_owner", "bank_admin"}
EcommerceIngest == {"owner", "admin", "manager"}

-----------------------------------------------------------------------------
(* Plans *)

PlanTiers == {"free", "basic", "premium"}

Plan(free, basic, premium) == [free |-> free, basic |-> basic, premium |-> premium]

\* The rows of PLAN_FEATURES that a route looks up. The limited access of loan
\* readiness on the free plan is the grade only.
Matrix ==
    [data_quality_report |-> Plan("full", "full", "full"),
     ecommerce_summary   |-> Plan("full", "full", "full"),
     ecommerce_margin    |-> Plan("none", "full", "full"),
     dashboard_summary   |-> Plan("none", "full", "full"),
     loan_readiness      |-> Plan("grade", "score", "full"),
     income_stability    |-> Plan("none", "full", "full"),
     abm                 |-> Plan("none", "full", "full"),
     cashflow_analysis   |-> Plan("none", "full", "full"),
     fraud_risk          |-> Plan("none", "integrity", "full"),
     cashflow_forecast   |-> Plan("none", "none", "full"),
     lender_brief        |-> Plan("none", "none", "full"),
     health_playbook     |-> Plan("none", "none", "full")]

Features == DOMAIN Matrix
NoFeature == "any plan"

\* get_access
Level(feature, tier) == IF feature = NoFeature THEN "full" ELSE Matrix[feature][tier]

-----------------------------------------------------------------------------
(* Endpoints *)

\* An endpoint: the roles it admits, the feature it looks up, and whether it
\* writes before it answers
Endpoint(vertical, roles, feature, writes) ==
    [vertical |-> vertical, roles |-> roles, feature |-> feature, writes |-> writes]

Endpoints ==
    [accounts          |-> Endpoint("bank", BriefOnly, NoFeature, FALSE),
     dashboard_summary |-> Endpoint("bank", FullData, "dashboard_summary", TRUE),
     income_stability  |-> Endpoint("bank", FullData, "income_stability", TRUE),
     abm               |-> Endpoint("bank", FullData, "abm", TRUE),
     cashflow_analysis |-> Endpoint("bank", FullData, "cashflow_analysis", TRUE),
     fraud_risk        |-> Endpoint("bank", BriefOnly, "fraud_risk", TRUE),
     loan_readiness    |-> Endpoint("bank", BriefOnly, "loan_readiness", TRUE),
     cashflow_forecast |-> Endpoint("bank", FullData, "cashflow_forecast", TRUE),
     lender_brief      |-> Endpoint("bank", BriefOnly, "lender_brief", TRUE),
     health_playbook   |-> Endpoint("bank", FullData, "health_playbook", TRUE),
     quality_report    |-> Endpoint("bank", BriefOnly, "data_quality_report", FALSE),
     bank_upload       |-> Endpoint("bank", BankIngest, NoFeature, TRUE),
     upload_report     |-> Endpoint("bank", BankRoles, NoFeature, FALSE),
     reconciliation    |-> Endpoint("bank", BankRoles, NoFeature, FALSE),
     shop_summary      |-> Endpoint("ecommerce", EcommerceRoles, "ecommerce_summary", FALSE),
     shop_revenue      |-> Endpoint("ecommerce", EcommerceRoles, "ecommerce_margin", FALSE),
     shop_upload       |-> Endpoint("ecommerce", EcommerceIngest, NoFeature, TRUE)]

Names == DOMAIN Endpoints

ASSUME AccessAssumption ==
    /\ MaxChanges \in Nat
    /\ NoRole \notin BankRoles \cup EcommerceRoles \cup Members

\* What must not reach a loan officer through the bank pages
Detail == {"bank_name", "closing_balance", "payees", "transactions",
           "balance_amounts", "rejected_rows"}

\* All that an answer may have
Kinds == Detail \cup {"account", "integrity", "fraud_score", "flags", "grade", "score",
                      "breakdown", "totals", "document", "warnings"}

\* _shape_accounts
ShapedAccounts(role) ==
    {"account"} \cup IF role = "loan_officer" THEN {} ELSE {"bank_name", "closing_balance"}

\* redact_flags_for_loan_officer, then _shape_fraud_risk
BugShapedFraud(role, level) ==     \* a bug: the redaction knows one role only
    IF level = "integrity" THEN {"integrity"}
    ELSE {"integrity", "fraud_score", "flags"}
            \cup IF role = "bank_viewer" THEN {} ELSE {"transactions"}
ShapedFraud(role, level) ==
    IF level = "integrity" THEN {"integrity"}
    ELSE {"integrity", "fraud_score", "flags"}
            \cup IF role \in FraudFullDetail THEN {"transactions"} ELSE {}

\* _shape_loan_readiness
ShapedLoan(level) == {"grade"} \cup (IF level = "grade" THEN {} ELSE {"score"})
                               \cup IF level = "full" THEN {"breakdown"} ELSE {}

\* _shape_quality_report
ShapedQuality(role) ==
    {"integrity"} \cup IF role = "loan_officer" THEN {} ELSE {"balance_amounts", "rejected_rows"}

\* What endpoint e answers to a role under an access level
Content(e, role, level) ==
    CASE e = "accounts" -> ShapedAccounts(role)
      [] e = "fraud_risk" -> ShapedFraud(role, level)
      [] e = "loan_readiness" -> ShapedLoan(level)
      [] e = "quality_report" -> ShapedQuality(role)
      [] e \in {"dashboard_summary", "cashflow_analysis"} -> {"totals", "payees", "balance_amounts"}
      [] e = "cashflow_forecast" -> {"totals", "payees", "balance_amounts"}
      [] e = "abm" -> {"balance_amounts"}
      [] e = "lender_brief" -> {"score", "fraud_score", "totals", "document"}
      [] e = "upload_report" -> {"rejected_rows", "warnings"}
      [] OTHER -> {"totals"}

\* What a user with these roles and this plan may see of e
Visible(e, roles, tier) ==
    LET p == Endpoints[e]
        role == roles[p.vertical]
        level == Level(p.feature, tier)
    IN  IF role \in p.roles /\ level # "none" THEN Content(e, role, level) ELSE {}

-----------------------------------------------------------------------------
VARIABLES
    roles,      \* user_merchant_roles: of each member, in each vertical
    tier,       \* users.subscription_tier
    changes,    \* number of changes so far
    inquiry     \* the requests in flight

accessVars == <<roles, tier, changes, inquiry>>

\* A request: what it asks for, the plan, role and level it read, whether it
\* has written, its answer, and the roles and plans its user has had since.
Inquiry == [pc : {"idle", "asked", "admitted", "cleared", "loaded", "answered", "denied"},
            user : Members \cup {NoRole}, endpoint : Names \cup {NoRole},
            tier : PlanTiers \cup {NoRole}, role : BankRoles \cup EcommerceRoles \cup {NoRole},
            level : {"none", "grade", "score", "integrity", "full"},
            wrote : BOOLEAN, answer : SUBSET Kinds,
            hadRoles : SUBSET Roles, hadTiers : SUBSET PlanTiers]

Resting == [pc |-> "idle", user |-> NoRole, endpoint |-> NoRole, tier |-> NoRole,
            role |-> NoRole, level |-> "none", wrote |-> FALSE, answer |-> {},
            hadRoles |-> {}, hadTiers |-> {}]

AccessInit ==
    /\ roles \in [Members -> Roles]
    /\ tier \in [Members -> PlanTiers]
    /\ changes = 0
    /\ inquiry = [q \in Inquiries |-> Resting]

AtStage(q, pc) == inquiry[q].pc = pc
Of(q) == Endpoints[inquiry[q].endpoint]

Completes(q, pc) ==
    /\ inquiry' = [inquiry EXCEPT ![q].pc = pc]
    /\ UNCHANGED <<roles, tier, changes>>

\* get_current_user: the row of the user, and with it the plan, is read once.
Ask(q, u, e) ==
    /\ AtStage(q, "idle")
    /\ inquiry' = [inquiry EXCEPT ![q] =
          [pc |-> "asked", user |-> u, endpoint |-> e, tier |-> tier[u], role |-> NoRole,
           level |-> "none", wrote |-> FALSE, answer |-> {},
           hadRoles |-> {roles[u]}, hadTiers |-> {tier[u]}]]
    /\ UNCHANGED <<roles, tier, changes>>

\* There is no such account, upload or report: 404.
NotFound(q) == AtStage(q, "asked") /\ Completes(q, "denied")

\* check_role and check_any_role; require_merchant_role and
\* require_account_role run them before the handler.
RoleNow(q) == roles[inquiry[q].user][Of(q).vertical]
BugAdmits(q) == RoleNow(q) # NoRole     \* a bug: any role for the business
Admits(q) == RoleNow(q) \in Of(q).roles

Admit(q) ==
    /\ AtStage(q, "asked") /\ Admits(q)
    /\ inquiry' = [inquiry EXCEPT ![q].pc = "admitted", ![q].role = RoleNow(q)]
    /\ UNCHANGED <<roles, tier, changes>>

Forbid(q) == AtStage(q, "asked") /\ ~Admits(q) /\ Completes(q, "denied")

\* check_feature_access, by the plan that was read with the user
LevelOf(q) == Level(Of(q).feature, inquiry[q].tier)

Clear(q) ==
    /\ AtStage(q, "admitted") /\ LevelOf(q) # "none"
    /\ inquiry' = [inquiry EXCEPT ![q].pc = "cleared", ![q].level = LevelOf(q)]
    /\ UNCHANGED <<roles, tier, changes>>

UpgradeRequired(q) == AtStage(q, "admitted") /\ LevelOf(q) = "none" /\ Completes(q, "denied")

\* _load_transactions with its scan, or the upload
BugMayLoad(q) == inquiry[q].pc \in {"asked", "cleared"}  \* a bug: before the checks
MayLoad(q) == AtStage(q, "cleared")

Load(q) ==
    /\ MayLoad(q) /\ Of(q).writes
    /\ inquiry' = [inquiry EXCEPT ![q].pc = "loaded", ![q].wrote = TRUE]
    /\ UNCHANGED <<roles, tier, changes>>

Answer(q) ==
    /\ AtStage(q, "loaded") \/ (AtStage(q, "cleared") /\ ~Of(q).writes)
    /\ inquiry' = [inquiry EXCEPT ![q].pc = "answered",
          ![q].answer = Content(inquiry[q].endpoint, inquiry[q].role, inquiry[q].level)]
    /\ UNCHANGED <<roles, tier, changes>>

Conclude(q) ==
    /\ inquiry[q].pc \in {"answered", "denied"}
    /\ inquiry' = [inquiry EXCEPT ![q] = Resting]
    /\ UNCHANGED <<roles, tier, changes>>

\* Roles (module Team) and plans (module Billing) change meanwhile.
ChangeRoles(u, v, role) ==
    /\ changes < MaxChanges
    /\ roles' = [roles EXCEPT ![u][v] = role]
    /\ changes' = changes + 1
    /\ inquiry' = [q \in Inquiries |->
          IF inquiry[q].user = u THEN [inquiry[q] EXCEPT !.hadRoles = @ \cup {roles'[u]}]
          ELSE inquiry[q]]
    /\ UNCHANGED tier

ChangeTier(u, t) ==
    /\ changes < MaxChanges
    /\ tier' = [tier EXCEPT ![u] = t]
    /\ changes' = changes + 1
    /\ inquiry' = [q \in Inquiries |->
          IF inquiry[q].user = u THEN [inquiry[q] EXCEPT !.hadTiers = @ \cup {t}]
          ELSE inquiry[q]]
    /\ UNCHANGED roles

Handle(q) ==
    \/ NotFound(q) \/ Admit(q) \/ Forbid(q) \/ Clear(q) \/ UpgradeRequired(q)
    \/ Load(q) \/ Answer(q) \/ Conclude(q)

AccessNext ==
    \/ \E q \in Inquiries : Handle(q) \/ \E u \in Members, e \in Names : Ask(q, u, e)
    \/ \E u \in Members :
          \/ \E role \in BankRoles \cup {NoRole} : ChangeRoles(u, "bank", role)
          \/ \E role \in EcommerceRoles \cup {NoRole} : ChangeRoles(u, "ecommerce", role)
          \/ \E t \in PlanTiers : ChangeTier(u, t)

AccessSpec == AccessInit /\ [][AccessNext]_accessVars

-----------------------------------------------------------------------------
(* Properties *)

AccessTypeOK ==
    /\ roles \in [Members -> Roles]
    /\ tier \in [Members -> PlanTiers]
    /\ changes \in 0 .. MaxChanges
    /\ inquiry \in [Inquiries -> Inquiry]
    /\ \A q \in Inquiries :
          inquiry[q].pc \in {"cleared", "loaded", "answered"} =>
              inquiry[q].role # NoRole /\ inquiry[q].level # "none"

\* A request is answered with no more than a role and a plan that its user
\* had since it was made let him see, however they change while it is handled
\* (rbac.py:27, entitlements.py:56).
AnswerWasAllowed ==
    \A q \in Inquiries : AtStage(q, "answered") =>
        \E r \in inquiry[q].hadRoles, t \in inquiry[q].hadTiers :
            inquiry[q].answer \subseteq Visible(inquiry[q].endpoint, r, t)

\* A request writes only for a user who had a role that the page admits and a
\* plan with the feature (merchant_dependencies.py:38, routes/bank.py:234).
WriteWasAllowed ==
    \A q \in Inquiries : inquiry[q].wrote =>
        \E r \in inquiry[q].hadRoles, t \in inquiry[q].hadTiers :
            r[Of(q).vertical] \in Of(q).roles /\ Level(Of(q).feature, t) # "none"

\* Someone who was a loan officer all along is shown no detail by the bank
\* pages (routes/bank.py:55). The report of routes/uploads.py is not one of
\* them: it shows rejected rows to every role.
OfficerSeesNoDetail ==
    \A q \in Inquiries :
        (/\ AtStage(q, "answered")
         /\ inquiry[q].endpoint # "upload_report"
         /\ \A r \in inquiry[q].hadRoles : r.bank = "loan_officer")
        => inquiry[q].answer \cap Detail = {}

\* Whatever is answered on a plan is answered on the plans above it: paying
\* more hides nothing (plan_permissions.py:51, routes/bank.py:149).
PlansAbove(t) == CASE t = "free" -> PlanTiers [] t = "basic" -> {"basic", "premium"}
                   [] OTHER -> {"premium"}
UpgradeHidesNothing ==
    \A q \in Inquiries : AtStage(q, "answered") =>
        \A t \in PlansAbove(inquiry[q].tier) :
            LET level == Level(Of(q).feature, t)
            IN  /\ level # "none"
                /\ inquiry[q].answer
                      \subseteq Content(inquiry[q].endpoint, inquiry[q].role, level)
=============================================================================
