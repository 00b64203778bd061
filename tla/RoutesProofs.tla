---------------------------- MODULE RoutesProofs -----------------------------
(***************************************************************************)
(* Proofs about the requests of MCRoutes, part by part:                    *)
(*   - Access: what a request is answered and writes, for any number of    *)
(*     users, requests and changes of roles and plans;                     *)
(*   - Intake: what a mapping is resolved to, saved as, reused for and     *)
(*     read by, for any headers, fields, scores, files, requests and       *)
(*     amounts.  It begins with the folds the algorithm is made of;        *)
(*   - that the parts keep their invariants side by side, with Billing     *)
(*     (BillingProofs) and TransferScan (TransferScanProofs).              *)
(***************************************************************************)
EXTENDS MCRoutes, BillingProofs, TransferScanProofs, WellFoundedInduction

Levels == {"none", "grade", "score", "integrity", "full"}

\* The levels a plan may have where a lower plan has this one
LevelsAbove(level) == {level, "full"} \cup IF level = "grade" THEN {"score"} ELSE {}

-----------------------------------------------------------------------------
(* The tables of endpoints and features *)

LEMMA NameList ==
    Names = {"accounts", "dashboard_summary", "income_stability", "abm",
             "cashflow_analysis", "fraud_risk", "loan_readiness", "cashflow_forecast",
             "lender_brief", "health_playbook", "quality_report", "bank_upload",
             "upload_report", "reconciliation", "shop_summary", "shop_revenue",
             "shop_upload"}
BY DEF Names, Endpoints

LEMMA EndpointFields ==
    ASSUME NEW e \in Names
    PROVE  /\ Endpoints[e].vertical \in {"bank", "ecommerce"}
           /\ Endpoints[e].roles \subseteq BankRoles \cup EcommerceRoles
           /\ Endpoints[e].feature \in Features \cup {NoFeature}
<1>1. Endpoints[e].vertical \in {"bank", "ecommerce"}
  BY NameList DEF Endpoints, Endpoint
<1>2. Endpoints[e].roles \in {BriefOnly, FullData, BankIngest, BankRoles, EcommerceRoles,
                              EcommerceIngest}
  BY NameList DEF Endpoints, Endpoint
<1>3. Endpoints[e].feature \in Features \cup {NoFeature}
  BY NameList DEF Endpoints, Endpoint, Features, Matrix
<1>4. Endpoints[e].roles \subseteq BankRoles \cup EcommerceRoles
  BY <1>2 DEF BriefOnly, FullData, BankIngest, EcommerceIngest, BankRoles, EcommerceRoles
<1> QED
  BY <1>1, <1>3, <1>4

LEMMA LevelType ==
    ASSUME NEW f \in Features \cup {NoFeature}, NEW t \in PlanTiers
    PROVE  Level(f, t) \in Levels
<1>1. CASE f = NoFeature
  BY <1>1 DEF Level, Levels
<1>2. CASE f # NoFeature
  <2>1. Matrix[f][t] \in Levels
    BY <1>2 DEF Features, PlanTiers, Matrix, Plan, Levels
  <2> QED
    BY <1>2, <2>1 DEF Level
<1> QED
  BY <1>1, <1>2

LEMMA ContentType ==
    ASSUME NEW e \in Names, NEW role, NEW level
    PROVE  Content(e, role, level) \subseteq Kinds
BY DEF Content, Kinds, Detail, ShapedAccounts, ShapedFraud, ShapedLoan, ShapedQuality

\* Nothing an endpoint answers to a loan officer, or outside the bank pages, is
\* a detail.
LEMMA NoDetail ==
    ASSUME NEW e \in Names \ {"upload_report"}, NEW role \in Endpoints[e].roles, NEW level,
           Endpoints[e].vertical = "bank" => role = "loan_officer"
    PROVE  Content(e, role, level) \cap Detail = {}
<1>1. CASE e \in {"accounts", "fraud_risk", "quality_report"}
  <2>1. role = "loan_officer"
    BY <1>1 DEF Endpoints, Endpoint
  <2> QED
    BY <1>1, <2>1 DEF Content, Detail, ShapedAccounts, ShapedFraud, ShapedQuality,
                      FraudFullDetail
<1>2. CASE e \in {"dashboard_summary", "cashflow_analysis", "cashflow_forecast", "abm"}
  <2>1. Endpoints[e].vertical = "bank" /\ Endpoints[e].roles = FullData
    BY <1>2 DEF Endpoints, Endpoint
  <2> QED
    BY <2>1 DEF FullData
<1>3. CASE e \notin {"accounts", "fraud_risk", "quality_report", "dashboard_summary",
                     "cashflow_analysis", "cashflow_forecast", "abm"}
  BY <1>3 DEF Content, Detail, ShapedLoan
<1> QED
  BY <1>1, <1>2, <1>3

\* A feature that is there on one plan is there on those above it.
LEMMA MatrixRises ==
    ASSUME NEW f \in Features, NEW t \in PlanTiers, NEW u \in PlansAbove(t),
           Matrix[f][t] # "none"
    PROVE  Matrix[f][u] # "none" /\ Matrix[f][u] \in LevelsAbove(Matrix[f][t])
<1>1. CASE t = "free"
  <2>1. u \in {"free", "basic", "premium"}
    BY <1>1 DEF PlansAbove, PlanTiers
  <2> QED
    BY <1>1, <2>1 DEF Features, Matrix, Plan, LevelsAbove
<1>2. CASE t = "basic"
  <2>1. u \in {"basic", "premium"}
    BY <1>2 DEF PlansAbove, PlanTiers
  <2> QED
    BY <1>2, <2>1 DEF Features, Matrix, Plan, LevelsAbove
<1>3. CASE t = "premium"
  <2>1. u = t
    BY <1>3 DEF PlansAbove, PlanTiers
  <2> QED
    BY <2>1 DEF LevelsAbove
<1> QED
  BY <1>1, <1>2, <1>3 DEF PlanTiers

LEMMA LevelRises ==
    ASSUME NEW f \in Features \cup {NoFeature}, NEW t \in PlanTiers, NEW u \in PlansAbove(t),
           Level(f, t) # "none"
    PROVE  Level(f, u) # "none" /\ Level(f, u) \in LevelsAbove(Level(f, t))
<1>1. CASE f = NoFeature
  BY <1>1 DEF Level, LevelsAbove
<1>2. CASE f # NoFeature
  BY <1>2, MatrixRises DEF Level
<1> QED
  BY <1>1, <1>2

LEMMA ContentRises ==
    ASSUME NEW e \in Names, NEW role, NEW low, NEW high \in LevelsAbove(low)
    PROVE  Content(e, role, low) \subseteq Content(e, role, high)
BY DEF Content, ShapedAccounts, ShapedFraud, ShapedLoan, ShapedQuality, LevelsAbove

-----------------------------------------------------------------------------
(* The inductive invariant *)

\* What a request in flight has read and done, at each stage
AsRead(q) ==
    LET i == inquiry[q]
    IN  /\ i.pc # "idle" =>
              /\ i.user \in Members /\ i.endpoint \in Names /\ i.tier \in PlanTiers
              /\ i.tier \in i.hadTiers /\ roles[i.user] \in i.hadRoles
        /\ i.pc \in {"admitted", "cleared", "loaded", "answered"} =>
              /\ i.role \in Of(q).roles
              /\ \E r \in i.hadRoles : r[Of(q).vertical] = i.role
        /\ i.pc \in {"cleared", "loaded", "answered"} =>
              i.level = LevelOf(q) /\ i.level # "none"
        /\ i.pc = "answered" => i.answer = Content(i.endpoint, i.role, i.level)
        /\ i.wrote => i.pc \in {"loaded", "answered"}

Typed ==
    /\ roles \in [Members -> Roles]
    /\ tier \in [Members -> PlanTiers]
    /\ changes \in 0 .. MaxChanges
    /\ inquiry \in [Inquiries -> Inquiry]

AccessIInv == Typed /\ \A q \in Inquiries : AsRead(q)

LEMMA InitHolds == AccessInit => AccessIInv
<1> SUFFICES ASSUME AccessInit PROVE AccessIInv
  OBVIOUS
<1>1. Resting \in Inquiry
  BY DEF Resting, Inquiry
<1>2. Typed
  BY <1>1, AccessAssumption DEF AccessInit, Typed
<1>3. \A q \in Inquiries : AsRead(q)
  BY DEF AccessInit, AsRead, Resting
<1> QED
  BY <1>2, <1>3 DEF AccessIInv

-----------------------------------------------------------------------------
(* A step of a request *)

\* Where one request moves on as it should, the invariant holds of all.
LEMMA OneMoves ==
    ASSUME AccessIInv, NEW q \in Inquiries, NEW i \in Inquiry,
           inquiry' = [inquiry EXCEPT ![q] = i],
           UNCHANGED <<roles, tier, changes>>,
           AsRead(q)'
    PROVE  AccessIInv'
<1>1. Typed'
  BY DEF AccessIInv, Typed
<1>2. ASSUME NEW p \in Inquiries, p # q PROVE AsRead(p)'
  <2>1. inquiry'[p] = inquiry[p] /\ roles' = roles
    BY <1>2 DEF AccessIInv, Typed
  <2>2. AsRead(p)
    BY DEF AccessIInv
  <2> QED
    BY <2>1, <2>2 DEF AsRead, Of, LevelOf
<1> QED
  BY <1>1, <1>2 DEF AccessIInv

\* A request that only changes stage, to one where no more is asked of it
LEMMA Denied ==
    ASSUME AccessIInv, NEW q \in Inquiries, inquiry[q].pc \in {"asked", "admitted"},
           Completes(q, "denied")
    PROVE  AccessIInv'
<1> DEFINE i == [inquiry[q] EXCEPT !.pc = "denied"]
<1>1. inquiry[q] \in Inquiry /\ AsRead(q)
  BY DEF AccessIInv, Typed
<1>2. i \in Inquiry
  BY <1>1 DEF Inquiry
<1>3. inquiry' = [inquiry EXCEPT ![q] = i] /\ UNCHANGED <<roles, tier, changes>>
  BY DEF Completes
<1>4. inquiry'[q] = i
  BY <1>3 DEF AccessIInv, Typed
<1>5. AsRead(q)'
  BY <1>1, <1>3, <1>4 DEF AsRead, Inquiry
<1> QED
  BY <1>2, <1>3, <1>5, OneMoves

LEMMA AskKeeps ==
    ASSUME AccessIInv, NEW q \in Inquiries, NEW u \in Members, NEW e \in Names, Ask(q, u, e)
    PROVE  AccessIInv'
<1> DEFINE i == [pc |-> "asked", user |-> u, endpoint |-> e, tier |-> tier[u], role |-> NoRole,
                 level |-> "none", wrote |-> FALSE, answer |-> {},
                 hadRoles |-> {roles[u]}, hadTiers |-> {tier[u]}]
<1>1. roles[u] \in Roles /\ tier[u] \in PlanTiers
  BY DEF AccessIInv, Typed
<1>2. i \in Inquiry
  BY <1>1 DEF Inquiry
<1>3. inquiry' = [inquiry EXCEPT ![q] = i] /\ UNCHANGED <<roles, tier, changes>>
  BY DEF Ask
<1>4. inquiry'[q] = i
  BY <1>3 DEF AccessIInv, Typed
<1>5. AsRead(q)'
  BY <1>1, <1>3, <1>4 DEF AsRead
<1> QED
  BY <1>2, <1>3, <1>5, OneMoves

LEMMA AdmitKeeps ==
    ASSUME AccessIInv, NEW q \in Inquiries, Admit(q)
    PROVE  AccessIInv'
<1> DEFINE i == [inquiry[q] EXCEPT !.pc = "admitted", !.role = RoleNow(q)]
<1>1. inquiry[q] \in Inquiry /\ AsRead(q) /\ inquiry[q].pc = "asked"
  BY DEF AccessIInv, Typed, Admit, AtStage
<1>2. /\ inquiry[q].endpoint \in Names
      /\ RoleNow(q) \in Of(q).roles
      /\ RoleNow(q) = roles[inquiry[q].user][Of(q).vertical]
      /\ roles[inquiry[q].user] \in inquiry[q].hadRoles
  BY <1>1 DEF AsRead, Admit, Admits, RoleNow
<1>3. RoleNow(q) \in BankRoles \cup EcommerceRoles
  BY <1>2, EndpointFields DEF Of
<1>4. i \in Inquiry
  BY <1>1, <1>3 DEF Inquiry
<1>5. inquiry' = [inquiry EXCEPT ![q] = i] /\ UNCHANGED <<roles, tier, changes>>
  BY DEF Admit
<1>6. inquiry'[q] = i
  BY <1>5 DEF AccessIInv, Typed
<1>7. Of(q)' = Of(q)
  BY <1>6, <1>1 DEF Of, Inquiry
<1>8. AsRead(q)'
  BY <1>1, <1>2, <1>5, <1>6, <1>7 DEF AsRead, Inquiry
<1> QED
  BY <1>4, <1>5, <1>8, OneMoves

LEMMA ClearKeeps ==
    ASSUME AccessIInv, NEW q \in Inquiries, Clear(q)
    PROVE  AccessIInv'
<1> DEFINE i == [inquiry[q] EXCEPT !.pc = "cleared", !.level = LevelOf(q)]
<1>1. inquiry[q] \in Inquiry /\ AsRead(q) /\ inquiry[q].pc = "admitted" /\ LevelOf(q) # "none"
  BY DEF AccessIInv, Typed, Clear, AtStage
<1>2. Of(q).feature \in Features \cup {NoFeature} /\ inquiry[q].tier \in PlanTiers
  BY <1>1, EndpointFields DEF AsRead, Of
<1>3. LevelOf(q) \in Levels
  BY <1>2, LevelType DEF LevelOf
<1>4. i \in Inquiry
  BY <1>1, <1>3 DEF Inquiry, Levels
<1>5. inquiry' = [inquiry EXCEPT ![q] = i] /\ UNCHANGED <<roles, tier, changes>>
  BY DEF Clear
<1>6. inquiry'[q] = i
  BY <1>5 DEF AccessIInv, Typed
<1>7. Of(q)' = Of(q) /\ LevelOf(q)' = LevelOf(q)
  BY <1>6, <1>1 DEF Of, LevelOf, Inquiry
<1>8. AsRead(q)'
  BY <1>1, <1>5, <1>6, <1>7 DEF AsRead, Inquiry
<1> QED
  BY <1>4, <1>5, <1>8, OneMoves

LEMMA LoadKeeps ==
    ASSUME AccessIInv, NEW q \in Inquiries, Load(q)
    PROVE  AccessIInv'
<1> DEFINE i == [inquiry[q] EXCEPT !.pc = "loaded", !.wrote = TRUE]
<1>1. inquiry[q] \in Inquiry /\ AsRead(q) /\ inquiry[q].pc = "cleared"
  BY DEF AccessIInv, Typed, Load, MayLoad, AtStage
<1>2. i \in Inquiry
  BY <1>1 DEF Inquiry
<1>3. inquiry' = [inquiry EXCEPT ![q] = i] /\ UNCHANGED <<roles, tier, changes>>
  BY DEF Load
<1>4. inquiry'[q] = i
  BY <1>3 DEF AccessIInv, Typed
<1>5. Of(q)' = Of(q) /\ LevelOf(q)' = LevelOf(q)
  BY <1>4, <1>1 DEF Of, LevelOf, Inquiry
<1>6. AsRead(q)'
  BY <1>1, <1>3, <1>4, <1>5 DEF AsRead, Inquiry
<1> QED
  BY <1>2, <1>3, <1>6, OneMoves

LEMMA AnswerKeeps ==
    ASSUME AccessIInv, NEW q \in Inquiries, Answer(q)
    PROVE  AccessIInv'
<1> DEFINE content == Content(inquiry[q].endpoint, inquiry[q].role, inquiry[q].level)
           i == [inquiry[q] EXCEPT !.pc = "answered", !.answer = content]
<1>1. inquiry[q] \in Inquiry /\ AsRead(q) /\ inquiry[q].pc \in {"cleared", "loaded"}
  BY DEF AccessIInv, Typed, Answer, AtStage
<1>2. content \subseteq Kinds
  BY <1>1, ContentType DEF AsRead
<1>3. i \in Inquiry
  BY <1>1, <1>2 DEF Inquiry
<1>4. inquiry' = [inquiry EXCEPT ![q] = i] /\ UNCHANGED <<roles, tier, changes>>
  BY DEF Answer
<1>5. inquiry'[q] = i
  BY <1>4 DEF AccessIInv, Typed
<1>6. Of(q)' = Of(q) /\ LevelOf(q)' = LevelOf(q)
  BY <1>5, <1>1 DEF Of, LevelOf, Inquiry
<1>7. AsRead(q)'
  BY <1>1, <1>4, <1>5, <1>6 DEF AsRead, Inquiry
<1> QED
  BY <1>3, <1>4, <1>7, OneMoves

LEMMA ConcludeKeeps ==
    ASSUME AccessIInv, NEW q \in Inquiries, Conclude(q)
    PROVE  AccessIInv'
<1>1. Resting \in Inquiry
  BY DEF Resting, Inquiry
<1>2. inquiry' = [inquiry EXCEPT ![q] = Resting] /\ UNCHANGED <<roles, tier, changes>>
  BY DEF Conclude
<1>3. inquiry'[q] = Resting
  BY <1>2 DEF AccessIInv, Typed
<1>4. AsRead(q)'
  BY <1>3 DEF AsRead, Resting
<1> QED
  BY <1>1, <1>2, <1>4, OneMoves

-----------------------------------------------------------------------------
(* Roles and plans change *)

LEMMA ChangeRolesKeeps ==
    ASSUME AccessIInv, NEW u \in Members, NEW v \in {"bank", "ecommerce"}, NEW role,
           v = "bank" => role \in BankRoles \cup {NoRole},
           v = "ecommerce" => role \in EcommerceRoles \cup {NoRole},
           ChangeRoles(u, v, role)
    PROVE  AccessIInv'
<1> DEFINE new == [roles[u] EXCEPT ![v] = role]
<1>1. roles[u] \in Roles
  BY DEF AccessIInv, Typed
<1>2. new \in Roles
  BY <1>1 DEF Roles
<1>3. roles' = [roles EXCEPT ![u] = new] /\ tier' = tier
  BY DEF ChangeRoles
<1>4. roles' \in [Members -> Roles] /\ roles'[u] = new
  BY <1>2, <1>3 DEF AccessIInv, Typed
<1>5. ASSUME NEW q \in Inquiries
      PROVE  /\ inquiry'[q] = IF inquiry[q].user = u
                              THEN [inquiry[q] EXCEPT !.hadRoles = @ \cup {new}]
                              ELSE inquiry[q]
             /\ inquiry'[q] \in Inquiry
             /\ AsRead(q)'
  <2>1. inquiry[q] \in Inquiry /\ AsRead(q)
    BY DEF AccessIInv, Typed
  <2>2. inquiry'[q] = IF inquiry[q].user = u
                      THEN [inquiry[q] EXCEPT !.hadRoles = @ \cup {new}] ELSE inquiry[q]
    BY <1>4 DEF ChangeRoles
  <2>3. inquiry'[q] \in Inquiry
    BY <1>2, <2>1, <2>2 DEF Inquiry
  <2>4. Of(q)' = Of(q) /\ LevelOf(q)' = LevelOf(q)
    BY <2>1, <2>2 DEF Of, LevelOf, Inquiry
  <2>5. AsRead(q)'
    <3>1. CASE inquiry[q].user = u
      BY <1>4, <2>1, <2>2, <2>4, <3>1 DEF AsRead, Inquiry
    <3>2. CASE inquiry[q].user # u
      <4>1. inquiry[q].user \in Members => roles'[inquiry[q].user] = roles[inquiry[q].user]
        BY <1>3, <3>2 DEF AccessIInv, Typed
      <4> QED
        BY <2>1, <2>2, <2>4, <3>2, <4>1 DEF AsRead, Inquiry
    <3> QED
      BY <3>1, <3>2
  <2> QED
    BY <2>2, <2>3, <2>5
<1>6. inquiry' \in [Inquiries -> Inquiry]
  BY <1>5 DEF ChangeRoles
<1>7. changes' \in 0 .. MaxChanges
  BY AccessAssumption DEF ChangeRoles, AccessIInv, Typed
<1> QED
  BY <1>3, <1>4, <1>5, <1>6, <1>7 DEF AccessIInv, Typed

LEMMA ChangeTierKeeps ==
    ASSUME AccessIInv, NEW u \in Members, NEW t \in PlanTiers, ChangeTier(u, t)
    PROVE  AccessIInv'
<1>1. roles' = roles /\ tier' \in [Members -> PlanTiers]
  BY DEF ChangeTier, AccessIInv, Typed
<1>2. ASSUME NEW q \in Inquiries
      PROVE  inquiry'[q] \in Inquiry /\ AsRead(q)'
  <2>1. inquiry[q] \in Inquiry /\ AsRead(q)
    BY DEF AccessIInv, Typed
  <2>2. inquiry'[q] = IF inquiry[q].user = u
                      THEN [inquiry[q] EXCEPT !.hadTiers = @ \cup {t}] ELSE inquiry[q]
    BY DEF ChangeTier
  <2>3. inquiry'[q] \in Inquiry
    BY <2>1, <2>2 DEF Inquiry
  <2>4. Of(q)' = Of(q) /\ LevelOf(q)' = LevelOf(q)
    BY <2>1, <2>2 DEF Of, LevelOf, Inquiry
  <2>5. AsRead(q)'
    BY <1>1, <2>1, <2>2, <2>4 DEF AsRead, Inquiry
  <2> QED
    BY <2>3, <2>5
<1>3. inquiry' \in [Inquiries -> Inquiry]
  BY <1>2 DEF ChangeTier
<1>4. changes' \in 0 .. MaxChanges
  BY AccessAssumption DEF ChangeTier, AccessIInv, Typed
<1> QED
  BY <1>1, <1>2, <1>3, <1>4 DEF AccessIInv, Typed

-----------------------------------------------------------------------------
(* Every step *)

LEMMA NextHolds ==
    ASSUME AccessIInv, [AccessNext]_accessVars
    PROVE  AccessIInv'
<1>1. ASSUME NEW q \in Inquiries, Handle(q) PROVE AccessIInv'
  <2>1. CASE NotFound(q)
    BY <2>1, Denied DEF NotFound, AtStage
  <2>2. CASE Admit(q)
    BY <2>2, AdmitKeeps
  <2>3. CASE Forbid(q)
    BY <2>3, Denied DEF Forbid, AtStage
  <2>4. CASE Clear(q)
    BY <2>4, ClearKeeps
  <2>5. CASE UpgradeRequired(q)
    BY <2>5, Denied DEF UpgradeRequired, AtStage
  <2>6. CASE Load(q)
    BY <2>6, LoadKeeps
  <2>7. CASE Answer(q)
    BY <2>7, AnswerKeeps
  <2>8. CASE Conclude(q)
    BY <2>8, ConcludeKeeps
  <2> QED
    BY <1>1, <2>1, <2>2, <2>3, <2>4, <2>5, <2>6, <2>7, <2>8 DEF Handle
<1>2. ASSUME NEW q \in Inquiries, NEW u \in Members, NEW e \in Names, Ask(q, u, e)
      PROVE  AccessIInv'
  BY <1>2, AskKeeps
<1>3. ASSUME NEW u \in Members, NEW role \in BankRoles \cup {NoRole}, ChangeRoles(u, "bank", role)
      PROVE  AccessIInv'
  BY <1>3, ChangeRolesKeeps
<1>4. ASSUME NEW u \in Members, NEW role \in EcommerceRoles \cup {NoRole},
             ChangeRoles(u, "ecommerce", role)
      PROVE  AccessIInv'
  BY <1>4, ChangeRolesKeeps
<1>5. ASSUME NEW u \in Members, NEW t \in PlanTiers, ChangeTier(u, t)
      PROVE  AccessIInv'
  BY <1>5, ChangeTierKeeps
<1>6. CASE UNCHANGED accessVars
  BY <1>6 DEF AccessIInv, Typed, AsRead, Of, LevelOf, accessVars
<1> QED
  BY <1>1, <1>2, <1>3, <1>4, <1>5, <1>6 DEF AccessNext

-----------------------------------------------------------------------------
(* The theorems *)

THEOREM AccessInvariant == AccessSpec => []AccessIInv
<1>1. AccessIInv /\ [AccessNext]_accessVars => AccessIInv'
  BY NextHolds
<1> QED
  BY InitHolds, <1>1, PTL DEF AccessSpec

\* A request that is let through has a role and a level of access, and answers
\* nothing but what the endpoints know to answer.
THEOREM AccessTypeCorrect == AccessSpec => []AccessTypeOK
<1>1. ASSUME AccessIInv PROVE AccessTypeOK
  <2>1. ASSUME NEW q \in Inquiries, inquiry[q].pc \in {"cleared", "loaded", "answered"}
        PROVE  inquiry[q].role # NoRole /\ inquiry[q].level # "none"
    <3>1. AsRead(q)
      BY <1>1 DEF AccessIInv
    <3>2. inquiry[q].endpoint \in Names
      BY <2>1, <3>1 DEF AsRead
    <3>3. inquiry[q].role \in BankRoles \cup EcommerceRoles
      BY <2>1, <3>1, <3>2, EndpointFields DEF AsRead, Of
    <3> QED
      BY <2>1, <3>1, <3>3, AccessAssumption DEF AsRead
  <2> QED
    BY <1>1, <2>1 DEF AccessIInv, Typed, AccessTypeOK
<1>2. AccessIInv => AccessTypeOK
  BY <1>1
<1> QED
  BY AccessInvariant, <1>2, PTL

\* What a request is answered, a role and a plan its user had while it was
\* handled let him see, whoever changes them in between.
THEOREM AnswersAllowed == AccessSpec => []AnswerWasAllowed
<1>1. ASSUME AccessIInv, NEW q \in Inquiries, AtStage(q, "answered")
      PROVE  \E r \in inquiry[q].hadRoles, t \in inquiry[q].hadTiers :
                 inquiry[q].answer \subseteq Visible(inquiry[q].endpoint, r, t)
  <2>1. AsRead(q) /\ inquiry[q].pc = "answered"
    BY <1>1 DEF AccessIInv, AtStage
  <2>2. PICK r \in inquiry[q].hadRoles : r[Of(q).vertical] = inquiry[q].role
    BY <2>1 DEF AsRead
  <2>3. Visible(inquiry[q].endpoint, r, inquiry[q].tier) = inquiry[q].answer
    BY <2>1, <2>2 DEF AsRead, Visible, Of, LevelOf
  <2>4. inquiry[q].tier \in inquiry[q].hadTiers
    BY <2>1 DEF AsRead
  <2> QED
    BY <2>2, <2>3, <2>4
<1>2. AccessIInv => AnswerWasAllowed
  BY <1>1 DEF AnswerWasAllowed
<1> QED
  BY AccessInvariant, <1>2, PTL

\* No request of someone without the role and the plan for it writes.
THEOREM WritesAllowed == AccessSpec => []WriteWasAllowed
<1>1. ASSUME AccessIInv, NEW q \in Inquiries, inquiry[q].wrote
      PROVE  \E r \in inquiry[q].hadRoles, t \in inquiry[q].hadTiers :
                 r[Of(q).vertical] \in Of(q).roles /\ Level(Of(q).feature, t) # "none"
  <2>1. AsRead(q) /\ inquiry[q].pc \in {"loaded", "answered"}
    BY <1>1 DEF AccessIInv, AsRead
  <2>2. PICK r \in inquiry[q].hadRoles : r[Of(q).vertical] = inquiry[q].role
    BY <2>1 DEF AsRead
  <2> QED
    BY <2>1, <2>2 DEF AsRead, LevelOf
<1>2. AccessIInv => WriteWasAllowed
  BY <1>1 DEF WriteWasAllowed
<1> QED
  BY AccessInvariant, <1>2, PTL

\* A loan officer is shown no detail by the bank pages.
THEOREM OfficersSeeNoDetail == AccessSpec => []OfficerSeesNoDetail
<1>1. ASSUME AccessIInv, NEW q \in Inquiries, AtStage(q, "answered"),
             inquiry[q].endpoint # "upload_report",
             \A r \in inquiry[q].hadRoles : r.bank = "loan_officer"
      PROVE  inquiry[q].answer \cap Detail = {}
  <2>1. AsRead(q) /\ inquiry[q].pc = "answered"
    BY <1>1 DEF AccessIInv, AtStage
  <2>2. PICK r \in inquiry[q].hadRoles : r[Of(q).vertical] = inquiry[q].role
    BY <2>1 DEF AsRead
  <2>3. Of(q).vertical = "bank" => inquiry[q].role = "loan_officer"
    BY <1>1, <2>2
  <2>4. inquiry[q].endpoint \in Names \ {"upload_report"} /\ inquiry[q].role \in Of(q).roles
    BY <1>1, <2>1 DEF AsRead
  <2>5. Content(inquiry[q].endpoint, inquiry[q].role, inquiry[q].level) \cap Detail = {}
    BY <2>3, <2>4, NoDetail DEF Of
  <2> QED
    BY <2>1, <2>5 DEF AsRead
<1>2. AccessIInv => OfficerSeesNoDetail
  BY <1>1 DEF OfficerSeesNoDetail
<1> QED
  BY AccessInvariant, <1>2, PTL

\* What a plan answers, the plans above it answer too.
THEOREM UpgradesHideNothing == AccessSpec => []UpgradeHidesNothing
<1>1. ASSUME AccessIInv, NEW q \in Inquiries, AtStage(q, "answered"),
             NEW t \in PlansAbove(inquiry[q].tier)
      PROVE  LET level == Level(Of(q).feature, t)
             IN  /\ level # "none"
                 /\ inquiry[q].answer
                       \subseteq Content(inquiry[q].endpoint, inquiry[q].role, level)
  <2>1. AsRead(q) /\ inquiry[q].pc = "answered"
    BY <1>1 DEF AccessIInv, AtStage
  <2>2. /\ inquiry[q].endpoint \in Names /\ inquiry[q].tier \in PlanTiers
        /\ inquiry[q].level = Level(Of(q).feature, inquiry[q].tier)
        /\ inquiry[q].level # "none"
    BY <2>1 DEF AsRead, LevelOf
  <2>3. Of(q).feature \in Features \cup {NoFeature}
    BY <2>2, EndpointFields DEF Of
  <2>4. /\ Level(Of(q).feature, t) # "none"
        /\ Level(Of(q).feature, t) \in LevelsAbove(inquiry[q].level)
    BY <2>2, <2>3, LevelRises
  <2>5. Content(inquiry[q].endpoint, inquiry[q].role, inquiry[q].level)
            \subseteq Content(inquiry[q].endpoint, inquiry[q].role, Level(Of(q).feature, t))
    BY <2>2, <2>4, ContentRises
  <2> QED
    BY <2>1, <2>4, <2>5 DEF AsRead
<1>2. AccessIInv => UpgradeHidesNothing
  BY <1>1 DEF UpgradeHidesNothing
<1> QED
  BY AccessInvariant, <1>2, PTL

-----------------------------------------------------------------------------
(* Folds: what MapThenFoldSet of the module Folds goes through *)

LEMMA LeastNat ==
  ASSUME NEW T \in SUBSET Nat, T # {}
  PROVE  \E m \in T : \A n \in T : m <= n
  <1> DEFINE R == {p \in Nat \X Nat : p[1] < p[2]}
  <1>1. IsWellFoundedOn(R, Nat)
    BY NatLessThanWellFounded DEF OpToRel
  <1> HIDE DEF R
  <1>2. PICK m \in T : \A n \in T : ~(<<n, m>> \in R)
    BY <1>1, WFMin
  <1>3. \A n \in T : ~(n < m)
    BY <1>2 DEF R
  <1> QED BY <1>3

\* A way to take an element of every set that has one
Picks(pick, S) == \A T \in SUBSET S : T # {} => pick[T] \in T

\* What holds of nothing, and of a set when it holds without the element picked
LEMMA ByPick ==
  ASSUME NEW S, IsFiniteSet(S), NEW pick, Picks(pick, S), NEW P, {} \in P,
         \A T \in SUBSET S : T # {} /\ T \ {pick[T]} \in P => T \in P
  PROVE  \A T \in SUBSET S : T \in P
  <1> SUFFICES ASSUME NEW U \in SUBSET S, U \notin P PROVE FALSE
    OBVIOUS
  <1> DEFINE Bad == {T \in SUBSET S : T \notin P}
             Sizes == {Cardinality(T) : T \in Bad}
  <1>1. \A T \in SUBSET S : IsFiniteSet(T) /\ Cardinality(T) \in Nat
    BY FS_Subset, FS_CardinalityType
  <1>2. Sizes \in SUBSET Nat /\ Sizes # {}
    BY <1>1
  <1>3. PICK m \in Sizes : \A n \in Sizes : m <= n
    BY <1>2, LeastNat
  <1>4. PICK T \in Bad : Cardinality(T) = m
    BY <1>3
  <1>5. T # {} /\ pick[T] \in T
    BY <1>4 DEF Picks
  <1>6. IsFiniteSet(T) /\ Cardinality(T) \in Nat
    BY <1>1, <1>4
  <1>7. Cardinality(T \ {pick[T]}) = Cardinality(T) - 1
    BY <1>5, <1>6, FS_RemoveElement
  <1>8. T \ {pick[T]} \notin Bad
    BY <1>3, <1>4, <1>6, <1>7
  <1> HIDE DEF Sizes
  <1>9. T \ {pick[T]} \in P
    BY <1>4, <1>8
  <1> QED BY <1>4, <1>5, <1>9

LEMMA Upwards ==
  ASSUME NEW n \in Nat, NEW P, 0 \in P,
         \A m \in 0 .. n - 1 : m \in P => m + 1 \in P
  PROVE  \A k \in 0 .. n : k \in P
  <1> SUFFICES ASSUME NEW k \in 0 .. n, k \notin P PROVE FALSE
    OBVIOUS
  <1> DEFINE Bad == {m \in 0 .. n : m \notin P}
  <1>1. Bad \in SUBSET Nat /\ Bad # {}
    OBVIOUS
  <1>2. PICK m \in Bad : \A j \in Bad : m <= j
    BY <1>1, LeastNat
  <1>3. m # 0 /\ m - 1 \in 0 .. n - 1 /\ m - 1 \notin Bad
    BY <1>2
  <1> QED BY <1>2, <1>3

\* One turn of a fold by the function step, from base
Turned(g, base, pick, step, s) ==
    IF s = {} THEN base ELSE step[<<pick[s], g[s \ {pick[s]}]>>]
IsFold(g, S, base, pick, step) == g = [s \in SUBSET S |-> Turned(g, base, pick, step, s)]

LEMMA FoldExists ==
  ASSUME NEW S, IsFiniteSet(S), NEW pick, Picks(pick, S), NEW base, NEW step
  PROVE  \E g : IsFold(g, S, base, pick, step)
  <1> DEFINE Small(n) == {s \in SUBSET S : Cardinality(s) <= n}
             P == {n \in Nat : \E g : g = [s \in Small(n) |-> Turned(g, base, pick, step, s)]}
             N == Cardinality(S)
  <1>1. \A T \in SUBSET S : /\ IsFiniteSet(T) /\ Cardinality(T) \in Nat
                            /\ Cardinality(T) <= N
    BY FS_Subset, FS_CardinalityType
  <1>2. \A s \in SUBSET S : s # {} =>
           s \ {pick[s]} \in SUBSET S /\ Cardinality(s \ {pick[s]}) = Cardinality(s) - 1
    <2> SUFFICES ASSUME NEW s \in SUBSET S, s # {}
          PROVE  Cardinality(s \ {pick[s]}) = Cardinality(s) - 1
      OBVIOUS
    <2>1. pick[s] \in s
      BY DEF Picks
    <2> QED BY <1>1, <2>1, FS_RemoveElement
  <1>3. 0 \in P
    <2> DEFINE g == [s \in Small(0) |-> base]
    <2>1. \A s \in Small(0) : s = {}
      BY <1>1, FS_EmptySet
    <2>2. \A s \in Small(0) : Turned(g, base, pick, step, s) = base
      BY <2>1 DEF Turned
    <2>3. g = [s \in Small(0) |-> Turned(g, base, pick, step, s)]
      BY <2>2
    <2> QED BY <2>3
  <1>4. ASSUME NEW m \in 0 .. N - 1, m \in P
        PROVE  m + 1 \in P
    <2>1. PICK g : g = [s \in Small(m) |-> Turned(g, base, pick, step, s)]
      BY <1>4
    <2> DEFINE h == [s \in Small(m + 1) |-> Turned(g, base, pick, step, s)]
    <2>2. \A s \in Small(m) : s \in Small(m + 1) /\ h[s] = g[s]
      BY <1>1, <2>1
    <2>3. \A s \in Small(m + 1) : s # {} => s \ {pick[s]} \in Small(m)
      BY <1>1, <1>2
    <2>4. \A s \in Small(m + 1) : Turned(g, base, pick, step, s) = Turned(h, base, pick, step, s)
      BY <2>2, <2>3 DEF Turned
    <2>5. h = [s \in Small(m + 1) |-> Turned(h, base, pick, step, s)]
      BY <2>4
    <2>6. m + 1 \in Nat
      BY FS_CardinalityType
    <2> QED BY <2>5, <2>6
  <1>5. N \in Nat
    BY FS_CardinalityType
  <1> HIDE DEF P, N
  <1>6. N \in P
    BY <1>3, <1>4, <1>5, Upwards
  <1>7. Small(N) = SUBSET S
    BY <1>1
  <1> QED BY <1>6, <1>7 DEF P, IsFold

\* A fold whose steps stay in V has values in V
LEMMA FoldRuns ==
  ASSUME NEW S, IsFiniteSet(S), NEW pick, Picks(pick, S), NEW V, NEW base \in V,
         NEW step \in [S \X V -> V]
  PROVE  \E g \in [SUBSET S -> V] : IsFold(g, S, base, pick, step)
  <1>0. PICK g : IsFold(g, S, base, pick, step)
    BY FoldExists
  <1>1. g = [s \in SUBSET S |-> Turned(g, base, pick, step, s)]
    BY <1>0 DEF IsFold
  <1> DEFINE P == {s \in SUBSET S : g[s] \in V}
  <1>2. {} \in P
    BY <1>1 DEF Turned
  <1>3. ASSUME NEW T \in SUBSET S, T # {}, T \ {pick[T]} \in P
        PROVE  T \in P
    <2>1. pick[T] \in S /\ g[T \ {pick[T]}] \in V
      BY <1>3 DEF Picks
    <2>2. g[T] = step[<<pick[T], g[T \ {pick[T]}]>>]
      BY <1>1, <1>3 DEF Turned
    <2> QED BY <2>1, <2>2
  <1> HIDE DEF P
  <1>4. \A T \in SUBSET S : T \in P
    BY <1>2, <1>3, ByPick
  <1>5. \A T \in SUBSET S : g[T] \in V
    BY <1>4 DEF P
  <1>6. g \in [SUBSET S -> V]
    BY <1>1, <1>5
  <1> QED BY <1>0, <1>6

LEMMA Extremes ==
  ASSUME NEW n \in Nat, NEW T \in SUBSET (1 .. n), T # {}
  PROVE  /\ Max(T) \in T /\ \A x \in T : Max(T) >= x
         /\ Min(T) \in T /\ \A x \in T : Min(T) <= x
  <1>1. \E m \in T : \A x \in T : m <= x
    BY LeastNat
  <1> DEFINE D == {n - x : x \in T}
  <1>2. D \in SUBSET Nat /\ D # {}
    <2>1. \A x \in T : n - x \in Nat
      OBVIOUS
    <2> QED BY <2>1
  <1>3. PICK d \in D : \A x \in D : d <= x
    BY <1>2, LeastNat
  <1>4. \E m \in T : \A x \in T : m >= x
    <2>1. PICK m \in T : d = n - m
      OBVIOUS
    <2>2. \A x \in T : d <= n - x
      BY <1>3
    <2> QED BY <2>1, <2>2
  <1> QED BY <1>1, <1>4 DEF Max, Min

-----------------------------------------------------------------------------
(* resolve_mapping: the synonyms *)

Slots == 1 .. Len(FieldOrder)
MatchesOf(columns) == [header : ToSet(columns), field : Fields, score : Int, place : Int]

LEMMA FieldList ==
  /\ DOMAIN FieldOrder = Slots /\ Len(FieldOrder) \in Nat /\ IsFiniteSet(Slots)
  /\ \A k \in Slots : FieldOrder[k] \in Fields
  /\ \A j, k \in Slots : FieldOrder[j] = FieldOrder[k] => j = k
  <1>1. FieldOrder \in Seq(Fields) /\ IsInjective(FieldOrder)
    BY IntakeAssumption
  <1>2. DOMAIN FieldOrder = Slots /\ Len(FieldOrder) \in Nat
    BY <1>1 DEF Slots
  <1>3. IsFiniteSet(Slots)
    BY <1>2, FS_Interval DEF Slots
  <1>4. \A k \in Slots : FieldOrder[k] \in Fields
    BY <1>2 DEF Fields, ToSet
  <1>5. \A j, k \in Slots : FieldOrder[j] = FieldOrder[k] => j = k
    BY <1>1, <1>2 DEF IsInjective
  <1> QED BY <1>2, <1>3, <1>4, <1>5

LEMMA ColumnList ==
  ASSUME NEW columns \in Files
  PROVE  /\ DOMAIN columns = 1 .. Len(columns) /\ Len(columns) \in Nat
         /\ \A i \in DOMAIN columns : columns[i] \in ToSet(columns) /\ columns[i] \in Header
         /\ ToSet(columns) \subseteq Header
  <1>1. columns \in Seq(Header)
    BY IntakeAssumption
  <1> QED BY <1>1 DEF ToSet

LEMMA MatchType ==
  ASSUME NEW columns \in Files, NEW i \in DOMAIN columns, NEW k \in Slots, NEW score \in Int
  PROVE  /\ Match(columns, i, k, score) \in MatchesOf(columns)
         /\ Match(columns, i, k, score).header = columns[i]
         /\ Match(columns, i, k, score).field = FieldOrder[k]
         /\ Match(columns, i, k, score).score = score
  <1>1. i \in Int /\ Len(FieldOrder) \in Int /\ k \in Int
    BY FieldList, ColumnList DEF Slots
  <1>2. (i - 1) * Len(FieldOrder) + k \in Int
    BY <1>1
  <1> QED BY <1>2, FieldList, ColumnList DEF Match, MatchesOf

\* What one field takes
LEMMA TakeType ==
  ASSUME NEW columns \in Files, NEW matches \in SUBSET MatchesOf(columns), NEW k \in Slots
  PROVE  \/ Take(columns, matches, k) = matches
         \/ \E m \in MatchesOf(columns) :
               /\ Take(columns, matches, k) = matches \cup {m}
               /\ m.field = FieldOrder[k] /\ m.header.word \in Exact[m.field]
               /\ m.header \notin TakenHeaders(matches)
  <1> DEFINE open == {i \in DOMAIN columns : /\ columns[i].word \in Exact[FieldOrder[k]]
                                            /\ columns[i] \notin TakenHeaders(matches)}
             m == Match(columns, Min(open), k, 100)
  <1>1. CASE open = {}
    BY <1>1 DEF Take
  <1>2. CASE open # {}
    <2>1. Min(open) \in open
      BY <1>2, ColumnList, Extremes
    <2>2. /\ m \in MatchesOf(columns) /\ m.header = columns[Min(open)]
          /\ m.field = FieldOrder[k]
      BY <2>1, MatchType
    <2>3. Take(columns, matches, k) = matches \cup {m}
      BY <1>2 DEF Take
    <2> HIDE DEF m
    <2> QED BY <2>1, <2>2, <2>3
  <1> QED BY <1>1, <1>2

LEMMA ExactUnfolds ==
  ASSUME NEW columns \in Files
  PROVE  \E g : /\ g \in [SUBSET Slots -> SUBSET MatchesOf(columns)]
                /\ \A s \in SUBSET Slots :
                      g[s] = IF s = {} THEN {} ELSE Take(columns, g[s \ {Max(s)}], Max(s))
                /\ ExactMatches(columns) = g[Slots]
  <1> DEFINE pick == [s \in SUBSET Slots |-> Max(s)]
             V == SUBSET MatchesOf(columns)
             step == [p \in Slots \X V |-> Take(columns, p[2], p[1])]
             list == [i \in DOMAIN FieldOrder |-> i]
             Turning(g, s) == IF s = {} THEN {}
                           ELSE Take(columns, g[s \ {Max(s)}], list[Max(s)])
             It == CHOOSE g : g = [s \in SUBSET DOMAIN list |-> Turning(g, s)]
  <1>1. \A s \in SUBSET Slots : s # {} => Max(s) \in s
    BY FieldList, Extremes DEF Slots
  <1>2. Picks(pick, Slots) /\ IsFiniteSet(Slots) /\ {} \in V
    BY <1>1, FieldList DEF Picks
  <1>3. \A k \in Slots : \A ms \in V : Take(columns, ms, k) \in V
    <2> SUFFICES ASSUME NEW k \in Slots, NEW ms \in SUBSET MatchesOf(columns)
          PROVE Take(columns, ms, k) \in SUBSET MatchesOf(columns)
      OBVIOUS
    <2>1. \/ Take(columns, ms, k) = ms
          \/ \E m \in MatchesOf(columns) : Take(columns, ms, k) = ms \cup {m}
      BY TakeType
    <2> QED BY <2>1
  <1>4. step \in [Slots \X V -> V]
    BY <1>3
  <1>5. DOMAIN list = Slots /\ \A s \in SUBSET Slots : s # {} => list[Max(s)] = Max(s)
    BY <1>1, FieldList
  <1>6. ExactMatches(columns) = It[DOMAIN list]
    BY DEF ExactMatches, FoldLeftDomain, FoldLeft, MapThenFoldSet
  <1> HIDE DEF pick, step, V, list
  <1>7. PICK g \in [SUBSET Slots -> V] : IsFold(g, Slots, {}, pick, step)
    BY <1>2, <1>4, FoldRuns
  <1>8. \A s \in SUBSET Slots : Turned(g, {}, pick, step, s) = Turning(g, s)
    BY <1>1, <1>5, <1>7 DEF Turned, pick, step
  <1>9. g = [s \in SUBSET DOMAIN list |-> Turning(g, s)]
    BY <1>5, <1>7, <1>8 DEF IsFold
  <1>10. It = [s \in SUBSET DOMAIN list |-> Turning(It, s)]
    BY <1>9
  <1> HIDE DEF It
  <1>11. \A s \in SUBSET Slots :
            It[s] = IF s = {} THEN {} ELSE Take(columns, It[s \ {Max(s)}], Max(s))
    BY <1>5, <1>10
  <1> DEFINE P == {s \in SUBSET Slots : It[s] \in V}
  <1>12. {} \in P
    BY <1>2, <1>11
  <1>13. ASSUME NEW T \in SUBSET Slots, T # {}, T \ {pick[T]} \in P
         PROVE  T \in P
    BY <1>1, <1>3, <1>11, <1>13 DEF pick
  <1> HIDE DEF P
  <1>14. \A T \in SUBSET Slots : T \in P
    BY <1>2, <1>12, <1>13, ByPick
  <1>15. It \in [SUBSET Slots -> V]
    BY <1>5, <1>10, <1>14 DEF P
  <1> QED BY <1>5, <1>6, <1>11, <1>15 DEF V

\* No header and no field is matched twice
Distinct(matches) ==
    \A m, n \in matches : m.header = n.header \/ m.field = n.field => m = n

ByName(matches) == \A m \in matches : m.header.word \in Exact[m.field]

\* The matches of some fields, the slots s, each by a synonym
Named(columns, matches, s) ==
    /\ matches \in SUBSET MatchesOf(columns)
    /\ Distinct(matches) /\ ByName(matches)
    /\ \A m \in matches : \E k \in s : m.field = FieldOrder[k]

LEMMA TakeNamed ==
  ASSUME NEW columns \in Files, NEW s \in SUBSET Slots, NEW k \in Slots \ s, NEW matches,
         Named(columns, matches, s)
  PROVE  Named(columns, Take(columns, matches, k), s \cup {k})
  <1>1. matches \in SUBSET MatchesOf(columns)
    BY DEF Named
  <1>2. CASE Take(columns, matches, k) = matches
    BY <1>2 DEF Named
  <1>3. ASSUME NEW m \in MatchesOf(columns), Take(columns, matches, k) = matches \cup {m},
               m.field = FieldOrder[k], m.header.word \in Exact[m.field],
               m.header \notin TakenHeaders(matches)
        PROVE  Named(columns, Take(columns, matches, k), s \cup {k})
    <2>1. \A n \in matches : n.header # m.header
      BY <1>3 DEF TakenHeaders
    <2>2. \A n \in matches : n.field # m.field
      BY <1>3, FieldList DEF Named
    <2>3. Distinct(matches \cup {m})
      BY <2>1, <2>2 DEF Named, Distinct
    <2>4. ByName(matches \cup {m})
      BY <1>3 DEF Named, ByName
    <2>5. \A n \in matches \cup {m} : \E j \in s \cup {k} : n.field = FieldOrder[j]
      BY <1>3 DEF Named
    <2> QED BY <1>1, <1>3, <2>3, <2>4, <2>5 DEF Named
  <1> QED BY <1>1, <1>2, <1>3, TakeType

LEMMA ExactNamed ==
  ASSUME NEW columns \in Files
  PROVE  Named(columns, ExactMatches(columns), Slots)
  <1>1. PICK g : /\ g \in [SUBSET Slots -> SUBSET MatchesOf(columns)]
                 /\ \A s \in SUBSET Slots :
                       g[s] = IF s = {} THEN {} ELSE Take(columns, g[s \ {Max(s)}], Max(s))
                 /\ ExactMatches(columns) = g[Slots]
    BY ExactUnfolds
  <1> DEFINE pick == [s \in SUBSET Slots |-> Max(s)]
             P == {s \in SUBSET Slots : Named(columns, g[s], s)}
  <1>2. \A s \in SUBSET Slots : s # {} => Max(s) \in s
    BY FieldList, Extremes DEF Slots
  <1>3. Picks(pick, Slots) /\ IsFiniteSet(Slots)
    BY <1>2, FieldList DEF Picks
  <1>4. {} \in P
    BY <1>1 DEF Named, Distinct, ByName
  <1>5. ASSUME NEW T \in SUBSET Slots, T # {}, T \ {pick[T]} \in P
        PROVE  T \in P
    <2> DEFINE k == Max(T)
               U == T \ {k}
    <2>1. k \in Slots \ U /\ U \in SUBSET Slots /\ T = U \cup {k}
      BY <1>2, <1>5
    <2>2. g[T] = Take(columns, g[U], k)
      BY <1>1, <1>5
    <2>3. Named(columns, g[U], U)
      BY <1>5
    <2> HIDE DEF k, U
    <2>4. Named(columns, Take(columns, g[U], k), U \cup {k})
      BY <2>1, <2>3, TakeNamed
    <2> QED BY <2>1, <2>2, <2>4
  <1> HIDE DEF P, pick
  <1>6. \A T \in SUBSET Slots : T \in P
    BY <1>3, <1>4, <1>5, ByPick
  <1>7. Named(columns, g[Slots], Slots)
    BY <1>6 DEF P
  <1> QED BY <1>1, <1>7

-----------------------------------------------------------------------------
(* resolve_mapping: the candidates, best first *)

Images(f, S) == {f[x] : x \in S}

LEMMA FiniteImages ==
  ASSUME NEW S, IsFiniteSet(S), NEW f
  PROVE  IsFiniteSet(Images(f, S))
  <1> DEFINE g == [x \in S |-> f[x]]
  <1>1. g \in Surjection(S, Images(f, S))
    BY DEF Surjection, Images
  <1> QED BY <1>1, FS_Surjection

LEMMA CandidateType ==
  ASSUME NEW columns \in Files, NEW scores \in Tables
  PROVE  /\ Candidates(columns, scores) \in SUBSET MatchesOf(columns)
         /\ IsFiniteSet(Candidates(columns, scores))
  <1> DEFINE Pair(i, k) == Match(columns, i, k, scores[columns[i].word][FieldOrder[k]])
             likely == {Pair(i, k) : i \in DOMAIN columns, k \in DOMAIN FieldOrder}
             places == (DOMAIN columns) \X (DOMAIN FieldOrder)
             pairOf == [p \in places |-> Pair(p[1], p[2])]
  <1>1. \A i \in DOMAIN columns, k \in Slots : scores[columns[i].word][FieldOrder[k]] \in Int
    <2> SUFFICES ASSUME NEW i \in DOMAIN columns, NEW k \in Slots
          PROVE  scores[columns[i].word][FieldOrder[k]] \in Int
      OBVIOUS
    <2>1. columns[i].word \in Words
      BY ColumnList DEF Header
    <2>2. FieldOrder[k] \in Fields
      BY FieldList
    <2>3. scores \in [Words -> [Fields -> 0 .. 100]]
      BY IntakeAssumption
    <2> QED BY <2>1, <2>2, <2>3
  <1>2. \A i \in DOMAIN columns, k \in Slots : Pair(i, k) \in MatchesOf(columns)
    <2> SUFFICES ASSUME NEW i \in DOMAIN columns, NEW k \in Slots
          PROVE  Pair(i, k) \in MatchesOf(columns)
      OBVIOUS
    <2> DEFINE score == scores[columns[i].word][FieldOrder[k]]
    <2>1. score \in Int
      BY <1>1
    <2> HIDE DEF score
    <2>2. Match(columns, i, k, score) \in MatchesOf(columns)
      BY <2>1, MatchType
    <2> QED BY <2>2 DEF score
  <1>3. IsFiniteSet(DOMAIN columns) /\ IsFiniteSet(DOMAIN FieldOrder)
    BY ColumnList, FieldList, FS_Interval
  <1>4. ASSUME NEW i \in DOMAIN columns, NEW k \in DOMAIN FieldOrder
        PROVE  Pair(i, k) \in Images(pairOf, places)
    <2> DEFINE p == <<i, k>>
    <2>1. p \in places /\ p[1] = i /\ p[2] = k
      OBVIOUS
    <2> HIDE DEF Pair, p, places
    <2>2. pairOf[p] = Pair(p[1], p[2])
      BY <2>1
    <2>3. pairOf[p] = Pair(i, k)
      BY <2>1, <2>2
    <2> HIDE DEF pairOf
    <2> QED BY <2>1, <2>3 DEF Images
  <1>5. Candidates(columns, scores) \subseteq likely
    BY DEF Candidates
  <1> HIDE DEF Pair, pairOf
  <1>6. likely \in SUBSET MatchesOf(columns)
    <2> SUFFICES ASSUME NEW i \in DOMAIN columns, NEW k \in DOMAIN FieldOrder
          PROVE  Pair(i, k) \in MatchesOf(columns)
      OBVIOUS
    <2> QED BY <1>2, FieldList
  <1>7. IsFiniteSet(places)
    BY <1>3, FS_Product
  <1>8. likely \subseteq Images(pairOf, places)
    <2> DEFINE I == Images(pairOf, places)
    <2>1. \A i \in DOMAIN columns, k \in DOMAIN FieldOrder : Pair(i, k) \in I
      BY <1>4
    <2> HIDE DEF I
    <2>2. likely \subseteq I
      BY <2>1
    <2> HIDE DEF likely
    <2> QED BY <2>2 DEF I
  <1> HIDE DEF likely, places
  <1>9. IsFiniteSet(likely)
    BY <1>7, <1>8, FiniteImages, FS_Subset
  <1> QED BY <1>5, <1>6, <1>9, FS_Subset

LEMMA WorstIs ==
  ASSUME NEW columns \in Files, NEW T \in SUBSET MatchesOf(columns), IsFiniteSet(T), T # {}
  PROVE  Worst(T) \in T
  <1> DEFINE HasWorst(s) == \E m \in s : \A n \in s : ~Better(m, n)
             pick == [s \in SUBSET T |-> CHOOSE x \in s : TRUE]
             P == {s \in SUBSET T : s = {} \/ HasWorst(s)}
  <1>1. Picks(pick, T)
    BY DEF Picks
  <1>2. {} \in P
    OBVIOUS
  <1>3. \A m \in T : m.score \in Int /\ m.place \in Int
    BY DEF MatchesOf
  <1>4. ASSUME NEW s \in SUBSET T, s # {}, s \ {pick[s]} \in P
        PROVE  s \in P
    <2> DEFINE x == pick[s]
               r == s \ {x}
    <2>1. x \in s
      BY <1>1, <1>4 DEF Picks
    <2> HIDE DEF pick
    <2>2. CASE r = {}
      <3>1. s = {x}
        BY <2>1, <2>2
      <3>2. ~Better(x, x)
        BY <1>3, <2>1 DEF Better
      <3> QED BY <3>1, <3>2
    <2>3. CASE r # {}
      <3>1. PICK m \in r : \A n \in r : ~Better(m, n)
        BY <1>4, <2>3
      <3> HIDE DEF x
      <3>2. CASE Better(m, x)
        <4>1. \A n \in r : ~Better(x, n)
          BY <1>3, <2>1, <3>1, <3>2 DEF Better
        <4>2. ~Better(x, x)
          BY <1>3, <2>1 DEF Better
        <4>3. \A n \in s : ~Better(x, n)
          BY <4>1, <4>2
        <4> QED BY <2>1, <4>3
      <3>3. CASE ~Better(m, x)
        <4>1. \A n \in s : ~Better(m, n)
          BY <3>1, <3>3
        <4> QED BY <3>1, <4>1
      <3> QED BY <3>2, <3>3
    <2> QED BY <2>2, <2>3
  <1> HIDE DEF P, pick
  <1>5. \A s \in SUBSET T : s \in P
    BY <1>1, <1>2, <1>4, ByPick
  <1>6. HasWorst(T)
    BY <1>5 DEF P
  <1> QED BY <1>6 DEF Worst

-----------------------------------------------------------------------------
(* resolve_mapping: what is applied and what is asked *)

Resolutions(columns) == [auto : SUBSET MatchesOf(columns), ask : SUBSET MatchesOf(columns)]

\* No header and no field is matched twice, and money is applied by name only.
Resolution(columns, r) ==
    /\ r \in Resolutions(columns)
    /\ Distinct(r.auto \cup r.ask)
    /\ \A m \in r.auto : m.field \in Money => m.header.word \in Exact[m.field]

LEMMA AssignKeeps ==
  ASSUME NEW columns \in Files, NEW candidates, NEW m \in MatchesOf(columns), NEW r,
         Resolution(columns, r)
  PROVE  Resolution(columns, Assign(candidates, m, r))
  <1>1. r \in Resolutions(columns)
    BY DEF Resolution
  <1>2. CASE ~Free(m, r.auto \cup r.ask)
    BY <1>2 DEF Assign
  <1>3. CASE Free(m, r.auto \cup r.ask)
    <2>1. Distinct((r.auto \cup r.ask) \cup {m})
      BY <1>3 DEF Resolution, Distinct, Free, TakenHeaders, TakenFields
    <2>2. CASE Sure(m, RunnerUp(candidates, m.header))
      <3> DEFINE t == [r EXCEPT !.auto = @ \cup {m}]
      <3>1. Assign(candidates, m, r) = t
        BY <1>3, <2>2 DEF Assign
      <3>2. t \in Resolutions(columns) /\ t.auto = r.auto \cup {m} /\ t.ask = r.ask
        BY <1>1 DEF Resolutions
      <3>3. m.field \notin Money
        BY <2>2 DEF Sure
      <3> HIDE DEF t
      <3>4. t.auto \cup t.ask = (r.auto \cup r.ask) \cup {m}
        BY <3>2
      <3> QED BY <2>1, <3>1, <3>2, <3>3, <3>4 DEF Resolution
    <2>3. CASE ~Sure(m, RunnerUp(candidates, m.header))
      <3> DEFINE t == [r EXCEPT !.ask = @ \cup {m}]
      <3>1. Assign(candidates, m, r) = t
        BY <1>3, <2>3 DEF Assign
      <3>2. t \in Resolutions(columns) /\ t.ask = r.ask \cup {m} /\ t.auto = r.auto
        BY <1>1 DEF Resolutions
      <3> HIDE DEF t
      <3>3. t.auto \cup t.ask = (r.auto \cup r.ask) \cup {m}
        BY <3>2
      <3> QED BY <2>1, <3>1, <3>2, <3>3 DEF Resolution
    <2> QED BY <2>2, <2>3
  <1> QED BY <1>2, <1>3

LEMMA ResolutionStarts ==
  ASSUME NEW columns \in Files
  PROVE  Resolution(columns, [auto |-> ExactMatches(columns), ask |-> {}])
  <1> DEFINE e == ExactMatches(columns)
             r == [auto |-> e, ask |-> {}]
  <1>1. Named(columns, e, Slots)
    BY ExactNamed
  <1>2. e \in SUBSET MatchesOf(columns) /\ Distinct(e) /\ ByName(e)
    BY <1>1 DEF Named
  <1> HIDE DEF e
  <1>3. r \in Resolutions(columns) /\ r.auto = e /\ r.auto \cup r.ask = e
    BY <1>2 DEF Resolutions
  <1> HIDE DEF r
  <1>4. Resolution(columns, r)
    BY <1>2, <1>3 DEF Resolution, ByName
  <1> QED BY <1>4 DEF r, e

LEMMA ResolveUnfolds ==
  ASSUME NEW columns \in Files, NEW scores \in Tables
  PROVE  Resolution(columns, ResolveMapping(columns, scores))
  <1> DEFINE C == Candidates(columns, scores)
             base == [auto |-> ExactMatches(columns), ask |-> {}]
             V == {r \in Resolutions(columns) : Resolution(columns, r)}
             pick == [s \in SUBSET C |-> Worst(s)]
             step == [p \in C \X V |-> Assign(C, p[1], p[2])]
             Turning(g, s) == IF s = {} THEN base ELSE Assign(C, Worst(s), g[s \ {Worst(s)}])
             It == CHOOSE g : g = [s \in SUBSET C |-> Turning(g, s)]
  <1>1. C \in SUBSET MatchesOf(columns) /\ IsFiniteSet(C)
    BY CandidateType
  <1>2. \A s \in SUBSET C : s # {} => Worst(s) \in s
    <2> SUFFICES ASSUME NEW s \in SUBSET C, s # {} PROVE Worst(s) \in s
      OBVIOUS
    <2>1. s \in SUBSET MatchesOf(columns) /\ IsFiniteSet(s)
      BY <1>1, FS_Subset
    <2> QED BY <2>1, WorstIs
  <1>3. ResolveMapping(columns, scores) = It[C]
    BY DEF ResolveMapping, MapThenFoldSet
  <1> HIDE DEF C
  <1>4. Picks(pick, C)
    BY <1>2 DEF Picks
  <1>5. base \in V
    BY ResolutionStarts DEF Resolution
  <1>6. \A m \in C : \A r \in V : Assign(C, m, r) \in V
    <2> SUFFICES ASSUME NEW m \in C, NEW r, Resolution(columns, r)
          PROVE  Resolution(columns, Assign(C, m, r))
      BY DEF Resolution
    <2> QED BY <1>1, AssignKeeps
  <1> HIDE DEF V, base
  <1>7. step \in [C \X V -> V]
    BY <1>6
  <1> HIDE DEF pick, step
  <1>8. PICK g \in [SUBSET C -> V] : IsFold(g, C, base, pick, step)
    BY <1>1, <1>4, <1>5, <1>7, FoldRuns
  <1>9. \A s \in SUBSET C : Turned(g, base, pick, step, s) = Turning(g, s)
    BY <1>2, <1>8 DEF Turned, pick, step
  <1>10. g = [s \in SUBSET C |-> Turning(g, s)]
    BY <1>8, <1>9 DEF IsFold
  <1>11. It = [s \in SUBSET C |-> Turning(It, s)]
    BY <1>10
  <1> HIDE DEF It
  <1> DEFINE P == {s \in SUBSET C : It[s] \in V}
  <1>12. {} \in P
    BY <1>5, <1>11
  <1>13. ASSUME NEW T \in SUBSET C, T # {}, T \ {pick[T]} \in P
         PROVE  T \in P
    <2> DEFINE w == Worst(T)
    <2>1. w \in T /\ w \in C /\ pick[T] = w
      BY <1>2, <1>13 DEF pick
    <2> HIDE DEF w
    <2>2. It[T \ {w}] \in V
      BY <1>13, <2>1
    <2>3. It[T] = Assign(C, w, It[T \ {w}])
      BY <1>11, <1>13 DEF w
    <2>4. It[T] \in V
      BY <1>6, <2>1, <2>2, <2>3
    <2> QED BY <2>4
  <1> HIDE DEF P
  <1>14. \A T \in SUBSET C : T \in P
    BY <1>1, <1>4, <1>12, <1>13, ByPick
  <1>15. It[C] \in V
    BY <1>14 DEF P
  <1> QED BY <1>3, <1>15 DEF V

-----------------------------------------------------------------------------
(* parse_kobo *)

LEMMA DivisionIs ==
  ASSUME NEW a \in Nat, NEW b \in Nat, b > 0, NEW q \in Nat, NEW r \in Nat, r < b,
         a = q * b + r
  PROVE  a \div b = q
  <1> DEFINE d == a \div b
             m == a % b
  <1>1. d \in Int /\ m \in 0 .. b - 1 /\ a = b * d + m
    OBVIOUS
  <1> HIDE DEF d, m
  <1>2. b * (q - d) = m - r
    BY <1>1
  <1>3. q - d \in Int
    BY <1>1
  <1>4. CASE q - d >= 1
    <2>1. b * (q - d) >= b
      BY <1>3, <1>4
    <2> QED BY <1>1, <1>2, <2>1
  <1>5. CASE q - d <= -1
    <2>1. b * (q - d) <= -b
      BY <1>3, <1>5
    <2> QED BY <1>1, <1>2, <2>1
  <1> QED BY <1>3, <1>4, <1>5, <1>1 DEF d

\* The sets that a fold over a sequence of n elements goes through
LEMMA InitialSegments ==
  ASSUME NEW n \in Nat
  PROVE  /\ IsFiniteSet(1 .. n)
         /\ \A s \in SUBSET (1 .. n) : s # {} => Max(s) \in s
         /\ \A i \in 1 .. n : Max(1 .. i) = i /\ (1 .. i) \ {i} = 1 .. i - 1
  <1>1. \A s \in SUBSET (1 .. n) : s # {} => Max(s) \in s
    BY Extremes
  <1>2. ASSUME NEW i \in 1 .. n
        PROVE  Max(1 .. i) = i /\ (1 .. i) \ {i} = 1 .. i - 1
    <2>1. 1 .. i \in SUBSET (1 .. n) /\ 1 .. i # {} /\ i \in 1 .. i
      OBVIOUS
    <2>2. Max(1 .. i) \in 1 .. i /\ Max(1 .. i) >= i
      BY <2>1, Extremes
    <2> QED BY <2>2
  <1> QED BY <1>1, <1>2, FS_Interval

\* h goes from w through the digits of f; t through the powers of ten.
Reads(h, w, f) ==
    /\ h \in [0 .. Len(f) -> Nat] /\ h[0] = w
    /\ \A i \in 1 .. Len(f) : h[i] = (10 * h[i - 1]) + f[i]
Scales(t, f) ==
    /\ t \in [0 .. Len(f) -> Nat] /\ t[0] = 1
    /\ \A i \in 1 .. Len(f) : t[i] = 10 * t[i - 1]

LEMMA DigitsRead ==
  ASSUME NEW a \in Amount
  PROVE  \E h : Reads(h, a.whole, a.fraction) /\ Digits(a) = h[Len(a.fraction)]
  <1> DEFINE f == a.fraction
             w == a.whole
             l == Len(f)
             D == 1 .. l
             pick == [s \in SUBSET D |-> Max(s)]
             step == [p \in D \X Nat |-> (10 * p[2]) + f[p[1]]]
             Turning(g, s) == IF s = {} THEN w ELSE (10 * g[s \ {Max(s)}]) + f[Max(s)]
             It == CHOOSE g : g = [s \in SUBSET DOMAIN f |-> Turning(g, s)]
             h == [i \in 0 .. l |-> It[1 .. i]]
  <1>1. f \in Seq(0 .. 9) /\ w \in Nat
    BY DEF Amount
  <1>2. Digits(a) = It[DOMAIN f]
    BY DEF Digits, FoldLeft, MapThenFoldSet
  <1> HIDE DEF f, w
  <1>3. l \in Nat /\ DOMAIN f = D /\ \A i \in D : f[i] \in 0 .. 9
    BY <1>1
  <1> HIDE DEF l
  <1>4. \A s \in SUBSET D : s # {} => Max(s) \in s
    BY <1>3, InitialSegments
  <1>5. IsFiniteSet(D) /\ Picks(pick, D)
    BY <1>3, <1>4, InitialSegments DEF Picks
  <1>6. \A i \in D : \A x \in Nat : (10 * x) + f[i] \in Nat
    BY <1>3
  <1>7. step \in [D \X Nat -> Nat]
    BY <1>6
  <1> HIDE DEF D, pick, step
  <1>8. PICK g \in [SUBSET D -> Nat] : IsFold(g, D, w, pick, step)
    BY <1>1, <1>5, <1>7, FoldRuns
  <1>9. \A s \in SUBSET D : Turned(g, w, pick, step, s) = Turning(g, s)
    <2> SUFFICES ASSUME NEW s \in SUBSET D, s # {}
          PROVE  step[<<pick[s], g[s \ {pick[s]}]>>] = (10 * g[s \ {Max(s)}]) + f[Max(s)]
      BY DEF Turned
    <2>1. pick[s] = Max(s) /\ Max(s) \in D
      BY <1>4 DEF pick
    <2>2. g[s \ {Max(s)}] \in Nat
      BY <1>8
    <2> QED BY <2>1, <2>2 DEF step
  <1>10. g = [s \in SUBSET DOMAIN f |-> Turning(g, s)]
    BY <1>3, <1>8, <1>9 DEF IsFold, D
  <1>11. It = [s \in SUBSET DOMAIN f |-> Turning(It, s)]
    BY <1>10
  <1> HIDE DEF It
  <1> DEFINE P == {s \in SUBSET D : It[s] \in Nat}
  <1>12. \A s \in SUBSET D : It[s] = Turning(It, s)
    BY <1>3, <1>11 DEF D
  <1>13. {} \in P
    BY <1>1, <1>12
  <1>14. ASSUME NEW T \in SUBSET D, T # {}, T \ {pick[T]} \in P
         PROVE  T \in P
    <2>1. pick[T] = Max(T) /\ Max(T) \in D
      BY <1>4, <1>14 DEF pick
    <2>2. It[T \ {Max(T)}] \in Nat
      BY <1>14, <2>1
    <2>3. It[T] = (10 * It[T \ {Max(T)}]) + f[Max(T)]
      BY <1>12, <1>14
    <2> QED BY <1>6, <2>1, <2>2, <2>3
  <1> HIDE DEF P
  <1>15. \A T \in SUBSET D : It[T] \in Nat
    <2>1. \A T \in SUBSET D : T \in P
      BY <1>5, <1>13, <1>14, ByPick
    <2> QED BY <2>1 DEF P
  <1>16. h \in [0 .. l -> Nat]
    BY <1>3, <1>15 DEF D
  <1>17. h[0] = w
    <2>1. 1 .. 0 = {}
      OBVIOUS
    <2>2. h[0] = It[{}]
      BY <1>3, <2>1
    <2> HIDE DEF h
    <2> QED BY <1>12, <2>2
  <1>18. ASSUME NEW i \in 1 .. l
         PROVE  h[i] = (10 * h[i - 1]) + f[i]
    <2>0. i \in Nat /\ 1 <= i /\ i <= l /\ l \in Nat
      BY <1>3
    <2>1. 1 .. i \in SUBSET D /\ i \in 1 .. i /\ i \in 0 .. l /\ i - 1 \in 0 .. l
      <3>1. \A x \in 1 .. i : x \in 1 .. l
        BY <2>0
      <3>2. i \in 1 .. i /\ i \in 0 .. l /\ i - 1 \in 0 .. l
        BY <2>0
      <3> QED BY <3>1, <3>2 DEF D
    <2>2. Max(1 .. i) = i /\ (1 .. i) \ {i} = 1 .. i - 1
      BY <1>3, InitialSegments
    <2>3. It[1 .. i] = (10 * It[(1 .. i) \ {i}]) + f[i]
      BY <1>12, <2>1, <2>2
    <2> QED BY <2>1, <2>2, <2>3
  <1>19. Reads(h, w, f)
    BY <1>16, <1>17, <1>18 DEF Reads, l
  <1>20. Digits(a) = h[l]
    BY <1>2, <1>3 DEF D
  <1> HIDE DEF h
  <1> QED BY <1>19, <1>20 DEF w, f, l

LEMMA ScaleGrows ==
  ASSUME NEW a \in Amount
  PROVE  \E h : Scales(h, a.fraction) /\ Scale(a) = h[Len(a.fraction)]
  <1> DEFINE f == a.fraction
             l == Len(f)
             D == 1 .. l
             pick == [s \in SUBSET D |-> Max(s)]
             step == [p \in D \X Nat |-> 10 * p[2]]
             Turning(g, s) == IF s = {} THEN 1 ELSE 10 * g[s \ {Max(s)}]
             It == CHOOSE g : g = [s \in SUBSET DOMAIN f |-> Turning(g, s)]
             h == [i \in 0 .. l |-> It[1 .. i]]
  <1>1. f \in Seq(0 .. 9) 
    BY DEF Amount
  <1>2. Scale(a) = It[DOMAIN f]
    BY DEF Scale, FoldLeft, MapThenFoldSet
  <1> HIDE DEF f
  <1>3. l \in Nat /\ DOMAIN f = D
    BY <1>1
  <1> HIDE DEF l
  <1>4. \A s \in SUBSET D : s # {} => Max(s) \in s
    BY <1>3, InitialSegments
  <1>5. IsFiniteSet(D) /\ Picks(pick, D)
    BY <1>3, <1>4, InitialSegments DEF Picks
  <1>6. \A x \in Nat : 10 * x \in Nat
    OBVIOUS
  <1>7. step \in [D \X Nat -> Nat]
    BY <1>6
  <1> HIDE DEF D, pick, step
  <1>8. PICK g \in [SUBSET D -> Nat] : IsFold(g, D, 1, pick, step)
    BY <1>1, <1>5, <1>7, FoldRuns
  <1>9. \A s \in SUBSET D : Turned(g, 1, pick, step, s) = Turning(g, s)
    <2> SUFFICES ASSUME NEW s \in SUBSET D, s # {}
          PROVE  step[<<pick[s], g[s \ {pick[s]}]>>] = 10 * g[s \ {Max(s)}]
      BY DEF Turned
    <2>1. pick[s] = Max(s) /\ Max(s) \in D
      BY <1>4 DEF pick
    <2>2. g[s \ {Max(s)}] \in Nat
      BY <1>8
    <2> QED BY <2>1, <2>2 DEF step
  <1>10. g = [s \in SUBSET DOMAIN f |-> Turning(g, s)]
    BY <1>3, <1>8, <1>9 DEF IsFold, D
  <1>11. It = [s \in SUBSET DOMAIN f |-> Turning(It, s)]
    BY <1>10
  <1> HIDE DEF It
  <1> DEFINE P == {s \in SUBSET D : It[s] \in Nat}
  <1>12. \A s \in SUBSET D : It[s] = Turning(It, s)
    BY <1>3, <1>11 DEF D
  <1>13. {} \in P
    <2>1. It[{}] = 1
      BY <1>12
    <2>2. It[{}] \in Nat
      BY <2>1
    <2> QED BY <2>2
  <1>14. ASSUME NEW T \in SUBSET D, T # {}, T \ {pick[T]} \in P
         PROVE  T \in P
    <2>1. pick[T] = Max(T) /\ Max(T) \in D
      BY <1>4, <1>14 DEF pick
    <2>2. It[T \ {Max(T)}] \in Nat
      BY <1>14, <2>1
    <2>3. It[T] = 10 * It[T \ {Max(T)}]
      BY <1>12, <1>14
    <2> QED BY <1>6, <2>1, <2>2, <2>3
  <1> HIDE DEF P
  <1>15. \A T \in SUBSET D : It[T] \in Nat
    <2>1. \A T \in SUBSET D : T \in P
      BY <1>5, <1>13, <1>14, ByPick
    <2> QED BY <2>1 DEF P
  <1>16. h \in [0 .. l -> Nat]
    BY <1>3, <1>15 DEF D
  <1>17. h[0] = 1
    <2>1. 1 .. 0 = {}
      OBVIOUS
    <2>2. h[0] = It[{}]
      BY <1>3, <2>1
    <2> HIDE DEF h
    <2> QED BY <1>12, <2>2
  <1>18. ASSUME NEW i \in 1 .. l
         PROVE  h[i] = 10 * h[i - 1]
    <2>0. i \in Nat /\ 1 <= i /\ i <= l /\ l \in Nat
      BY <1>3
    <2>1. 1 .. i \in SUBSET D /\ i \in 1 .. i /\ i \in 0 .. l /\ i - 1 \in 0 .. l
      <3>1. \A x \in 1 .. i : x \in 1 .. l
        BY <2>0
      <3>2. i \in 1 .. i /\ i \in 0 .. l /\ i - 1 \in 0 .. l
        BY <2>0
      <3> QED BY <3>1, <3>2 DEF D
    <2>2. Max(1 .. i) = i /\ (1 .. i) \ {i} = 1 .. i - 1
      BY <1>3, InitialSegments
    <2>3. It[1 .. i] = 10 * It[(1 .. i) \ {i}]
      BY <1>12, <2>1, <2>2
    <2> QED BY <2>1, <2>2, <2>3
  <1>19. Scales(h, f)
    BY <1>16, <1>17, <1>18 DEF Scales, l
  <1>20. Scale(a) = h[l]
    BY <1>2, <1>3 DEF D
  <1> HIDE DEF h
  <1> QED BY <1>19, <1>20 DEF f, l

LEMMA KoboDigitsAre ==
  ASSUME NEW f \in Seq(0 .. 9)
  PROVE  /\ Len(f) = 0 => KoboDigits(f) = 0
         /\ Len(f) = 1 => KoboDigits(f) = 10 * f[1]
         /\ Len(f) >= 2 => KoboDigits(f) = (10 * f[1]) + f[2]
  <1>1. Len(f) \in Nat /\ \A i \in 1 .. Len(f) : f[i] \in 0 .. 9
    OBVIOUS
  <1> QED BY <1>1 DEF KoboDigits

\* Digits and powers of ten when at least two digits have been read
LEMMA KoboSettle ==
  ASSUME NEW f \in Seq(0 .. 9), NEW w \in Nat, Len(f) >= 2, NEW h, Reads(h, w, f),
         NEW t, Scales(t, f)
  PROVE  \E u \in Nat, r \in Nat : /\ t[Len(f)] = 100 * u /\ r < u
                                   /\ h[Len(f)] = ((w * 100) + KoboDigits(f)) * u + r
  <1> DEFINE l == Len(f)
             n == l - 2
             q == (w * 100) + KoboDigits(f)
             Cut(i) == \E u \in Nat, r \in Nat :
                              t[i] = 100 * u /\ r < u /\ h[i] = q * u + r
             P == {m \in Nat : Cut(m + 2)}
  <1>1. l \in Nat /\ l >= 2 /\ \A i \in 1 .. l : f[i] \in 0 .. 9
    OBVIOUS
  <1>2. KoboDigits(f) = (10 * f[1]) + f[2] /\ f[1] \in 0 .. 9 /\ f[2] \in 0 .. 9
    BY <1>1, KoboDigitsAre
  <1> DEFINE x == f[1]
             y == f[2]
  <1> HIDE DEF x, y
  <1>3. q = (w * 100) + (10 * x) + y /\ x \in 0 .. 9 /\ y \in 0 .. 9 /\ q \in Nat
    <2>1. x \in 0 .. 9 /\ y \in 0 .. 9 /\ KoboDigits(f) = (10 * x) + y
      BY <1>2 DEF x, y
    <2> QED BY <2>1
  <1>4. /\ h[0] = w /\ t[0] = 1
        /\ \A i \in 1 .. l : h[i] = (10 * h[i - 1]) + f[i] /\ t[i] = 10 * t[i - 1]
    BY DEF Reads, Scales
  <1>5. 0 \in P
    <2>1. 1 \in 1 .. l /\ 2 \in 1 .. l
      BY <1>1
    <2>2. h[1] = (10 * w) + x /\ t[1] = 10
      <3>1. h[1] = (10 * h[1 - 1]) + x /\ t[1] = 10 * t[1 - 1]
        BY <1>4, <2>1 DEF x
      <3>2. 1 - 1 = 0
        OBVIOUS
      <3> QED BY <1>4, <3>1, <3>2
    <2>3. h[2] = (10 * h[1]) + y /\ t[2] = 10 * t[1]
      <3>1. h[2] = (10 * h[2 - 1]) + y /\ t[2] = 10 * t[2 - 1]
        BY <1>4, <2>1 DEF y
      <3>2. 2 - 1 = 1
        OBVIOUS
      <3> QED BY <3>1, <3>2
    <2> HIDE DEF q
    <2>4. t[2] = 100 * 1 /\ h[2] = q * 1 + 0
      BY <1>3, <2>2, <2>3
    <2>5. Cut(2)
      BY <2>4
    <2> QED BY <2>5
  <1>6. ASSUME NEW m \in 0 .. n - 1, m \in P
        PROVE  m + 1 \in P
    <2> DEFINE j == m + 2
    <2>1. j \in Nat /\ j + 1 \in 1 .. l
      BY <1>1
    <2>2. PICK u \in Nat, r \in Nat : t[j] = 100 * u /\ r < u /\ h[j] = q * u + r
      BY <1>6
    <2>3. h[j + 1] = (10 * h[j]) + f[j + 1] /\ t[j + 1] = 10 * t[j]
      <3>1. (j + 1) - 1 = j
        BY <2>1
      <3> HIDE DEF j
      <3> QED BY <1>4, <2>1, <3>1
    <2>4. f[j + 1] \in 0 .. 9
      BY <1>1, <2>1
    <2> DEFINE d == f[j + 1]
               s == (10 * r) + d
    <2>5. s \in Nat /\ s < 10 * u
      BY <2>2, <2>4
    <2> HIDE DEF q, d
    <2>6. 10 * (q * u + r) + d = q * (10 * u) + s
      BY <1>3, <2>2, <2>4 DEF d
    <2> HIDE DEF s, j
    <2>7. h[j + 1] = q * (10 * u) + s /\ t[j + 1] = 100 * (10 * u)
      BY <2>2, <2>3, <2>6 DEF d
    <2>8. Cut(j + 1)
      BY <2>5, <2>7
    <2>9. j + 1 = (m + 1) + 2 /\ m + 1 \in Nat
      BY DEF j
    <2> QED BY <2>8, <2>9
  <1>7. n \in Nat /\ n \in 0 .. n /\ n + 2 = l
    BY <1>1
  <1> HIDE DEF P, n
  <1>8. n \in P
    BY <1>5, <1>6, <1>7, Upwards
  <1>9. Cut(n + 2)
    BY <1>8 DEF P
  <1> QED BY <1>7, <1>9

\* An amount without a letter is cut to the kobo.
LEMMA KoboIsCut ==
  ASSUME NEW a \in Amount
  PROVE  (Digits(a) * 1 * 100) \div Scale(a) = (a.whole * 100) + KoboDigits(a.fraction)
  <1> DEFINE f == a.fraction
             w == a.whole
             l == Len(f)
             k == KoboDigits(f)
  <1>1. f \in Seq(0 .. 9) /\ w \in Nat /\ l \in Nat /\ \A i \in 1 .. l : f[i] \in 0 .. 9
    BY DEF Amount
  <1>2. PICK h : Reads(h, w, f) /\ Digits(a) = h[l]
    BY DigitsRead
  <1>3. PICK t : Scales(t, f) /\ Scale(a) = t[l]
    BY ScaleGrows
  <1> HIDE DEF f, w
  <1>4. h[0] = w /\ t[0] = 1
    BY <1>2, <1>3 DEF Reads, Scales
  <1>5. CASE l = 0
    <2>1. k = 0
      BY <1>1, <1>5, KoboDigitsAre
    <2>2. Digits(a) = w /\ Scale(a) = 1
      BY <1>2, <1>3, <1>4, <1>5
    <2> QED BY <1>1, <2>1, <2>2 DEF f, w
  <1>6. CASE l = 1
    <2>1. k = 10 * f[1] /\ f[1] \in 0 .. 9
      BY <1>1, <1>6, KoboDigitsAre
    <2>2. h[1] = (10 * h[1 - 1]) + f[1] /\ t[1] = 10 * t[1 - 1]
      BY <1>2, <1>3, <1>6 DEF Reads, Scales
    <2>3. 1 - 1 = 0
      OBVIOUS
    <2>4. h[1] = (10 * w) + f[1] /\ t[1] = 10
      BY <1>4, <2>2, <2>3
    <2> DEFINE d == f[1]
    <2>5. d \in 0 .. 9 /\ k = 10 * d /\ Digits(a) = (10 * w) + d /\ Scale(a) = 10
      BY <1>2, <1>3, <1>6, <2>1, <2>4
    <2> HIDE DEF d, k
    <2>6. (((10 * w) + d) * 1 * 100) \div 10 = (w * 100) + k
      BY <1>1, <2>5
    <2> QED BY <2>5, <2>6 DEF w, k, f
  <1>7. CASE l >= 2
    <2> DEFINE q == (w * 100) + k
    <2>1. k \in Nat
      <3>1. k = (10 * f[1]) + f[2] /\ f[1] \in 0 .. 9 /\ f[2] \in 0 .. 9
        BY <1>1, <1>7, KoboDigitsAre
      <3> HIDE DEF k
      <3> QED BY <3>1
    <2>2. PICK u \in Nat, r \in Nat : t[l] = 100 * u /\ r < u /\ h[l] = q * u + r
      BY <1>1, <1>2, <1>3, <1>7, KoboSettle
    <2> HIDE DEF k, l
    <2>3. q \in Nat
      BY <1>1, <2>1
    <2> HIDE DEF q
    <2> DEFINE n == (q * u + r) * 1 * 100
               b == 100 * u
               c == 100 * r
    <2>4. n = q * b + c /\ n \in Nat /\ b \in Nat /\ b > 0 /\ c \in Nat /\ c < b
      BY <2>2, <2>3
    <2> HIDE DEF n, b, c
    <2>5. n \div b = q
      BY <2>3, <2>4, DivisionIs
    <2> QED BY <1>2, <1>3, <2>2, <2>5 DEF n, b, q, w, k, f
  <1>8. l \in Nat
    BY <1>1
  <1> HIDE DEF l
  <1>9. l = 0 \/ l = 1 \/ l >= 2
    BY <1>8
  <1> QED BY <1>5, <1>6, <1>7, <1>9

\* An amount that can be read is read to the kobo.
LEMMA AmountsRead ==
  ASSUME NEW a \in Amount, ~(a.signed /\ a.unit # 1)
  PROVE  LET exact == (Digits(a) * a.unit * 100) \div Scale(a)
         IN  ParseKobo(a) = IF a.signed THEN -exact ELSE exact
  <1>1. CASE a.unit = 1
    <2>1. (Digits(a) * a.unit * 100) \div Scale(a) = (a.whole * 100) + KoboDigits(a.fraction)
      BY <1>1, KoboIsCut
    <2> QED BY <1>1, <2>1 DEF ParseKobo
  <1>2. CASE a.unit # 1
    BY <1>2 DEF ParseKobo
  <1> QED BY <1>1, <1>2

\* A date read without a locale reads the same either way.
LEMMA DatesRead ==
  ASSUME NEW cell, ParseLocaleDate(cell, Unset) # Unset
  PROVE  /\ ParseLocaleDate(cell, Unset) = Reading(cell, TRUE)
         /\ ParseLocaleDate(cell, Unset) = Reading(cell, FALSE)
  <1>1. Unset # "month_first"
    BY IntakeAssumption DEF Locales
  <1>2. /\ ~(Ambiguous(cell) /\ Reading(cell, FALSE) # Reading(cell, TRUE))
        /\ ParseLocaleDate(cell, Unset) = Reading(cell, TRUE)
    BY <1>1 DEF ParseLocaleDate
  <1>3. CASE Ambiguous(cell)
    BY <1>2, <1>3
  <1>4. CASE ~Ambiguous(cell)
    BY <1>2, <1>4 DEF Ambiguous, Reading
  <1> QED BY <1>3, <1>4

LEMMA TaskOf ==
  ASSUME NEW x \in Tasks
  PROVE  x[1] \in Uploads /\ x[2] \in tasks[x[1]]
BY DEF Tasks

\* Whatever rules a task was dispatched with, what it stores of a cell is
\* what the cell says.
LEMMA CellsAreExact == CellsExact
  <1>1. DatesUnambiguous
    <2> SUFFICES ASSUME NEW x \in Tasks, x[2].locale = Unset, NEW d \in Dates(x[2]), d[2] # Unset
          PROVE  d[2] = Reading(d[1], TRUE) /\ d[2] = Reading(d[1], FALSE)
      BY DEF DatesUnambiguous
    <2>1. PICK c \in Cells : d = <<c, ParseLocaleDate(c, Unset)>>
      BY DEF Dates
    <2>2. d[1] = c /\ d[2] = ParseLocaleDate(c, Unset)
      BY <2>1
    <2> QED BY <2>2, DatesRead
  <1>2. AmountsExact
    <2> SUFFICES ASSUME NEW a \in Amounts, ~(a.signed /\ a.unit # 1)
          PROVE  LET exact == (Digits(a) * a.unit * 100) \div Scale(a)
                 IN  ParseKobo(a) = IF a.signed THEN -exact ELSE exact
      BY DEF AmountsExact
    <2>1. a \in Amount
      BY IntakeAssumption
    <2> QED BY <2>1, AmountsRead
  <1> QED BY <1>1, <1>2 DEF CellsExact

-----------------------------------------------------------------------------
(* The requests *)

RuleSets == [mapping : SUBSET (Header \X Fields), locale : Locales \cup {Unset}, byUser : BOOLEAN]
Jobs == [pc : {"idle", "found", "confirm"}, up : Uploads \cup {Unset}, found : RuleSets \cup {Unset}]

\* A user has confirmed that column p holds its field, for files of shape g.
UserSaid(g, p) == \E c \in confirmed : c[1] = g /\ p \in c[2].mapping

\* Rules that may be applied to every file of shape g
RulesFor(g, rules) ==
    /\ rules \in RuleSets
    /\ \A p, r \in rules.mapping : p[1] = r[1] \/ p[2] = r[2] => p = r
    /\ \A p \in rules.mapping : g[p[1].word] > 0
    /\ \A p \in rules.mapping : p[2] \in Money => p[1].word \in Exact[p[2]] \/ UserSaid(g, p)
    /\ rules.byUser => <<g, rules>> \in confirmed

IntakeTypes ==
    /\ table \in Tables
    /\ saved \in [Signatures -> RuleSets \cup {Unset}]
    /\ file \in [Uploads -> Files \cup {Unset}]
    /\ status \in [Uploads -> {"none", "needs_mapping", "processing"}]
    /\ tasks \in [Uploads -> SUBSET RuleSets]
    /\ session \in [Clients -> Jobs]

SavedGood == \A g \in Signatures : saved[g] # Unset => RulesFor(g, saved[g])
TasksGood == \A u \in Uploads : \A t \in tasks[u] :
                file[u] \in Files /\ RulesFor(Signature(file[u]), t)
StagedFirst == \A u \in Uploads : status[u] = "needs_mapping" => file[u] \in Files
SessionGood(q) ==
    /\ session[q].pc = "idle" => session[q].found = Unset
    /\ session[q].pc # "idle" => session[q].up \in Uploads /\ file[session[q].up] \in Files
    /\ session[q].found # Unset => RulesFor(Signature(file[session[q].up]), session[q].found)

IntakeIInv ==
    /\ IntakeTypes /\ SavedGood /\ TasksGood /\ StagedFirst
    /\ \A q \in Clients : SessionGood(q)

\* What was applied, and what was accepted of what was asked
LEMMA MatchesMap ==
  ASSUME NEW columns \in Files, NEW scores \in Tables,
         NEW accepted \in SUBSET ResolveMapping(columns, scores).ask
  PROVE  LET r == ResolveMapping(columns, scores)
             mapping == MappingOf(r.auto \cup accepted)
         IN  /\ mapping \in SUBSET (Header \X Fields)
             /\ \A p, s \in mapping : p[1] = s[1] \/ p[2] = s[2] => p = s
             /\ \A p \in mapping : Signature(columns)[p[1].word] > 0
             /\ \A p \in MappingOf(r.auto) : p[2] \in Money => p[1].word \in Exact[p[2]]
  <1> DEFINE r == ResolveMapping(columns, scores)
             ms == r.auto \cup accepted
             mapping == MappingOf(ms)
  <1>1. Resolution(columns, r)
    BY ResolveUnfolds
  <1> HIDE DEF r
  <1>2. ms \subseteq r.auto \cup r.ask
    BY DEF r
  <1>3. ms \in SUBSET MatchesOf(columns) /\ Distinct(ms)
    <2>1. r.auto \in SUBSET MatchesOf(columns) /\ r.ask \in SUBSET MatchesOf(columns)
      BY <1>1 DEF Resolution, Resolutions
    <2>2. Distinct(r.auto \cup r.ask)
      BY <1>1 DEF Resolution
    <2> QED BY <1>2, <2>1, <2>2 DEF Distinct
  <1> HIDE DEF ms
  <1>4. \A m \in ms : /\ m.header \in ToSet(columns) /\ m.header \in Header /\ m.field \in Fields
    BY <1>3, ColumnList DEF MatchesOf
  <1>5. mapping \in SUBSET (Header \X Fields)
    BY <1>4 DEF MappingOf
  <1>6. \A p, s \in mapping : p[1] = s[1] \/ p[2] = s[2] => p = s
    <2> SUFFICES ASSUME NEW m \in ms, NEW n \in ms, m.header = n.header \/ m.field = n.field
          PROVE  m = n
      BY DEF MappingOf
    <2> QED BY <1>3 DEF Distinct
  <1>7. ASSUME NEW m \in ms PROVE Signature(columns)[m.header.word] > 0
    <2> DEFINE w == m.header.word
               I == {i \in DOMAIN columns : columns[i].word = w}
    <2>1. PICK i \in DOMAIN columns : columns[i] = m.header
      BY <1>4 DEF ToSet
    <2>2. i \in I /\ w \in Words
      BY <1>4, <2>1 DEF Header
    <2>3. IsFiniteSet(I)
      <3>1. IsFiniteSet(DOMAIN columns)
        BY ColumnList, FS_Interval
      <3> QED BY <3>1, FS_Subset
    <2>4. Cardinality(I) \in Nat /\ Cardinality(I) # 0
      BY <2>2, <2>3, FS_CardinalityType, FS_EmptySet
    <2>5. Signature(columns)[w] = Cardinality(I)
      BY <2>2 DEF Signature
    <2> QED BY <2>4, <2>5
  <1>8. \A p \in mapping : Signature(columns)[p[1].word] > 0
    BY <1>7 DEF MappingOf
  <1>9. \A p \in MappingOf(r.auto) : p[2] \in Money => p[1].word \in Exact[p[2]]
    BY <1>1 DEF Resolution, MappingOf
  <1> QED BY <1>5, <1>6, <1>8, <1>9 DEF ms, r

LEMMA IntakeStarts == IntakeInit => IntakeIInv
  <1> SUFFICES ASSUME IntakeInit PROVE IntakeIInv
    OBVIOUS
  <1>1. NoJob \in Jobs /\ NoJob.pc = "idle" /\ NoJob.found = Unset
    BY DEF NoJob, Jobs
  <1>2. IntakeTypes
    BY <1>1 DEF IntakeInit, IntakeTypes
  <1>3. SavedGood /\ TasksGood /\ StagedFirst
    BY DEF IntakeInit, SavedGood, TasksGood, StagedFirst
  <1>4. \A q \in Clients : SessionGood(q)
    BY <1>1 DEF IntakeInit, SessionGood
  <1> QED BY <1>2, <1>3, <1>4 DEF IntakeIInv

\* What a user has confirmed stays so.
LEMMA RulesStay ==
  ASSUME confirmed \subseteq confirmed', NEW g, NEW rules, RulesFor(g, rules)
  PROVE  RulesFor(g, rules)'
BY DEF RulesFor, UserSaid

LEMMA RestKept ==
  ASSUME IntakeIInv, UNCHANGED <<saved, file, status, tasks, confirmed>>
  PROVE  /\ SavedGood' /\ TasksGood' /\ StagedFirst'
         /\ \A q \in Clients : session'[q] = session[q] => SessionGood(q)'
  <1>1. confirmed \subseteq confirmed'
    OBVIOUS
  <1>2. SavedGood' /\ TasksGood'
    BY <1>1, RulesStay DEF IntakeIInv, SavedGood, TasksGood
  <1>3. StagedFirst'
    BY DEF IntakeIInv, StagedFirst
  <1>4. ASSUME NEW q \in Clients, session'[q] = session[q] PROVE SessionGood(q)'
    BY <1>1, <1>4, RulesStay DEF IntakeIInv, SessionGood
  <1> QED BY <1>2, <1>3, <1>4

LEMMA NotStaged ==
  ASSUME IntakeIInv, NEW u \in Uploads, file[u] = Unset
  PROVE  /\ file[u] \notin Files /\ tasks[u] = {}
         /\ \A q \in Clients : session[q].up = u => session[q].pc = "idle"
  <1>1. Unset \notin Files
    BY IntakeAssumption
  <1> QED BY <1>1 DEF IntakeIInv, TasksGood, SessionGood

LEMMA ShapeOf ==
  ASSUME NEW columns \in Files
  PROVE  Signature(columns) \in Signatures
BY DEF Signatures

LEMMA UploadKeeps ==
  ASSUME IntakeIInv, NEW q \in Clients, NEW u \in Uploads, NEW columns \in Files,
         Upload(q, u, columns)
  PROVE  IntakeIInv'
  <1> DEFINE g == Signature(columns)
             job == [pc |-> "found", up |-> u, found |-> saved[g]]
  <1>1. /\ file[u] = Unset
        /\ file' = [file EXCEPT ![u] = columns]
        /\ session' = [session EXCEPT ![q] = job]
        /\ UNCHANGED <<table, saved, status, tasks, confirmed>>
    BY DEF Upload
  <1>2. IntakeTypes /\ g \in Signatures
    BY ShapeOf DEF IntakeIInv
  <1> HIDE DEF g
  <1>3. job \in Jobs /\ job.pc = "found" /\ job.up = u /\ job.found = saved[g]
    BY <1>2 DEF IntakeTypes, Jobs
  <1> HIDE DEF job
  <1>4. IntakeTypes'
    BY <1>1, <1>2, <1>3 DEF IntakeTypes
  <1>5. confirmed \subseteq confirmed'
    BY <1>1
  <1>6. file'[u] = columns /\ \A v \in Uploads : v # u => file'[v] = file[v]
    BY <1>1, <1>2 DEF IntakeTypes
  <1>7. session'[q] = job /\ \A c \in Clients : c # q => session'[c] = session[c]
    BY <1>1, <1>2 DEF IntakeTypes
  <1>8. SavedGood'
    BY <1>1, <1>5, RulesStay DEF IntakeIInv, SavedGood
  <1>9. TasksGood'
    <2> SUFFICES ASSUME NEW v \in Uploads, NEW t \in tasks[v]
          PROVE  (file[v] \in Files /\ RulesFor(Signature(file[v]), t))'
      BY <1>1 DEF TasksGood
    <2>1. v # u
      BY <1>1, NotStaged
    <2>2. file'[v] = file[v] /\ file[v] \in Files /\ RulesFor(Signature(file[v]), t)
      BY <1>6, <2>1 DEF IntakeIInv, TasksGood
    <2> QED BY <1>5, <2>2, RulesStay
  <1>10. StagedFirst'
    BY <1>1, <1>6 DEF IntakeIInv, StagedFirst
  <1>11. ASSUME NEW c \in Clients PROVE SessionGood(c)'
    <2>1. CASE c = q
      <3>1. saved[g] # Unset => RulesFor(g, saved[g])
        BY <1>2 DEF IntakeIInv, SavedGood
      <3>2. saved[g] # Unset => RulesFor(g, saved[g])'
        BY <1>1, <1>5, <3>1, RulesStay
      <3>3. Signature(file'[u]) = g
        BY <1>6 DEF g
      <3> QED BY <1>1, <1>3, <1>6, <1>7, <2>1, <3>2, <3>3 DEF SessionGood
    <2>2. CASE c # q /\ session[c].pc = "idle"
      BY <1>7, <2>2 DEF IntakeIInv, SessionGood
    <2>3. CASE c # q /\ session[c].pc # "idle"
      <3> DEFINE v == session[c].up
      <3>1. v \in Uploads /\ file[v] \in Files /\ v # u
        BY <1>1, <2>3, NotStaged DEF IntakeIInv, SessionGood
      <3>2. session'[c] = session[c] /\ file'[v] = file[v]
        BY <1>6, <1>7, <2>3, <3>1
      <3>3. session[c].found # Unset => RulesFor(Signature(file[v]), session[c].found)
        BY <2>3 DEF IntakeIInv, SessionGood
      <3>4. session[c].found # Unset => RulesFor(Signature(file[v]), session[c].found)'
        BY <1>5, <3>2, <3>3, RulesStay
      <3> QED BY <2>3, <3>1, <3>2, <3>4 DEF SessionGood
    <2> QED BY <2>1, <2>2, <2>3
  <1> QED BY <1>4, <1>8, <1>9, <1>10, <1>11 DEF IntakeIInv

LEMMA AutomaticIsGood ==
  ASSUME NEW columns \in Files, NEW scores \in Tables
  PROVE  LET auto == Rules(MappingOf(ResolveMapping(columns, scores).auto), Unset, FALSE)
         IN  RulesFor(Signature(columns), auto)
  <1> DEFINE r == ResolveMapping(columns, scores)
             mapping == MappingOf(r.auto)
             auto == Rules(mapping, Unset, FALSE)
  <1>1. {} \in SUBSET r.ask /\ r.auto \cup {} = r.auto
    OBVIOUS
  <1>2. /\ mapping \in SUBSET (Header \X Fields)
        /\ \A p, s \in mapping : p[1] = s[1] \/ p[2] = s[2] => p = s
        /\ \A p \in mapping : Signature(columns)[p[1].word] > 0
        /\ \A p \in mapping : p[2] \in Money => p[1].word \in Exact[p[2]]
    BY <1>1, MatchesMap
  <1> HIDE DEF mapping
  <1>3. auto \in RuleSets /\ auto.mapping = mapping /\ auto.byUser = FALSE
    BY <1>2 DEF Rules, RuleSets
  <1> HIDE DEF auto
  <1>4. RulesFor(Signature(columns), auto)
    BY <1>2, <1>3 DEF RulesFor
  <1> QED BY <1>4 DEF auto, mapping

\* A confirmation is its own authority.
LEMMA ConfirmedIsGood ==
  ASSUME NEW columns \in Files, NEW scores \in Tables,
         NEW accepted \in SUBSET ResolveMapping(columns, scores).ask,
         NEW locale \in Locales \cup {Unset}, NEW g, NEW rules, g = Signature(columns),
         rules = Rules(MappingOf(ResolveMapping(columns, scores).auto \cup accepted), locale, TRUE)
  PROVE  /\ rules \in RuleSets
         /\ (<<g, rules>> \in confirmed)' => RulesFor(g, rules)'
  <1> DEFINE r == ResolveMapping(columns, scores)
             mapping == MappingOf(r.auto \cup accepted)
  <1>1. /\ mapping \in SUBSET (Header \X Fields)
        /\ \A p, s \in mapping : p[1] = s[1] \/ p[2] = s[2] => p = s
        /\ \A p \in mapping : g[p[1].word] > 0
    BY MatchesMap
  <1> HIDE DEF mapping
  <1>2. rules \in RuleSets /\ rules.mapping = mapping
    BY <1>1 DEF Rules, RuleSets, mapping
  <1>3. ASSUME (<<g, rules>> \in confirmed)'
        PROVE  RulesFor(g, rules)'
    <2> DEFINE c == <<g, rules>>
    <2>1. c[1] = g /\ c[2].mapping = mapping /\ c \in confirmed'
      BY <1>2, <1>3
    <2>2. \A p \in mapping : UserSaid(g, p)'
      BY <2>1 DEF UserSaid
    <2> QED BY <1>1, <1>2, <1>3, <2>2 DEF RulesFor
  <1> QED BY <1>2, <1>3

LEMMA SaveKeeps ==
  ASSUME IntakeIInv, NEW q \in Clients, SaveAutomatic(q)
  PROVE  IntakeIInv'
  <1>0. PICK u, g, auto : /\ u = session[q].up /\ g = Signature(file[u])
                          /\ auto = Rules(MappingOf(Resolved(u).auto), Unset, FALSE)
    OBVIOUS
  <1>1. /\ session[q].pc = "found"
        /\ saved' = [saved EXCEPT ![g] = auto]
        /\ session' = [session EXCEPT ![q].found = auto]
        /\ UNCHANGED <<table, file, status, tasks, confirmed>>
    BY <1>0 DEF SaveAutomatic, InStage
  <1>2. IntakeTypes
    BY DEF IntakeIInv
  <1>3. u \in Uploads /\ file[u] \in Files /\ table \in Tables
    BY <1>0, <1>1, <1>2 DEF IntakeIInv, SessionGood, IntakeTypes
  <1>4. g \in Signatures /\ RulesFor(g, auto)
    BY <1>0, <1>3, ShapeOf, AutomaticIsGood DEF Resolved
  <1>5. auto \in RuleSets
    BY <1>4 DEF RulesFor
  <1>6. /\ session'[q].pc = "found" /\ session'[q].up = u /\ session'[q].found = auto
        /\ \A c \in Clients : c # q => session'[c] = session[c]
    BY <1>0, <1>1, <1>2 DEF IntakeTypes, Jobs
  <1>7. session' \in [Clients -> Jobs]
    BY <1>1, <1>2, <1>5 DEF IntakeTypes, Jobs
  <1>8. IntakeTypes'
    BY <1>1, <1>2, <1>4, <1>5, <1>7 DEF IntakeTypes
  <1>9. confirmed \subseteq confirmed'
    BY <1>1
  <1>10. SavedGood'
    <2> SUFFICES ASSUME NEW k \in Signatures, saved'[k] # Unset
          PROVE  RulesFor(k, saved[k])'
      BY DEF SavedGood
    <2>1. saved'[k] = IF k = g THEN auto ELSE saved[k]
      BY <1>1, <1>2, <1>4 DEF IntakeTypes
    <2>2. RulesFor(k, IF k = g THEN auto ELSE saved[k])
      BY <1>4, <2>1 DEF IntakeIInv, SavedGood
    <2> QED BY <1>9, <2>1, <2>2, RulesStay
  <1>11. TasksGood' /\ StagedFirst'
    <2>1. TasksGood'
      BY <1>1, <1>9, RulesStay DEF IntakeIInv, TasksGood
    <2>2. StagedFirst'
      BY <1>1 DEF IntakeIInv, StagedFirst
    <2> QED BY <2>1, <2>2
  <1>12. ASSUME NEW c \in Clients PROVE SessionGood(c)'
    <2>1. CASE c = q
      <3>1. RulesFor(g, auto)'
        BY <1>4, <1>9, RulesStay
      <3>2. session'[q].up = u /\ file'[u] = file[u] /\ g = Signature(file[u])
        BY <1>0, <1>1, <1>6
      <3> QED BY <1>3, <1>6, <2>1, <3>1, <3>2 DEF SessionGood
    <2>2. CASE c # q
      BY <1>1, <1>6, <1>9, <2>2, RulesStay DEF IntakeIInv, SessionGood
    <2> QED BY <2>1, <2>2
  <1> QED BY <1>8, <1>10, <1>11, <1>12 DEF IntakeIInv

\* A request that ends leaves nothing behind.
LEMMA ReplyKeeps ==
  ASSUME IntakeTypes, NEW q \in Clients, Reply(q)
  PROVE  /\ session' \in [Clients -> Jobs] /\ SessionGood(q)'
         /\ \A c \in Clients : c # q => session'[c] = session[c]
  <1>1. NoJob \in Jobs /\ NoJob.pc = "idle" /\ NoJob.found = Unset
    BY DEF NoJob, Jobs
  <1>2. session' = [session EXCEPT ![q] = NoJob]
    BY DEF Reply
  <1> QED BY <1>1, <1>2 DEF IntakeTypes, SessionGood

LEMMA AskUserKeeps ==
  ASSUME IntakeIInv, NEW q \in Clients, AskUser(q)
  PROVE  IntakeIInv'
  <1>0. PICK u : u = session[q].up
    OBVIOUS
  <1>1. /\ session[q].pc = "found" /\ Reply(q)
        /\ status' = [status EXCEPT ![u] = "needs_mapping"]
        /\ UNCHANGED <<table, saved, file, tasks, confirmed>>
    BY <1>0 DEF AskUser, InStage
  <1>2. IntakeTypes
    BY DEF IntakeIInv
  <1>3. u \in Uploads /\ file[u] \in Files
    BY <1>0, <1>1 DEF IntakeIInv, SessionGood
  <1>4. /\ session' \in [Clients -> Jobs] /\ SessionGood(q)'
        /\ \A c \in Clients : c # q => session'[c] = session[c]
    BY <1>1, <1>2, ReplyKeeps
  <1>5. IntakeTypes'
    BY <1>1, <1>2, <1>4 DEF IntakeTypes
  <1>6. confirmed \subseteq confirmed'
    BY <1>1
  <1>7. SavedGood' /\ TasksGood'
    BY <1>1, <1>6, RulesStay DEF IntakeIInv, SavedGood, TasksGood
  <1>8. StagedFirst'
    BY <1>1, <1>2, <1>3 DEF IntakeIInv, StagedFirst, IntakeTypes
  <1>9. \A c \in Clients : SessionGood(c)'
    BY <1>1, <1>4, <1>6, RulesStay DEF IntakeIInv, SessionGood
  <1> QED BY <1>5, <1>7, <1>8, <1>9 DEF IntakeIInv

LEMMA DispatchKeeps ==
  ASSUME IntakeIInv, NEW q \in Clients, Dispatch(q)
  PROVE  IntakeIInv'
  <1>0. PICK u, rules : u = session[q].up /\ rules = session[q].found
    OBVIOUS
  <1>1. /\ session[q].pc = "found" /\ rules # Unset /\ Reply(q)
        /\ status' = [status EXCEPT ![u] = "processing"]
        /\ tasks' = [tasks EXCEPT ![u] = @ \cup {rules}]
        /\ UNCHANGED <<table, saved, file, confirmed>>
    BY <1>0 DEF Dispatch, InStage, Forwarded
  <1>2. IntakeTypes
    BY DEF IntakeIInv
  <1>3. u \in Uploads /\ file[u] \in Files /\ RulesFor(Signature(file[u]), rules)
    BY <1>0, <1>1 DEF IntakeIInv, SessionGood
  <1>4. /\ session' \in [Clients -> Jobs] /\ SessionGood(q)'
        /\ \A c \in Clients : c # q => session'[c] = session[c]
    BY <1>1, <1>2, ReplyKeeps
  <1>5. IntakeTypes'
    <2>1. rules \in RuleSets
      BY <1>3 DEF RulesFor
    <2> QED BY <1>1, <1>2, <1>4, <2>1 DEF IntakeTypes
  <1>6. confirmed \subseteq confirmed'
    BY <1>1
  <1>7. SavedGood'
    BY <1>1, <1>6, RulesStay DEF IntakeIInv, SavedGood
  <1>8. TasksGood'
    <2> SUFFICES ASSUME NEW v \in Uploads, NEW t \in tasks'[v]
          PROVE  (file[v] \in Files /\ RulesFor(Signature(file[v]), t))'
      BY DEF TasksGood
    <2>1. file[v] \in Files /\ RulesFor(Signature(file[v]), t)
      <3>1. CASE v = u /\ t = rules
        BY <1>3, <3>1
      <3>2. CASE ~(v = u /\ t = rules)
        <4>1. t \in tasks[v]
          BY <1>1, <1>2, <3>2 DEF IntakeTypes
        <4> QED BY <4>1 DEF IntakeIInv, TasksGood
      <3> QED BY <3>1, <3>2
    <2> QED BY <1>1, <1>6, <2>1, RulesStay
  <1>9. StagedFirst'
    BY <1>1, <1>2, <1>3 DEF IntakeIInv, StagedFirst, IntakeTypes
  <1>10. \A c \in Clients : SessionGood(c)'
    BY <1>1, <1>4, <1>6, RulesStay DEF IntakeIInv, SessionGood
  <1> QED BY <1>5, <1>7, <1>8, <1>9, <1>10 DEF IntakeIInv

LEMMA BeginKeeps ==
  ASSUME IntakeIInv, NEW q \in Clients, NEW u \in Uploads, BeginConfirm(q, u)
  PROVE  IntakeIInv'
  <1> DEFINE job == [pc |-> "confirm", up |-> u, found |-> Unset]
  <1>1. /\ session' = [session EXCEPT ![q] = job] /\ status[u] = "needs_mapping"
        /\ UNCHANGED <<table, saved, file, status, tasks, confirmed>>
    BY DEF BeginConfirm
  <1>2. IntakeTypes /\ file[u] \in Files
    BY <1>1 DEF IntakeIInv, StagedFirst
  <1>3. job \in Jobs /\ job.pc = "confirm" /\ job.up = u /\ job.found = Unset
    BY DEF Jobs
  <1> HIDE DEF job
  <1>4. /\ session' \in [Clients -> Jobs] /\ session'[q] = job
        /\ \A c \in Clients : c # q => session'[c] = session[c]
    BY <1>1, <1>2, <1>3 DEF IntakeTypes
  <1>5. IntakeTypes'
    BY <1>1, <1>2, <1>4 DEF IntakeTypes
  <1>6. SessionGood(q)'
    BY <1>1, <1>2, <1>3, <1>4 DEF SessionGood
  <1>7. /\ SavedGood' /\ TasksGood' /\ StagedFirst'
        /\ \A c \in Clients : session'[c] = session[c] => SessionGood(c)'
    BY <1>1, RestKept
  <1> QED BY <1>4, <1>5, <1>6, <1>7 DEF IntakeIInv

LEMMA ConfirmKeeps ==
  ASSUME IntakeIInv, NEW q \in Clients, NEW accepted, NEW locale \in Locales \cup {Unset},
         Confirm(q, accepted, locale)
  PROVE  IntakeIInv'
  <1>0. PICK u, g, rules :
           /\ u = session[q].up /\ g = Signature(file[u])
           /\ rules = Rules(MappingOf(Resolved(u).auto \cup accepted), locale, TRUE)
    OBVIOUS
  <1>1. /\ session[q].pc = "confirm" /\ accepted \subseteq Resolved(u).ask
        /\ saved' = [saved EXCEPT ![g] = rules]
        /\ confirmed' = confirmed \cup {<<g, rules>>}
        /\ session' = [session EXCEPT ![q].pc = "found", ![q].found = rules]
        /\ UNCHANGED <<table, file, status, tasks>>
    BY <1>0 DEF Confirm, InStage
  <1>2. IntakeTypes
    BY DEF IntakeIInv
  <1>3. u \in Uploads /\ file[u] \in Files /\ table \in Tables
    BY <1>0, <1>1, <1>2 DEF IntakeIInv, SessionGood, IntakeTypes
  <1>4. rules \in RuleSets /\ g \in Signatures
    BY <1>0, <1>1, <1>3, ShapeOf, ConfirmedIsGood DEF Resolved
  <1>5. RulesFor(g, rules)'
    <2>1. (<<g, rules>> \in confirmed)'
      BY <1>1
    <2> QED BY <1>0, <1>1, <1>3, <2>1, ConfirmedIsGood DEF Resolved
  <1>6. /\ session'[q].pc = "found" /\ session'[q].up = u /\ session'[q].found = rules
        /\ \A c \in Clients : c # q => session'[c] = session[c]
    BY <1>0, <1>1, <1>2 DEF IntakeTypes, Jobs
  <1>7. session' \in [Clients -> Jobs]
    <2>1. session[q] \in Jobs
      BY <1>2 DEF IntakeTypes
    <2>2. [session[q] EXCEPT !.pc = "found", !.found = rules] \in Jobs
      BY <1>4, <2>1 DEF Jobs
    <2>3. session' = [session EXCEPT ![q] = [session[q] EXCEPT !.pc = "found", !.found = rules]]
      BY <1>1, <1>2 DEF IntakeTypes, Jobs
    <2> QED BY <1>2, <2>2, <2>3 DEF IntakeTypes
  <1>8. IntakeTypes'
    BY <1>1, <1>2, <1>4, <1>7 DEF IntakeTypes
  <1>9. confirmed \subseteq confirmed'
    BY <1>1
  <1>10. SavedGood'
    <2> SUFFICES ASSUME NEW k \in Signatures, saved'[k] # Unset
          PROVE  RulesFor(k, saved[k])'
      BY DEF SavedGood
    <2>1. CASE k = g
      <3>1. saved'[k] = rules
        BY <1>1, <1>2, <1>4, <2>1 DEF IntakeTypes
      <3> QED BY <1>5, <2>1, <3>1
    <2>2. CASE k # g
      <3>1. saved'[k] = saved[k]
        BY <1>1, <1>2, <1>4, <2>2 DEF IntakeTypes
      <3>2. RulesFor(k, saved[k])
        BY <3>1 DEF IntakeIInv, SavedGood
      <3> QED BY <1>9, <3>1, <3>2, RulesStay
    <2> QED BY <2>1, <2>2
  <1>11. TasksGood' /\ StagedFirst'
    <2>1. TasksGood'
      BY <1>1, <1>9, RulesStay DEF IntakeIInv, TasksGood
    <2>2. StagedFirst'
      BY <1>1 DEF IntakeIInv, StagedFirst
    <2> QED BY <2>1, <2>2
  <1>12. ASSUME NEW c \in Clients PROVE SessionGood(c)'
    <2>1. CASE c = q
      <3>1. session'[q].up = u /\ file'[u] = file[u] /\ g = Signature(file[u])
        BY <1>0, <1>1, <1>6
      <3> QED BY <1>3, <1>5, <1>6, <2>1, <3>1 DEF SessionGood
    <2>2. CASE c # q
      BY <1>1, <1>6, <1>9, <2>2, RulesStay DEF IntakeIInv, SessionGood
    <2> QED BY <2>1, <2>2
  <1> QED BY <1>8, <1>10, <1>11, <1>12 DEF IntakeIInv

LEMMA IntakeStep == IntakeIInv /\ [IntakeNext]_intakeVars => IntakeIInv'
  <1> SUFFICES ASSUME IntakeIInv, [IntakeNext]_intakeVars PROVE IntakeIInv'
    OBVIOUS
  <1>1. ASSUME NEW q \in Clients, NEW u \in Uploads, BeginConfirm(q, u) PROVE IntakeIInv'
    BY <1>1, BeginKeeps
  <1>2. ASSUME NEW q \in Clients, NEW u \in Uploads, NEW columns \in Files,
               Upload(q, u, columns)
        PROVE  IntakeIInv'
    BY <1>2, UploadKeeps
  <1>3. ASSUME NEW q \in Clients, SaveAutomatic(q) PROVE IntakeIInv'
    BY <1>3, SaveKeeps
  <1>4. ASSUME NEW q \in Clients, AskUser(q) PROVE IntakeIInv'
    BY <1>4, AskUserKeeps
  <1>5. ASSUME NEW q \in Clients, Dispatch(q) PROVE IntakeIInv'
    BY <1>5, DispatchKeeps
  <1>6. ASSUME NEW q \in Clients, NEW locale \in Locales \cup {Unset}, NEW accepted,
               Confirm(q, accepted, locale)
        PROVE  IntakeIInv'
    BY <1>6, ConfirmKeeps
  <1>7. CASE UNCHANGED intakeVars
    <2>1. UNCHANGED <<table, saved, file, status, tasks, confirmed, session>>
      BY <1>7 DEF intakeVars
    <2>2. IntakeTypes'
      BY <2>1 DEF IntakeIInv, IntakeTypes
    <2>3. /\ SavedGood' /\ TasksGood' /\ StagedFirst'
          /\ \A q \in Clients : session'[q] = session[q] => SessionGood(q)'
      BY <2>1, RestKept
    <2> QED BY <2>1, <2>2, <2>3 DEF IntakeIInv
  <1> QED BY <1>1, <1>2, <1>3, <1>4, <1>5, <1>6, <1>7 DEF IntakeNext

\* The invariant holds: what is saved, looked up or dispatched may be applied
\* to any file of its shape.
THEOREM IntakeInvariant == IntakeSpec => []IntakeIInv
  BY IntakeStarts, IntakeStep, PTL DEF IntakeSpec

\* Every state of Intake is well typed (column_mapping_store.py:20).
THEOREM IntakeTypeCorrect == IntakeSpec => []IntakeTypeOK
  <1>1. ASSUME IntakeIInv PROVE IntakeTypeOK
    <2>1. ASSUME NEW g, NEW rules, RulesFor(g, rules) PROVE IsRules(rules)
      BY <2>1 DEF RulesFor, IsRules, RuleSets
    <2>2. /\ table \in Tables /\ DOMAIN saved = Signatures
          /\ file \in [Uploads -> Files \cup {Unset}]
          /\ status \in [Uploads -> {"none", "needs_mapping", "processing"}]
          /\ \A q \in Clients : session[q].pc \in {"idle", "found", "confirm"}
      BY <1>1 DEF IntakeIInv, IntakeTypes, Jobs
    <2>3. \A g \in Signatures : saved[g] = Unset \/ IsRules(saved[g])
      BY <1>1, <2>1 DEF IntakeIInv, SavedGood
    <2>4. \A u \in Uploads : \A t \in tasks[u] : IsRules(t)
      BY <1>1, <2>1 DEF IntakeIInv, TasksGood
    <2>5. \A q \in Clients : session[q].found = Unset \/ IsRules(session[q].found)
      BY <1>1, <2>1 DEF IntakeIInv, SessionGood
    <2> QED BY <2>2, <2>3, <2>4, <2>5 DEF IntakeTypeOK
  <1> QED BY <1>1, IntakeInvariant, PTL

\* Whichever uploads and confirmations overtake each other, no task reads two
\* columns into one field, money from a guess, a column its file lacks, or a
\* user's mapping in part (column_mapping.py:226, routes/uploads.py:297).
THEOREM MappingsTrusted == IntakeSpec => []MappingTrusted
  <1>1. ASSUME IntakeIInv PROVE MappingTrusted
    <2>1. ASSUME NEW x \in Tasks
          PROVE  file[x[1]] \in Files /\ RulesFor(Signature(file[x[1]]), x[2])
      <3>1. x[1] \in Uploads /\ x[2] \in tasks[x[1]]
        BY TaskOf
      <3> QED BY <1>1, <3>1 DEF IntakeIInv, TasksGood
    <2>2. MappingInverts
      BY <2>1 DEF MappingInverts, RulesFor
    <2>3. MoneyTrusted
      BY <2>1 DEF MoneyTrusted, RulesFor, UserSaid
    <2>4. ReadsAsConfirmed
      BY <2>1 DEF ReadsAsConfirmed, RulesFor
    <2>5. ASSUME NEW columns \in Files, NEW w \in Words, Signature(columns)[w] > 0
          PROVE  w \in {h.word : h \in ToSet(columns)}
      <3> DEFINE I == {i \in DOMAIN columns : columns[i].word = w}
      <3>1. Signature(columns)[w] = Cardinality(I)
        BY DEF Signature
      <3>2. I # {}
        BY <2>5, <3>1, FS_EmptySet
      <3> QED BY <3>2, ColumnList
    <2>6. AppliesToFile
      <3> SUFFICES ASSUME NEW x \in Tasks, NEW p \in x[2].mapping
            PROVE  p[1].word \in {h.word : h \in ToSet(file[x[1]])}
        BY DEF AppliesToFile
      <3>1. p[1].word \in Words
        BY <2>1 DEF RulesFor, RuleSets, Header
      <3>2. Signature(file[x[1]])[p[1].word] > 0
        BY <2>1 DEF RulesFor
      <3> QED BY <2>1, <2>5, <3>1, <3>2
    <2> QED BY <2>2, <2>3, <2>4, <2>6 DEF MappingTrusted
  <1> QED BY <1>1, IntakeInvariant, PTL

\* A date is stored as it reads either way and an amount to the kobo, or not
\* at all (locale_dates.py:53, numeric.py:72).
THEOREM CellsReadExactly == IntakeSpec => []CellsExact
  BY CellsAreExact, PTL

-----------------------------------------------------------------------------
(* The parts together *)

\* A behaviour of MCRoutes is one of each of its parts.
LEMMA PartsAreParts ==
  MCSpec => Spec /\ AccessSpec /\ IntakeSpec /\ ScanSpec /\ PairingSpec
  <1>1. MCInit => Init /\ AccessInit /\ IntakeInit /\ ScanInit /\ PairingInit
    BY DEF MCInit
  <1>2. [MCNext]_mcVars => [Next]_vars
    BY DEF MCNext, mcVars
  <1>3. [MCNext]_mcVars => [AccessNext]_accessVars
    BY DEF MCNext, mcVars
  <1>4. [MCNext]_mcVars => [IntakeNext]_intakeVars
    BY DEF MCNext, mcVars
  <1>5. [MCNext]_mcVars => [ScanNext]_scanVars
    BY DEF MCNext, mcVars
  <1>6. [MCNext]_mcVars => [Turn]_pairingVars
    BY DEF MCNext, mcVars
  <1> QED
    BY <1>1, <1>2, <1>3, <1>4, <1>5, <1>6, PTL
       DEF MCSpec, Spec, AccessSpec, IntakeSpec, ScanSpec, PairingSpec

\* Whichever part is under way, its state is well typed.
THEOREM RoutesTyped == MCSpec => []RoutesTypeOK
  <1>1. TypeOK /\ AccessTypeOK /\ IntakeTypeOK /\ ScanTypeOK => RoutesTypeOK
    BY DEF RoutesTypeOK
  <1> QED
    BY <1>1, PartsAreParts, TypeCorrect, AccessTypeCorrect, IntakeTypeCorrect, ScanTypeCorrect,
       PTL

\* In every behaviour of MCRoutes, however a mapping came to be saved, a task
\* may rely on it, and on what it reads (column_mapping.py:226).
THEOREM MappingsTrustedInRuns == MCSpec => []MappingTrusted /\ []CellsExact
  BY PartsAreParts, MappingsTrusted, CellsReadExactly, PTL
=============================================================================
