------------------------------ MODULE Billing ------------------------------
(***************************************************************************)
(* Subscription billing: app/services/payments.py, the routes that call    *)
(* it, and the Celery tasks that process gateway webhooks.                 *)
(*                                                                         *)
(* Every request and every task owns one SQLAlchemy session.  A session    *)
(* reads rows one await at a time, keeps what it read (the identity map    *)
(* never refreshes a loaded row), and on commit writes only the columns    *)
(* whose value it changed.  A SELECT flushes pending changes first, so the *)
(* rows a handler has dirtied are locked from its last SELECT to its       *)
(* commit.  Sessions interleave at every await.                            *)
(*                                                                         *)
(* A subscription code is identified with the reference of the checkout    *)
(* that created it; a token with the code it can cancel.                   *)
(***************************************************************************)
CONSTANTS Users,      \* accounts
          Refs,       \* provider references, one per checkout
          Sessions,   \* requests and worker tasks in flight at once
          Gateways,   \* the providers with a secret key configured
          Recurring,  \* <<provider, tier>> pairs with a plan code configured
          Null        \* SQL NULL and Python None

PaidTiers == {"basic", "premium"}
Tiers == PaidTiers \cup {"free"}

TransactionStatus == {"pending", "success", "failed"}
SubscriptionStatus == {"active", "past_due", "cancelled"}

Transaction == [owner : Users, provider : Gateways, tier : PaidTiers,
                status : TransactionStatus]

Subscription == [provider : Gateways, tier : Tiers,
                 status : SubscriptionStatus, code : Refs \cup {Null},
                 token : Refs \cup {Null}, cancelAtEnd : BOOLEAN]

\* A webhook payload, or the request a session serves.
Webhook == [kind : {"charge", "token", "ended", "unpaid"}, ref : Refs,
            code : Refs \cup {Null}, token : BOOLEAN]
Request == [kind : {"verify", "cancel"}, ref : Refs \cup {Null},
            code : Refs \cup {Null}, token : BOOLEAN]

ASSUME BillingAssumption ==
    /\ Gateways \subseteq {"paystack", "flutterwave"}
    /\ Recurring \subseteq Gateways \X PaidTiers
    /\ Null \notin Users \cup Refs
    /\ Null \notin Transaction \cup Subscription \cup Webhook \cup Request
    /\ Null \notin [owner : Users, tier : PaidTiers]   \* an Entitlement order

VARIABLES
    txs,       \* payment_transactions, by provider_reference
    subs,      \* subscriptions, by user_id
    userTier,  \* users.subscription_tier, the column gating reads
    charge,    \* at the gateway: has this checkout been paid?
    plan,      \* at the gateway: the recurring plan a checkout started
    sess       \* the sessions

vars == <<txs, subs, userTier, charge, plan, sess>>
database == <<txs, subs, userTier>>
gateway == <<charge, plan>>

PC == {"idle", "read_tx", "ask_gateway", "read_sub", "ask_cancel",
       "flush", "commit", "write"}

\* What a session holds: the columns it loaded, "unread" before it does.
Session == [pc : PC, job : Webhook \cup Request \cup {Null},
            user : Users \cup {Null},
            tx : TransactionStatus \cup {"unread"},
            sub : Subscription \cup {Null},
            tier : Tiers \cup {"unread"}]

\* A new session: only get_current_user may have loaded a row.
Fresh(pc, job, user, tier) ==
    [pc |-> pc, job |-> job, user |-> user, tx |-> "unread", sub |-> Null,
     tier |-> tier]

Idle == Fresh("idle", Null, Null, "unread")

TypeOK ==
    /\ txs \in [Refs -> Transaction \cup {Null}]
    /\ subs \in [Users -> Subscription \cup {Null}]
    /\ userTier \in [Users -> Tiers]
    /\ charge \in [Refs -> {"open", "paid"}]
    /\ plan \in [Refs -> {"none", "live", "stopping", "ended"}]
    /\ sess \in [Sessions -> Session]

Init ==
    /\ txs = [r \in Refs |-> Null]
    /\ subs = [u \in Users |-> Null]
    /\ userTier = [u \in Users |-> "free"]
    /\ charge = [r \in Refs |-> "open"]
    /\ plan = [r \in Refs |-> "none"]
    /\ sess = [s \in Sessions |-> Idle]

-----------------------------------------------------------------------------
(* The object-relational mapper *)

\* The value a column has after a write-back: an attribute the session did
\* not change is not in the UPDATE, whatever the row holds by then.
WriteBack(stored, loaded, wanted) ==
    IF loaded = wanted THEN stored ELSE wanted

WriteBackSub(row, old, new) ==
    [provider |-> WriteBack(row.provider, old.provider, new.provider),
     tier |-> WriteBack(row.tier, old.tier, new.tier),
     status |-> WriteBack(row.status, old.status, new.status),
     code |-> WriteBack(row.code, old.code, new.code),
     token |-> WriteBack(row.token, old.token, new.token),
     cancelAtEnd |->
         WriteBack(row.cancelAtEnd, old.cancelAtEnd, new.cancelAtEnd)]

\* _has_real_recurring_plan
HasRealRecurringPlan(provider, tier) == <<provider, tier>> \in Recurring

Applies(job) == job.kind \in {"charge", "verify"}

\* The idempotency test of _apply.
BugUnapplied(row) == row # Null             \* a bug: the status is not tested
Unapplied(row) == row # Null /\ row.status # "success"

BugGrantedTier(r) == "premium"              \* a bug: the tier is guessed
GrantedTier(r) == txs[r].tier

\* The Subscription a session has in memory when it flushes.
Granted(s, r) ==
    LET job == sess[s].job
        old == sess[s].sub
        code == IF job.code # Null \/ old = Null THEN job.code ELSE old.code
        token == IF job.token THEN job.code
                 ELSE IF old = Null THEN Null ELSE old.token
    IN  [provider |-> txs[r].provider, tier |-> GrantedTier(r),
         status |-> "active", code |-> code, token |-> token,
         cancelAtEnd |-> FALSE]

\* Bugs: a downgrade that clears the tier, or that leaves it.
BugClearedTier(s) ==
    [sess[s].sub EXCEPT !.status = "cancelled", !.tier = Null]
BugKeptTier(s) ==
    [sess[s].sub EXCEPT !.status = "cancelled"]
Downgraded(s) ==
    [sess[s].sub EXCEPT !.status = "cancelled", !.tier = "free"]

Wanted(s) ==
    LET job == sess[s].job
        old == sess[s].sub
    IN  CASE Applies(job) -> Granted(s, job.ref)
          [] job.kind = "ended" -> Downgraded(s)
          [] job.kind = "token" -> [old EXCEPT !.token = job.ref]
          [] job.kind = "unpaid" -> [old EXCEPT !.status = "past_due"]
          [] job.kind = "cancel" ->
                IF HasRealRecurringPlan(old.provider, old.tier)
                THEN [old EXCEPT !.cancelAtEnd = TRUE]
                ELSE Downgraded(s)

\* Rows locked by a session that has flushed and not committed.
LocksTx(s, r) ==
    /\ sess[s].pc = "commit"
    /\ Applies(sess[s].job)
    /\ sess[s].job.ref = r

LocksSub(s, u) ==
    /\ sess[s].pc = "commit"
    /\ sess[s].user = u
    /\ Wanted(s) # sess[s].sub

TxUnlocked(s, r) == \A o \in Sessions \ {s} : ~LocksTx(o, r)
SubUnlocked(s, u) == \A o \in Sessions \ {s} : ~LocksSub(o, u)

\* The session's task or request is over; the message is acknowledged.
Finish(s) == sess' = [sess EXCEPT ![s] = Idle]

-----------------------------------------------------------------------------
(* Checkout, and what the gateways do *)

\* initiate_checkout: Paystack, or Flutterwave once Paystack's API has
\* answered with an error; the row is committed before the browser is sent
\* to the payment page.
InitiateCheckout(u, tier, r) ==
    /\ txs[r] = Null
    /\ \E g \in Gateways :
          txs' = [txs EXCEPT ![r] = [owner |-> u, provider |-> g,
                                     tier |-> tier, status |-> "pending"]]
    /\ UNCHANGED <<subs, userTier, gateway, sess>>

\* The subscription code and the token a gateway reports for a charge:
\* Flutterwave always an id; Paystack a code only for a plan, and not in
\* every payload.
Payloads(kind, r) ==
    LET recurring == HasRealRecurringPlan(txs[r].provider, txs[r].tier)
        codes == IF txs[r].provider = "flutterwave" THEN {r}
                 ELSE IF recurring THEN {r, Null} ELSE {Null}
    IN  {p \in [kind : {kind}, ref : {r}, code : codes, token : BOOLEAN] :
            p.token => /\ kind = "charge"
                       /\ txs[r].provider = "paystack"
                       /\ p.code = r}

ChargeSucceeds(r) ==
    /\ txs[r] # Null
    /\ charge[r] = "open"
    /\ charge' = [charge EXCEPT ![r] = "paid"]
    /\ plan' = [plan EXCEPT ![r] =
                  IF HasRealRecurringPlan(txs[r].provider, txs[r].tier)
                  THEN "live" ELSE @]
    /\ UNCHANGED <<database, sess>>

\* The period runs out: the plan was stopped, or could not be renewed.
PlanEnds(r) ==
    /\ plan[r] \in {"live", "stopping"}
    /\ plan' = [plan EXCEPT ![r] = "ended"]
    /\ UNCHANGED <<database, charge, sess>>

Event(kind, r) == [kind |-> kind, ref |-> r, code |-> r, token |-> FALSE]

\* The webhooks a worker may receive about a reference.  Delivery is
\* at-least-once, unordered and unbounded in time: a gateway retries, the
\* broker redelivers, and a message may also never arrive.
Webhooks(r) ==
    (IF charge[r] = "paid" THEN Payloads("charge", r) ELSE {})
    \cup (IF plan[r] # "none" /\ txs[r].provider = "paystack"
          THEN {Event("token", r), Event("unpaid", r)} ELSE {})
    \cup (IF plan[r] = "ended" THEN {Event("ended", r)} ELSE {})

-----------------------------------------------------------------------------
(* Sessions *)

\* process_paystack_webhook_task, process_flutterwave_webhook_task
BeginWebhook(s, e) ==
    /\ sess[s].pc = "idle"
    /\ e \in Webhooks(e.ref)
    /\ sess' = [sess EXCEPT ![s] =
                   Fresh(IF e.kind = "charge" THEN "read_tx" ELSE "read_sub",
                         e, Null, "unread")]
    /\ UNCHANGED <<database, gateway>>

Call(kind, r) == [kind |-> kind, ref |-> r, code |-> Null, token |-> FALSE]

\* GET /verify/{reference}; get_current_user has loaded the user row.
BeginVerify(s, u, r) ==
    /\ sess[s].pc = "idle"
    /\ sess' = [sess EXCEPT ![s] =
                   Fresh("read_tx", Call("verify", r), u, userTier[u])]
    /\ UNCHANGED <<database, gateway>>

\* POST /cancel; get_current_user has loaded the user row.
BeginCancel(s, u) ==
    /\ sess[s].pc = "idle"
    /\ sess' = [sess EXCEPT ![s] =
                   Fresh("read_sub", Call("cancel", Null), u, userTier[u])]
    /\ UNCHANGED <<database, gateway>>

\* The first SELECT of verify_and_apply and of _apply.
ReadTransaction(s) ==
    LET job == sess[s].job
        row == txs[job.ref]
        own == row # Null /\ row.owner = sess[s].user
    IN  /\ sess[s].pc = "read_tx"
        /\ \/ /\ job.kind = "charge" /\ Unapplied(row)
              /\ sess' = [sess EXCEPT ![s].pc = "read_sub",
                             ![s].user = row.owner, ![s].tx = row.status]
           \/ /\ job.kind = "verify" /\ own
              /\ sess' = [sess EXCEPT ![s].pc = "ask_gateway",
                                      ![s].tx = row.status]
           \/ /\ IF job.kind = "charge" THEN ~Unapplied(row) ELSE ~own
              /\ Finish(s)
        /\ UNCHANGED <<database, gateway>>

\* result.status == "success"
BugVerified(r) == TRUE             \* a bug: any answer counts as a success
Verified(r) == charge[r] = "paid"

\* provider.verify_transaction, then the branches of verify_and_apply.  The
\* transaction is not read again: _apply's SELECT returns the loaded object.
AskGateway(s) ==
    LET r == sess[s].job.ref
    IN  /\ sess[s].pc = "ask_gateway"
        /\ \/ /\ Verified(r)
              /\ sess[s].tx # "success"
              /\ \E p \in Payloads("verify", r) :
                    sess' = [sess EXCEPT ![s].pc = "read_sub", ![s].job = p]
           \/ /\ Verified(r)
              /\ sess[s].tx = "success"
              /\ Finish(s)
           \/ /\ ~Verified(r)        \* "failed" or "abandoned" so far
              /\ sess[s].tx = "pending"
              /\ sess' = [sess EXCEPT ![s].pc = "write"]
           \/ /\ ~Verified(r)        \* "pending", or nothing to update
              /\ Finish(s)
        /\ UNCHANGED <<database, gateway>>

\* The SELECT that finds the subscription a session works on.
ReadSubscription(s) ==
    LET job == sess[s].job
    IN  /\ sess[s].pc = "read_sub"
        /\ \/ /\ Applies(job)
              /\ sess' = [sess EXCEPT ![s].pc = "flush",
                                      ![s].sub = subs[sess[s].user]]
           \/ \* by provider_subscription_code (and provider, for an end)
              /\ ~Applies(job) /\ job.kind # "cancel"
              /\ LET found == {u \in Users :
                        /\ subs[u] # Null
                        /\ subs[u].code = job.ref
                        /\ job.kind = "ended" =>
                              subs[u].provider = txs[job.ref].provider}
                 IN  \/ found = {} /\ Finish(s)
                     \/ \E u \in found :
                          sess' = [sess EXCEPT
                              ![s].pc = IF job.kind = "ended"
                                        THEN "flush" ELSE "write",
                              ![s].user = u, ![s].sub = subs[u]]
           \/ \* request_cancellation
              /\ job.kind = "cancel"
              /\ LET row == subs[sess[s].user]
                 IN  IF \/ row = Null
                        \/ row.status # "active"
                        \/ row.tier = "free"      \* KeyError: no plan code
                     THEN Finish(s)
                     ELSE sess' = [sess EXCEPT
                              ![s].pc = IF HasRealRecurringPlan(row.provider,
                                                                row.tier)
                                        THEN "ask_cancel" ELSE "write",
                              ![s].sub = row]
        /\ UNCHANGED <<database, gateway>>

\* provider.cancel_subscription.  Paystack refuses without the token of this
\* very code; any refusal is a 502 and leaves the row alone.
AskCancel(s) ==
    LET sub == sess[s].sub
        stoppable == /\ sub.code # Null
                     /\ sub.provider = "paystack" => sub.token = sub.code
    IN  /\ sess[s].pc = "ask_cancel"
        /\ \/ /\ stoppable
              /\ plan' = [plan EXCEPT ![sub.code] =
                             IF @ = "live" THEN "stopping" ELSE @]
              /\ sess' = [sess EXCEPT ![s].pc = "write"]
           \/ /\ Finish(s)
              /\ UNCHANGED plan
        /\ UNCHANGED <<database, charge>>

\* The SELECT of the user row, and the autoflush before it: UPDATEs and the
\* INSERT of a first subscription run here and lock their rows.  A second
\* INSERT for the user violates the unique constraint, and the error leaves
\* _apply before the try that would have caught it.
Flush(s) ==
    LET u == sess[s].user
        job == sess[s].job
        dirty == Wanted(s) # sess[s].sub
    IN  /\ sess[s].pc = "flush"
        /\ Applies(job) => TxUnlocked(s, job.ref)
        /\ dirty => SubUnlocked(s, u)
        /\ IF Applies(job) /\ sess[s].sub = Null /\ subs[u] # Null
           THEN Finish(s)
           ELSE sess' = [sess EXCEPT ![s].pc = "commit",
                            ![s].tier = IF @ = "unread" THEN userTier[u]
                                                        ELSE @]
        /\ UNCHANGED <<database, gateway>>

\* What the session's commit writes to the subscription and user rows.
Stored(s) ==
    IF sess[s].sub = Null THEN Wanted(s)
    ELSE WriteBackSub(subs[sess[s].user], sess[s].sub, Wanted(s))

StoreSubscription(s) == subs' = [subs EXCEPT ![sess[s].user] = Stored(s)]

BugStoreTier(s, tier) ==           \* a bug: only upgrades reach the user row
    userTier' = IF tier = "free" THEN userTier
                ELSE [userTier EXCEPT ![sess[s].user] = tier]
StoreTier(s, tier) ==
    userTier' = [userTier EXCEPT ![sess[s].user] =
                    WriteBack(@, sess[s].tier, tier)]

\* The end of apply_successful_charge and of handle_subscription_ended.
Commit(s) ==
    LET job == sess[s].job
    IN  /\ sess[s].pc = "commit"
        /\ txs' = IF Applies(job)
                  THEN [txs EXCEPT ![job.ref].status = "success"] ELSE txs
        /\ StoreSubscription(s)
        /\ StoreTier(s, IF Applies(job) THEN GrantedTier(job.ref) ELSE "free")
        /\ Finish(s)
        /\ UNCHANGED <<gateway>>

\* The handlers whose only flush is their commit.
WriteFailed(s) ==
    /\ sess[s].pc = "write" /\ sess[s].job.kind = "verify"
    /\ TxUnlocked(s, sess[s].job.ref)
    /\ txs' = [txs EXCEPT ![sess[s].job.ref].status = "failed"]
    /\ Finish(s)
    /\ UNCHANGED <<subs, userTier, gateway>>

WriteSubscription(s) ==
    /\ sess[s].pc = "write" /\ sess[s].job.kind # "verify"
    /\ Wanted(s) # sess[s].sub => SubUnlocked(s, sess[s].user)
    /\ StoreSubscription(s)
    /\ IF sess[s].job.kind = "cancel" /\ Wanted(s).tier = "free"
       THEN StoreTier(s, "free") ELSE UNCHANGED userTier
    /\ Finish(s)
    /\ UNCHANGED <<txs, gateway>>

\* The process dies, or the database kills the session (a deadlock between
\* a cancellation and a charge): nothing is written.
Abort(s) ==
    /\ sess[s].pc # "idle"
    /\ Finish(s)
    /\ UNCHANGED <<database, gateway>>

Step(s) ==
    \/ ReadTransaction(s) \/ AskGateway(s) \/ ReadSubscription(s)
    \/ AskCancel(s) \/ Flush(s) \/ Commit(s)
    \/ WriteFailed(s) \/ WriteSubscription(s)

Gateway == \E r \in Refs : ChargeSucceeds(r) \/ PlanEnds(r)

Begin(s) ==
    \/ \E r \in Refs : \E e \in Webhooks(r) : BeginWebhook(s, e)
    \/ \E u \in Users : \/ BeginCancel(s, u)
                       \/ \E r \in Refs : BeginVerify(s, u, r)

\* Everything but a lost process or a killed session.
Reliable ==
    \/ \E u \in Users, tier \in PaidTiers, r \in Refs :
          InitiateCheckout(u, tier, r)
    \/ Gateway
    \/ \E s \in Sessions : Begin(s) \/ Step(s)

Next == Reliable \/ \E s \in Sessions : Abort(s)

Spec == Init /\ [][Next]_vars

\* With no process lost, a handler that has begun runs on; a plan that was
\* stopped runs out; and the end of a plan is delivered: the gateway retries
\* until the endpoint has queued it, and a worker takes it from the queue.
Fairness ==
    /\ \A s \in Sessions : WF_vars(Step(s))
    /\ \A r \in Refs : /\ WF_vars(plan[r] = "stopping" /\ PlanEnds(r))
                      /\ SF_vars(\E s \in Sessions :
                                    BeginWebhook(s, Event("ended", r)))

ReliableSpec == Init /\ [][Reliable]_vars /\ Fairness

-----------------------------------------------------------------------------
(* Safety *)

\* Nobody holds a paid tier, in the gating column or in the subscription
\* row, without having paid a checkout of exactly that tier: whatever the
\* interleaving of webhooks, verifications, cancellations and crashes.
PaidBy(u, tier) == \E r \in Refs : /\ charge[r] = "paid"
                                  /\ txs[r] # Null
                                  /\ txs[r].owner = u
                                  /\ txs[r].tier = tier

PaidForTier ==
    \A u \in Users :
        /\ userTier[u] # "free" => PaidBy(u, userTier[u])
        /\ (subs[u] # Null /\ subs[u].tier # "free") => PaidBy(u, subs[u].tier)

\* A transaction is recorded as successful only if the gateway was paid.
SuccessIsPaid ==
    \A r \in Refs :
        (txs[r] # Null /\ txs[r].status = "success") => charge[r] = "paid"

\* The subscription code a row carries belongs to a paid checkout of the same
\* user, so the event that ends a plan never reaches another user's row.
CodeIsOwn ==
    \A u \in Users :
        (subs[u] # Null /\ subs[u].code # Null)
            => LET r == subs[u].code
               IN  /\ txs[r] # Null
                   /\ txs[r].owner = u
                   /\ charge[r] = "paid"

\* The column gating reads agrees with the subscription row ("kept in sync").
TierInSync ==
    \A u \in Users :
        userTier[u] = IF subs[u] = Null THEN "free" ELSE subs[u].tier

\* A cancelled subscription leaves no paid tier behind, and an active one is
\* never on the free tier (request_cancellation and get_subscription both
\* rely on it).
StatusMatchesTier ==
    \A u \in Users :
        subs[u] # Null =>
            /\ subs[u].status = "cancelled" => subs[u].tier = "free"
            /\ subs[u].status = "active" => subs[u].tier # "free"

\* A charge that loses the race to create the subscription row is "retried
\* against whichever row actually won": one that has reached the INSERT is
\* applied.
RaceIsRetried ==
    \A s \in Sessions, r \in Refs :
        (sess[s].pc = "flush" /\ Applies(sess[s].job) /\ sess[s].job.ref = r)
            ~> (txs[r] # Null /\ txs[r].status = "success")

\* Cancelling a recurring plan "always ends at the Free tier", unless the
\* user has bought another plan meanwhile, of this gateway or of the other.
CancellationEndsFree ==
    \A u \in Users, r \in Refs :
        (plan[r] = "stopping" /\ subs[u] # Null /\ subs[u].code = r
            /\ subs[u].provider = txs[r].provider)
            ~> (\/ userTier[u] = "free"
                \/ subs[u].code # r
                \/ subs[u].provider # txs[r].provider)

-----------------------------------------------------------------------------
(* Refinement: one session at a time, billing keeps the promise of         *)
(* Entitlement.                                                            *)

Placed == [r \in Refs |->
              IF txs[r] = Null THEN Null
              ELSE [owner |-> txs[r].owner, tier |-> txs[r].tier]]
Paid == {r \in Refs : charge[r] = "paid"}
Spent == {r \in Refs : txs[r] # Null /\ txs[r].status = "success"}

Promise == INSTANCE Entitlement
               WITH Orders <- Refs, placed <- Placed, paid <- Paid,
                    spent <- Spent, tier <- userTier

\* Every step of billing places, pays, grants or lapses as promised: a charge
\* raises its owner to the tier it bought, once, however often the gateway
\* reports it and whoever else asks.
KeepsPromise == Promise!Spec
=============================================================================
