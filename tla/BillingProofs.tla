--------------------------- MODULE BillingProofs ---------------------------
(***************************************************************************)
(* Proofs about Billing, for any users, references, sessions, gateways and *)
(* configured plans.                                                       *)
(***************************************************************************)
EXTENDS Billing, TLAPS

\* What a session knows about the rows of its job, at each of its awaits.
OwnCharge(s) ==
    LET r == sess[s].job.ref
    IN  /\ r \in Refs
        /\ txs[r] # Null
        /\ sess[s].user \in Users
        /\ txs[r].owner = sess[s].user
        /\ charge[r] = "paid"
        /\ sess[s].job.code \in {r, Null}

SessionOK(s) ==
    LET pc == sess[s].pc
        job == sess[s].job
    IN  /\ pc # "idle" => job # Null
        /\ pc = "read_tx" =>
              /\ Applies(job)
              /\ job.ref \in Refs
              /\ job.code \in {job.ref, Null}
              /\ job.kind = "charge" => charge[job.ref] = "paid"
              /\ job.kind = "verify" => sess[s].user \in Users
              /\ sess[s].sub = Null
        /\ (pc = "ask_gateway" \/ (pc = "write" /\ job.kind = "verify")) =>
              /\ job.kind = "verify"
              /\ job.ref \in Refs
              /\ sess[s].user \in Users
              /\ txs[job.ref] # Null
              /\ txs[job.ref].owner = sess[s].user
        /\ (pc \in {"read_sub", "flush", "commit"} /\ Applies(job)) =>
              OwnCharge(s)
        /\ (pc = "read_sub" /\ job.kind = "cancel") => sess[s].user \in Users
        /\ (pc = "read_sub" /\ ~Applies(job) /\ job.kind # "cancel") =>
              job.ref \in Refs
        /\ pc = "ask_cancel" => job.kind = "cancel"
        /\ pc = "write" => job.kind # "charge"
        /\ pc \in {"flush", "commit"} => job.kind \notin {"cancel", "token", "unpaid"}
        /\ (pc \in {"flush", "commit", "write", "ask_cancel"} /\ ~Applies(job)) =>
              /\ sess[s].user \in Users
              /\ sess[s].sub # Null
              /\ job.kind # "cancel" => job.ref \in Refs
        /\ (sess[s].sub # Null /\ sess[s].user \in Users) =>
              subs[sess[s].user] # Null
        /\ pc = "commit" => sess[s].tier \in Tiers

\* The inductive invariant.
Inv ==
    /\ TypeOK
    /\ PaidForTier
    /\ SuccessIsPaid
    /\ CodeIsOwn
    /\ \A s \in Sessions : SessionOK(s)

\* Rows stay, with their owner, provider and tier; payments stay made.
Grows ==
    /\ \A r \in Refs : txs[r] # Null =>
          /\ txs'[r] # Null
          /\ txs'[r].owner = txs[r].owner
          /\ txs'[r].provider = txs[r].provider
          /\ txs'[r].tier = txs[r].tier
    /\ \A r \in Refs : charge[r] = "paid" => charge'[r] = "paid"
    /\ \A u \in Users : subs[u] # Null => subs'[u] # Null

LEMMA Initially == Init => Inv
  BY BillingAssumption
  DEF Init, Inv, TypeOK, PaidForTier, SuccessIsPaid, CodeIsOwn, SessionOK,
      Session, PC, Idle, Fresh, Tiers, TransactionStatus, SubscriptionStatus, OwnCharge

\* What a session knows survives the steps of others.
LEMMA OthersKeep ==
  ASSUME Inv, Grows, NEW s \in Sessions, sess'[s] = sess[s]
  PROVE  SessionOK(s)'
  BY DEF Inv, Grows, SessionOK, OwnCharge

\* A purchase once made is never undone.
LEMMA PaidByGrows ==
  ASSUME Grows, NEW u, NEW tier, PaidBy(u, tier)
  PROVE  PaidBy(u, tier)'
  BY DEF Grows, PaidBy

\* Steps that leave the database alone keep the invariants about its rows.
LEMMA RowsKeep ==
  ASSUME Inv, Grows, UNCHANGED <<subs, userTier>>,
         \A r \in Refs : (txs'[r] # Null /\ txs'[r].status = "success")
                            => charge'[r] = "paid"
  PROVE  (PaidForTier /\ SuccessIsPaid /\ CodeIsOwn)'
  <1>1. PaidForTier'
    BY PaidByGrows DEF Inv, PaidForTier, TypeOK
  <1>2. SuccessIsPaid'
    BY DEF SuccessIsPaid
  <1>3. CodeIsOwn'
    BY BillingAssumption DEF Inv, CodeIsOwn, Grows, TypeOK, Subscription
  <1> QED BY <1>1, <1>2, <1>3

-----------------------------------------------------------------------------
(* Steps that move one session and write no row *)

LEMMA ReadOnlyStep ==
  ASSUME Inv, NEW s \in Sessions,
         sess' \in [Sessions -> Session],
         \A o \in Sessions \ {s} : sess'[o] = sess[o],
         UNCHANGED <<txs, subs, userTier, charge>>,
         plan' \in [Refs -> {"none", "live", "stopping", "ended"}],
         SessionOK(s)'
  PROVE  Inv'
  <1>1. TypeOK'
    BY DEF Inv, TypeOK
  <1>2. Grows
    BY DEF Grows
  <1>3. (PaidForTier /\ SuccessIsPaid /\ CodeIsOwn)'
    BY <1>2, RowsKeep DEF Inv, SuccessIsPaid
  <1>4. ASSUME NEW o \in Sessions PROVE SessionOK(o)'
    <2>1. CASE o = s
      BY <2>1
    <2>2. CASE o # s
      <3>1. sess'[o] = sess[o]
        BY <2>2
      <3> QED BY <3>1, <1>2, OthersKeep
    <2> QED BY <2>1, <2>2
  <1> QED BY <1>1, <1>3, <1>4 DEF Inv

LEMMA IdleIsFine ==
  /\ Idle \in Session
  /\ \A s \in Sessions : sess[s] = Idle => SessionOK(s)
  BY BillingAssumption
  DEF Idle, Fresh, Session, PC, SessionOK, OwnCharge, Tiers

LEMMA FinishKeeps ==
  ASSUME Inv, NEW s \in Sessions, Finish(s),
         UNCHANGED <<txs, subs, userTier, charge, plan>>
  PROVE  Inv'
  <1>1. sess' = [sess EXCEPT ![s] = Idle]
    BY DEF Finish
  <1>2. SessionOK(s)'
    BY <1>1, BillingAssumption DEF Inv, TypeOK, Idle, Fresh, SessionOK, OwnCharge
  <1>3. plan' \in [Refs -> {"none", "live", "stopping", "ended"}]
    BY DEF Inv, TypeOK
  <1>4. /\ sess' \in [Sessions -> Session]
        /\ \A o \in Sessions \ {s} : sess'[o] = sess[o]
    BY <1>1, IdleIsFine DEF Inv, TypeOK
  <1> QED BY <1>2, <1>3, <1>4, ReadOnlyStep

LEMMA EventsAreWebhooks ==
  ASSUME Inv, NEW r \in Refs, NEW e \in Webhooks(r)
  PROVE  /\ e \in Webhook
         /\ e.ref = r
         /\ e.code \in {r, Null}
         /\ e.kind = "charge" => charge[r] = "paid"
  <1>1. CASE charge[r] = "paid" /\ e \in Payloads("charge", r)
    <2> DEFINE codes == IF txs[r].provider = "flutterwave" THEN {r}
                        ELSE IF HasRealRecurringPlan(txs[r].provider, txs[r].tier)
                        THEN {r, Null} ELSE {Null}
    <2>1. e \in [kind : {"charge"}, ref : {r}, code : codes, token : BOOLEAN]
      BY <1>1 DEF Payloads
    <2> QED BY <1>1, <2>1 DEF Webhook
  <1>2. CASE e \in {Event("token", r), Event("unpaid", r), Event("ended", r)}
    <2>1. \A k \in {"token", "unpaid", "ended"} :
             /\ Event(k, r) \in Webhook
             /\ Event(k, r).ref = r
             /\ Event(k, r).code = r
             /\ Event(k, r).kind = k
      BY DEF Event, Webhook
    <2> QED BY <1>2, <2>1
  <1> QED BY <1>1, <1>2 DEF Webhooks

LEMMA CallsAreRequests ==
  /\ \A r \in Refs : Call("verify", r) \in Request /\ Call("verify", r) # Null
  /\ Call("cancel", Null) \in Request /\ Call("cancel", Null) # Null
  <1>1. /\ \A r \in Refs : Call("verify", r) \in Request
        /\ Call("cancel", Null) \in Request
    BY DEF Call, Request
  <1> QED BY <1>1, BillingAssumption

LEMMA BeginWebhookKeeps ==
  ASSUME Inv, NEW s \in Sessions, NEW r \in Refs, NEW e \in Webhooks(r),
         BeginWebhook(s, e)
  PROVE  Inv'
  <1> DEFINE x == Fresh(IF e.kind = "charge" THEN "read_tx" ELSE "read_sub",
                        e, Null, "unread")
  <1>1. x \in Session
    BY EventsAreWebhooks DEF Fresh, Session, PC
  <1>2. sess' = [sess EXCEPT ![s] = x]
    BY DEF BeginWebhook
  <1>3. UNCHANGED <<txs, subs, userTier, charge, plan>>
    BY DEF BeginWebhook, database, gateway
  <1>4. sess'[s] = x
    BY <1>2 DEF Inv, TypeOK
  <1>5. SessionOK(s)'
    BY <1>3, <1>4, EventsAreWebhooks, BillingAssumption
    DEF SessionOK, OwnCharge, Applies, Fresh, Webhook
  <1> HIDE DEF x
  <1> QED BY <1>1, <1>2, <1>3, <1>5, ReadOnlyStep DEF Inv, TypeOK

LEMMA BeginVerifyKeeps ==
  ASSUME Inv, NEW s \in Sessions, NEW u \in Users, NEW r \in Refs,
         BeginVerify(s, u, r)
  PROVE  Inv'
  <1> DEFINE x == Fresh("read_tx", Call("verify", r), u, userTier[u])
  <1>1. x \in Session
    BY DEF Call, Fresh, Session, PC, Request, Inv, TypeOK
  <1>2. sess' = [sess EXCEPT ![s] = x]
    BY DEF BeginVerify
  <1>3. UNCHANGED <<txs, subs, userTier, charge, plan>>
    BY DEF BeginVerify, database, gateway
  <1>4. sess'[s] = x
    BY <1>2 DEF Inv, TypeOK
  <1>5. SessionOK(s)'
    BY <1>3, <1>4, BillingAssumption, CallsAreRequests
    DEF SessionOK, OwnCharge, Applies, Call, Fresh, Session
  <1> HIDE DEF x
  <1> QED BY <1>1, <1>2, <1>3, <1>5, ReadOnlyStep DEF Inv, TypeOK

LEMMA BeginCancelKeeps ==
  ASSUME Inv, NEW s \in Sessions, NEW u \in Users, BeginCancel(s, u)
  PROVE  Inv'
  <1> DEFINE x == Fresh("read_sub", Call("cancel", Null), u, userTier[u])
  <1>1. x \in Session
    BY DEF Call, Fresh, Session, PC, Request, Inv, TypeOK
  <1>2. sess' = [sess EXCEPT ![s] = x]
    BY DEF BeginCancel
  <1>3. UNCHANGED <<txs, subs, userTier, charge, plan>>
    BY DEF BeginCancel, database, gateway
  <1>4. sess'[s] = x
    BY <1>2 DEF Inv, TypeOK
  <1>5. SessionOK(s)'
    BY <1>3, <1>4, BillingAssumption, CallsAreRequests
    DEF SessionOK, OwnCharge, Applies, Call, Fresh, Session
  <1> HIDE DEF x
  <1> QED BY <1>1, <1>2, <1>3, <1>5, ReadOnlyStep DEF Inv, TypeOK

LEMMA ReadTransactionKeeps ==
  ASSUME Inv, NEW s \in Sessions, ReadTransaction(s)
  PROVE  Inv'
  <1> DEFINE job == sess[s].job
             row == txs[job.ref]
             own == row # Null /\ row.owner = sess[s].user
  <1>1. UNCHANGED <<txs, subs, userTier, charge, plan>>
    BY DEF ReadTransaction, database, gateway
  <1>2. /\ sess[s].pc = "read_tx" /\ job.ref \in Refs
        /\ SessionOK(s) /\ sess[s] \in Session /\ sess \in [Sessions -> Session]
        /\ txs \in [Refs -> Transaction \cup {Null}]
        /\ plan \in [Refs -> {"none", "live", "stopping", "ended"}]
    BY DEF ReadTransaction, Inv, SessionOK, TypeOK
  <1>3. CASE Finish(s)
    BY <1>1, <1>3, FinishKeeps
  <1>4. CASE /\ job.kind = "charge" /\ Unapplied(row)
             /\ sess' = [sess EXCEPT ![s].pc = "read_sub",
                             ![s].user = row.owner, ![s].tx = row.status]
    <2>1. row \in Transaction /\ txs[job.ref] # Null
      BY <1>2, <1>4 DEF Unapplied
    <2>2. sess' \in [Sessions -> Session]
      BY <1>2, <1>4, <2>1 DEF Session, PC, Transaction
    <2>3. /\ sess'[s].pc = "read_sub" /\ sess'[s].job = job
          /\ sess'[s].user = row.owner /\ sess'[s].sub = Null
      BY <1>2, <1>4 DEF SessionOK, Session
    <2>4. /\ job # Null /\ job.code \in {job.ref, Null}
          /\ charge[job.ref] = "paid" /\ row.owner \in Users
      BY <1>2, <1>4, <2>1 DEF SessionOK, Transaction, Unapplied
    <2>5. SessionOK(s)'
      BY <1>1, <1>2, <1>4, <2>1, <2>3, <2>4 DEF SessionOK, OwnCharge, Applies
    <2> QED BY <1>1, <1>2, <1>4, <2>2, <2>5, ReadOnlyStep
  <1>5. CASE /\ job.kind = "verify" /\ own
             /\ sess' = [sess EXCEPT ![s].pc = "ask_gateway",
                                     ![s].tx = row.status]
    <2>1. row \in Transaction
      BY <1>2, <1>5
    <2>2. sess' \in [Sessions -> Session]
      BY <1>2, <1>5, <2>1 DEF Session, PC, Transaction
    <2>3. /\ sess'[s].pc = "ask_gateway" /\ sess'[s].job = job
          /\ sess'[s].user = sess[s].user /\ sess'[s].sub = Null
      BY <1>2, <1>5 DEF SessionOK, Session
    <2>4. /\ job # Null /\ sess[s].user \in Users
          /\ txs[job.ref] # Null /\ txs[job.ref].owner = sess[s].user
      BY <1>2, <1>5 DEF SessionOK
    <2>5. SessionOK(s)'
      BY <1>1, <1>2, <1>5, <2>3, <2>4 DEF SessionOK
    <2> QED BY <1>1, <1>2, <1>5, <2>2, <2>5, ReadOnlyStep
  <1> QED BY <1>3, <1>4, <1>5 DEF ReadTransaction

LEMMA AskGatewayKeeps ==
  ASSUME Inv, NEW s \in Sessions, AskGateway(s)
  PROVE  Inv'
  <1> DEFINE r == sess[s].job.ref
  <1>1. UNCHANGED <<txs, subs, userTier, charge, plan>>
    BY DEF AskGateway, database, gateway
  <1>2. /\ sess[s].pc = "ask_gateway" /\ r \in Refs
        /\ SessionOK(s) /\ sess[s] \in Session /\ sess \in [Sessions -> Session]
        /\ plan \in [Refs -> {"none", "live", "stopping", "ended"}]
    BY DEF AskGateway, Inv, SessionOK, TypeOK
  <1>3. CASE Finish(s)
    BY <1>1, <1>3, FinishKeeps
  <1>4. ASSUME charge[r] = "paid", NEW p \in Payloads("verify", r),
               sess' = [sess EXCEPT ![s].pc = "read_sub", ![s].job = p]
        PROVE  Inv'
    <2> DEFINE codes == IF txs[r].provider = "flutterwave" THEN {r}
                        ELSE IF HasRealRecurringPlan(txs[r].provider, txs[r].tier)
                        THEN {r, Null} ELSE {Null}
    <2>1. p \in [kind : {"verify"}, ref : {r}, code : codes, token : BOOLEAN]
      BY DEF Payloads
    <2>2. p \in Request /\ p.ref = r /\ p.code \in {r, Null} /\ p.kind = "verify"
      BY <1>2, <2>1 DEF Request
    <2>3. sess' \in [Sessions -> Session]
      BY <1>2, <1>4, <2>2 DEF Session, PC
    <2>4. p # Null
      BY <2>2, BillingAssumption
    <2>5. /\ sess'[s].pc = "read_sub" /\ sess'[s].job = p
          /\ sess'[s].user = sess[s].user
          /\ sess'[s].sub = sess[s].sub
      BY <1>2, <1>4 DEF Session
    <2>6. /\ sess[s].user \in Users /\ txs[r] # Null
          /\ txs[r].owner = sess[s].user
          /\ sess[s].sub # Null => subs[sess[s].user] # Null
      BY <1>2 DEF SessionOK
    <2> HIDE DEF r
    <2>7. SessionOK(s)'
      BY <1>1, <1>2, <1>4, <2>2, <2>4, <2>5, <2>6
      DEF SessionOK, OwnCharge, Applies
    <2> QED BY <1>1, <1>2, <1>4, <2>3, <2>7, ReadOnlyStep
  <1>5. CASE sess' = [sess EXCEPT ![s].pc = "write"]
    <2>1. sess' \in [Sessions -> Session]
      BY <1>2, <1>5 DEF Session, PC
    <2>2. /\ sess'[s].pc = "write" /\ sess'[s].job = sess[s].job
          /\ sess'[s].user = sess[s].user
          /\ sess'[s].sub = sess[s].sub
      BY <1>2, <1>5 DEF Session
    <2>3. /\ sess[s].job # Null /\ sess[s].job.kind = "verify"
          /\ sess[s].user \in Users /\ txs[r] # Null
          /\ txs[r].owner = sess[s].user
          /\ sess[s].sub # Null => subs[sess[s].user] # Null
      BY <1>2 DEF SessionOK
    <2>4. SessionOK(s)'
      BY <1>1, <1>2, <2>2, <2>3 DEF SessionOK, Applies
    <2> QED BY <1>1, <1>2, <1>5, <2>1, <2>4, ReadOnlyStep
  <1> QED BY <1>3, <1>4, <1>5 DEF AskGateway, Verified

LEMMA ReadSubscriptionKeeps ==
  ASSUME Inv, NEW s \in Sessions, ReadSubscription(s)
  PROVE  Inv'
  <1> DEFINE job == sess[s].job
  <1>1. UNCHANGED <<txs, subs, userTier, charge, plan>>
    BY DEF ReadSubscription, database, gateway
  <1>2. /\ sess[s].pc = "read_sub" /\ job # Null
        /\ SessionOK(s) /\ sess[s] \in Session /\ sess \in [Sessions -> Session]
        /\ subs \in [Users -> Subscription \cup {Null}]
        /\ plan \in [Refs -> {"none", "live", "stopping", "ended"}]
    BY DEF ReadSubscription, Inv, SessionOK, TypeOK
  <1>3. CASE Finish(s)
    BY <1>1, <1>3, FinishKeeps
  <1>4. ASSUME Applies(job),
               sess' = [sess EXCEPT ![s].pc = "flush",
                                    ![s].sub = subs[sess[s].user]]
        PROVE  Inv'
    <2>1. OwnCharge(s)
      BY <1>2, <1>4 DEF SessionOK
    <2>2. sess' \in [Sessions -> Session]
      BY <1>2, <1>4, <2>1 DEF Session, PC, OwnCharge
    <2>3. /\ sess'[s].pc = "flush" /\ sess'[s].job = job
          /\ sess'[s].user = sess[s].user /\ sess'[s].sub = subs[sess[s].user]
      BY <1>2, <1>4 DEF Session
    <2>4. job.kind \in {"charge", "verify"}
      BY <1>4 DEF Applies
    <2>5. SessionOK(s)'
      BY <1>1, <1>2, <2>1, <2>3, <2>4 DEF SessionOK, OwnCharge, Applies
    <2> QED BY <1>1, <1>2, <1>4, <2>2, <2>5, ReadOnlyStep
  <1>5. ASSUME ~Applies(job), NEW u \in Users, subs[u] # Null,
               NEW next \in {"flush", "write", "ask_cancel"},
               next = "flush" => job.kind = "ended",
               next = "ask_cancel" => job.kind = "cancel",
               job.kind = "ended" => next = "flush",
               sess' = [sess EXCEPT ![s].pc = next, ![s].user = u,
                                    ![s].sub = subs[u]]
        PROVE  Inv'
    <2>1. sess' \in [Sessions -> Session]
      <3> DEFINE a == [sess[s] EXCEPT !.pc = next]
                 b == [a EXCEPT !.user = u]
                 c == [b EXCEPT !.sub = subs[u]]
      <3>1. a \in Session
        BY <1>2 DEF Session, PC
      <3>2. sess' = [sess EXCEPT ![s] = c]
        BY <1>2, <1>5
      <3>3. subs[u] \in Subscription \cup {Null}
        BY <1>2
      <3> HIDE DEF a
      <3>4. b \in Session
        BY <3>1 DEF Session
      <3> HIDE DEF b
      <3>5. c \in Session
        BY <3>3, <3>4 DEF Session
      <3> HIDE DEF c
      <3> QED BY <1>2, <3>2, <3>5
    <2>2. /\ sess'[s].pc = next /\ sess'[s].job = job
          /\ sess'[s].user = u /\ sess'[s].sub = subs[u]
      BY <1>2, <1>5 DEF Session
    <2>3. job.kind # "cancel" => job.ref \in Refs
      BY <1>2, <1>5 DEF SessionOK
    <2>4. SessionOK(s)'
      BY <1>1, <1>2, <1>5, <2>2, <2>3 DEF SessionOK, OwnCharge, Applies
    <2> QED BY <1>1, <1>2, <1>5, <2>1, <2>4, ReadOnlyStep
  <1>6. ASSUME ~Applies(job), job.kind # "cancel", NEW u \in Users, subs[u] # Null,
               sess' = [sess EXCEPT
                          ![s].pc = IF job.kind = "ended" THEN "flush" ELSE "write",
                          ![s].user = u, ![s].sub = subs[u]]
        PROVE  Inv'
    <2> DEFINE next == IF job.kind = "ended" THEN "flush" ELSE "write"
    <2> QED BY <1>5, <1>6 DEF Applies
  <1>7. ASSUME job.kind = "cancel", subs[sess[s].user] # Null,
               NEW next \in {"write", "ask_cancel"},
               sess' = [sess EXCEPT ![s].pc = next,
                                    ![s].sub = subs[sess[s].user]]
        PROVE  Inv'
    <2>1. sess[s].user \in Users
      BY <1>2, <1>7 DEF SessionOK
    <2>2. sess' = [sess EXCEPT ![s].pc = next, ![s].user = sess[s].user,
                               ![s].sub = subs[sess[s].user]]
      BY <1>2, <1>7 DEF Session
    <2> QED BY <1>5, <1>7, <2>1, <2>2 DEF Applies
  <1> QED BY <1>3, <1>4, <1>6, <1>7 DEF ReadSubscription

LEMMA AskCancelKeeps ==
  ASSUME Inv, NEW s \in Sessions, AskCancel(s)
  PROVE  Inv'
  <1>1. UNCHANGED <<txs, subs, userTier, charge>>
    BY DEF AskCancel, database
  <1>2. /\ sess[s].pc = "ask_cancel" /\ SessionOK(s)
        /\ sess \in [Sessions -> Session]
        /\ plan \in [Refs -> {"none", "live", "stopping", "ended"}]
    BY DEF AskCancel, Inv, TypeOK
  <1>3. CASE Finish(s) /\ UNCHANGED plan
    BY <1>1, <1>3, FinishKeeps
  <1>4. CASE /\ plan' = [plan EXCEPT ![sess[s].sub.code] =
                             IF @ = "live" THEN "stopping" ELSE @]
             /\ sess' = [sess EXCEPT ![s].pc = "write"]
    <2>1. plan' \in [Refs -> {"none", "live", "stopping", "ended"}]
      BY <1>2, <1>4
    <2>2. sess' \in [Sessions -> Session]
      BY <1>2, <1>4 DEF Session, PC
    <2>3. /\ sess'[s].pc = "write" /\ sess'[s].job = sess[s].job
          /\ sess'[s].user = sess[s].user /\ sess'[s].sub = sess[s].sub
      BY <1>2, <1>4 DEF Session
    <2>4. SessionOK(s)'
      BY <1>1, <1>2, <2>3 DEF SessionOK, OwnCharge, Applies
    <2> QED BY <1>1, <1>2, <1>4, <2>1, <2>2, <2>4, ReadOnlyStep
  <1> QED BY <1>3, <1>4 DEF AskCancel

LEMMA FlushKeeps ==
  ASSUME Inv, NEW s \in Sessions, Flush(s)
  PROVE  Inv'
  <1>1. UNCHANGED <<txs, subs, userTier, charge, plan>>
    BY DEF Flush, database, gateway
  <1>2. /\ sess[s].pc = "flush" /\ SessionOK(s)
        /\ sess \in [Sessions -> Session]
        /\ userTier \in [Users -> Tiers]
        /\ plan \in [Refs -> {"none", "live", "stopping", "ended"}]
    BY DEF Flush, Inv, TypeOK
  <1>3. CASE Finish(s)
    BY <1>1, <1>3, FinishKeeps
  <1>4. ASSUME NEW tier \in Tiers,
               sess' = [sess EXCEPT ![s].pc = "commit", ![s].tier = tier]
        PROVE  Inv'
    <2>2. sess[s].user \in Users
      BY <1>2 DEF SessionOK, OwnCharge
    <2>3. sess' \in [Sessions -> Session]
      <3> DEFINE a == [sess[s] EXCEPT !.pc = "commit"]
                 b == [a EXCEPT !.tier = tier]
      <3>1. a \in Session
        BY <1>2 DEF Session, PC
      <3>2. sess' = [sess EXCEPT ![s] = b]
        BY <1>2, <1>4
      <3> HIDE DEF a
      <3>3. b \in Session
        BY <3>1 DEF Session
      <3> HIDE DEF b
      <3> QED BY <1>2, <3>2, <3>3
    <2>4. /\ sess'[s].pc = "commit" /\ sess'[s].job = sess[s].job
          /\ sess'[s].user = sess[s].user /\ sess'[s].sub = sess[s].sub
          /\ sess'[s].tier = tier
      BY <1>2, <1>4 DEF Session
    <2>5. SessionOK(s)'
      BY <1>1, <1>2, <2>2, <2>4 DEF SessionOK, OwnCharge, Applies
    <2> QED BY <1>1, <1>2, <1>4, <2>3, <2>5, ReadOnlyStep
  <1>5. CASE sess' = [sess EXCEPT ![s].pc = "commit",
                         ![s].tier = IF @ = "unread"
                                     THEN userTier[sess[s].user] ELSE @]
    <2> DEFINE tier == IF sess[s].tier = "unread" THEN userTier[sess[s].user]
                                                 ELSE sess[s].tier
    <2>1. sess' = [sess EXCEPT ![s].pc = "commit", ![s].tier = tier]
      BY <1>5
    <2>2. sess[s].user \in Users
      BY <1>2 DEF SessionOK, OwnCharge
    <2>3. tier \in Tiers
      BY <1>2, <2>2 DEF Session
    <2> QED BY <1>4, <2>1, <2>3
  <1> QED BY <1>3, <1>5 DEF Flush

LEMMA AbortKeeps ==
  ASSUME Inv, NEW s \in Sessions, Abort(s)
  PROVE  Inv'
  BY FinishKeeps DEF Abort, database, gateway

-----------------------------------------------------------------------------
(* Steps of the checkout and of the gateways *)

LEMMA SessionsKeep ==
  ASSUME Inv, Grows, UNCHANGED sess
  PROVE  \A s \in Sessions : SessionOK(s)'
  BY OthersKeep

LEMMA InitiateCheckoutKeeps ==
  ASSUME Inv, NEW u \in Users, NEW tier \in PaidTiers, NEW r \in Refs,
         InitiateCheckout(u, tier, r)
  PROVE  Inv'
  <1>1. PICK g \in Gateways :
           txs' = [txs EXCEPT ![r] = [owner |-> u, provider |-> g,
                                      tier |-> tier, status |-> "pending"]]
    BY DEF InitiateCheckout
  <1> DEFINE row == [owner |-> u, provider |-> g, tier |-> tier,
                     status |-> "pending"]
  <1>2. txs[r] = Null /\ UNCHANGED <<subs, userTier, charge, plan, sess>>
    BY DEF InitiateCheckout, gateway
  <1>3. row \in Transaction /\ row # Null /\ row.status = "pending"
    <2>1. row \in Transaction
      BY DEF Transaction, TransactionStatus
    <2> QED BY <2>1, BillingAssumption
  <1> HIDE DEF row
  <1>4. txs' = [txs EXCEPT ![r] = row]
    BY <1>1 DEF row
  <1>5. TypeOK'
    BY <1>2, <1>3, <1>4 DEF Inv, TypeOK
  <1>6. Grows
    BY <1>2, <1>3, <1>4 DEF Inv, TypeOK, Grows
  <1>7. \A q \in Refs : (txs'[q] # Null /\ txs'[q].status = "success")
                            => charge'[q] = "paid"
    BY <1>2, <1>3, <1>4 DEF Inv, TypeOK, SuccessIsPaid
  <1> QED BY <1>2, <1>5, <1>6, <1>7, RowsKeep, SessionsKeep DEF Inv

LEMMA ChargeSucceedsKeeps ==
  ASSUME Inv, NEW r \in Refs, ChargeSucceeds(r)
  PROVE  Inv'
  <1>1. TypeOK'
    BY DEF ChargeSucceeds, database, Inv, TypeOK
  <1>2. Grows
    BY DEF ChargeSucceeds, database, Inv, TypeOK, Grows
  <1>3. \A q \in Refs : (txs'[q] # Null /\ txs'[q].status = "success")
                            => charge'[q] = "paid"
    BY DEF ChargeSucceeds, database, Inv, TypeOK, SuccessIsPaid
  <1>4. UNCHANGED <<subs, userTier, sess>>
    BY DEF ChargeSucceeds, database
  <1> QED BY <1>1, <1>2, <1>3, <1>4, RowsKeep, SessionsKeep DEF Inv

LEMMA PlanEndsKeeps ==
  ASSUME Inv, NEW r \in Refs, PlanEnds(r)
  PROVE  Inv'
  <1>1. TypeOK'
    BY DEF PlanEnds, database, Inv, TypeOK
  <1>2. Grows /\ UNCHANGED <<txs, subs, userTier, charge, sess>>
    BY DEF PlanEnds, database, Grows
  <1>3. \A q \in Refs : (txs'[q] # Null /\ txs'[q].status = "success")
                            => charge'[q] = "paid"
    BY <1>2 DEF Inv, SuccessIsPaid
  <1> QED BY <1>1, <1>2, <1>3, RowsKeep, SessionsKeep DEF Inv

-----------------------------------------------------------------------------
(* Steps that write rows *)

\* A session whose next step writes its subscription row.
Writing(s) ==
    \/ sess[s].pc = "commit"
    \/ sess[s].pc = "write" /\ sess[s].job.kind # "verify"

Owned(u, r) == /\ r \in Refs
               /\ txs[r] # Null
               /\ txs[r].owner = u
               /\ charge[r] = "paid"

\* The row in memory: its columns are either those loaded or justified by
\* the charge being applied.
LEMMA WantedRow ==
  ASSUME Inv, NEW s \in Sessions, Writing(s)
  PROVE  LET job == sess[s].job
             old == sess[s].sub
             new == Wanted(s)
         IN  /\ new \in Subscription
             /\ old = Null => Applies(job)
             /\ \/ new.tier = "free"
                \/ old # Null /\ new.tier = old.tier
                \/ Applies(job) /\ new.tier = txs[job.ref].tier
             /\ \/ new.code = Null /\ old = Null
                \/ old # Null /\ new.code = old.code
                \/ Applies(job) /\ new.code = job.ref
  <1> DEFINE job == sess[s].job
             old == sess[s].sub
  <1>1. /\ SessionOK(s) /\ sess[s] \in Session /\ job # Null
        /\ txs \in [Refs -> Transaction \cup {Null}]
    BY DEF Inv, TypeOK, SessionOK, Writing
  <1>2. /\ job \in Webhook \cup Request
        /\ old \in Subscription \cup {Null}
    BY <1>1 DEF Session
  <1>3. CASE Applies(job)
    <2>1. OwnCharge(s)
      BY <1>1, <1>3 DEF SessionOK, Writing, Applies
    <2>2. txs[job.ref] \in Transaction /\ job.ref \in Refs
      BY <1>1, <2>1 DEF OwnCharge
    <2>3. Wanted(s) = Granted(s, job.ref)
      BY <1>3 DEF Wanted, Applies
    <2> DEFINE row == txs[job.ref]
               code == IF job.code # Null \/ old = Null THEN job.code
                       ELSE old.code
               token == IF job.token THEN job.code
                        ELSE IF old = Null THEN Null ELSE old.token
    <2>4. job.code \in {job.ref, Null}
      BY <2>1 DEF OwnCharge
    <2>5. /\ code \in Refs \cup {Null}
          /\ \/ code = job.ref
             \/ old # Null /\ code = old.code
             \/ old = Null /\ code = Null
      BY <1>2, <2>2, <2>4 DEF Subscription
    <2>6. token \in Refs \cup {Null}
      BY <1>2, <2>2, <2>4 DEF Subscription
    <2>7. row.provider \in Gateways /\ row.tier \in Tiers
      BY <2>2 DEF Transaction, Tiers
    <2>8. Granted(s, job.ref) =
            [provider |-> row.provider, tier |-> row.tier, status |-> "active",
             code |-> code, token |-> token, cancelAtEnd |-> FALSE]
      BY DEF Granted, GrantedTier
    <2> HIDE DEF code, token
    <2>9. Granted(s, job.ref) \in Subscription
      BY <2>5, <2>6, <2>7, <2>8 DEF Subscription, SubscriptionStatus
    <2> QED BY <1>3, <2>3, <2>5, <2>8, <2>9
  <1>4. CASE ~Applies(job)
    <2>1. old \in Subscription
      BY <1>1, <1>2, <1>4 DEF SessionOK, Writing
    <2>2. job.kind \in {"ended", "token", "unpaid", "cancel"}
      BY <1>2, <1>4 DEF Webhook, Request, Applies
    <2>3. job.kind = "token" => job.ref \in Refs
      BY <1>1, <1>4 DEF SessionOK, Writing
    <2>4. Downgraded(s) \in Subscription /\ Downgraded(s).tier = "free"
          /\ Downgraded(s).code = old.code
      BY <2>1 DEF Downgraded, Subscription, SubscriptionStatus, Tiers
    <2>5. CASE job.kind = "ended"
      BY <1>4, <2>1, <2>4, <2>5, BillingAssumption DEF Wanted
    <2>6. CASE job.kind = "token"
      <3>1. Wanted(s) = [old EXCEPT !.token = job.ref]
        BY <1>4, <2>6 DEF Wanted
      <3>2. /\ Wanted(s) \in Subscription
            /\ Wanted(s).tier = old.tier /\ Wanted(s).code = old.code
        BY <3>1, <2>1, <2>3, <2>6 DEF Subscription
      <3> QED BY <1>4, <2>1, <3>2, BillingAssumption
    <2>7. CASE job.kind = "unpaid"
      <3>1. Wanted(s) = [old EXCEPT !.status = "past_due"]
        BY <1>4, <2>7 DEF Wanted
      <3>2. /\ Wanted(s) \in Subscription
            /\ Wanted(s).tier = old.tier /\ Wanted(s).code = old.code
        BY <3>1, <2>1 DEF Subscription, SubscriptionStatus
      <3> QED BY <1>4, <2>1, <3>2, BillingAssumption
    <2>8. CASE job.kind = "cancel" /\ ~HasRealRecurringPlan(old.provider, old.tier)
      <3>1. Wanted(s) = Downgraded(s)
        BY <1>4, <2>8 DEF Wanted
      <3> QED BY <1>4, <2>1, <2>4, <3>1, BillingAssumption
    <2>9. CASE job.kind = "cancel" /\ HasRealRecurringPlan(old.provider, old.tier)
      <3>1. Wanted(s) = [old EXCEPT !.cancelAtEnd = TRUE]
        BY <1>4, <2>9 DEF Wanted
      <3>2. /\ Wanted(s) \in Subscription
            /\ Wanted(s).tier = old.tier /\ Wanted(s).code = old.code
        BY <3>1, <2>1 DEF Subscription
      <3> QED BY <1>4, <2>1, <3>2, BillingAssumption
    <2> QED BY <2>2, <2>5, <2>6, <2>7, <2>8, <2>9
  <1> QED BY <1>3, <1>4

\* The row after the write-back, whatever happened to it since it was read.
LEMMA StoredRow ==
  ASSUME Inv, NEW s \in Sessions, Writing(s)
  PROVE  LET u == sess[s].user
         IN  /\ u \in Users
             /\ Stored(s) \in Subscription
             /\ Stored(s).tier # "free" => PaidBy(u, Stored(s).tier)
             /\ Stored(s).code # Null => Owned(u, Stored(s).code)
  <1> DEFINE job == sess[s].job
             old == sess[s].sub
             u == sess[s].user
             new == Wanted(s)
  <1>1. /\ SessionOK(s) /\ sess[s] \in Session
        /\ subs \in [Users -> Subscription \cup {Null}]
    BY DEF Inv, TypeOK
  <1>2. old \in Subscription \cup {Null}
    BY <1>1 DEF Session
  <1>3. /\ Applies(job) => OwnCharge(s)
        /\ u \in Users
    BY <1>1 DEF SessionOK, OwnCharge, Writing, Applies
  <1>4. Applies(job) => Owned(u, job.ref) /\ PaidBy(u, txs[job.ref].tier)
    BY <1>3 DEF OwnCharge, Owned, PaidBy
  <1>5. /\ new \in Subscription
        /\ old = Null => Applies(job)
        /\ \/ new.tier = "free"
           \/ old # Null /\ new.tier = old.tier
           \/ Applies(job) /\ new.tier = txs[job.ref].tier
        /\ \/ new.code = Null /\ old = Null
           \/ old # Null /\ new.code = old.code
           \/ Applies(job) /\ new.code = job.ref
    BY WantedRow
  <1> HIDE DEF new, u, job, old
  <1>6. CASE old = Null
    <2>1. Stored(s) = new
      BY <1>6 DEF Stored, new, old
    <2> QED BY <1>3, <1>4, <1>5, <1>6, <2>1 DEF u
  <1>7. CASE old # Null
    <2>1. subs[u] \in Subscription /\ old \in Subscription
      BY <1>1, <1>2, <1>3, <1>7 DEF SessionOK, u, old
    <2>2. Stored(s) = WriteBackSub(subs[u], old, new)
      BY <1>7 DEF Stored, u, old, new
    <2>3. Stored(s) \in Subscription
      BY <1>5, <2>1, <2>2 DEF WriteBackSub, WriteBack, Subscription
    <2>4. /\ Stored(s).tier = WriteBack(subs[u].tier, old.tier, new.tier)
          /\ Stored(s).code = WriteBack(subs[u].code, old.code, new.code)
      BY <2>2 DEF WriteBackSub
    <2>5. /\ subs[u].tier # "free" => PaidBy(u, subs[u].tier)
          /\ subs[u].code # Null => Owned(u, subs[u].code)
      BY <1>3, <2>1, BillingAssumption
      DEF Inv, PaidForTier, CodeIsOwn, Owned, Subscription
    <2>6. Stored(s).tier # "free" => PaidBy(u, Stored(s).tier)
      BY <1>4, <1>5, <2>4, <2>5 DEF WriteBack
    <2>7. Stored(s).code # Null => Owned(u, Stored(s).code)
      BY <1>4, <1>5, <1>7, <2>4, <2>5 DEF WriteBack
    <2> QED BY <1>3, <2>3, <2>6, <2>7 DEF u
  <1> QED BY <1>6, <1>7

\* The same two facts after a step.
PaidNext(u, tier) == \E r \in Refs : /\ charge'[r] = "paid"
                                    /\ txs'[r] # Null
                                    /\ txs'[r].owner = u
                                    /\ txs'[r].tier = tier
OwnedNext(u, r) == /\ r \in Refs
                   /\ txs'[r] # Null
                   /\ txs'[r].owner = u
                   /\ charge'[r] = "paid"

\* A step that stores the session's row, and possibly its user's tier and its
\* transaction's status, and ends the session.
LEMMA StoringStep ==
  ASSUME Inv, NEW s \in Sessions, Writing(s),
         StoreSubscription(s), Finish(s), UNCHANGED <<charge, plan>>,
         txs' \in [Refs -> Transaction \cup {Null}],
         \A r \in Refs : txs[r] # Null =>
            /\ txs'[r] # Null
            /\ txs'[r].owner = txs[r].owner
            /\ txs'[r].provider = txs[r].provider
            /\ txs'[r].tier = txs[r].tier,
         \A r \in Refs : (txs'[r] # Null /\ txs'[r].status = "success")
                            => charge[r] = "paid",
         userTier' \in [Users -> Tiers],
         \A u \in Users : \/ userTier'[u] = userTier[u]
                          \/ userTier'[u] = "free"
                          \/ PaidBy(u, userTier'[u])
  PROVE  Inv'
  <1> DEFINE u == sess[s].user
             new == Stored(s)
  <1>1. /\ u \in Users
        /\ new \in Subscription
        /\ new.tier # "free" => PaidBy(u, new.tier)
        /\ new.code # Null => Owned(u, new.code)
    BY StoredRow
  <1>2. subs' = [subs EXCEPT ![u] = new]
    BY DEF StoreSubscription
  <1> HIDE DEF u, new
  <1>3. subs' \in [Users -> Subscription \cup {Null}]
    BY <1>1, <1>2 DEF Inv, TypeOK
  <1>4. sess' = [sess EXCEPT ![s] = Idle]
    BY DEF Finish
  <1>5. TypeOK'
    BY <1>3, <1>4, IdleIsFine DEF Inv, TypeOK
  <1>6. Grows
    BY <1>1, <1>2, BillingAssumption DEF Grows, Inv, TypeOK
  <1>7. PaidForTier'
    <2> SUFFICES ASSUME NEW v \in Users
                 PROVE  /\ userTier'[v] # "free" => PaidNext(v, userTier'[v])
                        /\ (subs'[v] # Null /\ subs'[v].tier # "free")
                              => PaidNext(v, subs'[v].tier)
      BY DEF PaidForTier, PaidBy, PaidNext
    <2>1. userTier'[v] # "free" => PaidBy(v, userTier'[v])
      BY DEF Inv, PaidForTier
    <2>2. (subs'[v] # Null /\ subs'[v].tier # "free")
              => PaidBy(v, subs'[v].tier)
      BY <1>1, <1>2 DEF Inv, PaidForTier, TypeOK
    <2> QED BY <1>6, <2>1, <2>2 DEF Grows, PaidBy, PaidNext
  <1>8. CodeIsOwn'
    <2> SUFFICES ASSUME NEW v \in Users, subs'[v] # Null, subs'[v].code # Null
                 PROVE  OwnedNext(v, subs'[v].code)
      <3>1. \A v \in Users : (subs'[v] # Null /\ subs'[v].code # Null)
                  => subs'[v].code \in Refs
        BY <1>3 DEF Subscription
      <3> QED BY <3>1 DEF CodeIsOwn, OwnedNext
    <2>1. Owned(v, subs'[v].code)
      <3>1. CASE v = u
        BY <1>1, <1>2, <3>1 DEF Inv, TypeOK
      <3>2. CASE v # u
        BY <1>1, <1>2, <3>2, BillingAssumption
        DEF Inv, TypeOK, CodeIsOwn, Owned, Subscription
      <3> QED BY <3>1, <3>2
    <2> QED BY <1>6, <2>1 DEF Owned, OwnedNext, Grows
  <1>9. ASSUME NEW o \in Sessions PROVE SessionOK(o)'
    <2>1. CASE o = s
      <3>1. sess'[s] = Idle
        BY <1>4 DEF Inv, TypeOK
      <3> QED BY <2>1, <3>1, BillingAssumption
          DEF Idle, Fresh, SessionOK, OwnCharge
    <2>2. CASE o # s
      BY <1>4, <1>6, <2>2, OthersKeep DEF Inv, TypeOK
    <2> QED BY <2>1, <2>2
  <1> QED BY <1>5, <1>7, <1>8, <1>9 DEF Inv, SuccessIsPaid

LEMMA CommitKeeps ==
  ASSUME Inv, NEW s \in Sessions, Commit(s)
  PROVE  Inv'
  <1> DEFINE job == sess[s].job
             u == sess[s].user
             granted == IF Applies(job) THEN txs[job.ref].tier ELSE "free"
  <1>1. /\ sess[s].pc = "commit" /\ SessionOK(s) /\ sess[s] \in Session
        /\ StoreSubscription(s) /\ Finish(s) /\ UNCHANGED <<charge, plan>>
        /\ StoreTier(s, granted)
        /\ txs' = IF Applies(job)
                  THEN [txs EXCEPT ![job.ref].status = "success"] ELSE txs
        /\ txs \in [Refs -> Transaction \cup {Null}]
        /\ userTier \in [Users -> Tiers]
    BY DEF Commit, GrantedTier, gateway, Inv, TypeOK
  <1>2. /\ Applies(job) => OwnCharge(s)
        /\ u \in Users
    BY <1>1 DEF SessionOK, OwnCharge
  <1>3. Applies(job) => /\ job.ref \in Refs /\ charge[job.ref] = "paid"
                        /\ txs[job.ref] \in Transaction
                        /\ PaidBy(u, txs[job.ref].tier)
    BY <1>1, <1>2 DEF OwnCharge, PaidBy
  <1>4. txs' \in [Refs -> Transaction \cup {Null}]
    BY <1>1, <1>3 DEF Transaction, TransactionStatus
  <1>5. \A r \in Refs : txs[r] # Null =>
            /\ txs'[r] # Null
            /\ txs'[r].owner = txs[r].owner
            /\ txs'[r].provider = txs[r].provider
            /\ txs'[r].tier = txs[r].tier
    <2>1. CASE Applies(job)
      <3> SUFFICES ASSUME NEW r \in Refs, txs[r] # Null
                   PROVE  /\ txs'[r] # Null
                          /\ txs'[r].owner = txs[r].owner
                          /\ txs'[r].provider = txs[r].provider
                          /\ txs'[r].tier = txs[r].tier
        OBVIOUS
      <3>1. CASE r = job.ref
        <4>1. txs'[r] = [txs[r] EXCEPT !.status = "success"]
          BY <1>1, <2>1, <3>1
        <4>2. txs'[r] \in Transaction
          BY <1>3, <2>1, <3>1, <4>1 DEF Transaction, TransactionStatus
        <4>3. txs'[r] # Null
          BY <4>2, BillingAssumption
        <4> QED BY <1>3, <2>1, <3>1, <4>1, <4>3 DEF Transaction
      <3>2. CASE r # job.ref
        BY <1>1, <2>1, <3>2
      <3> QED BY <3>1, <3>2
    <2>2. CASE ~Applies(job)
      BY <1>1, <2>2
    <2> QED BY <2>1, <2>2
  <1>6. \A r \in Refs : (txs'[r] # Null /\ txs'[r].status = "success")
                            => charge[r] = "paid"
    BY <1>1, <1>3 DEF Inv, SuccessIsPaid
  <1>7. granted \in Tiers /\ (granted = "free" \/ PaidBy(u, granted))
    BY <1>3 DEF Transaction, Tiers
  <1>8. userTier' = [userTier EXCEPT ![u] = WriteBack(@, sess[s].tier, granted)]
    BY <1>1 DEF StoreTier
  <1> HIDE DEF granted, u, job
  <1>9. /\ userTier' \in [Users -> Tiers]
        /\ \A v \in Users : \/ userTier'[v] = userTier[v]
                            \/ userTier'[v] = "free"
                            \/ PaidBy(v, userTier'[v])
    BY <1>1, <1>2, <1>7, <1>8 DEF WriteBack
  <1> QED BY <1>1, <1>4, <1>5, <1>6, <1>9, StoringStep DEF Writing

LEMMA WriteSubscriptionKeeps ==
  ASSUME Inv, NEW s \in Sessions, WriteSubscription(s)
  PROVE  Inv'
  <1> DEFINE u == sess[s].user
  <1>1. /\ Writing(s) /\ StoreSubscription(s) /\ Finish(s)
        /\ UNCHANGED <<txs, charge, plan>>
        /\ StoreTier(s, "free") \/ UNCHANGED userTier
        /\ userTier \in [Users -> Tiers]
        /\ txs \in [Refs -> Transaction \cup {Null}]
    BY DEF WriteSubscription, Writing, gateway, Inv, TypeOK
  <1>2. u \in Users
    BY <1>1, StoredRow
  <1>3. /\ userTier' \in [Users -> Tiers]
        /\ \A v \in Users : userTier'[v] = userTier[v] \/ userTier'[v] = "free"
    BY <1>1, <1>2 DEF StoreTier, WriteBack, Tiers
  <1>4. \A r \in Refs : (txs'[r] # Null /\ txs'[r].status = "success")
                            => charge[r] = "paid"
    BY <1>1 DEF Inv, SuccessIsPaid
  <1> QED BY <1>1, <1>3, <1>4, StoringStep

LEMMA WriteFailedKeeps ==
  ASSUME Inv, NEW s \in Sessions, WriteFailed(s)
  PROVE  Inv'
  <1> DEFINE r == sess[s].job.ref
  <1>1. /\ SessionOK(s) /\ sess[s].pc = "write" /\ sess[s].job.kind = "verify"
        /\ txs' = [txs EXCEPT ![r].status = "failed"]
        /\ sess' = [sess EXCEPT ![s] = Idle]
        /\ UNCHANGED <<subs, userTier, charge, plan>>
        /\ txs \in [Refs -> Transaction \cup {Null}]
        /\ sess \in [Sessions -> Session]
    BY DEF WriteFailed, Finish, gateway, Inv, TypeOK
  <1>2. r \in Refs /\ txs[r] \in Transaction
    BY <1>1 DEF SessionOK
  <1> HIDE DEF r
  <1>3. txs'[r] = [txs[r] EXCEPT !.status = "failed"]
    BY <1>1, <1>2
  <1>4. txs'[r] \in Transaction /\ txs'[r].status = "failed"
    BY <1>2, <1>3 DEF Transaction, TransactionStatus
  <1>5. txs'[r] # Null
    BY <1>4, BillingAssumption
  <1>6. Grows
    BY <1>1, <1>2, <1>3, <1>5 DEF Grows, Transaction
  <1>7. TypeOK'
    BY <1>1, <1>2, <1>4, IdleIsFine DEF Inv, TypeOK
  <1>8. \A q \in Refs : (txs'[q] # Null /\ txs'[q].status = "success")
                            => charge'[q] = "paid"
    BY <1>1, <1>2, <1>4 DEF Inv, SuccessIsPaid
  <1>9. ASSUME NEW o \in Sessions PROVE SessionOK(o)'
    <2>1. CASE o = s
      <3>1. sess'[s] = Idle
        BY <1>1
      <3> QED BY <2>1, <3>1, BillingAssumption
          DEF Idle, Fresh, SessionOK, OwnCharge
    <2>2. CASE o # s
      BY <1>1, <1>6, <2>2, OthersKeep
    <2> QED BY <2>1, <2>2
  <1> QED BY <1>1, <1>6, <1>7, <1>8, <1>9, RowsKeep DEF Inv

-----------------------------------------------------------------------------
(* The theorems *)

LEMMA NextKeeps == Inv /\ [Next]_vars => Inv'
  <1> SUFFICES ASSUME Inv, [Next]_vars PROVE Inv'
    OBVIOUS
  <1>1. ASSUME NEW u \in Users, NEW tier \in PaidTiers, NEW r \in Refs,
               InitiateCheckout(u, tier, r)
        PROVE  Inv'
    BY <1>1, InitiateCheckoutKeeps
  <1>2. CASE Gateway
    BY <1>2, ChargeSucceedsKeeps, PlanEndsKeeps DEF Gateway
  <1>3. ASSUME NEW s \in Sessions, Begin(s) PROVE Inv'
    BY <1>3, BeginWebhookKeeps, BeginVerifyKeeps, BeginCancelKeeps DEF Begin
  <1>4. ASSUME NEW s \in Sessions, Step(s) PROVE Inv'
    BY <1>4, ReadTransactionKeeps, AskGatewayKeeps, ReadSubscriptionKeeps,
       AskCancelKeeps, FlushKeeps, CommitKeeps, WriteFailedKeeps,
       WriteSubscriptionKeeps
    DEF Step
  <1>5. ASSUME NEW s \in Sessions, Abort(s) PROVE Inv'
    BY <1>5, AbortKeeps
  <1>6. CASE UNCHANGED vars
    <2>1. TypeOK' /\ PaidForTier' /\ SuccessIsPaid' /\ CodeIsOwn'
      BY <1>6 DEF vars, Inv, TypeOK, PaidForTier, PaidBy, SuccessIsPaid, CodeIsOwn
    <2>2. Grows
      BY <1>6 DEF vars, Grows
    <2>3. \A s \in Sessions : SessionOK(s)'
      BY <1>6, <2>2, OthersKeep DEF vars
    <2> QED BY <2>1, <2>3 DEF Inv
  <1> QED BY <1>1, <1>2, <1>3, <1>4, <1>5, <1>6 DEF Next, Reliable

LEMMA SpecInv == Spec => []Inv
  <1> QED BY Initially, NextKeeps, PTL DEF Spec

\* The variables keep their types: in particular no interleaving of write-backs
\* leaves a subscription row with a missing or foreign column value.
THEOREM TypeCorrect == Spec => []TypeOK
  <1>1. Inv => TypeOK
    BY DEF Inv
  <1> QED BY <1>1, SpecInv, PTL

\* Whatever the number of concurrent requests and webhook tasks, crashes and
\* redeliveries, nobody holds a tier that no paid checkout of theirs bought.
THEOREM NoTierWithoutPayment == Spec => []PaidForTier
  <1>1. Inv => PaidForTier
    BY DEF Inv
  <1> QED BY <1>1, SpecInv, PTL

\* A transaction is recorded as successful only after the gateway was paid.
THEOREM NoSuccessWithoutPayment == Spec => []SuccessIsPaid
  <1>1. Inv => SuccessIsPaid
    BY DEF Inv
  <1> QED BY <1>1, SpecInv, PTL

\* A subscription row carries only codes of its own user's paid checkouts.
THEOREM CodesAreOwn == Spec => []CodeIsOwn
  <1>1. Inv => CodeIsOwn
    BY DEF Inv
  <1> QED BY <1>1, SpecInv, PTL

-----------------------------------------------------------------------------
(* One session per user.  The races that MCBillingRace exhibits need two   *)
(* sessions that work for one user at the same time.  Without them, what   *)
(* a session has loaded is what the database still holds when it commits.  *)

OnePerUser ==
    \A s, o \in Sessions :
        (s # o /\ sess[s].user # Null) => sess[s].user # sess[o].user

\* The sessions whose subscription was read.
HasRead(s) ==
    \/ sess[s].pc \in {"flush", "commit", "ask_cancel"}
    \/ sess[s].pc = "write" /\ sess[s].job.kind # "verify"

\* What a session has loaded is current; a charge it goes on applying had not
\* been applied.
Current(s) ==
    LET pc == sess[s].pc
        job == sess[s].job
        u == sess[s].user
    IN  /\ sess[s].tier # "unread" => u \in Users /\ sess[s].tier = userTier[u]
        /\ sess[s].tx # "unread" =>
              /\ pc \in {"ask_gateway", "read_sub", "flush", "commit", "write"}
              /\ Applies(job)
              /\ sess[s].tx = txs[job.ref].status
        /\ pc = "ask_gateway" => sess[s].tx # "unread"
        /\ (pc # "idle" /\ job.kind = "cancel") => sess[s].tier # "unread"
        /\ (pc \in {"read_tx", "read_sub"} /\ job.kind \notin {"verify", "cancel"})
              => sess[s].tier = "unread"
        /\ HasRead(s) => sess[s].sub = subs[u]
        /\ pc = "write" => job.kind # "ended"
        /\ (pc = "write" /\ job.kind = "verify") => sess[s].tx = "pending"
        /\ (pc \in {"read_sub", "flush", "commit"} /\ Applies(job)) =>
              sess[s].tx \in {"pending", "failed"}

\* The inductive invariant of behaviours with one session per user.
Serial ==
    /\ Inv
    /\ TierInSync
    /\ StatusMatchesTier
    /\ \A r \in Refs : charge[r] = "paid" => txs[r] # Null
    /\ \A s \in Sessions : Current(s)

LEMMA SerialInitially == Init => Serial
  BY Initially, BillingAssumption
  DEF Init, Serial, TierInSync, StatusMatchesTier, Current, HasRead, Idle, Fresh

\* A step that leaves a session and the rows it loaded alone.
LEMMA Undisturbed ==
  ASSUME Inv, NEW o \in Sessions, Current(o), sess'[o] = sess[o],
         sess[o].user \in Users => /\ subs'[sess[o].user] = subs[sess[o].user]
                                   /\ userTier'[sess[o].user]
                                         = userTier[sess[o].user],
         \A r \in Refs : (txs[r] # Null /\ txs[r].owner = sess[o].user)
                            => txs'[r] = txs[r]
  PROVE  Current(o)'
  <1>1. SessionOK(o)
    BY DEF Inv
  <1>2. sess[o].tx # "unread" =>
           /\ sess[o].job.ref \in Refs /\ txs[sess[o].job.ref] # Null
           /\ txs[sess[o].job.ref].owner = sess[o].user
    BY <1>1 DEF SessionOK, OwnCharge, Current, Applies
  <1>3. HasRead(o) => sess[o].user \in Users
    BY <1>1 DEF SessionOK, OwnCharge, Applies, HasRead
  <1> QED BY <1>2, <1>3 DEF Current, HasRead

\* A step of session s that reads.
LEMMA SerialReadStep ==
  ASSUME Serial, Inv', NEW s \in Sessions,
         \A o \in Sessions \ {s} : sess'[o] = sess[o],
         UNCHANGED <<txs, subs, userTier, charge>>, Current(s)'
  PROVE  Serial'
  <1>1. TierInSync' /\ StatusMatchesTier'
    BY DEF Serial, TierInSync, StatusMatchesTier
  <1>2. \A o \in Sessions : Current(o)'
    BY Undisturbed DEF Serial
  <1> QED BY <1>1, <1>2 DEF Serial

LEMMA SerialFinish ==
  ASSUME Serial, Inv', NEW s \in Sessions, Finish(s),
         UNCHANGED <<txs, subs, userTier, charge>>
  PROVE  Serial'
  <1>1. /\ sess'[s] = Idle
        /\ \A o \in Sessions \ {s} : sess'[o] = sess[o]
    BY DEF Finish, Serial, Inv, TypeOK
  <1>2. Current(s)'
    BY <1>1 DEF Current, HasRead, Idle, Fresh
  <1> QED BY <1>1, <1>2, SerialReadStep

LEMMA SerialBegin ==
  ASSUME Serial, Inv', NEW s \in Sessions, Begin(s)
  PROVE  Serial'
  <1>1. /\ sess \in [Sessions -> Session] /\ userTier \in [Users -> Tiers]
        /\ UNCHANGED <<txs, subs, userTier, charge>>
        /\ \A t \in Tiers : t # "unread"
    BY DEF Begin, BeginWebhook, BeginVerify, BeginCancel, database, gateway,
       Serial, Inv, TypeOK, Tiers, PaidTiers
  <1>2. ASSUME NEW r \in Refs, NEW e \in Webhooks(r), BeginWebhook(s, e)
        PROVE  Serial'
    <2>1. e.kind # "cancel"
      BY <1>2, EventsAreWebhooks DEF Serial, Webhook
    <2>2. sess' = [sess EXCEPT ![s] =
                      Fresh(IF e.kind = "charge" THEN "read_tx" ELSE "read_sub",
                            e, Null, "unread")]
      BY <1>2 DEF BeginWebhook
    <2>3. e.kind # "verify"
      BY <1>2, EventsAreWebhooks DEF Serial, Webhook
    <2>4. Current(s)'
      BY <1>1, <2>1, <2>2, <2>3 DEF Current, HasRead, Fresh, Applies
    <2> QED BY <1>1, <2>2, <2>4, SerialReadStep
  <1>3. ASSUME NEW u \in Users, NEW r \in Refs, BeginVerify(s, u, r)
        PROVE  Serial'
    <2>1. sess' = [sess EXCEPT ![s] =
                      Fresh("read_tx", Call("verify", r), u, userTier[u])]
      BY <1>3 DEF BeginVerify
    <2>2. Current(s)'
      BY <1>1, <2>1 DEF Current, HasRead, Fresh, Call
    <2> QED BY <1>1, <2>1, <2>2, SerialReadStep
  <1>4. ASSUME NEW u \in Users, BeginCancel(s, u)
        PROVE  Serial'
    <2>1. sess' = [sess EXCEPT ![s] =
                      Fresh("read_sub", Call("cancel", Null), u, userTier[u])]
      BY <1>4 DEF BeginCancel
    <2>2. Current(s)'
      BY <1>1, <2>1 DEF Current, HasRead, Fresh, Call, Applies
    <2> QED BY <1>1, <2>1, <2>2, SerialReadStep
  <1> QED BY <1>2, <1>3, <1>4 DEF Begin

LEMMA SerialReadTransaction ==
  ASSUME Serial, Inv', NEW s \in Sessions, ReadTransaction(s)
  PROVE  Serial'
  <1> DEFINE job == sess[s].job
             row == txs[job.ref]
  <1>1. /\ sess[s].pc = "read_tx" /\ job.ref \in Refs /\ SessionOK(s)
        /\ sess \in [Sessions -> Session] /\ sess[s] \in Session
        /\ txs \in [Refs -> Transaction \cup {Null}]
        /\ UNCHANGED <<txs, subs, userTier, charge>>
        /\ Current(s)
    BY DEF ReadTransaction, database, gateway, Serial, Inv, SessionOK, TypeOK
  <1>2. CASE Finish(s)
    BY <1>1, <1>2, SerialFinish
  <1>3. CASE /\ job.kind = "charge" /\ Unapplied(row)
             /\ sess' = [sess EXCEPT ![s].pc = "read_sub",
                             ![s].user = row.owner, ![s].tx = row.status]
    <2>1. row \in Transaction /\ row.status \in {"pending", "failed"}
      BY <1>1, <1>3 DEF Unapplied, Transaction, TransactionStatus
    <2>2. /\ sess'[s].pc = "read_sub" /\ sess'[s].job = job
          /\ sess'[s].tx = row.status /\ sess'[s].tier = sess[s].tier
          /\ sess'[s].user = row.owner
          /\ \A o \in Sessions \ {s} : sess'[o] = sess[o]
      BY <1>1, <1>3 DEF Session
    <2>3. sess[s].tier = "unread" /\ txs' = txs /\ job.kind = "charge"
      BY <1>1, <1>3 DEF Current
    <2>4. Current(s)'
      BY <2>1, <2>2, <2>3 DEF Current, HasRead, Applies
    <2> QED BY <1>1, <2>2, <2>4, SerialReadStep
  <1>4. CASE /\ job.kind = "verify" /\ row # Null
             /\ sess' = [sess EXCEPT ![s].pc = "ask_gateway",
                                     ![s].tx = row.status]
    <2>1. /\ sess'[s].pc = "ask_gateway" /\ sess'[s].job = job
          /\ sess'[s].tx = row.status /\ sess'[s].tier = sess[s].tier
          /\ sess'[s].user = sess[s].user
          /\ \A o \in Sessions \ {s} : sess'[o] = sess[o]
      BY <1>1, <1>4 DEF Session
    <2>2. row.status \in {"pending", "success", "failed"}
      BY <1>1, <1>4 DEF Transaction, TransactionStatus
    <2>3. /\ UNCHANGED <<txs, userTier>>
          /\ sess[s].tier # "unread" =>
                sess[s].user \in Users /\ sess[s].tier = userTier[sess[s].user]
      BY <1>1 DEF Current
    <2>4. Current(s)'
      BY <1>4, <2>1, <2>2, <2>3 DEF Current, HasRead, Applies
    <2> QED BY <1>1, <2>1, <2>4, SerialReadStep
  <1> QED BY <1>2, <1>3, <1>4 DEF ReadTransaction

LEMMA SerialAskGateway ==
  ASSUME Serial, Inv', NEW s \in Sessions, AskGateway(s)
  PROVE  Serial'
  <1> DEFINE r == sess[s].job.ref
  <1>1. /\ sess[s].pc = "ask_gateway" /\ SessionOK(s) /\ Current(s)
        /\ sess \in [Sessions -> Session] /\ sess[s] \in Session
        /\ UNCHANGED <<txs, subs, userTier, charge>>
    BY DEF AskGateway, database, gateway, Serial, Inv, TypeOK
  <1>2. CASE Finish(s)
    BY <1>1, <1>2, SerialFinish
  <1>3. ASSUME sess[s].tx # "success", NEW p \in Payloads("verify", r),
               sess' = [sess EXCEPT ![s].pc = "read_sub", ![s].job = p]
        PROVE  Serial'
    <2>1. p.kind = "verify" /\ p.ref = r
      BY DEF Payloads
    <2>2. /\ sess'[s].pc = "read_sub" /\ sess'[s].job = p
          /\ sess'[s].tx = sess[s].tx /\ sess'[s].tier = sess[s].tier
          /\ sess'[s].user = sess[s].user
          /\ \A o \in Sessions \ {s} : sess'[o] = sess[o]
      BY <1>1, <1>3 DEF Session
    <2>3. sess[s].tx \in {"pending", "failed"}
      BY <1>1, <1>3 DEF Session, TransactionStatus, Current
    <2>4. /\ sess[s].tx = txs[r].status
          /\ sess[s].tier # "unread" =>
                sess[s].user \in Users /\ sess[s].tier = userTier[sess[s].user]
      BY <1>1, <2>3 DEF Current
    <2> HIDE DEF r
    <2>5. Current(s)'
      BY <1>1, <2>1, <2>2, <2>3, <2>4 DEF Current, HasRead, Applies
    <2> QED BY <1>1, <2>2, <2>5, SerialReadStep
  <1>4. CASE /\ sess[s].tx = "pending"
             /\ sess' = [sess EXCEPT ![s].pc = "write"]
    <2>1. /\ sess'[s].pc = "write" /\ sess'[s].job = sess[s].job
          /\ sess'[s].tx = sess[s].tx /\ sess'[s].tier = sess[s].tier
          /\ sess'[s].user = sess[s].user
          /\ \A o \in Sessions \ {s} : sess'[o] = sess[o]
      BY <1>1, <1>4 DEF Session
    <2>2. sess[s].job.kind = "verify"
      BY <1>1 DEF SessionOK
    <2> HIDE DEF r
    <2>3. Current(s)'
      BY <1>1, <1>4, <2>1, <2>2 DEF Current, HasRead, Applies
    <2> QED BY <1>1, <2>1, <2>3, SerialReadStep
  <1> QED BY <1>2, <1>3, <1>4 DEF AskGateway, Verified

LEMMA SerialReadSubscription ==
  ASSUME Serial, Inv', NEW s \in Sessions, ReadSubscription(s)
  PROVE  Serial'
  <1> DEFINE job == sess[s].job
  <1>1. UNCHANGED <<txs, subs, userTier, charge>>
    BY DEF ReadSubscription, database, gateway
  <1>2. /\ sess[s].pc = "read_sub" /\ SessionOK(s) /\ Current(s)
        /\ sess \in [Sessions -> Session] /\ sess[s] \in Session
    BY DEF ReadSubscription, Serial, Inv, TypeOK
  <1>3. CASE Finish(s)
    BY <1>1, <1>3, SerialFinish
  <1>4. ASSUME Applies(job),
               sess' = [sess EXCEPT ![s].pc = "flush",
                                    ![s].sub = subs[sess[s].user]]
        PROVE  Serial'
    <2>1. /\ sess'[s].pc = "flush" /\ sess'[s].job = job
          /\ sess'[s].tx = sess[s].tx /\ sess'[s].tier = sess[s].tier
          /\ sess'[s].user = sess[s].user /\ sess'[s].sub = subs[sess[s].user]
          /\ \A o \in Sessions \ {s} : sess'[o] = sess[o]
      BY <1>1, <1>2, <1>4 DEF Session
    <2>2. Current(s)'
      BY <1>1, <1>2, <1>4, <2>1 DEF Current, HasRead, Applies
    <2> QED BY <1>1, <2>1, <2>2, SerialReadStep
  <1>5. ASSUME ~Applies(job), job.kind # "cancel", NEW u \in Users,
               sess' = [sess EXCEPT
                          ![s].pc = IF job.kind = "ended" THEN "flush" ELSE "write",
                          ![s].user = u, ![s].sub = subs[u]]
        PROVE  Serial'
    <2>1. /\ sess'[s].pc \in {"flush", "write"} /\ sess'[s].job = job
          /\ sess'[s].tx = sess[s].tx /\ sess'[s].tier = sess[s].tier
          /\ sess'[s].user = u /\ sess'[s].sub = subs[u]
          /\ \A o \in Sessions \ {s} : sess'[o] = sess[o]
      BY <1>1, <1>2, <1>5 DEF Session
    <2>2. sess[s].tier = "unread" /\ sess[s].tx = "unread"
      BY <1>1, <1>2, <1>5 DEF Current, Applies
    <2>3. Current(s)'
      BY <1>1, <1>2, <1>5, <2>1, <2>2 DEF Current, HasRead, Applies
    <2> QED BY <1>1, <2>1, <2>3, SerialReadStep
  <1>6. ASSUME job.kind = "cancel", NEW next \in {"write", "ask_cancel"},
               sess' = [sess EXCEPT ![s].pc = next,
                                    ![s].sub = subs[sess[s].user]]
        PROVE  Serial'
    <2>1. /\ sess'[s].pc = next /\ sess'[s].job = job
          /\ sess'[s].tx = sess[s].tx /\ sess'[s].tier = sess[s].tier
          /\ sess'[s].user = sess[s].user /\ sess'[s].sub = subs[sess[s].user]
          /\ \A o \in Sessions \ {s} : sess'[o] = sess[o]
      BY <1>1, <1>2, <1>6 DEF Session
    <2>2. Current(s)'
      BY <1>1, <1>2, <1>6, <2>1 DEF Current, HasRead, Applies
    <2> QED BY <1>1, <2>1, <2>2, SerialReadStep
  <1> QED BY <1>3, <1>4, <1>5, <1>6 DEF ReadSubscription

LEMMA SerialAskCancel ==
  ASSUME Serial, Inv', NEW s \in Sessions, AskCancel(s)
  PROVE  Serial'
  <1>1. /\ sess[s].pc = "ask_cancel" /\ SessionOK(s) /\ Current(s)
        /\ sess \in [Sessions -> Session] /\ sess[s] \in Session
        /\ UNCHANGED <<txs, subs, userTier, charge>>
    BY DEF AskCancel, database, Serial, Inv, TypeOK
  <1>2. CASE Finish(s)
    BY <1>1, <1>2, SerialFinish
  <1>3. CASE sess' = [sess EXCEPT ![s].pc = "write"]
    <2>1. /\ sess'[s].pc = "write" /\ sess'[s].job = sess[s].job
          /\ sess'[s].tx = sess[s].tx /\ sess'[s].tier = sess[s].tier
          /\ sess'[s].user = sess[s].user /\ sess'[s].sub = sess[s].sub
          /\ \A o \in Sessions \ {s} : sess'[o] = sess[o]
      BY <1>1, <1>3 DEF Session
    <2>2. sess[s].job.kind = "cancel"
      BY <1>1 DEF SessionOK
    <2>3. Current(s)'
      BY <1>1, <1>3, <2>1, <2>2 DEF Current, HasRead, Applies
    <2> QED BY <1>1, <2>1, <2>3, SerialReadStep
  <1> QED BY <1>2, <1>3 DEF AskCancel

LEMMA SerialFlush ==
  ASSUME Serial, Inv', NEW s \in Sessions, Flush(s)
  PROVE  Serial'
  <1> DEFINE u == sess[s].user
  <1>1. /\ sess[s].pc = "flush" /\ SessionOK(s) /\ Current(s)
        /\ sess \in [Sessions -> Session] /\ sess[s] \in Session
        /\ UNCHANGED <<txs, subs, userTier, charge>>
    BY DEF Flush, database, gateway, Serial, Inv, TypeOK
  <1>2. CASE Finish(s)
    BY <1>1, <1>2, SerialFinish
  <1>3. CASE sess' = [sess EXCEPT ![s].pc = "commit",
                         ![s].tier = IF @ = "unread" THEN userTier[u] ELSE @]
    <2>1. /\ sess'[s].pc = "commit" /\ sess'[s].job = sess[s].job
          /\ sess'[s].tx = sess[s].tx
          /\ sess'[s].tier = IF sess[s].tier = "unread" THEN userTier[u]
                                                       ELSE sess[s].tier
          /\ sess'[s].user = u /\ sess'[s].sub = sess[s].sub
          /\ \A o \in Sessions \ {s} : sess'[o] = sess[o]
      BY <1>1, <1>3 DEF Session
    <2>2. u \in Users /\ sess'[s].tier = userTier[u]
      BY <1>1, <2>1 DEF SessionOK, OwnCharge, Current
    <2>3. sess[s].job.kind # "cancel"
      BY <1>1 DEF SessionOK
    <2>4. Current(s)'
      BY <1>1, <1>3, <2>1, <2>2, <2>3 DEF Current, HasRead, Applies
    <2> QED BY <1>1, <2>1, <2>4, SerialReadStep
  <1> QED BY <1>2, <1>3 DEF Flush

\* With what it loaded still current, a session writes what it has in memory:
\* no column of another writer survives in part.
LEMMA StoredIsWanted ==
  ASSUME Serial, NEW s \in Sessions, Writing(s)
  PROVE  Stored(s) = Wanted(s) /\ sess[s].sub = subs[sess[s].user]
  <1> DEFINE new == Wanted(s)
             u == sess[s].user
  <1>1. new \in Subscription
    BY WantedRow DEF Serial
  <1>2. sess[s].sub = subs[u]
    BY DEF Serial, Current, Writing, HasRead
  <1>3. CASE sess[s].sub # Null
    <2>1. Stored(s) = WriteBackSub(subs[u], subs[u], new)
      BY <1>2, <1>3 DEF Stored
    <2> HIDE DEF new
    <2>2. WriteBackSub(subs[u], subs[u], new) =
            [provider |-> new.provider, tier |-> new.tier,
             status |-> new.status, code |-> new.code, token |-> new.token,
             cancelAtEnd |-> new.cancelAtEnd]
      BY DEF WriteBackSub, WriteBack
    <2>3. @ = new
      BY <1>1 DEF Subscription
    <2> QED BY <1>2, <2>1, <2>2, <2>3 DEF new
  <1> QED BY <1>2, <1>3 DEF Stored

\* The status a session writes fits the tier it writes, and the tier is that of
\* the charge, free, or the one the row has.
LEMMA WantedStatus ==
  ASSUME Serial, NEW s \in Sessions, Writing(s)
  PROVE  LET new == Wanted(s)
             job == sess[s].job
         IN  /\ new.status = "cancelled" => new.tier = "free"
             /\ new.status = "active" => new.tier # "free"
             /\ Applies(job) => new.tier = txs[job.ref].tier
             /\ job.kind = "ended" => new.tier = "free"
             /\ new.tier = "free" \/ Applies(job)
                  \/ new.tier = subs[sess[s].user].tier
             /\ job.kind \in {"token", "unpaid"}
                  => new.tier = subs[sess[s].user].tier
  <1> DEFINE job == sess[s].job
             u == sess[s].user
             old == subs[u]
  <1>1. /\ Inv /\ SessionOK(s) /\ sess[s] \in Session /\ sess[s].sub = old
        /\ subs \in [Users -> Subscription \cup {Null}]
        /\ txs \in [Refs -> Transaction \cup {Null}]
    BY StoredIsWanted DEF Serial, Inv, TypeOK
  <1>2. CASE Applies(job)
    <2>1. OwnCharge(s)
      BY <1>1, <1>2 DEF SessionOK, Writing, Applies
    <2>2. txs[job.ref] \in Transaction
      BY <1>1, <2>1 DEF OwnCharge
    <2>3. Wanted(s) = Granted(s, job.ref)
      BY <1>2 DEF Wanted, Applies
    <2>4. /\ Wanted(s).tier = txs[job.ref].tier
          /\ Wanted(s).status = "active"
      BY <2>3 DEF Granted, GrantedTier
    <2> QED BY <1>2, <2>2, <2>4 DEF Transaction, PaidTiers, Applies
  <1>3. CASE ~Applies(job)
    <2>1. u \in Users /\ old \in Subscription /\ job # Null
      BY <1>1, <1>3 DEF SessionOK, Writing
    <2>2. job.kind \in {"ended", "token", "unpaid", "cancel"}
      BY <1>1, <1>3, <2>1 DEF Session, Webhook, Request, Applies
    <2>3. /\ old.status = "cancelled" => old.tier = "free"
          /\ old.status = "active" => old.tier # "free"
      BY <2>1, BillingAssumption DEF Serial, StatusMatchesTier
    <2>4. Downgraded(s).tier = "free" /\ Downgraded(s).status = "cancelled"
      BY <1>1, <2>1 DEF Downgraded, Subscription
    <2>5. CASE job.kind = "ended"
      <3>1. Wanted(s) = Downgraded(s)
        BY <1>3, <2>5 DEF Wanted
      <3> QED BY <1>3, <2>4, <2>5, <3>1
    <2>6. CASE job.kind = "token"
      <3>1. Wanted(s) = [old EXCEPT !.token = job.ref]
        BY <1>1, <1>3, <2>6 DEF Wanted
      <3>2. Wanted(s).tier = old.tier /\ Wanted(s).status = old.status
        BY <2>1, <3>1 DEF Subscription
      <3> QED BY <1>3, <2>3, <2>6, <3>2
    <2>7. CASE job.kind = "unpaid"
      <3>1. Wanted(s) = [old EXCEPT !.status = "past_due"]
        BY <1>1, <1>3, <2>7 DEF Wanted
      <3>2. Wanted(s).tier = old.tier /\ Wanted(s).status = "past_due"
        BY <2>1, <3>1 DEF Subscription
      <3> QED BY <1>3, <2>7, <3>2
    <2>8. CASE job.kind = "cancel" /\ ~HasRealRecurringPlan(old.provider, old.tier)
      <3>1. Wanted(s) = Downgraded(s)
        BY <1>1, <1>3, <2>8 DEF Wanted
      <3> QED BY <1>3, <2>4, <2>8, <3>1
    <2>9. CASE job.kind = "cancel" /\ HasRealRecurringPlan(old.provider, old.tier)
      <3>1. Wanted(s) = [old EXCEPT !.cancelAtEnd = TRUE]
        BY <1>1, <1>3, <2>9 DEF Wanted
      <3>2. Wanted(s).tier = old.tier /\ Wanted(s).status = old.status
        BY <2>1, <3>1 DEF Subscription
      <3> QED BY <1>3, <2>3, <2>9, <3>2
    <2> QED BY <2>2, <2>5, <2>6, <2>7, <2>8, <2>9
  <1> QED BY <1>2, <1>3

\* A step that stores a session's row, and the same tier in both columns.
LEMMA SerialStoringStep ==
  ASSUME Serial, OnePerUser, Inv', NEW s \in Sessions, Writing(s),
         StoreSubscription(s), Finish(s), UNCHANGED charge,
         userTier' = [userTier EXCEPT ![sess[s].user] = Wanted(s).tier],
         \A r \in Refs : txs[r] # Null =>
            /\ txs'[r] # Null
            /\ txs[r].owner # sess[s].user => txs'[r] = txs[r]
  PROVE  Serial'
  <1> DEFINE u == sess[s].user
             new == Wanted(s)
  <1>1. /\ u \in Users /\ new \in Subscription
        /\ subs' = [subs EXCEPT ![u] = new]
    BY WantedRow, StoredRow, StoredIsWanted DEF Serial, StoreSubscription
  <1>2. /\ new.status = "cancelled" => new.tier = "free"
        /\ new.status = "active" => new.tier # "free"
    BY WantedStatus
  <1>3. /\ subs \in [Users -> Subscription \cup {Null}]
        /\ userTier \in [Users -> Tiers]
        /\ sess'[s] = Idle
        /\ \A o \in Sessions \ {s} : sess'[o] = sess[o]
        /\ new # Null /\ u # Null
    BY <1>1, BillingAssumption DEF Serial, Inv, TypeOK, Finish
  <1> HIDE DEF u, new
  <1>4. userTier' = [userTier EXCEPT ![u] = new.tier]
    BY DEF u, new
  <1>5. TierInSync'
    BY <1>1, <1>3, <1>4 DEF Serial, TierInSync
  <1>6. StatusMatchesTier'
    BY <1>1, <1>2, <1>3 DEF Serial, StatusMatchesTier
  <1>7. ASSUME NEW o \in Sessions PROVE Current(o)'
    <2>1. CASE o = s
      BY <1>3, <2>1 DEF Current, HasRead, Idle, Fresh
    <2>2. CASE o # s
      <3>1. sess[o].user # u
        BY <1>3, <2>2 DEF OnePerUser, u
      <3>2. sess[o].user \in Users =>
               /\ subs'[sess[o].user] = subs[sess[o].user]
               /\ userTier'[sess[o].user] = userTier[sess[o].user]
        BY <1>1, <1>3, <1>4, <3>1
      <3>3. \A r \in Refs : (txs[r] # Null /\ txs[r].owner = sess[o].user)
                               => txs'[r] = txs[r]
        BY <3>1 DEF u
      <3>4. Inv /\ Current(o) /\ sess'[o] = sess[o]
        BY <1>3, <2>2 DEF Serial
      <3> QED BY <3>2, <3>3, <3>4, Undisturbed
    <2> QED BY <2>1, <2>2
  <1>8. \A r \in Refs : charge'[r] = "paid" => txs'[r] # Null
    BY DEF Serial
  <1> QED BY <1>5, <1>6, <1>7, <1>8 DEF Serial

\* What a commit writes: the tier of the charge, or free.
LEMMA CommitWrites ==
  ASSUME Serial, NEW s \in Sessions, Commit(s)
  PROVE  LET job == sess[s].job
             u == sess[s].user
         IN  /\ u \in Users
             /\ userTier' = [userTier EXCEPT ![u] = Wanted(s).tier]
             /\ ~Applies(job) => Wanted(s).tier = "free" /\ txs' = txs
             /\ Applies(job) =>
                   /\ OwnCharge(s)
                   /\ Wanted(s).tier = txs[job.ref].tier
                   /\ txs[job.ref].status # "success"
                   /\ txs[job.ref] \in Transaction
                   /\ txs' = [txs EXCEPT ![job.ref] =
                                 [@ EXCEPT !.status = "success"]]
                   /\ [txs[job.ref] EXCEPT !.status = "success"]
                         \in Transaction
  <1> DEFINE job == sess[s].job
             u == sess[s].user
             tier == IF Applies(job) THEN GrantedTier(job.ref) ELSE "free"
  <1>1. /\ sess[s].pc = "commit" /\ SessionOK(s) /\ Current(s)
        /\ StoreTier(s, tier)
        /\ txs' = IF Applies(job)
                  THEN [txs EXCEPT ![job.ref].status = "success"] ELSE txs
        /\ txs \in [Refs -> Transaction \cup {Null}]
        /\ userTier \in [Users -> Tiers]
        /\ sess[s] \in Session
        /\ Writing(s)
    BY DEF Commit, Serial, Inv, TypeOK, Writing
  <1>2. /\ Applies(job) => OwnCharge(s)
        /\ ~Applies(job) => job.kind = "ended"
    BY <1>1 DEF SessionOK, Applies, Session, Webhook, Request
  <1>3. tier = Wanted(s).tier
    BY <1>1, <1>2, WantedStatus DEF GrantedTier
  <1>4. u \in Users /\ sess[s].tier = userTier[u]
    BY <1>1 DEF SessionOK, Current, Tiers, PaidTiers
  <1> HIDE DEF tier
  <1>5. userTier' = [userTier EXCEPT ![u] = Wanted(s).tier]
    BY <1>1, <1>3, <1>4 DEF StoreTier, WriteBack
  <1>6. ASSUME Applies(job)
        PROVE  /\ txs[job.ref].status # "success"
               /\ txs[job.ref] \in Transaction
               /\ Wanted(s).tier = txs[job.ref].tier
               /\ [txs[job.ref] EXCEPT !.status = "success"] \in Transaction
    <2>1. txs[job.ref] \in Transaction
      BY <1>1, <1>2, <1>6 DEF OwnCharge
    <2>2. txs[job.ref].status # "success"
      BY <1>1, <1>6 DEF Current
    <2>3. [txs[job.ref] EXCEPT !.status = "success"] \in Transaction
      BY <2>1 DEF Transaction, TransactionStatus
    <2> QED BY <1>1, <1>6, <2>1, <2>2, <2>3, WantedStatus
  <1>7. ~Applies(job) => Wanted(s).tier = "free"
    BY <1>3 DEF tier
  <1> QED BY <1>1, <1>2, <1>4, <1>5, <1>6, <1>7

LEMMA SerialCommit ==
  ASSUME Serial, OnePerUser, Inv', NEW s \in Sessions, Commit(s)
  PROVE  Serial'
  <1> DEFINE job == sess[s].job
             u == sess[s].user
  <1>1. /\ StoreSubscription(s) /\ Finish(s) /\ UNCHANGED charge
        /\ Writing(s)
        /\ txs \in [Refs -> Transaction \cup {Null}]
    BY DEF Commit, gateway, Serial, Inv, TypeOK, Writing
  <1>2. \A r \in Refs : txs[r] # Null =>
            /\ txs'[r] # Null
            /\ txs[r].owner # u => txs'[r] = txs[r]
    BY <1>1, CommitWrites, BillingAssumption DEF OwnCharge
  <1> QED BY <1>1, <1>2, CommitWrites, SerialStoringStep

LEMMA SerialWriteSubscription ==
  ASSUME Serial, OnePerUser, Inv', NEW s \in Sessions, WriteSubscription(s)
  PROVE  Serial'
  <1> DEFINE job == sess[s].job
             u == sess[s].user
  <1>1. /\ sess[s].pc = "write" /\ job.kind # "verify" /\ Writing(s)
        /\ StoreSubscription(s) /\ Finish(s) /\ UNCHANGED <<txs, charge>>
        /\ IF job.kind = "cancel" /\ Wanted(s).tier = "free"
           THEN StoreTier(s, "free") ELSE UNCHANGED userTier
    BY DEF WriteSubscription, gateway, Writing
  <1>2. /\ SessionOK(s) /\ Current(s) /\ sess[s] \in Session
        /\ userTier \in [Users -> Tiers]
        /\ u \in Users
    BY <1>1, StoredRow DEF Serial, Inv, TypeOK
  <1>3. /\ job.kind \in {"token", "unpaid", "cancel"}
        /\ subs[u] # Null
    BY <1>1, <1>2, StoredIsWanted
    DEF SessionOK, Applies, Session, Webhook, Request, Current
  <1>4. userTier[u] = subs[u].tier
    BY <1>2, <1>3 DEF Serial, TierInSync
  <1>5. userTier' = [userTier EXCEPT ![u] = Wanted(s).tier]
    <2>1. CASE job.kind = "cancel" /\ Wanted(s).tier = "free"
      BY <1>1, <1>2, <2>1 DEF StoreTier, WriteBack, Current
    <2>2. CASE ~(job.kind = "cancel" /\ Wanted(s).tier = "free")
      <3>1. Wanted(s).tier = subs[u].tier
        BY <1>1, <1>3, <2>2, WantedStatus DEF Applies
      <3> QED BY <1>1, <1>2, <1>4, <2>2, <3>1
    <2> QED BY <2>1, <2>2
  <1> QED BY <1>1, <1>5, SerialStoringStep

LEMMA SerialWriteFailed ==
  ASSUME Serial, OnePerUser, Inv', NEW s \in Sessions, WriteFailed(s)
  PROVE  Serial'
  <1> DEFINE r == sess[s].job.ref
             u == sess[s].user
  <1>1. /\ sess[s].pc = "write" /\ sess[s].job.kind = "verify"
        /\ SessionOK(s)
        /\ txs' = [txs EXCEPT ![r] = [@ EXCEPT !.status = "failed"]]
        /\ sess' = [sess EXCEPT ![s] = Idle]
        /\ UNCHANGED <<subs, userTier, charge>>
        /\ txs \in [Refs -> Transaction \cup {Null}]
        /\ sess \in [Sessions -> Session]
    BY DEF WriteFailed, Finish, gateway, Serial, Inv, TypeOK
  <1>2. r \in Refs /\ txs[r] \in Transaction /\ txs[r].owner = u /\ u # Null
    BY <1>1, BillingAssumption DEF SessionOK
  <1> HIDE DEF r, u
  <1>3. txs'[r] # Null
    <2>1. [txs[r] EXCEPT !.status = "failed"] \in Transaction
      BY <1>2 DEF Transaction, TransactionStatus
    <2> QED BY <1>1, <1>2, <2>1, BillingAssumption
  <1>4. ASSUME NEW o \in Sessions PROVE Current(o)'
    <2>1. CASE o = s
      BY <1>1, <2>1 DEF Current, HasRead, Idle, Fresh
    <2>2. CASE o # s
      <3>1. sess[o].user # u /\ sess'[o] = sess[o]
        BY <1>1, <1>2, <2>2 DEF OnePerUser, u
      <3>2. \A q \in Refs : (txs[q] # Null /\ txs[q].owner = sess[o].user)
                               => txs'[q] = txs[q]
        BY <1>1, <1>2, <3>1
      <3>3. Inv /\ Current(o)
        BY DEF Serial
      <3> QED BY <1>1, <3>1, <3>2, <3>3, Undisturbed
    <2> QED BY <2>1, <2>2
  <1>5. \A q \in Refs : charge'[q] = "paid" => txs'[q] # Null
    BY <1>1, <1>2, <1>3 DEF Serial
  <1>6. TierInSync' /\ StatusMatchesTier'
    BY <1>1 DEF Serial, TierInSync, StatusMatchesTier
  <1> QED BY <1>4, <1>5, <1>6 DEF Serial

LEMMA SerialCheckout ==
  ASSUME Serial, Inv', UNCHANGED <<subs, userTier, sess>>,
         \A r \in Refs : txs[r] # Null => txs'[r] = txs[r],
         \A r \in Refs : charge'[r] = "paid" => txs[r] # Null
  PROVE  Serial'
  <1>1. \A s \in Sessions : Current(s)'
    BY Undisturbed DEF Serial
  <1>2. TierInSync' /\ StatusMatchesTier'
    BY DEF Serial, TierInSync, StatusMatchesTier
  <1> QED BY <1>1, <1>2 DEF Serial

LEMMA SerialKeeps == Serial /\ OnePerUser /\ [Next]_vars => Serial'
  <1> SUFFICES ASSUME Serial, OnePerUser, [Next]_vars PROVE Serial'
    OBVIOUS
  <1>1. Inv'
    BY NextKeeps DEF Serial
  <1>2. ASSUME NEW u \in Users, NEW tier \in PaidTiers, NEW r \in Refs,
               InitiateCheckout(u, tier, r)
        PROVE  Serial'
    <2>1. /\ UNCHANGED <<subs, userTier, sess, charge>>
          /\ \A q \in Refs : txs[q] # Null => txs'[q] = txs[q]
      BY <1>2 DEF InitiateCheckout, gateway, Serial, Inv, TypeOK
    <2> QED BY <1>1, <2>1, SerialCheckout DEF Serial
  <1>3. CASE Gateway
    <2>1. /\ UNCHANGED <<txs, subs, userTier, sess>>
          /\ \A r \in Refs : charge'[r] = "paid" => txs[r] # Null
      BY <1>3 DEF Gateway, ChargeSucceeds, PlanEnds, database, Serial, Inv, TypeOK
    <2> QED BY <1>1, <2>1, SerialCheckout
  <1>4. ASSUME NEW s \in Sessions, Begin(s) PROVE Serial'
    BY <1>1, <1>4, SerialBegin
  <1>5. ASSUME NEW s \in Sessions, Step(s) PROVE Serial'
    BY <1>1, <1>5, SerialReadTransaction, SerialAskGateway,
       SerialReadSubscription, SerialAskCancel, SerialFlush, SerialCommit,
       SerialWriteFailed, SerialWriteSubscription
    DEF Step
  <1>6. ASSUME NEW s \in Sessions, Abort(s) PROVE Serial'
    BY <1>1, <1>6, SerialFinish DEF Abort, database, gateway
  <1>7. CASE UNCHANGED vars
    BY <1>1, <1>7, SerialCheckout DEF vars, Serial
  <1> QED BY <1>2, <1>3, <1>4, <1>5, <1>6, <1>7 DEF Next, Reliable

LEMMA SpecSerial == Spec /\ []OnePerUser => []Serial
  <1> QED BY SerialInitially, SerialKeeps, PTL DEF Spec

\* As long as no two sessions work for one user at the same time, the tier that
\* gating reads is the tier of the user's subscription row, whatever webhooks
\* are repeated, reordered or lost, and wherever a process dies.
THEOREM SyncWithoutRaces == Spec /\ []OnePerUser => []TierInSync
  <1>1. Serial => TierInSync
    BY DEF Serial
  <1> QED BY <1>1, SpecSerial, PTL

\* Under the same condition a cancelled subscription leaves no paid tier, and an
\* active one is never free.
THEOREM StatusWithoutRaces == Spec /\ []OnePerUser => []StatusMatchesTier
  <1>1. Serial => StatusMatchesTier
    BY DEF Serial
  <1> QED BY <1>1, SpecSerial, PTL

-----------------------------------------------------------------------------
(* The refinement: placing, paying, granting and lapsing are the only      *)
(* changes of what Entitlement promises about.                             *)

LEMMA PromiseInit == Init => Promise!Init
  BY BillingAssumption DEF Init, Promise!Init, Placed, Paid, Spent

\* A step that changes neither the orders nor what is paid or spent.
LEMMA PromiseKept ==
  ASSUME UNCHANGED <<txs, charge, userTier>>
  PROVE  UNCHANGED Promise!vars
  BY DEF Promise!vars, Placed, Paid, Spent

LEMMA PromisePlace ==
  ASSUME Inv, NEW u \in Users, NEW tier \in PaidTiers, NEW r \in Refs,
         InitiateCheckout(u, tier, r)
  PROVE  Promise!Place(r, u, tier)
  <1>1. PICK g \in Gateways :
           txs' = [txs EXCEPT ![r] = [owner |-> u, provider |-> g,
                                      tier |-> tier, status |-> "pending"]]
    BY DEF InitiateCheckout
  <1> DEFINE row == [owner |-> u, provider |-> g, tier |-> tier,
                     status |-> "pending"]
  <1>2. /\ txs[r] = Null /\ UNCHANGED <<userTier, charge>>
        /\ txs \in [Refs -> Transaction \cup {Null}]
    BY DEF InitiateCheckout, gateway, Inv, TypeOK
  <1>3. row \in Transaction /\ row # Null /\ row.status # "success"
    <2>1. row \in Transaction
      BY DEF Transaction, TransactionStatus
    <2> QED BY <2>1, BillingAssumption
  <1>4. row.owner = u /\ row.tier = tier
    OBVIOUS
  <1> HIDE DEF row
  <1>5. txs' = [txs EXCEPT ![r] = row]
    BY <1>1 DEF row
  <1>6. Placed[r] = Null /\ Placed' = [Placed EXCEPT ![r] =
                                          [owner |-> u, tier |-> tier]]
    BY <1>2, <1>3, <1>4, <1>5 DEF Placed
  <1>7. Paid' = Paid /\ Spent' = Spent
    BY <1>2, <1>3, <1>5 DEF Paid, Spent
  <1> QED BY <1>2, <1>6, <1>7 DEF Promise!Place

LEMMA PromisePay ==
  ASSUME Inv, NEW r \in Refs, ChargeSucceeds(r)
  PROVE  Promise!Pay(r)
  <1>1. /\ txs[r] \in Transaction /\ charge[r] = "open"
        /\ charge' = [charge EXCEPT ![r] = "paid"]
        /\ UNCHANGED <<txs, userTier>>
        /\ charge \in [Refs -> {"open", "paid"}]
    BY DEF ChargeSucceeds, database, Inv, TypeOK
  <1>2. Placed[r] # Null /\ r \notin Paid
    <2>1. txs[r] # Null
      BY <1>1, BillingAssumption
    <2>2. Placed[r] = [owner |-> txs[r].owner, tier |-> txs[r].tier]
      BY <2>1 DEF Placed
    <2>3. Placed[r] # Null
      BY <1>1, <2>2, BillingAssumption DEF Transaction
    <2> QED BY <1>1, <2>3 DEF Paid
  <1>3. Paid' = Paid \cup {r} /\ Placed' = Placed /\ Spent' = Spent
    BY <1>1 DEF Paid, Placed, Spent
  <1> QED BY <1>1, <1>2, <1>3 DEF Promise!Pay

LEMMA PromiseGrant ==
  ASSUME Serial, NEW s \in Sessions, Commit(s), Applies(sess[s].job)
  PROVE  Promise!Grant(sess[s].job.ref)
  <1> DEFINE r == sess[s].job.ref
             u == sess[s].user
             row == [txs[r] EXCEPT !.status = "success"]
  <1>1. /\ r \in Refs /\ charge[r] = "paid"
        /\ txs[r] \in Transaction /\ txs[r] # Null /\ txs[r].owner = u
        /\ txs[r].status # "success"
        /\ row \in Transaction
        /\ txs' = [txs EXCEPT ![r] = row]
        /\ userTier' = [userTier EXCEPT ![u] = txs[r].tier]
    BY CommitWrites DEF OwnCharge
  <1>2. /\ row # Null /\ row.status = "success"
        /\ row.owner = txs[r].owner /\ row.tier = txs[r].tier
    <2>1. row # Null
      BY <1>1, BillingAssumption
    <2> QED BY <1>1, <2>1 DEF Transaction
  <1>3. UNCHANGED charge /\ txs \in [Refs -> Transaction \cup {Null}]
    BY DEF Commit, gateway, Serial, Inv, TypeOK
  <1> HIDE DEF r, u, row
  <1>4. r \in Paid \ Spent
    BY <1>1 DEF Paid, Spent
  <1>5. Spent' = Spent \cup {r}
    BY <1>1, <1>2, <1>3 DEF Spent
  <1>6. Placed' = Placed /\ Paid' = Paid
    BY <1>1, <1>2, <1>3 DEF Placed, Paid
  <1>7. Placed[r].owner = u /\ Placed[r].tier = txs[r].tier
    BY <1>1 DEF Placed
  <1>8. Promise!Grant(r)
    BY <1>1, <1>4, <1>5, <1>6, <1>7 DEF Promise!Grant
  <1> QED BY <1>8 DEF r

\* A step that changes nothing but, possibly, one user's tier to free.
LEMMA PromiseLapse ==
  ASSUME NEW u \in Users, UNCHANGED <<txs, charge>>,
         userTier' = userTier \/ userTier' = [userTier EXCEPT ![u] = "free"]
  PROVE  Promise!Lapse(u) \/ UNCHANGED Promise!vars
  <1>1. Placed' = Placed /\ Paid' = Paid /\ Spent' = Spent
    BY DEF Placed, Paid, Spent
  <1> QED BY <1>1 DEF Promise!Lapse, Promise!vars

LEMMA PromiseFailed ==
  ASSUME Serial, NEW s \in Sessions, WriteFailed(s)
  PROVE  UNCHANGED Promise!vars
  <1> DEFINE r == sess[s].job.ref
             row == [txs[r] EXCEPT !.status = "failed"]
  <1>1. /\ sess[s].pc = "write" /\ sess[s].job.kind = "verify"
        /\ SessionOK(s) /\ Current(s)
        /\ txs' = [txs EXCEPT ![r] = row]
        /\ UNCHANGED <<userTier, charge>>
        /\ txs \in [Refs -> Transaction \cup {Null}]
    BY DEF WriteFailed, gateway, Serial, Inv, TypeOK
  <1>2. r \in Refs /\ txs[r] \in Transaction /\ txs[r] # Null
    BY <1>1 DEF SessionOK
  <1>3. txs[r].status = "pending"
    BY <1>1 DEF Current
  <1>4. /\ row # Null /\ row.status = "failed"
        /\ row.owner = txs[r].owner /\ row.tier = txs[r].tier
    <2>1. row \in Transaction
      BY <1>2 DEF Transaction, TransactionStatus
    <2> QED BY <1>2, <2>1, BillingAssumption DEF Transaction
  <1> HIDE DEF r, row
  <1>5. Placed' = Placed /\ Paid' = Paid
    BY <1>1, <1>2, <1>4 DEF Placed, Paid
  <1>6. Spent' = Spent
    BY <1>1, <1>2, <1>3, <1>4 DEF Spent
  <1> QED BY <1>1, <1>5, <1>6 DEF Promise!vars

LEMMA PromiseStep ==
  Serial /\ [Next]_vars => [Promise!Next]_(Promise!vars)
  <1> SUFFICES ASSUME Serial, [Next]_vars
               PROVE  Promise!Next \/ UNCHANGED Promise!vars
    OBVIOUS
  <1>1. Inv
    BY DEF Serial
  <1>2. ASSUME NEW u \in Users, NEW tier \in PaidTiers, NEW r \in Refs,
               InitiateCheckout(u, tier, r)
        PROVE  Promise!Next
    BY <1>1, <1>2, PromisePlace DEF Promise!Next
  <1>3. CASE Gateway
    <2>1. ASSUME NEW r \in Refs, ChargeSucceeds(r) PROVE Promise!Next
      BY <1>1, <2>1, PromisePay DEF Promise!Next
    <2>2. ASSUME NEW r \in Refs, PlanEnds(r) PROVE UNCHANGED Promise!vars
      BY <2>2, PromiseKept DEF PlanEnds, database
    <2> QED BY <1>3, <2>1, <2>2 DEF Gateway
  <1>4. ASSUME NEW s \in Sessions, Begin(s) PROVE UNCHANGED Promise!vars
    BY <1>4, PromiseKept
    DEF Begin, BeginWebhook, BeginVerify, BeginCancel, database, gateway
  <1>5. ASSUME NEW s \in Sessions,
               \/ ReadTransaction(s) \/ AskGateway(s) \/ ReadSubscription(s)
               \/ AskCancel(s) \/ Flush(s) \/ Abort(s)
        PROVE  UNCHANGED Promise!vars
    <2>1. UNCHANGED <<txs, charge, userTier>>
      BY <1>5 DEF ReadTransaction, AskGateway, ReadSubscription, AskCancel,
                  Flush, Abort, database, gateway
    <2> QED BY <2>1, PromiseKept
  <1>6. ASSUME NEW s \in Sessions, Commit(s)
        PROVE  Promise!Next \/ UNCHANGED Promise!vars
    <2>1. CASE Applies(sess[s].job)
      <3>1. sess[s].job.ref \in Refs
        BY <1>6, <2>1, CommitWrites DEF OwnCharge
      <3> QED BY <1>6, <2>1, <3>1, PromiseGrant DEF Promise!Next
    <2>2. CASE ~Applies(sess[s].job)
      <3> DEFINE u == sess[s].user
      <3>1. /\ u \in Users /\ UNCHANGED <<txs, charge>>
            /\ userTier' = [userTier EXCEPT ![u] = "free"]
        BY <1>6, <2>2, CommitWrites DEF Commit, gateway
      <3> HIDE DEF u
      <3> QED BY <3>1, PromiseLapse DEF Promise!Next
    <2> QED BY <2>1, <2>2
  <1>7. ASSUME NEW s \in Sessions, WriteSubscription(s)
        PROVE  Promise!Next \/ UNCHANGED Promise!vars
    <2> DEFINE u == sess[s].user
    <2>1. u \in Users
      BY <1>1, <1>7, StoredRow DEF WriteSubscription, Writing
    <2>2. /\ UNCHANGED <<txs, charge>>
          /\ StoreTier(s, "free") \/ UNCHANGED userTier
      BY <1>7 DEF WriteSubscription, gateway
    <2>3. userTier' = userTier \/ userTier' = [userTier EXCEPT ![u] = "free"]
      BY <1>1, <2>1, <2>2 DEF StoreTier, WriteBack, Inv, TypeOK
    <2> HIDE DEF u
    <2> QED BY <2>1, <2>2, <2>3, PromiseLapse DEF Promise!Next
  <1>8. ASSUME NEW s \in Sessions, WriteFailed(s)
        PROVE  UNCHANGED Promise!vars
    BY <1>8, PromiseFailed
  <1>9. CASE UNCHANGED vars
    BY <1>9, PromiseKept DEF vars
  <1> QED BY <1>2, <1>3, <1>4, <1>5, <1>6, <1>7, <1>8, <1>9
      DEF Next, Reliable, Step

\* Under the same condition billing implements Entitlement: a paid order raises
\* its owner to the tier it bought, once, however often the gateway reports it
\* and whoever else asks; any other change of a tier is a lapse to free.
THEOREM PromiseWithoutRaces == Spec /\ []OnePerUser => KeepsPromise
  BY PromiseInit, PromiseStep, SpecSerial, PTL
  DEF Spec, KeepsPromise, Promise!Spec
=============================================================================
