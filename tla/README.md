# Scanwick: a verification project

Scanwick is a web service that reads merchants' bank statements and e-commerce
orders, scores the business behind them, and sells access to the scores by
subscription. The backend (`src/backend/app`) is a FastAPI application and a set
of Celery tasks over PostgreSQL and Redis; the frontend is React.

What can go wrong in an interesting way lives in the backend, and mostly in one
pattern: *a request or task opens a database session, reads rows one `await` at
a time, decides on what it read, and commits*. Nothing takes a row lock on
purpose, no table has a version column, and PostgreSQL runs at its default
READ COMMITTED. Most modules model that pattern handler by handler, with the
interleavings, crashes and redeliveries it is exposed to, and ask what still
holds. The others model what the handlers compute: which column is money, what
a cell says, what a role and a plan may see, what a score is. Paths below are
relative to `src/backend/app` unless they begin with `src/`.

1. [The system](#1-the-system)
2. [How the code became TLA+](#2-how-the-code-became-tla)
3. [The modules](#3-the-modules)
4. [The runs](#4-the-runs)
5. [Fairness](#5-fairness)
6. [The proofs](#6-the-proofs)
7. [Where code and documentation part](#7-where-code-and-documentation-part)
8. [What is not covered](#8-what-is-not-covered)

## 1. The system

| Component | State it keeps | Operations | Modules |
|---|---|---|---|
| **Billing**: `services/payments.py`, `routes/payments.py`, `routes/webhooks.py`, the two gateway clients | `payment_transactions`, `subscriptions`, `users.subscription_tier` | checkout, verify, cancel, one webhook task per gateway event | `Billing`, `Entitlement` |
| **Ingestion**: `routes/uploads.py`, `routes/mapping.py`, `services/bank_ingestion.py`, `ecommerce_ingestion.py`, `upload_staging.py`, `privacy.py`, `celery_app.py` | `uploads`, the staged file, the broker's queue, `accounts`, `bank_transactions`, `orders` | upload, confirm mapping, dispatch, the ingestion tasks, redelivery, deletion of all data | `Ingestion` |
| **Contextual markers**: `services/contextual_markers.py` | `contextual_markers`, flags on orders and transactions | create and re-flag, flag while ingesting | `Ingestion`, `Lending` |
| **Column mapping, numbers, dates**: `services/column_mapping.py`, `column_mapping_store.py`, `utils/numeric.py`, `utils/locale_dates.py` | `column_mappings` | resolve, save, confirm, reuse; read a cell | `Intake` |
| **Teams, merchants, roles**: `services/team_management.py`, `merchant_provisioning.py`, `routes/team.py` | `team_invites`, `user_merchant_roles`, `merchants` | provision, invite, resend, revoke, accept, change and remove members | `Team` |
| **Plan gating and roles**: `services/plan_permissions.py`, `entitlements.py`, `rbac.py`, `merchant_dependencies.py`, the read endpoints of `routes/bank.py` and `ecommerce.py` | none of its own | admit, look a feature up, shape an answer | `Access` |
| **Own-account transfers**: `services/bank_account_integrity.py`, `routes/bank.py` | flags on `bank_transactions`, a count cached in each process | cached scan before every analysis | `Transfers`, `Pairing`, `TransferScan` |
| **Authentication**: `routes/auth.py`, `utils/otp.py` | `users`, `refresh_tokens`, `otp_records`, `password_resets`; counters and OAuth states in Redis | register, verify, login, refresh, change and reset the password, two-factor set-up, sign-in with Google | `Sessions` |
| **Redis client**: `services/redis_client.py`, the rate limiter of `main.py` | counters, locks, values; a dictionary in each process | increment with expiry, acquire, release, set, pop | `SharedStore`, `Limiter` |
| **Exchange rates**: `services/fx_rates.py`, `exchange_rates.py` | `exchange_rates` | hourly and on-demand synchronisation, look-up | `Rates` |
| **Scores and reports**: `services/bank_*.py`, `utils/analyzer.py` | none of their own | read-only analyses of an account, the health score of a table | `Scoring`, `Lending`, `Health` |
| **Settings, reconciliation, notifications, plans** routes | settings rows | single reads and single-row writes | not modelled |
| **PDF parsers, AI, Mono, storage, e-mail, encryption** | external | input and output | not modelled |
| **Migrations, frontend** | schema history, the browser | | not modelled |

### How the components interact

* **Calls.** Every API request resolves its user, and most of them call
  `ensure_merchant_provisioned`, which may insert rows, before the handler's own
  work. Checkout asks Exchange rates for today's rate. Every bank analysis checks
  the role and the plan, runs the transfer scan, and then reads transactions.
* **Messages.** The webhook endpoints and the upload routes hand work to Celery
  through Redis. Messages are acknowledged late and requeued when a worker is
  lost (`celery_app.py:28-43`): a task can run twice, and one that raises is
  acknowledged. Gateways retry webhooks and deliver them in any order.
* **Shared state.** A user's tier is written by billing and read by plan gating.
  Uploads, accounts, transactions and orders are written by ingestion tasks,
  flagged by markers and by scans, and removed by the deletion of all data.
  A saved mapping is shared by all uploads of one shape of headers. Counters,
  locks and OAuth states are shared through Redis while it answers, and kept by
  each process for itself while it does not.
* **Sessions.** SQLAlchemy with `expire_on_commit=False` and autoflush: a session
  keeps what it first loaded, an UPDATE carries only the columns that differ from
  that, and a pending INSERT is sent by the next query, not at the commit.

### What is hard, and what makes each component correct

* **Billing.** The user's own verification and the gateway's webhook race for
  one charge; events are duplicated and reordered; an `await` on the gateway
  separates a read from the write that relies on it. Correct means: no paid tier
  without a payment of that tier, a charge applied once, a cancelled plan ends at
  free, the gating column agrees with the subscription.
* **Ingestion.** Overlapping files are ingested by concurrent tasks whose
  messages may be redelivered in the middle. Correct means: no order or
  transaction counted twice, a ready upload stored in full, one account row per
  account, every staged file someone's to delete, every upload settled.
* **Mapping.** A guess about one file is saved and reused for the next, beside
  users who confirm another. Correct means: no column of money rests on a guess,
  no two columns feed one field, a cell is stored as what it says or not at all.
* **Teams.** Provisioning runs inside every request, beside invitations and
  removals. Correct means: nobody gets a role in another's merchant without an
  invitation that is pending, no owner loses their own merchant.
* **Access.** Role and plan are read by two queries of one request while members
  are removed and plans lapse. Correct means: an answer was allowed at some
  moment since the request was made, loan officers see no detail, a higher plan
  hides nothing.
* **Transfers.** A cached count stands for "already scanned" while statements
  arrive, requests overlap and every process has its own cache. Correct means:
  nothing is analysed unscanned, and flags pair one debit with one credit.
* **Authentication.** Check-then-write on codes, tokens and secrets, and counters
  that are tested before and incremented after. Correct means: tokens only for
  verified addresses, wrong codes bounded, a lock-out that ends, a state good
  for one callback.
* **Redis client.** Two commands where one was meant, replies that are lost, and
  a fall-back that is local to a process. Correct means: no more requests in a
  window than the limit, one holder of a lock, counters that lapse.
* **Exchange rates.** A task and checkouts that all insert the first rate of a
  day. Correct means: each day gets its rate, and none but a live quote is stored.
* **Reports.** A dozen analyses filter and add up the same rows, each for
  itself, in an order that is partly random. Correct means: they agree with each
  other and with the printed statement, and a better figure costs nothing.

`PROJECT.json` lists the hazards line by line, with the properties that cover
each and a note on what is only half covered.

## 2. How the code became TLA+

* **A request or a task is a small record** (`sess`, `worker`, `request`, `session`,
  `job`, `inquiry`): a program counter that names the next await, and what was
  read so far. One action per awaited query, gateway call, Redis command, flush
  or commit, so that other sessions run between any two of them. What a handler
  computes between two awaits is part of one action.
* **Snapshots are kept.** A decision uses the copy the session read, a guard that
  the database enforces (unique constraints, foreign keys, `UPDATE ... WHERE`) uses
  the table. `WriteBack` in `Billing` and `SetStatus` in `Team` write a column only
  if the session changed it, as the ORM does.
* **Failure is an action**: a session that dies (`Abort`, `AbortRequest`, `Leave`),
  a task that raises (`TaskFails`), a worker that is lost with its message
  requeued (`LoseWorker`) or acknowledged (`KillTask`), a process that restarts
  with an empty cache (`Restart`), a Redis command that is executed and whose
  reply is lost (`Routes`), a provider that refuses or does not answer.
* **The environment is explicit**: the gateways' charges and plans, the broker's
  queue, statements arriving, the merchant deleting everything, time that passes
  (`Lapse`, `CodeAges`, `Midnight`).
* **Pure algorithms are operators** over the same small data: `ResolveMapping`,
  `ParseKobo`, `ParseLocaleDate`, `LoanReadinessScore`, `FraudRisk`, the ladders of the
  health score.
* **Data are what the properties tell apart.** A bank row is its date and its
  deduplication key, a file is a set of rows, a merchant is its owner, a user is
  an e-mail address, a token is an id, a rate is the day it was quoted on.

Each module whose properties a mutation of the code might break carries those
mutations beside the definitions they replace (`Bug...`, with a word on the bug
each stands for). They are used by no specification.

## 3. The modules

### `Billing` and `Entitlement`

`txs`, `subs` and `userTier` are the three tables (or columns); `charge` and `plan`
are the gateways' view. `InitiateCheckout` is `initiate_checkout`;
`BeginWebhook`, `BeginVerify` and `BeginCancel` start a session;
`ReadTransaction`, `AskGateway`, `ReadSubscription`, `AskCancel`, `Flush`,
`Commit`, `WriteFailed` and `WriteSubscription` are the awaits of
`verify_and_apply`, `apply_successful_charge`, `handle_subscription_ended`,
`request_cancellation` and the two event handlers. Webhooks are not consumed: any
event the gateway may send can arrive again, late, and in any order.

`Entitlement` says what billing is for without sessions or rows: orders are
placed and paid, a paid order raises its owner to the tier it bought at most
once, access may lapse to free. `Billing!KeepsPromise` is the refinement.

Assumptions: in a flush the INSERT of a subscription precedes the UPDATE of a
transaction; a transaction always has a tier (rows older than the column do
not); a subscription's code is identified with the checkout it came from;
`current_period_end` and the status `incomplete` do not occur in the model
(nothing sets them); row locks on `users` are not modelled, those on the other
two tables are (`LocksTx`, `LocksSub`).

### `Ingestion`

One merchant and one vertical (`Vertical`): orders, protected by a unique
constraint and a row-by-row replay, or bank transactions, protected only by a
look-up. Requests: `StageUpload`, `AcceptUpload`, `BeginConfirm`,
`ConfirmMapping`, `StartProcessing`, `Dispatch`, `DropFile`, `CreateMarker`,
`Reflag`. Tasks: `Take` (or `TakeMissing`, when the file is gone), `ReadAccount`,
`SaveAccount`, `ReadMarkers`, `ReadKnown`, `WriteRows`, `Report`, `MarkFailed`,
`CleanUp`, `Ack`. The specifications differ in what may go wrong:

| Specification | What may happen |
|---|---|
| `Spec` | everything: lost workers, killed tasks, dying requests, deletion of all data |
| `KeptSpec` | everything but the deletion |
| `ReliableSpec` | tasks fail and workers are lost; no deletion, and the API does not die |
| `FairSpec` | `ReliableSpec` with fairness |

Two conditions say what the code does not lock: `OneTask`, tasks run one at a
time, and `MarkersApart`, no marker is created and applied while a task is
between reading the markers and writing its rows. Properties that need one are
checked and proved for the behaviours in which it always holds.

Assumptions: a file without an accepted row is left out; all bank files are
statements of one account number (without such a column the code derives one
from the upload, and every upload is an account of its own); orders have one
data source; the saved mapping is read together with the insert of the upload;
the last select of a report is part of its commit; the deletion is one
transaction.

### `Intake`

What `Ingestion` leaves open: which column is which field. `ResolveMapping` is the
two tiers of `resolve_mapping`, the exact synonyms (`ExactMatches`, a fold of `Take` over
the fields in their order) and the greedy pass over what rapidfuzz proposes
(`Candidates`): a fold over the set that takes the best match first (`Better`, `Worst`)
and applies it, asks about it or drops it (`Assign`, by `Free`, `RunnerUp` and `Sure`).
How alike two words are is the input `table`, in per cent. `IntakeAssumption` says that the
fields are the keys of a dict, so no two are the same, and that a file has no two
equal headers, as pandas renames the second. `saved` is `column_mappings`, one row per signature of the
normalised headers. `Upload` looks the mapping up or resolves it; `SaveAutomatic`,
`AskUser`, `BeginConfirm`, `Confirm` and `Dispatch` are the rest of the upload and of
the confirmation. `ColumnOf`, `ParseLocaleDate` and `ParseKobo` are what a task then
reads. A user accepts some of the proposed matches (the route takes any
dictionary); the model evaluates units of one and of a thousand (a million
exceeds TLC's integers).

### `Team`

`roles`, `invite` and `account` are the tables. Provisioning is part of every
request: `Call` (with what `Started` reads) and `Backfill`, then one of the
team's operations, each a read (`BeginInvite`, `BeginResend`, `BeginRevoke`,
`BeginUpdate`, `BeginAccept`) and a commit (`CreateInvite`, `ResendInvite`,
`RevokeInvite`, `UpdateMemberRole`, `ExpireInvite`, `FindUser` then `Join`);
`RemoveMember` is one statement. `at` stands for `created_at`, set when a session
builds a row. `Lapse` lets seven days pass for an invitation.

### `Access`

`Matrix` is `PLAN_FEATURES`, `Endpoints` says of each page which roles it admits and
which feature it needs, `Content` what its answer has for a role and a level
(`ShapedAccounts`, `ShapedFraud`, `ShapedLoan`, `ShapedQuality`). A request is `Ask`
(user and plan), `Admit`, `Forbid` or `NotFound` (role), `Clear` or
`UpgradeRequired` (feature), `Load` (which may write), `Answer`. `ChangeRoles` and
`ChangeTier` run in between; `hadRoles` and `hadTiers` remember what the user had
since the request was made. The report of an upload (`routes/uploads.py:81-114`)
shows rejected rows to every role, and is an endpoint of its own; texts a
language model writes are left out.

### `Transfers`, `Pairing`, `TransferScan`

`Transfers!Scans` says what a scan may find: any maximal one-to-one matching of
the unflagged rows. `Pairing` is the two greedy loops of
`detect_own_account_transfers`, and `LoopsFindScan` says their result is in
`Scans`; conversely every such matching is the result of some order (list its
pairs first), and the query has no ORDER BY. `TransferScan` uses `Scans` and
models the rest: `Count`, `Hit` or `Miss`, `ReadRows`, `CommitFlags`, `Store` of each
request, the cache of each process, `OpenAccount` and `Ingest` of the ingestion
tasks, `DeleteAll`. Whether amounts, dates and account identifiers agree is the
relation `Compatible`; ids of deleted rows are not used again.

### `SharedStore`, `Limiter`

`redis` and `memory[p]` are the keys of Redis and of the dictionary of process `p`;
`link` is whether Redis answers, and `Routes` how a command ends: answered,
executed with its reply lost, or not executed. On anything but an answer the
client repeats the command in memory. `Increment` and `SetExpiry` are the two
commands of `incr_with_ttl`; `Acquire` and `Release` the lock with its token.
`Sound` is where the client keeps what it promises: Redis always answers, or
never does and there is one process. `Limiter` composes it with
`rate_limit_auth` and with the holders of a lock, who may outstay its time to live.

### `Sessions`

`account`, `otps`, `tokens`, `resets` are the tables, the counters of wrong codes and
the OAuth states are keys of `SharedStore`. The handlers of `routes/auth.py`, one
action per await: `Register`, `ResendOtp`, `SaveDelete`, `SaveInsert`; `VerifyStart`,
`VerifyMatches`, `VerifyStale` or `VerifyWrong`, `Consume`, `CountWrong`,
`TimeCounter`, `VerifyDone`, `Provision`, `Issue`; `Login`, `LoginWithCode`;
`RefreshRead`, `RefreshDelete`; `ChangeRead`, `ChangeWrite`, `ForgotPassword`,
`ResetPassword`; `SetupRead`, `SetupWrite`, `EnableRead`, `EnableWrite`,
`DisableRead`, `DisableWrite`; `GoogleLogin`, `Callback`, `ExchangeCode`, `LinkAccount`,
`LinkConflict`. Assumptions: a Google identity keeps its address, and a user row is
its address; the last statements of a transaction and its commit are one step
(but for the delete and insert of `save_otp`); among coexisting codes of one
moment any may be the newest. Records of logins, profiles, avatars and the end
of an access token are left out.

### `Rates`

`rateOf` is the table, by day; `pricing` the checkouts and the hourly tasks: `Price`
or `BeginSync`, `Quote`, `Refuse` or `Outage`, `FindRow`, `StoreRate`, `InsertFails`.
`Midnight` passes at most once during a call.

### `Scoring`, `Lending`, `Health`

`Scoring` holds the formulas of the bank scores in integers (`Rounded` is Python's
rounding of halves to even, `Total` the sum of a table). `Lending` is a statement and what is made of it:
`Book` and `Reject` read an entry or fail to, `MarkOwn` and `MarkAnomalous` flag rows,
`Reimport` gives the rows of a day other ids; over the resulting `ledger` it defines
every analysis of the bank pages (`Dashboard`, `CashflowAnalysis`,
`CashflowForecast`, `LoanReadiness`, `FraudRisk`, `LenderBrief`). `lost` keeps the
positions and amounts of rejected entries. `LendingAssumption` says what is
assumed of a statement: its entries are dated in order, and an amount converted
to the base currency keeps its sign. Months have thirty days; severities, prose, debt coverage and the bands of the daily forecast are
left out.

`Health` has one table per industry scorer of `utils/analyzer.py`: metrics with
their ladders, and what each does without a figure (`Counted`, `Uncounted`,
`CountedAtZero`, `TakenFor`); the six checks of data quality; and the gating of
components by plan. Figures are inputs, on either side of each rung.

### MC modules

`MCBilling`, `MCIngestion`, `MCIngestionBank` and `MCTeam` give constants to one
module, the last two also the settings below. `MCServices`, `MCRoutes` and
`MCReports` put several modules beside each other: a variable `part`, chosen in the
initial state, says which of them runs, so that one run asks the questions of
all of them without multiplying their states.

## 4. The runs

Sizes are distinct states. Symmetry is used only for safety properties, over
sets whose members nothing tells apart.

| Run | Instance | States | Question |
|---|---|---|---|
| `MCBillingSerial` | 1 user, 2 checkouts, 1 session, 2 gateways, one tier with a plan | 44 k | `TierInSync`, `StatusMatchesTier`, `KeepsPromise`, `CancellationEndsFree`: with redelivery and reordering but one session at a time, do the columns agree, does billing implement `Entitlement`, and does a cancellation end? |
| `MCIngestionOrders` | 2 overlapping order files of 2 rows, 2 workers, 2 requests, 1 loss | 1.25 M | `NoDoubleCount`, `ReadyIsStored` under `OrdersSpec`, which is `KeptSpec` of orders without markers |
| `MCIngestionBank` | 2 overlapping statements over 3 days, up to 2 workers, 2 requests, 2 markers, 1 loss | 575 k | `StoredOnceByOne`, `AccountsSoundByOne`, `MarkersAppliedApart`, `StagedIsTrackedWhileUp`, `FairUploadSettles`, each in the settings that keep it |
| `MCTeam` | 2 users, 2 verticals, 2 sessions, 4 requests, 1 invitation with a further role or 2 to the owner's | 679 k | `ForeignRolesInvited`, `OwnersStay`; and `OnePendingApart`, `GrantsArePendingApart`, `HomeStaysApart`, each where certain requests do not overlap |
| `MCRoutes` | billing: 2 users, 1 checkout, 2 sessions, 2 gateways; access: 1 member, 1 request, 1 change; mapping: 2 uploads, 2 clients, 3 headers, 2 fields; scan: 2 processes, 2 requests, 3 rows; loops: 3 debits, 3 credits, any relation | 776 k | `RoutesTypeOK`, `PaidForTier`, `SuccessIsPaid`, `CodeIsOwn`, `AnswerWasAllowed`, `WriteWasAllowed`, `OfficerSeesNoDetail`, `MappingTrusted`, `CellsExact`, `FlaggedHasPartner`, `AnalysedIsScanned`, `LoopsFindScan` |
| `MCServices` | 2 callers at a limit of 1 and a lock; 1 user, 2 requests, 1 wrong code allowed, 2 secrets, 2 ids, 1 OAuth state; 1 checkout, 1 task, 2 days; Redis up, down or flaky | 108 k | `ServicesTypeOK`, `WindowBounded`, `HolderOwnsLock`, `TokensOnlyForVerified`, `SignInGuarded`, and under fairness `CountersLapse`, `EachDayGetsRate` |
| `MCReports` | 5 histories and up to 2 more entries of 7 kinds (1 after a long history), 1 lost, 1 own transfer, 2 markers; all scorers with 1 figure, all quality checks with 2 flaws | 33 k | `ReportsTypeOK`, `IntegrityHolds`, `ReportsAgree`, `HealthEarned`, `GainsNeverCost` |
| `MCBillingRace` | 1 user, 2 checkouts, 2 sessions | violation | `RaceIsRetried`, see section 7 |
| `MCIngestionFinal` | 1 upload, 1 worker, 1 loss | violation | `ReadyIsFinal` |
| `MCTwoFactor` | 1 user, 2 requests, 2 secrets | violation | `ActiveSecretProven` |
| `MCRates` | 1 checkout, 1 task, 3 days | violation | `RateIsCurrent` |
| `MCHeaders` | as the mapping part of `MCRoutes` | violation | `ReusedMappingReads` |

Several properties are conjunctions of named parts, one per way the promise
could break; each part has a mutation of the code that breaks it.

| Property | Parts |
|---|---|
| `AccountsSoundByOne` | `OneAccountByOne`, `PeriodCoversRowsByOne` |
| `MappingTrusted` | `MappingInverts`, `MoneyTrusted`, `AppliesToFile`, `ReadsAsConfirmed` |
| `CellsExact` | `DatesUnambiguous`, `AmountsExact` |
| `SignInGuarded` | `LockoutBounded`, `AttemptsAreTimed`, `StateTakenOnce` |
| `CountersLapse` | `WindowEnds`, `LockoutEnds` |
| `EachDayGetsRate` | `DayGetsRate` and, always, `StoredRateRecent` |
| `IntegrityHolds` | `IntegrityTellsLoss`, `IntactIsInSequence` |
| `ReportsAgree` | `ReportsAddUp`, `RecurringIsSpent`, `DebitsMatchedOnce`, `StressIsShorter`, `ScoreInReach`, `GainInReach`, `BriefAgrees` |
| `HealthEarned` | `NoDataNotHealthy`, `ExcellentFailsOnce` |
| `GainsNeverCost` | `BetterNeverCosts`, `UpgradeShowsMore` |
| `RoutesTypeOK`, `ServicesTypeOK`, `ReportsTypeOK` | the type invariants of the modules |

**Settings.** Some properties hold only if certain steps do not overlap, which
the code leaves to luck. Each of them names its condition, an operator of the
module, and a run has a variable that chooses among the conditions; section 7
says what happens without. `MCIngestionBank`: *one task*, everything may happen,
deletion included, with one request and tasks one at a time (`OneTask`); *markers*,
tasks one at a time and markers, with requests that overlap, but no marker
created while a task writes (`MarkersApart`); *fair*, one statement, two requests
and two workers that run on, no deletion, no marker and no death of the API.
Nothing in the code makes workers one (the default concurrency of Celery is the
number of processors). `MCTeam`: *none*, requests interleave freely; *creations*
(`OneCreation`), *decisions* (`OneDecision`) and *entrances* (`OneEntrance`), requests
interleave but no two create one invitation, no two decide one, nobody is
provisioned while joining.

**Why the bounds are enough.** Every hazard listed is between two sessions, or
one session and the environment, over one or two rows, and each instance has
those. Two sessions and one charge show a double application; two files that
share a row show a double count, and three days are what it takes for a period
to have an inside; one loss is enough to redeliver a message, as a message
behaves the same the second time; two processes give a cache that is behind; two
debits that agree with one credit are the smallest relation in which two scans
may choose differently; two callers at a limit of one, or two requests at one
allowed wrong code, are what it takes to go past a test that precedes its
increment. Three words and two fields give a header that is a synonym, one that
resembles it and one that resembles the other field, in all the orders that
matter to a greedy pass. The entries of `MCReports` cover two rows of one day, a gap
of two months, an overdrawn and a foreign balance; a figure stands on either
side of every rung of its ladder. Where a bound might hide something, the
theorems of section 6 hold for every value of the constants.

`MaxLost` bounds lost workers (in `Lending`, rejected entries), `MaxCalls` the requests
made (the row clock), `LastDay` the dates, `Markers` the intervals a marker may cover,
`MaxCount` what a counter counts to, `MaxChanges` the changes of roles and plans,
`MaxEntries` and `MaxOwn` the rows of a statement, `MaxMeasured` and `MaxFlaws` the figures
and quality checks that differ from none and from spotless. Deadlock is checked
except where a run stops because a bound is used up or an algorithm ends.

## 5. Fairness

* `Billing!ReliableSpec`: a handler that has begun runs on (weak fairness of each
  session's steps, as no process is lost in that specification); a plan that was
  stopped runs out; the gateway retries the event that ends a plan until the
  endpoint has queued it and a worker takes it (strong fairness, because a
  session is not always idle). Nothing is assumed of users, charges, or other
  events.
* `MCIngestionBank!MCFairness` (that of `Ingestion!FairSpec`, in one setting): requests
  and workers run on, and a queued message is taken by some worker. No fairness
  on uploads, confirmations, failures or losses. The code justifies it as far as
  the API and the broker stay up: a crash between the commit and the dispatch
  (`routes/uploads.py:203-206`) leaves an upload in processing for ever.
* `Limiter!LimiterFairness` and `Sessions!SessionsFairness`: a call that has
  incremented a counter sends its second command, and a key with a time to live
  lapses. A call that never runs on, as when its process is killed between the
  two commands, leaves a counter without an end (`services/redis_client.py:255-257`).
* `Rates!RatesFairness`: the hourly task begins again and again (`celery_app.py:48`),
  a call that was started goes on, and the provider, asked again and again,
  answers some time (strong fairness of `Quote`). `DayGetsRate` says that the day gets
  a rate *or ends before it does*.

## 6. The proofs

TLAPS checks, for any values of the constants that satisfy the named
assumptions of the modules:

| Module | Theorem | Statement | Inductive invariant |
|---|---|---|---|
| `BillingProofs` | `TypeCorrect` | `Spec => []TypeOK` | `TypeOK`, `PaidForTier`, `SuccessIsPaid`, `CodeIsOwn` together with `SessionOK`: what a session has read and decided still holds at its commit |
| | `NoTierWithoutPayment` | `Spec => []PaidForTier` | |
| | `NoSuccessWithoutPayment` | `Spec => []SuccessIsPaid` | |
| | `CodesAreOwn` | `Spec => []CodeIsOwn` | |
| | `SyncWithoutRaces` | `Spec /\ []OnePerUser => []TierInSync` | what a session has loaded is what the tables hold, as no other session works for its user |
| | `StatusWithoutRaces` | `Spec /\ []OnePerUser => []StatusMatchesTier` | |
| | `PromiseWithoutRaces` | `Spec /\ []OnePerUser => KeepsPromise` | each step maps to a step of `Entitlement` or to a stutter |
| `IngestionProofs` | `TypeCorrect` | `Spec => []TypeOK` | `TypeOK` and `FilesOK`: whoever works on an upload has staged its file |
| | `OrdersStoredOnce` | for orders, `Spec => []NoDoubleCount` | itself: the constraint keeps it in every step |
| | `ReadyUploadsAreStored` | `KeptSpec => []ReadyIsStored` | `ReadyInv`: a task about to write knows only stored rows, one about to report has stored its own |
| | `TransactionsStoredOnce`, `AccountsSound` | for statements, `Spec /\ []OneTask =>` `[]NoDoubleCount`, `[](OneAccount /\ PeriodCoversRows)` | `SoleInv`: the rows and the account the one task has read are those of the tables |
| | `MarkersAreApplied` | `ReliableSpec /\ []MarkersApart => []MarkersApplied` | `FlagsOK`: a covered row is flagged, or the request that created its marker is still to apply it |
| | `StagedFilesAreTracked` | `ReliableSpec => []StagedIsTracked` | `TrackedOK`: a staged file has a row, or a request, task or message that will remove it |
| | `StoredOnceInRuns`, `AccountsSoundInRuns`, `MarkersAppliedInRuns`, `StagedInRuns` | `MCSpec => []` the property of the run | a behaviour of the run's setting is one of the specification above |
| `TeamProofs` | `TypeCorrect` | `Spec => []TypeOK` | `InvitesOK`, `RolesOK`, `SessionOK` |
| | `InvitedOnly` | `Spec => []ForeignRolesInvited` | |
| | `OwnersKept` | `Spec => OwnersStay` | |
| | `OnePendingKept` | `Spec /\ []OneCreation => []OnePending` | a session that found no pending invitation still finds none |
| | `GrantsPending` | `Spec /\ []OneDecision => [][GrantIsPending]_vars` | an invitation found pending still is |
| | `HomeKept` | `Spec /\ []OneEntrance => [][HomeIsKept]_vars` | rows are dated before they are committed, but after every row their user has |
| | `OnePendingInRuns`, `GrantsPendingInRuns`, `HomeKeptInRuns` | `MCSpec =>` the property of the run | |
| `TransferScanProofs` | `LoopsCorrect` | `PairingSpec => []LoopsFindScan` | `LoopsInv`: a visited debit is paired, or everything that agrees with it is |
| | `ScanTypeCorrect` | `ScanSpec => []ScanTypeOK` | `ScanInv` |
| | `PartnersFlagged` | `ScanSpec => []FlaggedHasPartner` | `ScanInv`: the pairs a request carries are compatible |
| | `NoMissedScan` | `ScanSpec => []CacheIsScanned` | `SoFar`: while nothing is deleted, `KeptInv` |
| | `AnalysesScanned` | `ScanSpec => []AnalysedIsScanned` | |
| `RoutesProofs` | `AccessTypeCorrect` | `AccessSpec => []AccessTypeOK` | `AccessIInv`: at each stage a request holds a role and a level that its user had since it was made (`AsRead`) |
| | `AnswersAllowed` | `AccessSpec => []AnswerWasAllowed` | |
| | `WritesAllowed` | `AccessSpec => []WriteWasAllowed` | |
| | `OfficersSeeNoDetail` | `AccessSpec => []OfficerSeesNoDetail` | |
| | `UpgradesHideNothing` | `AccessSpec => []UpgradeHidesNothing` | |
| | `IntakeTypeCorrect` | `IntakeSpec => []IntakeTypeOK` | `IntakeIInv`: rules that are saved, looked up or dispatched may be applied to every file of their shape (`RulesFor`) |
| | `MappingsTrusted` | `IntakeSpec => []MappingTrusted` | |
| | `CellsReadExactly` | `IntakeSpec => []CellsExact` | none: it holds of any task and any cell |
| | `RoutesTyped` | `MCSpec => []RoutesTypeOK` | a behaviour of the run is one of each part (`PartsAreParts`) |
| | `MappingsTrustedInRuns` | `MCSpec => [](MappingTrusted /\ CellsExact)` | |
| `LimiterProofs` | `LimiterTypeCorrect` | `LimiterSpec => []LimiterTypeOK` | `LimiterIInv`: while the store is sound, the counter is what was admitted or the limit (`Counted`), has a time to live or a caller that owes it (`Ticking`), and the lock bears its holder's token (`Owned`) |
| | `LimitHolds` | `LimiterSpec => []WindowBounded` | |
| | `CountersTimed` | `LimiterSpec => []CounterIsTimed` | |
| | `HoldersOwnLock` | `LimiterSpec => []HolderOwnsLock` | |
| `SessionsProofs` | `TokensVerified` | `SessionsSpec => []TokensOnlyForVerified` | `Verified`: who is about to be given a token, holds one or resets a password is verified, and nobody is unverified again (`Stays`) |
| | `SessionsTyped` | `SessionsSpec => []SessionsTypeOK` | `StoreOK`, `RestOK`: what the store and the requests hold |
| | `SigningInIsGuarded` | `SessionsSpec => []SignInGuarded` | `Guard`: while the store in use is the same, the counter and the requests past its test together stay within the limit (`WithinLimit`), a counter without a time to live has a request about to set it (`BeingTimed`), a state was taken at most once (`TakenOnce`) |
| | `StoredRatesAreRecent` | `RatesSpec => [](RatesTypeOK /\ StoredRateRecent)` | `RatesIInv`: a call under way holds a quote of its day or of the day it began |
| | `ServicesHold` | `TogetherSpec => []` the type invariants, `WindowBounded`, `HolderOwnsLock`, `TokensOnlyForVerified`, `SignInGuarded` | `ServicesIInv`: the three invariants side by side, as each keeps the keys of the others (`KeysApart`) |
| | `ServicesTypedInRuns`, `GuardedInRuns` | `MCSpec => []` the property of the run | |
| `ReportsProofs` | `LendingSound` | `MCSpec => []LendingIInv`, where entries, histories, markers and bounds are any | `LendingIInv`: each position printed has one row or was lost (`PlacesOK`), ids tell rows apart (`RowsOK`), each balance is the sum of what was printed up to it (`BalancesOK`) |
| | `IntegrityOfStatements` | `MCSpec => []IntegrityHolds` | |
| | `ReportsOnRows` | `MCSpec => []ReportsAgree` | |
| | `LendingTyped` | `MCSpec => []LendingTypeOK` | |
| | `HealthIsEarned` | `MCSpec => []HealthEarned` | `HealthIInv`: figures are figures of their metric, and the reports of the checks are possible ones |
| | `GainsCostNothing` | `MCSpec => GainsNeverCost` | each ladder falls (`Falls`), but for the one for beds |
| | `ReportsTyped` | `MCSpec => []ReportsTypeOK` | |

**Why strengthening is needed.** None of the properties is inductive: each
depends on what sessions hold in memory. In `Billing`, `PaidForTier` survives a
commit only because the session was started by a charge that was paid, of a
transaction whose owner and tier never change (`Grows`), so a stale snapshot is
stale about everything but that. `TierInSync` needs more, that it is not stale at
all: true while no other session works for the user, and false, with `MCBillingRace`
as the witness, as soon as one does. In `Team`, a backfill commits what it decided
on an older reading; it is harmless because the row it adds is the caller's own
merchant's, and a user's own merchant is theirs for ever. In `TransferScan`, the
cache holds a number: it identifies a set because, while rows are only added,
the sets that COUNTs saw are nested (`Nested`), and nested finite sets of one
size are equal (`SameSize`). In `Access`, an answer rests on a role and a plan that
may both be gone; the invariant ties the record of the request to the history of
its user. In `Sessions`, two of the ways in do not look at the verification at
all: a refresh, because it trusts the token, and the two-factor code, because
the set-up it needs was behind a login; and the number of wrong codes is tested
before it is counted, so that what is bounded is the counter and the requests
past the test together. `Limiter` and `Sessions` write to one store: that a step of
one keeps the invariant of the other rests on their keys, which differ by their
prefixes (`KeysApart`), and on an outage meaning the same to both.

**Conditions in theorems.** `OnePerUser`, `OneTask`, `MarkersApart`, `OneCreation`,
`OneDecision` and `OneEntrance` are conditions on states, not on the environment:
the code neither locks nor retries, and section 7 shows for each of them what
happens when it does not hold. A theorem with `[]C` among its hypotheses speaks of
the behaviours that keep to it, which are many: the runs explore some of them.

**Sums.** The reports are sums over rows, and the community modules define a sum
by a fold whose `CHOOSE` picks the order. `ReportsProofs` therefore begins with the
laws of such sums over any finite set (`SumTakes`: any element may be taken out
first; `SumUnion`, `SumBounds`, `SumOfPart`, `SumOfGroups`), each by well-founded
induction on the size of a set. From these follow that a partition adds up to
the whole, whether it is by month, by label or by mode. The sequence of balances
(`IntactIsInSequence`) rests on `BalancesOK`: a statement that lost nothing has, between
two rows with nothing in between, exactly the amount of the later one. That the
loss of an entry in the middle is told (`IntegrityTellsLoss`) compares the sum of
the rows to the difference of two printed balances. For the health score each
of the thirteen scorers has a lemma that the ladders of its metrics are well
formed and what they count without a figure (`Fine`); the latter add up to 64 at
most in every scorer, one less than a B.

**Folds.** The two tiers of a mapping and the digits of an amount are folds too.
`RoutesProofs` has a law for each kind: over a sequence (`Upwards`) and
over a set whose elements are taken by a choice (`FoldExists`, `FoldRuns`). With them a
property of a mapping is proved as one of a loop: it holds before the first
candidate and `Assign` keeps it. That no column feeds two fields, no field has two columns
and money is never applied on a likeness alone is such a loop invariant. For amounts, cutting
`Digits` divided by `Scale` to two places is compared with the two digits the code
takes out of the string (`KoboIsCut`), by the lemma that determines a quotient
(`DivisionIs`).

**Only model-checked.** Liveness (`CancellationEndsFree`, `FairUploadSettles`,
`CountersLapse`, `EachDayGetsRate`) and ENABLED are outside the prover's reach. The
violations of section 7 are counterexamples, and TLC's by nature.

## 7. Where code and documentation part

Five runs check what a comment says and find it violated:

* `RaceIsRetried` (`services/payments.py:209`). The loser of the race to create a
  subscription is to be "caught below and retried". The INSERT is sent by the
  autoflush of `select(User)` inside the first `_apply`, before the `try` around the
  commit: the error leaves the function, and the loser's charge is not applied.
* `ReadyIsFinal` (`celery_app.py:33-37`). Redelivery is said to be "safe here
  since ingestion tasks are already idempotent". A worker lost after the file
  was deleted and before the acknowledgement has its message redelivered; the
  second task finds no file and turns a ready upload into a failed one.
* `ActiveSecretProven` (`routes/auth.py:491-494`). Opening the two-factor set-up
  again is said not to "leave a stale secret active". An enable request that has
  verified a code against the old secret commits after the set-up has stored a
  new one: the login asks for codes of a secret nobody has confirmed.
* `RateIsCurrent` (`services/fx_rates.py:81-85`). The on-demand fetch is to make "the
  rate used is always current" true before the first synchronisation of a day.
  The look-up answers with the latest earlier rate, so it never runs then.
* `ReusedMappingReads` (`services/column_mapping.py:203-207`). Headers are normalised
  for the sake of "zero-touch on repeat upload". The signature is; the saved
  mapping names the raw headers, and a file that differs in a trailing space
  reuses it and reads none of the column.

The other runs state their scope, and outside it the model has counterexamples
that a reader can reproduce:

| Property | Checked instead | What happens |
|---|---|---|
| `TierInSync`, `StatusMatchesTier` (`models/subscriptions.py:23`) | in `MCBillingSerial` with `Sessions = {s1, s2}` | a cancellation and a charge each write the columns they changed; user and subscription end with different tiers |
| `KeepsPromise` (`services/payments.py:203-206`) | the same | two sessions read one charge as pending; the second grants it again after a cancellation, or a stale "failed" overwrites success |
| `NoDoubleCount` (`bank_ingestion.py:369-374`) | in `MCIngestionBank` instead of `StoredOnceByOne` | two tasks read the known keys before either commits: a transaction is stored twice |
| `OneAccount` (`bank_ingestion.py:470-476`) | in `MCIngestionBank` | both tasks insert an account; later uploads fail on `scalar_one_or_none` |
| `StagedIsTracked` (`privacy.py:18-19`) | in `MCIngestionBank` | the file of a deleted upload, or of a request that died, stays in storage |
| `MarkersApplied` (`contextual_markers.py:93-95`) | in `MCIngestionBank` | a task read the marker ranges before the marker was committed, and commits after the re-flag job |
| `OnePending` (`team_management.py:184-185`) | module `Team` with `Spec` and the constants of `MCTeam` | two invitations of one address both find none pending |
| `GrantsArePending` (`team_management.py:271-272`) | the same | a revocation that commits during an acceptance is overwritten |
| `HomeStays` | the same | `created_at` is set before the commit: an invited role built earlier and committed later becomes the first |
| `AnalysedIsScanned` without `gone = {}` (`routes/bank.py:200-206`) | module `TransferScan` with four accounts of one row each and two transfers apart | all data is deleted and as many new rows arrive: the cached count matches and they are not scanned |
| `WindowBounded`, `HolderOwnsLock` without `Sound` (`services/redis_client.py:189`) | in `MCServices` | a reply is lost, or Redis comes back: the memory of a process counts and locks apart from Redis |

Two concurrent scans that read the same unflagged rows in different orders may
flag one debit with two credits: each commit is one to one, their union need not
be. Two refreshes of one token, or a refresh that read it before a password
change deleted it, each leave a token that was meant to end.

Reading the reports also showed, without a property of its own:

* the current balance of loan readiness is the last printed one, not the last
  row's (`services/bank_loan_readiness.py:255-261`), and a negative twelve-month
  average turns the sign of the balance trend (`:114`);
* a credit whose base amount is zero divides by zero in the pass-through test
  (`services/bank_fraud_risk.py:230`);
* in `utils/analyzer.py`, the tier "Under-utilised" of the hospital scorer cannot be
  reached (2476), the points listed for a missing figure are not in the total
  (2361), and a cart abandonment of 0 % is taken for 65 % (3046);
* the raw figures behind a gated component stay in the insights of the answer
  (`routes/analyze.py:142`);
* an exception of the HTTP client is not the `FxRateFetchError` the checkout
  catches (`services/fx_rates.py:96`);
* an amount that cannot be read is stored as zero (`services/bank_ingestion.py:86`),
  and one quantity that is no integer fails the whole file
  (`services/ecommerce_ingestion.py:332`);
* the mapping a user confirms is not compared with the file's columns
  (`routes/mapping.py:114`), and an automatic one may overwrite it when the upload
  looked the mapping up before the confirmation.

## 8. What is not covered

* **Mono** (`services/mono_ingestion.py`): it has no upload row and no task. Order
  items, and the derivation of surrogate identifiers.
* **Renewal charges**: their references are unknown to the database, and the code
  ignores them.
* **The figures of the health score**: how an analyser of `utils/analyzer.py` finds its
  columns and sums them up. What the score makes of them is in `Health`.
* **E-commerce revenue, margins and dashboards, the predictor, recommendations and
  the playbook**: single-pass aggregation and prose.
* **Data type detection** (`services/dataset_detection.py`): counts of keywords.
* **PDF parsers, encryption, e-mail, AI and bank clients**: text processing or I/O
  without shared state. **Settings routes**: single-row writes. **Migrations and
  the frontend.**
* **A composition of `Ingestion` and `TransferScan`** in one run: the scan's own
  `Ingest` and `DeleteAll` stand for what ingestion tasks and the deletion commit.
