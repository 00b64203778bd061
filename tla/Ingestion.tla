----------------------------- MODULE Ingestion -----------------------------
(***************************************************************************)
(* Uploading, mapping and ingesting one merchant's files of one vertical:  *)
(* app/routes/uploads.py, mapping.py, the two ingestion services, upload   *)
(* staging, contextual markers and the deletion of a merchant's data.      *)
(*                                                                         *)
(* A request stages the file, records an Upload and queues a task; a       *)
(* Celery worker takes the task, reads the file, reads what is already     *)
(* stored, writes what is new and reports.  Requests and workers are       *)
(* database sessions that interleave at every await and every commit.      *)
(*                                                                         *)
(* A row is identified with its date and its deduplication key (the        *)
(* external order id; or date, amount and description of a transaction).   *)
(* All bank files are statements of one account number.                    *)
(***************************************************************************)
EXTENDS Integers, FiniteSets, FiniteSetsExt

CONSTANTS Vertical,   \* "bank" or "ecommerce"
          Uploads,    \* upload ids
          LastDay,    \* the last date a row may have
          Accounts,   \* ids of rows of the accounts table
          Workers,    \* Celery worker processes
          Requests,   \* API requests in flight at once
          Markers,    \* bound: the intervals of dates a marker may cover
          MaxLost,    \* bound: how many workers may be lost
          Null

Rows == 1..LastDay

\* Contents of files: at least one row is accepted.
Files == (SUBSET Rows) \ {{}}

ASSUME IngestionAssumption ==
    /\ Vertical \in {"bank", "ecommerce"}
    /\ LastDay \in Nat
    /\ Markers \subseteq SUBSET Rows
    /\ MaxLost \in Nat
    /\ Null \notin Uploads \cup Accounts
    /\ \A S \in SUBSET Rows : S # Null
    /\ Null \notin [start : Rows, end : Rows]

VARIABLES
    upload,    \* uploads.status, "none" without a row
    content,   \* the rows of the file a request has staged, Null before
    staged,    \* uploads whose file is in storage
    saved,     \* has the merchant's ambiguous header shape a saved mapping?
    queue,     \* ingestion messages the broker holds, per upload
    accounts,  \* accounts: the statement period, Null without a row
    stored,    \* bank_transactions or orders
    marked,    \* dates inside some contextual marker
    worker,    \* the workers' tasks
    request,   \* the requests in flight
    lost       \* workers lost so far

vars == <<upload, content, staged, saved, queue, accounts, stored, marked,
          worker, request, lost>>
tables == <<upload, accounts, stored, marked, saved>>

UploadStatus == {"none", "needs_mapping", "processing", "ready", "failed"}

Period == [start : Rows, end : Rows]

\* A stored row: its account (Null for an order), is_anomalous, and how many
\* rows with its key the table held when it was inserted.
StoredRow == [account : Accounts \cup {Null}, row : Rows, copy : Nat,
              anomalous : BOOLEAN]

\* A task: the account it found (and the columns it loaded), the marker
\* ranges and the keys it read.
Task == [pc : {"idle", "account", "save_account", "markers", "known",
               "write", "report", "failing", "clean_up", "ack"},
         up : Uploads \cup {Null}, account : Accounts \cup {Null},
         period : Period \cup {Null}, ranges : SUBSET Rows,
         known : SUBSET Rows]

NoTask == [pc |-> "idle", up |-> Null, account |-> Null, period |-> Null,
           ranges |-> {}, known |-> {}]

Request == [pc : {"idle", "accept", "confirm", "process", "dispatch", "drop",
                  "reflag"},
            up : Uploads \cup {Null}, range : SUBSET Rows]

NoRequest == [pc |-> "idle", up |-> Null, range |-> {}]

TypeOK ==
    /\ upload \in [Uploads -> UploadStatus]
    /\ content \in [Uploads -> {Null} \cup Files]
    /\ staged \subseteq Uploads
    /\ saved \in BOOLEAN
    /\ queue \in [Uploads -> Nat]
    /\ accounts \in [Accounts -> Period \cup {Null}]
    /\ stored \subseteq StoredRow
    /\ marked \subseteq Rows
    /\ worker \in [Workers -> Task]
    /\ request \in [Requests -> Request]
    /\ lost \in 0..MaxLost

Init ==
    /\ upload = [u \in Uploads |-> "none"]
    /\ content = [u \in Uploads |-> Null]
    /\ staged = {}
    /\ saved = FALSE
    /\ queue = [u \in Uploads |-> 0]
    /\ accounts = [a \in Accounts |-> Null]
    /\ stored = {}
    /\ marked = {}
    /\ worker = [w \in Workers |-> NoTask]
    /\ request = [q \in Requests |-> NoRequest]
    /\ lost = 0

RowsOf(S) == {x.row : x \in S}

-----------------------------------------------------------------------------
(* Requests *)

Reply(q) == request' = [request EXCEPT ![q] = NoRequest]
At(q, pc) == request[q].pc = pc
GoTo(q, pc) == request' = [request EXCEPT ![q].pc = pc]

\* POST /upload/csv and /upload/pdf, up to stage_upload.
StageUpload(q, u, rows) ==
    /\ At(q, "idle") /\ content[u] = Null
    /\ content' = [content EXCEPT ![u] = rows]
    /\ staged' = staged \cup {u}
    /\ request' = [request EXCEPT ![q] = [pc |-> "accept", up |-> u,
                                          range |-> {}]]
    /\ UNCHANGED <<tables, queue, worker, lost>>

\* The rest of upload_csv before the dispatch.  An ambiguous header shape
\* waits for a mapping unless a saved one fits; a clear one is ingested; a
\* file that is no CSV is dropped.
AcceptUpload(q) ==
    LET u == request[q].up
    IN  /\ At(q, "accept")
        /\ \/ /\ upload' = [upload EXCEPT ![u] = "processing"]
              /\ GoTo(q, "dispatch")
              /\ UNCHANGED staged
           \/ /\ ~saved
              /\ upload' = [upload EXCEPT ![u] = "needs_mapping"]
              /\ Reply(q)
              /\ UNCHANGED staged
           \/ /\ staged' = staged \ {u}
              /\ Reply(q)
              /\ UNCHANGED upload
        /\ UNCHANGED <<content, saved, queue, accounts, stored, marked,
                       worker, lost>>

\* POST /mapping/confirm: _load_upload_for_mapping
BeginConfirm(q, u) ==
    /\ At(q, "idle")
    /\ upload[u] = "needs_mapping"
    /\ request' = [request EXCEPT ![q] = [pc |-> "confirm", up |-> u,
                                          range |-> {}]]
    /\ UNCHANGED <<tables, content, staged, queue, worker, lost>>

\* confirm_mapping reads the staged file (an error if it is gone) and saves
\* the mapping.
ConfirmMapping(q) ==
    /\ At(q, "confirm")
    /\ IF request[q].up \in staged
       THEN saved' = TRUE /\ GoTo(q, "process")
       ELSE Reply(q) /\ UNCHANGED saved
    /\ UNCHANGED <<upload, accounts, stored, marked, content, staged, queue,
                   worker, lost>>

\* _dispatch_ingestion sets the status it loaded as needs_mapping, whatever
\* the row holds by now; an UPDATE that finds no row is an error.
StartProcessing(q) ==
    LET u == request[q].up
    IN  /\ At(q, "process")
        /\ IF upload[u] = "none"
           THEN Reply(q) /\ UNCHANGED upload
           ELSE /\ upload' = [upload EXCEPT ![u] = "processing"]
                /\ GoTo(q, "dispatch")
        /\ UNCHANGED <<content, staged, saved, queue, accounts, stored,
                       marked, worker, lost>>

\* task.delay; when the broker refuses, mark_upload_failed.
Dispatch(q) ==
    LET u == request[q].up
    IN  /\ At(q, "dispatch")
        /\ \/ /\ queue' = [queue EXCEPT ![u] = @ + 1]
              /\ Reply(q)
              /\ UNCHANGED upload
           \/ /\ upload' = [upload EXCEPT ![u] = "failed"]
              /\ GoTo(q, "drop")
              /\ UNCHANGED queue
        /\ UNCHANGED <<content, staged, saved, accounts, stored, marked,
                       worker, lost>>

DropFile(q) ==
    /\ At(q, "drop")
    /\ staged' = staged \ {request[q].up}
    /\ Reply(q)
    /\ UNCHANGED <<tables, content, queue, worker, lost>>

\* create_contextual_marker commits the marker, then re-flags.
CreateMarker(q, range) ==
    /\ At(q, "idle")
    /\ marked' = marked \cup range
    /\ request' = [request EXCEPT ![q] = [pc |-> "reflag", up |-> Null,
                                          range |-> range]]
    /\ UNCHANGED <<upload, content, staged, saved, queue, accounts, stored,
                   worker, lost>>

\* reflag_orders_for_marker, reflag_bank_transactions_for_marker
BugReflagged(range) == stored      \* a bug: only new rows are flagged
Reflagged(range) ==
    {[x EXCEPT !.anomalous = @ \/ x.row \in range] : x \in stored}

Reflag(q) ==
    /\ At(q, "reflag")
    /\ stored' = Reflagged(request[q].range)
    /\ Reply(q)
    /\ UNCHANGED <<upload, content, staged, saved, queue, accounts, marked,
                   worker, lost>>

\* The process dies, or a statement outside any try raises.
AbortRequest(q) ==
    /\ ~At(q, "idle")
    /\ Reply(q)
    /\ UNCHANGED <<tables, content, staged, queue, worker, lost>>

\* POST /privacy/delete-data: one transaction.  Staged files, the saved
\* mappings and the markers stay.
DeleteAllMerchantData ==
    /\ upload' = [u \in Uploads |-> "none"]
    /\ accounts' = [a \in Accounts |-> Null]
    /\ stored' = {}
    /\ UNCHANGED <<content, staged, saved, queue, marked, worker, request,
                   lost>>

-----------------------------------------------------------------------------
(* Workers *)

Doing(w, pc) == worker[w].pc = pc
Then(w, pc) == worker' = [worker EXCEPT ![w].pc = pc]

\* ingest_bank_csv, ingest_bank_pdf, ingest_ecommerce_csv: the task starts
\* and reads the staged file.
BugTakeMissing(w) == "clean_up"    \* a bug: a missing file is not recorded
TakeMissing(w) == "failing"

Take(w, u) ==
    /\ Doing(w, "idle")
    /\ queue[u] > 0
    /\ queue' = [queue EXCEPT ![u] = @ - 1]
    /\ worker' = [worker EXCEPT ![w] =
          [NoTask EXCEPT !.up = u,
                         !.pc = IF u \notin staged THEN TakeMissing(w)
                                ELSE IF Vertical = "bank" THEN "account"
                                ELSE "markers"]]
    /\ UNCHANGED <<tables, content, staged, request, lost>>

\* The accounts rows of this merchant and account number.
BugFoundAccounts(w) == {}          \* a bug: every upload makes an account
FoundAccounts(w) == {a \in Accounts : accounts[a] # Null}

\* ingest_bank_dataframe: scalar_one_or_none raises on two accounts.
ReadAccount(w) ==
    LET found == FoundAccounts(w)
    IN  /\ Doing(w, "account")
        /\ \/ /\ found = {}
              /\ Then(w, "save_account")
           \/ \E a \in found :
                 /\ found = {a}
                 /\ worker' = [worker EXCEPT ![w].pc = "save_account",
                                             ![w].account = a,
                                             ![w].period = accounts[a]]
           \/ /\ Cardinality(found) > 1
              /\ Then(w, "failing")
        /\ UNCHANGED <<tables, content, staged, queue, request, lost>>

\* The statement period this task wants the account to have.
BugWidened(period, rows) == [start |-> Min(rows), end |-> Max(rows)]
Widened(period, rows) ==
    IF period = Null THEN [start |-> Min(rows), end |-> Max(rows)]
    ELSE [start |-> Min(rows \cup {period.start}),
          end |-> Max(rows \cup {period.end})]

\* The commit of the account: an INSERT, or an UPDATE of the columns that
\* changed since the row was loaded.  An account deleted meanwhile fails the
\* UPDATE (or the foreign key of the rows to come).
SaveAccount(w) ==
    LET t == worker[w]
        want == Widened(t.period, content[t.up])
        free == {a \in Accounts : /\ accounts[a] = Null
                                 /\ \A o \in Workers : worker[o].account # a}
    IN  /\ Doing(w, "save_account")
        /\ \/ /\ t.account = Null
              /\ \E a \in free :
                    /\ accounts' = [accounts EXCEPT ![a] = want]
                    /\ worker' = [worker EXCEPT ![w].pc = "markers",
                                                ![w].account = a]
           \/ /\ t.account # Null /\ accounts[t.account] # Null
              /\ accounts' = [accounts EXCEPT
                    ![t.account].start =
                        IF want.start = t.period.start THEN @ ELSE want.start,
                    ![t.account].end =
                        IF want.end = t.period.end THEN @ ELSE want.end]
              /\ Then(w, "markers")
           \/ /\ t.account # Null /\ accounts[t.account] = Null
              /\ Then(w, "failing")
              /\ UNCHANGED accounts
        /\ UNCHANGED <<upload, content, staged, saved, queue, stored, marked,
                       request, lost>>

\* get_marker_ranges
ReadMarkers(w) ==
    /\ Doing(w, "markers")
    /\ worker' = [worker EXCEPT ![w].pc = "known", ![w].ranges = marked]
    /\ UNCHANGED <<tables, content, staged, queue, request, lost>>

\* existing_keys, existing_order_ids
BugExisting(w) == {}               \* a bug: nothing is deduplicated
Existing(w) == RowsOf({x \in stored : x.account = worker[w].account})

ReadKnown(w) ==
    /\ Doing(w, "known")
    /\ worker' = [worker EXCEPT ![w].pc = "write", ![w].known = Existing(w)]
    /\ UNCHANGED <<tables, content, staged, queue, request, lost>>

\* Which of the pending rows the commit inserts.  Orders have a unique
\* constraint: a batch that collides is replayed row by row in savepoints
\* (_commit_pending_orders).  Bank transactions have none.
BugInsertable(pending) ==          \* a bug: the whole batch is dropped
    IF Vertical = "ecommerce" /\ pending \cap RowsOf(stored) # {}
    THEN {} ELSE pending
BugUnconstrained(pending) == pending
Insertable(pending) ==
    IF Vertical = "ecommerce" THEN pending \ RowsOf(stored) ELSE pending

\* write_canonical_bank_rows, write_canonical_rows
WriteRows(w) ==
    LET t == worker[w]
        pending == content[t.up] \ t.known
        orphan == t.account # Null /\ accounts[t.account] = Null
    IN  /\ Doing(w, "write")
        /\ IF orphan /\ pending # {}
           THEN Then(w, "failing") /\ UNCHANGED stored
           ELSE /\ stored' = stored \cup
                      {[account |-> t.account, row |-> r,
                        copy |-> Cardinality({x \in stored : x.row = r}),
                        anomalous |-> r \in t.ranges] :
                          r \in Insertable(pending)}
                /\ Then(w, "report")
        /\ UNCHANGED <<upload, content, staged, saved, queue, accounts,
                       marked, request, lost>>

\* The Upload row is updated, or created if it is gone.
Report(w) ==
    /\ Doing(w, "report")
    /\ upload' = [upload EXCEPT ![worker[w].up] = "ready"]
    /\ Then(w, "clean_up")
    /\ UNCHANGED <<content, staged, saved, queue, accounts, stored, marked,
                   request, lost>>

\* mark_upload_failed: updates the row, or creates it.
MarkFailed(w) ==
    /\ Doing(w, "failing")
    /\ upload' = [upload EXCEPT ![worker[w].up] = "failed"]
    /\ Then(w, "clean_up")
    /\ UNCHANGED <<content, staged, saved, queue, accounts, stored, marked,
                   request, lost>>

\* The session of mark_upload_failed raises too.
MarkRaises(w) ==
    /\ Doing(w, "failing")
    /\ Then(w, "clean_up")
    /\ UNCHANGED <<tables, content, staged, queue, request, lost>>

\* finally: delete_staged_upload
BugRemaining(u) == staged          \* a bug: the file is kept
Remaining(u) == staged \ {u}

CleanUp(w) ==
    /\ Doing(w, "clean_up")
    /\ staged' = Remaining(worker[w].up)
    /\ Then(w, "ack")
    /\ UNCHANGED <<tables, content, queue, request, lost>>

\* The task returns or raises; either way its message is acknowledged.
Ack(w) ==
    /\ Doing(w, "ack")
    /\ worker' = [worker EXCEPT ![w] = NoTask]
    /\ UNCHANGED <<tables, content, staged, queue, request, lost>>

\* A statement raises: the soft time limit, a lost connection, a deadlock.
TaskFails(w) ==
    /\ worker[w].pc \in {"account", "save_account", "markers", "known",
                         "write", "report"}
    /\ Then(w, "failing")
    /\ UNCHANGED <<tables, content, staged, queue, request, lost>>

\* task_reject_on_worker_lost: the message goes back to the queue.
LoseWorker(w) ==
    /\ ~Doing(w, "idle")
    /\ lost < MaxLost
    /\ lost' = lost + 1
    /\ queue' = [queue EXCEPT ![worker[w].up] = @ + 1]
    /\ worker' = [worker EXCEPT ![w] = NoTask]
    /\ UNCHANGED <<tables, content, staged, request>>

\* task_time_limit: the task is killed and its message acknowledged.
KillTask(w) ==
    /\ ~Doing(w, "idle")
    /\ lost < MaxLost
    /\ lost' = lost + 1
    /\ worker' = [worker EXCEPT ![w] = NoTask]
    /\ UNCHANGED <<tables, content, staged, queue, request>>

Work(w) ==
    \/ ReadAccount(w) \/ SaveAccount(w) \/ ReadMarkers(w) \/ ReadKnown(w)
    \/ WriteRows(w) \/ Report(w) \/ MarkFailed(w) \/ CleanUp(w) \/ Ack(w)

Serve(q) ==
    \/ AcceptUpload(q) \/ ConfirmMapping(q) \/ StartProcessing(q)
    \/ Dispatch(q) \/ DropFile(q) \/ Reflag(q)

Arrive(q) ==
    \/ \E u \in Uploads, rows \in Files : StageUpload(q, u, rows)
    \/ \E u \in Uploads : BeginConfirm(q, u)
    \/ \E range \in Markers : CreateMarker(q, range)

\* What happens while nobody deletes data and the API does not die:
\* workers may fail and be lost.
Reliable ==
    \/ \E q \in Requests : Arrive(q) \/ Serve(q)
    \/ \E w \in Workers : \/ Work(w) \/ TaskFails(w) \/ LoseWorker(w)
                         \/ \E u \in Uploads : Take(w, u)

Faults ==
    \/ \E q \in Requests : AbortRequest(q)
    \/ \E w \in Workers : KillTask(w) \/ MarkRaises(w)

Next == Reliable \/ Faults \/ DeleteAllMerchantData

Spec == Init /\ [][Next]_vars

\* Nobody deletes the merchant's data.
KeptSpec == Init /\ [][Reliable \/ Faults]_vars

\* Nothing is lost but workers.
ReliableSpec == Init /\ [][Reliable]_vars

\* As above, and requests and workers run on; a queued message is taken.
Fairness ==
    /\ \A q \in Requests : WF_vars(Serve(q))
    /\ \A w \in Workers : WF_vars(Work(w))
    /\ \A u \in Uploads : WF_vars(\E w \in Workers : Take(w, u))
FairSpec == ReliableSpec /\ Fairness

-----------------------------------------------------------------------------
(* What the code does not lock: two conditions some properties need.       *)

\* Tasks run one at a time, as on a single worker process with one slot.
OneTask == \A w, o \in Workers : Doing(w, "idle") \/ Doing(o, "idle") \/ w = o

\* No marker is created and applied while a task is between reading the
\* markers and writing its rows.
MarkersApart == \A w \in Workers, q \in Requests :
    Doing(w, "known") \/ Doing(w, "write") => ~At(q, "reflag")

-----------------------------------------------------------------------------
(* Properties *)

\* No order and no transaction is stored twice, however uploads overlap and
\* messages are redelivered.  Of orders this is the unique constraint's and
\* the replay's doing; of transactions only the lookup's before the insert
\* (bank_ingestion.py:369-374, ecommerce_ingestion.py:422-431).
NoDoubleCount == \A x, y \in stored : x.row = y.row => x = y

\* An upload shown as ready has every row of its file in the table: a
\* collision or an earlier upload may take a row's place, never lose it.
ReadyIsStored ==
    \A u \in Uploads : upload[u] = "ready" => content[u] \subseteq RowsOf(stored)

\* One account number has one accounts row.  With two, scalar_one_or_none
\* fails every later upload of that account (bank_ingestion.py:477-481).
OneAccount == Cardinality({a \in Accounts : accounts[a] # Null}) <= 1

\* The statement period of an account spans all transactions stored for it,
\* over several statements in any order and redelivery in the middle
\* (bank_ingestion.py:489-494).
PeriodCoversRows ==
    \A x \in stored : x.account # Null /\ accounts[x.account] # Null =>
        /\ accounts[x.account].start <= x.row
        /\ x.row <= accounts[x.account].end

\* While no request and no task runs, every stored row a contextual marker
\* covers is flagged: at insertion or by the marker's re-flag job.
Quiet ==
    /\ \A w \in Workers : Doing(w, "idle")
    /\ \A q \in Requests : At(q, "idle")
MarkersApplied ==
    Quiet => \A x \in stored : x.row \in marked => x.anomalous

\* A staged file is someone's to read and delete: a request's, a task's, a
\* queued message's, or that of the mapping still to be confirmed.  Any other
\* stays in storage for ever (upload_staging.py:84-88).
StagedIsTracked ==
    \A u \in staged :
        \/ upload[u] = "needs_mapping"
        \/ queue[u] > 0
        \/ \E w \in Workers : worker[w].up = u
        \/ \E q \in Requests : request[q].up = u

\* What an upload's report says stays true: a redelivered message or a second
\* confirmation does not turn ready into failed.
ReadyIsFinal ==
    [][\A u \in Uploads : upload[u] = "ready" => upload'[u] # "failed"]_vars

\* No upload is polled as processing for ever: whatever fails, some task or
\* request comes to report it (upload_staging.py:99-102).
UploadSettles ==
    \A u \in Uploads : upload[u] = "processing" ~> upload[u] # "processing"
=============================================================================
