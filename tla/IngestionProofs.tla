-------------------------- MODULE IngestionProofs --------------------------
(***************************************************************************)
(* Proofs about Ingestion, for any uploads, dates, accounts, workers,      *)
(* requests and markers: files and rows keep their uploads whatever        *)
(* interleaves; and, in the runs in which tasks do not overlap, bank rows  *)
(* and accounts are kept once, in those in which markers do not meet a     *)
(* task, every marker is applied, and while nothing dies every staged file *)
(* is one some delivery will still remove.                                 *)
(***************************************************************************)
EXTENDS MCIngestionBank, WellFoundedInduction, FiniteSetTheorems, TLAPS

\* Whoever works on an upload has staged its file before.
Known(u) == u \in Uploads /\ content[u] # Null

FilesOK ==
    /\ \A u \in Uploads :
          upload[u] # "none" \/ queue[u] > 0 \/ u \in staged => Known(u)
    /\ \A w \in Workers : ~Doing(w, "idle") => Known(worker[w].up)
    /\ \A q \in Requests :
          request[q].pc \notin {"idle", "reflag"} => Known(request[q].up)

\* The inductive invariant of every variant of the specification.
Inv == TypeOK /\ FilesOK

-----------------------------------------------------------------------------
(* First and last date *)

LEMMA Least ==
  ASSUME NEW T \in SUBSET Nat, T # {}
  PROVE  \E m \in T : \A n \in T : m <= n
  <1> DEFINE R == {p \in Nat \X Nat : p[1] < p[2]}
  <1>1. IsWellFoundedOn(R, Nat)
    BY NatLessThanWellFounded DEF OpToRel
  <1> HIDE DEF R
  <1>2. PICK m \in T : \A n \in T : <<n, m>> \notin R
    BY <1>1, WFMin
  <1>3. \A n \in T : ~(n < m)
    BY <1>2 DEF R
  <1> QED BY <1>3

LEMMA FirstAndLast ==
  ASSUME NEW S \in Files
  PROVE  /\ Min(S) \in S /\ \A r \in S : Min(S) <= r
         /\ Max(S) \in S /\ \A r \in S : r <= Max(S)
  <1> DEFINE T == {n \in Nat : \E r \in S : n = LastDay - r}
  <1>1. S \subseteq 1..LastDay /\ S # {} /\ LastDay \in Nat
    BY IngestionAssumption DEF Files, Rows
  <1>2. \E m \in S : \A r \in S : m <= r
    BY <1>1, Least
  <1>3. PICK m \in T : \A n \in T : m <= n
    <2>1. PICK r \in S : TRUE
      BY <1>1
    <2>2. LastDay - r \in T
      BY <1>1, <2>1
    <2> HIDE DEF T
    <2>3. T \in SUBSET Nat
      BY DEF T
    <2> QED BY <2>2, <2>3, Least
  <1>4. PICK x \in S : m = LastDay - x
    BY <1>3
  <1>5. \A r \in S : r <= x
    <2>1. \A r \in S : LastDay - r \in T
      BY <1>1
    <2> QED BY <1>1, <1>3, <1>4, <2>1
  <1>6. \E x1 \in S : \A r \in S : x1 >= r
    <2>1. \A r \in S : x >= r
      BY <1>1, <1>5
    <2> QED BY <2>1
  <1>7. Min(S) \in S /\ \A r \in S : Min(S) <= r
    BY <1>2 DEF Min
  <1>8. Max(S) \in S /\ \A r \in S : Max(S) >= r
    BY <1>6 DEF Max
  <1> QED BY <1>1, <1>7, <1>8

LEMMA WidenedIsPeriod ==
  ASSUME NEW period \in Period \cup {Null}, NEW rows \in Files
  PROVE  /\ Widened(period, rows) \in Period
         /\ \A r \in rows : /\ Widened(period, rows).start <= r
                            /\ r <= Widened(period, rows).end
  <1>1. rows \subseteq Rows /\ Min(rows) \in Rows /\ Max(rows) \in Rows
    BY FirstAndLast DEF Files
  <1>2. CASE period = Null
    BY <1>1, <1>2, FirstAndLast DEF Widened, Period
  <1>3. CASE period # Null
    <2> DEFINE A == rows \cup {period.start}
               B == rows \cup {period.end}
    <2>1. period.start \in Rows /\ period.end \in Rows
      BY <1>3 DEF Period
    <2>2. A \in Files /\ B \in Files
      BY <1>1, <2>1 DEF Files
    <2>3. Widened(period, rows) = [start |-> Min(A), end |-> Max(B)]
      BY <1>3 DEF Widened
    <2> HIDE DEF A, B
    <2>4. /\ Min(A) \in A /\ \A r \in A : Min(A) <= r
          /\ Max(B) \in B /\ \A r \in B : r <= Max(B)
      BY <2>2, FirstAndLast
    <2>5. Min(A) \in Rows /\ Max(B) \in Rows
      BY <2>2, <2>4 DEF Files
    <2>6. \A r \in rows : Min(A) <= r /\ r <= Max(B)
      BY <2>4 DEF A, B
    <2> QED BY <2>3, <2>5, <2>6 DEF Period
  <1> QED BY <1>2, <1>3

-----------------------------------------------------------------------------
(* Requests keep the invariant *)

LEMMA Initially == Init => Inv
  <1> SUFFICES ASSUME Init PROVE Inv
    OBVIOUS
  <1>1. NoTask \in Task /\ NoRequest \in Request
    BY DEF NoTask, NoRequest, Task, Request
  <1>2. saved \in BOOLEAN
    BY DEF Init
  <1>3. TypeOK
    BY <1>1, <1>2, IngestionAssumption DEF Init, TypeOK, UploadStatus
  <1>4. FilesOK
    BY DEF Init, FilesOK, Doing, NoTask, NoRequest
  <1> QED BY <1>3, <1>4 DEF Inv

LEMMA StageUploadKeeps ==
  ASSUME Inv, NEW q \in Requests, NEW u \in Uploads, NEW rows \in Files,
         StageUpload(q, u, rows)
  PROVE  Inv'
  <1>1. rows # Null
    BY IngestionAssumption DEF Files
  <1>2. TypeOK'
    BY DEF Inv, TypeOK, StageUpload, tables, Request
  <1>3. FilesOK'
    BY <1>1 DEF Inv, TypeOK, FilesOK, Known, StageUpload, tables, At, Doing
  <1> QED BY <1>2, <1>3 DEF Inv

LEMMA AcceptUploadKeeps ==
  ASSUME Inv, NEW q \in Requests, AcceptUpload(q)
  PROVE  Inv'
  <1>1. Known(request[q].up)
    BY DEF Inv, FilesOK, AcceptUpload, At
  <1>2. TypeOK'
    BY <1>1 DEF Inv, TypeOK, Known, AcceptUpload, GoTo, Reply, NoRequest,
                Request, UploadStatus
  <1>3. FilesOK'
    BY <1>1 DEF Inv, TypeOK, FilesOK, Known, AcceptUpload, GoTo, Reply,
                NoRequest, Request, Doing, UploadStatus
  <1> QED BY <1>2, <1>3 DEF Inv

LEMMA BeginConfirmKeeps ==
  ASSUME Inv, NEW q \in Requests, NEW u \in Uploads, BeginConfirm(q, u)
  PROVE  Inv'
  <1>1. TypeOK'
    BY DEF Inv, TypeOK, BeginConfirm, tables, Request
  <1>2. FilesOK'
    BY DEF Inv, TypeOK, FilesOK, Known, BeginConfirm, tables, Doing
  <1> QED BY <1>1, <1>2 DEF Inv

LEMMA ConfirmMappingKeeps ==
  ASSUME Inv, NEW q \in Requests, ConfirmMapping(q)
  PROVE  Inv'
  <1>1. TypeOK'
    <2>1. saved' \in BOOLEAN
      <3>1. saved' = TRUE \/ saved' = saved
        BY DEF ConfirmMapping
      <3> QED BY <3>1 DEF Inv, TypeOK
    <2>2. request' \in [Requests -> Request]
      BY DEF Inv, TypeOK, ConfirmMapping, GoTo, Reply, NoRequest, Request
    <2> QED BY <2>1, <2>2 DEF Inv, TypeOK, ConfirmMapping
  <1>2. FilesOK'
    BY DEF Inv, TypeOK, FilesOK, Known, ConfirmMapping, At, GoTo, Reply,
           NoRequest, Request, Doing
  <1> QED BY <1>1, <1>2 DEF Inv

LEMMA StartProcessingKeeps ==
  ASSUME Inv, NEW q \in Requests, StartProcessing(q)
  PROVE  Inv'
  <1>1. Known(request[q].up)
    BY DEF Inv, FilesOK, StartProcessing, At
  <1>2. TypeOK'
    BY SMTT(20), <1>1
    DEF Inv, TypeOK, Known, StartProcessing, GoTo, Reply, NoRequest, Request,
        UploadStatus
  <1>3. FilesOK'
    BY <1>1 DEF Inv, TypeOK, FilesOK, Known, StartProcessing, GoTo, Reply,
                NoRequest, Request, Doing, UploadStatus
  <1> QED BY <1>2, <1>3 DEF Inv

LEMMA DispatchKeeps ==
  ASSUME Inv, NEW q \in Requests, Dispatch(q)
  PROVE  Inv'
  <1>1. Known(request[q].up)
    BY DEF Inv, FilesOK, Dispatch, At
  <1>2. TypeOK'
    <2>1. queue' \in [Uploads -> Nat] /\ upload' \in [Uploads -> UploadStatus]
      <3>1. CASE /\ queue' = [queue EXCEPT ![request[q].up] = @ + 1]
                 /\ UNCHANGED upload
        BY <1>1, <3>1 DEF Inv, TypeOK, Known
      <3>2. CASE /\ UNCHANGED queue
                 /\ upload' = [upload EXCEPT ![request[q].up] = "failed"]
        BY <3>2 DEF Inv, TypeOK, UploadStatus
      <3> QED BY <3>1, <3>2 DEF Dispatch
    <2>2. request' \in [Requests -> Request]
      BY DEF Inv, TypeOK, Dispatch, GoTo, Reply, NoRequest, Request
    <2> QED BY <2>1, <2>2 DEF Inv, TypeOK, Dispatch
  <1>3. FilesOK'
    <2>1. \A u \in Uploads : Known(u) => Known(u)'
      BY DEF Known, Dispatch
    <2>2. \A u \in Uploads : u # request[q].up =>
              upload'[u] = upload[u] /\ queue'[u] = queue[u]
      BY DEF Inv, TypeOK, Dispatch
    <2>3. UNCHANGED <<staged, worker, content>>
      BY DEF Dispatch
    <2>4. \A o \in Requests :
             \/ request'[o].pc \in {"idle", "reflag"}
             \/ request[o].pc \notin {"idle", "reflag"} /\ request'[o].up = request[o].up
      BY DEF Inv, TypeOK, Dispatch, At, GoTo, Reply, NoRequest, Request
    <2> QED BY <1>1, <2>1, <2>2, <2>3, <2>4 DEF Inv, FilesOK, Known, Doing
  <1> QED BY <1>2, <1>3 DEF Inv

LEMMA DropFileKeeps ==
  ASSUME Inv, NEW q \in Requests, DropFile(q)
  PROVE  Inv'
  <1>1. TypeOK'
    BY DEF Inv, TypeOK, DropFile, tables, Reply, NoRequest, Request
  <1>2. FilesOK'
    BY DEF Inv, TypeOK, FilesOK, Known, DropFile, tables, Reply, NoRequest,
           Request, Doing
  <1> QED BY <1>1, <1>2 DEF Inv

LEMMA CreateMarkerKeeps ==
  ASSUME Inv, NEW q \in Requests, NEW range \in Markers,
         CreateMarker(q, range)
  PROVE  Inv'
  <1>1. range \subseteq Rows
    BY IngestionAssumption
  <1>2. TypeOK'
    BY <1>1 DEF Inv, TypeOK, CreateMarker, Request
  <1>3. FilesOK'
    BY DEF Inv, TypeOK, FilesOK, Known, CreateMarker, Doing
  <1> QED BY <1>2, <1>3 DEF Inv

LEMMA ReflagKeeps ==
  ASSUME Inv, NEW q \in Requests, Reflag(q)
  PROVE  Inv'
  <1>1. Reflagged(request[q].range) \subseteq StoredRow
    BY DEF Inv, TypeOK, Reflagged, StoredRow
  <1>2. TypeOK'
    BY <1>1 DEF Inv, TypeOK, Reflag, Reply, NoRequest, Request
  <1>3. FilesOK'
    BY DEF Inv, TypeOK, FilesOK, Known, Reflag, Reply, NoRequest, Request,
           Doing
  <1> QED BY <1>2, <1>3 DEF Inv

LEMMA AbortRequestKeeps ==
  ASSUME Inv, NEW q \in Requests, AbortRequest(q)
  PROVE  Inv'
  <1>1. TypeOK'
    BY DEF Inv, TypeOK, AbortRequest, tables, Reply, NoRequest, Request
  <1>2. FilesOK'
    BY DEF Inv, TypeOK, FilesOK, Known, AbortRequest, tables, Reply,
           NoRequest, Request, Doing
  <1> QED BY <1>1, <1>2 DEF Inv

LEMMA DeleteKeeps == Inv /\ DeleteAllMerchantData => Inv'
  BY DEF Inv, TypeOK, FilesOK, Known, DeleteAllMerchantData, UploadStatus,
         Doing

-----------------------------------------------------------------------------
(* Workers keep the invariant *)

LEMMA WorkerFiles ==
  ASSUME Inv, NEW w \in Workers,
         worker' \in [Workers -> Task],
         \A o \in Workers \ {w} : worker'[o] = worker[o],
         worker'[w].pc = "idle" \/ Known(worker'[w].up),
         UNCHANGED <<content, request>>,
         staged' \subseteq staged,
         \A u \in Uploads : upload'[u] # "none" \/ queue'[u] > 0 =>
            upload[u] # "none" \/ queue[u] > 0 \/ Known(u)
  PROVE  FilesOK'
  <1>1. \A u \in Uploads : Known(u) => Known(u)'
    BY DEF Known
  <1>2. ASSUME NEW o \in Workers, ~Doing(o, "idle")'
        PROVE  Known(worker[o].up)'
    <2>1. CASE o = w
      BY <1>2, <2>1 DEF Doing, Known
    <2>2. CASE o # w
      <3>1. worker'[o] = worker[o]
        BY <2>2
      <3> QED BY <1>2, <3>1 DEF Inv, FilesOK, Doing, Known
    <2> QED BY <2>1, <2>2
  <1>3. \A u \in Uploads :
           (upload[u] # "none" \/ queue[u] > 0 \/ u \in staged)' => Known(u)'
    BY <1>1 DEF Inv, FilesOK
  <1>4. \A q \in Requests :
           (request[q].pc \notin {"idle", "reflag"} => Known(request[q].up))'
    BY DEF Inv, FilesOK, Known
  <1> QED BY <1>2, <1>3, <1>4 DEF FilesOK

LEMMA ThenKeeps ==
  ASSUME Inv, NEW w \in Workers, ~Doing(w, "idle"),
         NEW pc \in {"account", "save_account", "markers", "known", "write",
                     "report", "failing", "clean_up", "ack"},
         Then(w, pc)
  PROVE  /\ Known(worker[w].up)
         /\ worker' \in [Workers -> Task]
         /\ \A o \in Workers \ {w} : worker'[o] = worker[o]
         /\ Known(worker'[w].up)
  <1>1. Known(worker[w].up)
    BY DEF Inv, FilesOK
  <1>2. worker[w] \in Task /\ worker \in [Workers -> Task]
    BY DEF Inv, TypeOK
  <1>3. worker' = [worker EXCEPT ![w].pc = pc]
    BY DEF Then
  <1>4. worker'[w] = [worker[w] EXCEPT !.pc = pc]
    BY <1>2, <1>3
  <1>5. worker'[w] \in Task /\ worker'[w].up = worker[w].up
    BY <1>2, <1>4 DEF Task
  <1> QED BY <1>1, <1>2, <1>3, <1>5

LEMMA TakeKeeps ==
  ASSUME Inv, NEW w \in Workers, NEW u \in Uploads, Take(w, u)
  PROVE  Inv'
  <1> DEFINE t == [NoTask EXCEPT !.up = u,
                         !.pc = IF u \notin staged THEN TakeMissing(w)
                                ELSE IF Vertical = "bank" THEN "account"
                                ELSE "markers"]
  <1>1. t \in Task /\ t.up = u
    BY DEF NoTask, Task, TakeMissing
  <1>2. worker' = [worker EXCEPT ![w] = t]
    BY DEF Take
  <1>3. Known(u)
    BY DEF Inv, FilesOK, Take
  <1> HIDE DEF t
  <1>4. worker' \in [Workers -> Task] /\ worker'[w].up = u
    BY <1>1, <1>2 DEF Inv, TypeOK
  <1>5. queue' = [queue EXCEPT ![u] = @ - 1] /\ queue[u] > 0
    BY DEF Take
  <1>6. queue' \in [Uploads -> Nat]
    BY <1>5 DEF Inv, TypeOK
  <1>7. UNCHANGED <<upload, accounts, stored, marked, saved, content, staged,
                    request, lost>>
    BY DEF Take, tables
  <1>8. TypeOK'
    BY <1>4, <1>6, <1>7 DEF Inv, TypeOK
  <1>9. \A v \in Uploads : queue'[v] > 0 => queue[v] > 0 \/ v = u
    BY <1>5 DEF Inv, TypeOK
  <1>10. FilesOK'
    BY <1>2, <1>3, <1>4, <1>7, <1>9, WorkerFiles DEF Inv, TypeOK
  <1> QED BY <1>8, <1>10 DEF Inv

LEMMA ReadAccountKeeps ==
  ASSUME Inv, NEW w \in Workers, ReadAccount(w)
  PROVE  Inv'
  <1>1. UNCHANGED <<upload, accounts, stored, marked, saved, content, staged,
                    queue, request, lost>>
    BY DEF ReadAccount, tables
  <1>2. ~Doing(w, "idle")
    BY DEF ReadAccount, Doing
  <1>3. /\ worker' \in [Workers -> Task]
        /\ \A o \in Workers \ {w} : worker'[o] = worker[o]
        /\ Known(worker'[w].up)
    <2>1. CASE \E pc \in {"save_account", "failing"} : Then(w, pc)
      BY <1>2, <2>1, ThenKeeps
    <2>2. CASE \E a \in FoundAccounts(w) :
                  worker' = [worker EXCEPT ![w].pc = "save_account",
                                           ![w].account = a,
                                           ![w].period = accounts[a]]
      <3>1. PICK a \in FoundAccounts(w) :
                  worker' = [worker EXCEPT ![w].pc = "save_account",
                                           ![w].account = a,
                                           ![w].period = accounts[a]]
        BY <2>2
      <3>2. a \in Accounts /\ accounts[a] \in Period \cup {Null}
        BY DEF FoundAccounts, Inv, TypeOK
      <3>3. worker[w] \in Task /\ Known(worker[w].up)
        BY <1>2 DEF Inv, TypeOK, FilesOK
      <3>4. /\ worker'[w].up = worker[w].up
            /\ worker'[w] \in Task
            /\ \A o \in Workers \ {w} : worker'[o] = worker[o]
        BY <3>1, <3>2, <3>3 DEF Inv, TypeOK, Task
      <3>5. worker' \in [Workers -> Task]
        BY <3>1, <3>4 DEF Inv, TypeOK
      <3> QED BY <3>3, <3>4, <3>5
    <2> QED BY <2>1, <2>2 DEF ReadAccount
  <1>4. TypeOK'
    BY <1>1, <1>3 DEF Inv, TypeOK
  <1>5. FilesOK'
    BY <1>1, <1>3, WorkerFiles
  <1> QED BY <1>4, <1>5 DEF Inv

LEMMA SaveAccountKeeps ==
  ASSUME Inv, NEW w \in Workers, SaveAccount(w)
  PROVE  Inv'
  <1> DEFINE t == worker[w]
             want == Widened(t.period, content[t.up])
  <1>1. UNCHANGED <<upload, stored, marked, saved, content, staged, queue,
                    request, lost>>
    BY DEF SaveAccount
  <1>2. ~Doing(w, "idle")
    BY DEF SaveAccount, Doing
  <1>3. t \in Task /\ Known(t.up)
    BY <1>2 DEF Inv, TypeOK, FilesOK
  <1>4. content[t.up] \in Files /\ t.period \in Period \cup {Null}
    BY <1>3 DEF Inv, TypeOK, Known, Task
  <1>5. want \in Period
    BY <1>4, WidenedIsPeriod
  <1> HIDE DEF want
  <1>6. /\ accounts' \in [Accounts -> Period \cup {Null}]
        /\ worker' \in [Workers -> Task]
        /\ \A o \in Workers \ {w} : worker'[o] = worker[o]
        /\ Known(worker'[w].up)
    <2>1. CASE \E a \in Accounts :
                  /\ accounts' = [accounts EXCEPT ![a] = want]
                  /\ worker' = [worker EXCEPT ![w].pc = "markers",
                                              ![w].account = a]
      <3>1. PICK a \in Accounts :
                  /\ accounts' = [accounts EXCEPT ![a] = want]
                  /\ worker' = [worker EXCEPT ![w].pc = "markers",
                                              ![w].account = a]
        BY <2>1
      <3>2. /\ worker'[w].up = worker[w].up
            /\ worker'[w] \in Task
            /\ \A o \in Workers \ {w} : worker'[o] = worker[o]
        BY <1>3, <3>1 DEF Inv, TypeOK, Task
      <3>3. worker' \in [Workers -> Task]
        BY <3>1, <3>2 DEF Inv, TypeOK
      <3>4. accounts' \in [Accounts -> Period \cup {Null}]
        BY <1>5, <3>1 DEF Inv, TypeOK
      <3> QED BY <1>3, <3>2, <3>3, <3>4
    <2>2. CASE /\ t.account # Null /\ accounts[t.account] # Null
               /\ accounts' = [accounts EXCEPT
                     ![t.account].start =
                         IF want.start = t.period.start THEN @ ELSE want.start,
                     ![t.account].end =
                         IF want.end = t.period.end THEN @ ELSE want.end]
               /\ Then(w, "markers")
      <3>1. t.account \in Accounts
        BY <1>3, <2>2 DEF Task
      <3>2. accounts[t.account] \in Period
        BY <2>2, <3>1 DEF Inv, TypeOK
      <3>3. accounts'[t.account] \in Period
        BY <1>5, <2>2, <3>1, <3>2 DEF Inv, TypeOK, Period
      <3>4. accounts' \in [Accounts -> Period \cup {Null}]
        BY <2>2, <3>3 DEF Inv, TypeOK
      <3> QED BY <1>2, <2>2, <3>4, ThenKeeps
    <2>3. CASE Then(w, "failing") /\ UNCHANGED accounts
      <3>1. accounts' \in [Accounts -> Period \cup {Null}]
        BY <2>3 DEF Inv, TypeOK
      <3> QED BY <1>2, <2>3, <3>1, ThenKeeps
    <2> QED BY <2>1, <2>2, <2>3 DEF SaveAccount, want
  <1>7. TypeOK'
    BY <1>1, <1>6 DEF Inv, TypeOK
  <1>8. FilesOK'
    BY <1>1, <1>6, WorkerFiles
  <1> QED BY <1>7, <1>8 DEF Inv

\* Reading what markers cover and what is stored already.
LEMMA ReadsKeep ==
  ASSUME Inv, NEW w \in Workers, ReadMarkers(w) \/ ReadKnown(w)
  PROVE  Inv'
  <1>1. UNCHANGED <<upload, accounts, stored, marked, saved, content, staged,
                    queue, request, lost>>
    BY DEF ReadMarkers, ReadKnown, tables
  <1>2. worker[w] \in Task /\ Known(worker[w].up)
    BY DEF Inv, TypeOK, FilesOK, ReadMarkers, ReadKnown, Doing
  <1>3. Existing(w) \subseteq Rows /\ marked \subseteq Rows
    BY DEF Existing, RowsOf, Inv, TypeOK, StoredRow
  <1>4. /\ worker'[w] \in Task
        /\ worker'[w].up = worker[w].up
        /\ \A o \in Workers \ {w} : worker'[o] = worker[o]
    <2>1. CASE ReadMarkers(w)
      BY <1>2, <1>3, <2>1 DEF ReadMarkers, Inv, TypeOK, Task
    <2>2. CASE ReadKnown(w)
      BY <1>2, <1>3, <2>2 DEF ReadKnown, Inv, TypeOK, Task
    <2> QED BY <2>1, <2>2
  <1>5. worker' \in [Workers -> Task]
    BY <1>4 DEF ReadMarkers, ReadKnown, Inv, TypeOK
  <1>6. TypeOK'
    BY <1>1, <1>5 DEF Inv, TypeOK
  <1>7. FilesOK'
    BY <1>1, <1>2, <1>4, <1>5, WorkerFiles
  <1> QED BY <1>6, <1>7 DEF Inv

LEMMA ImageFinite ==
  ASSUME NEW f, NEW S, IsFiniteSet(S), f = [d \in S |-> f[d]]
  PROVE  IsFiniteSet({f[d] : d \in S})
  <1> DEFINE T == {f[d] : d \in S}
  <1>1. f \in Surjection(S, T)
    BY DEF Surjection
  <1> HIDE DEF T
  <1>2. IsFiniteSet(T)
    BY <1>1, FS_Surjection
  <1> QED BY <1>2 DEF T

\* The rows a commit adds.
Added(w) ==
    {[account |-> worker[w].account, row |-> r,
      copy |-> Cardinality({x \in stored : x.row = r}),
      anomalous |-> r \in worker[w].ranges] :
        r \in Insertable(content[worker[w].up] \ worker[w].known)}

LEMMA AddedRows ==
  ASSUME Inv, IsFiniteSet(stored), NEW w \in Workers, ~Doing(w, "idle")
  PROVE  Added(w) \subseteq StoredRow /\ IsFiniteSet(Added(w))
  <1> DEFINE t == worker[w]
             new == Insertable(content[t.up] \ t.known)
             Row(d) == [account |-> t.account, row |-> d,
                        copy |-> Cardinality({x \in stored : x.row = d}),
                        anomalous |-> d \in t.ranges]
  <1>1. t \in Task /\ content[t.up] \in Files
    BY DEF Inv, TypeOK, FilesOK, Known
  <1>2. new \subseteq Rows /\ IsFiniteSet(new)
    <2>1. new \subseteq Rows
      BY <1>1 DEF Insertable, Files
    <2>2. IsFiniteSet(Rows)
      BY IngestionAssumption, FS_Interval DEF Rows
    <2> QED BY <2>1, <2>2, FS_Subset
  <1>3. Added(w) = {Row(d) : d \in new}
    BY DEF Added
  <1>4. \A d \in new : Cardinality({x \in stored : x.row = d}) \in Nat
    <2> TAKE d \in new
    <2>1. IsFiniteSet({x \in stored : x.row = d})
      BY FS_Subset
    <2> QED BY <2>1, FS_CardinalityType
  <1>5. \A d \in new : Row(d) \in StoredRow
    <2> TAKE d \in new
    <2>1. t.account \in Accounts \cup {Null} /\ d \in Rows
      BY <1>1, <1>2 DEF Task
    <2>2. (d \in t.ranges) \in BOOLEAN
      OBVIOUS
    <2> HIDE DEF new
    <2> QED BY <1>4, <2>1, <2>2 DEF StoredRow
  <1>6. IsFiniteSet(Added(w))
    <2> DEFINE f == [d \in new |-> Row(d)]
    <2> HIDE DEF new, Row
    <2>1. Added(w) = {f[d] : d \in new}
      BY <1>3
    <2> HIDE DEF f
    <2>2. f = [d \in new |-> f[d]]
      BY DEF f
    <2> QED BY <1>2, <2>1, <2>2, ImageFinite
  <1> QED BY <1>3, <1>5, <1>6

LEMMA StepKeeps ==
  ASSUME Inv, NEW w \in Workers, ~Doing(w, "idle"),
         NEW pc \in {"account", "save_account", "markers", "known", "write",
                     "report", "failing", "clean_up", "ack"},
         Then(w, pc),
         upload' \in [Uploads -> UploadStatus],
         \A u \in Uploads : u # worker[w].up => upload'[u] = upload[u],
         stored' \subseteq StoredRow,
         staged' \subseteq staged,
         UNCHANGED <<accounts, marked, saved, content, queue, request, lost>>
  PROVE  Inv'
  <1>1. /\ Known(worker[w].up)
        /\ worker' \in [Workers -> Task]
        /\ \A o \in Workers \ {w} : worker'[o] = worker[o]
        /\ Known(worker'[w].up)
    BY ThenKeeps
  <1>2. TypeOK'
    BY <1>1 DEF Inv, TypeOK
  <1>3. FilesOK'
    BY <1>1, WorkerFiles
  <1> QED BY <1>2, <1>3 DEF Inv

LEMMA StatusKeeps ==
  ASSUME Inv, NEW w \in Workers,
         Report(w) \/ MarkFailed(w) \/ MarkRaises(w) \/ CleanUp(w) \/ TaskFails(w)
  PROVE  Inv'
  <1>1. /\ upload \in [Uploads -> UploadStatus]
        /\ stored \subseteq StoredRow
    BY DEF Inv, TypeOK
  <1>2. CASE Report(w)
    BY <1>1, <1>2, StepKeeps DEF Report, Doing, UploadStatus
  <1>3. CASE MarkFailed(w)
    BY <1>1, <1>3, StepKeeps DEF MarkFailed, Doing, UploadStatus
  <1>4. CASE MarkRaises(w)
    BY <1>1, <1>4, StepKeeps DEF MarkRaises, Doing, tables
  <1>5. CASE CleanUp(w)
    BY <1>1, <1>5, StepKeeps DEF CleanUp, Doing, tables, Remaining
  <1>6. CASE TaskFails(w)
    BY <1>1, <1>6, StepKeeps DEF TaskFails, Doing, tables
  <1> QED BY <1>2, <1>3, <1>4, <1>5, <1>6

LEMMA EndsKeep ==
  ASSUME Inv, NEW w \in Workers, Ack(w) \/ LoseWorker(w) \/ KillTask(w)
  PROVE  Inv'
  <1>1. UNCHANGED <<upload, accounts, stored, marked, saved, content, staged,
                    request>>
    BY DEF Ack, LoseWorker, KillTask, tables
  <1>2. Known(worker[w].up)
    BY DEF Inv, FilesOK, Ack, LoseWorker, KillTask, Doing
  <1>3. NoTask \in Task /\ NoTask.pc = "idle"
    BY DEF NoTask, Task
  <1>4. /\ worker' \in [Workers -> Task]
        /\ worker'[w] = NoTask
        /\ \A o \in Workers \ {w} : worker'[o] = worker[o]
    BY <1>3 DEF Inv, TypeOK, Ack, LoseWorker, KillTask
  <1>5. lost' \in 0..MaxLost
    BY IngestionAssumption DEF Inv, TypeOK, Ack, LoseWorker, KillTask
  <1>6. /\ queue' \in [Uploads -> Nat]
        /\ \A u \in Uploads : queue'[u] > 0 => queue[u] > 0 \/ Known(u)
    <2>1. CASE UNCHANGED queue
      BY <2>1 DEF Inv, TypeOK
    <2>2. CASE queue' = [queue EXCEPT ![worker[w].up] = @ + 1]
      BY <1>2, <2>2 DEF Inv, TypeOK, Known
    <2> QED BY <2>1, <2>2 DEF Ack, LoseWorker, KillTask
  <1>7. TypeOK'
    BY <1>1, <1>4, <1>5, <1>6 DEF Inv, TypeOK
  <1>8. FilesOK'
    BY <1>1, <1>3, <1>4, <1>6, WorkerFiles
  <1> QED BY <1>7, <1>8 DEF Inv

LEMMA WriteRowsKeeps ==
  ASSUME Inv, IsFiniteSet(stored), NEW w \in Workers, WriteRows(w)
  PROVE  Inv' /\ IsFiniteSet(stored')
  <1>1. ~Doing(w, "idle")
    BY DEF WriteRows, Doing
  <1>2. UNCHANGED <<upload, content, staged, saved, queue, accounts, marked,
                    request, lost>>
    BY DEF WriteRows
  <1>3. \E pc \in {"failing", "report"} : Then(w, pc)
    BY DEF WriteRows
  <1>4. stored' = stored \/ stored' = stored \cup Added(w)
    BY DEF WriteRows, Added
  <1>5. stored' \subseteq StoredRow
    BY <1>1, <1>4, AddedRows DEF Inv, TypeOK
  <1>6. upload' \in [Uploads -> UploadStatus]
    BY <1>2 DEF Inv, TypeOK
  <1>7. Inv'
    BY <1>1, <1>2, <1>3, <1>5, <1>6, StepKeeps
  <1>8. IsFiniteSet(stored')
    BY <1>1, <1>4, AddedRows, FS_Union
  <1> QED BY <1>7, <1>8

-----------------------------------------------------------------------------
(* The invariant of every variant of the specification *)

\* The steps that leave the table of rows alone.
LEMMA OtherStoredKeeps ==
  ASSUME Reliable \/ Faults, ~\E q \in Requests : Reflag(q),
         ~\E w \in Workers : WriteRows(w)
  PROVE  UNCHANGED stored
  <1>1. ASSUME NEW q \in Requests, Arrive(q) \/ Serve(q)
        PROVE  UNCHANGED stored
    BY <1>1 DEF Arrive, Serve, StageUpload, BeginConfirm, CreateMarker,
                AcceptUpload, ConfirmMapping, StartProcessing, Dispatch,
                DropFile, tables
  <1>2. ASSUME NEW w \in Workers,
               \/ Work(w) \/ TaskFails(w) \/ LoseWorker(w)
               \/ \E u \in Uploads : Take(w, u)
        PROVE  UNCHANGED stored
    BY <1>2 DEF Work, ReadAccount, SaveAccount, ReadMarkers, ReadKnown,
                Report, MarkFailed, CleanUp, Ack, TaskFails, LoseWorker, Take,
                tables
  <1>3. CASE Faults
    BY <1>3 DEF Faults, AbortRequest, KillTask, MarkRaises, tables
  <1> QED BY <1>1, <1>2, <1>3 DEF Reliable

LEMMA ReflagFinite ==
  ASSUME IsFiniteSet(stored), NEW q \in Requests, Reflag(q)
  PROVE  IsFiniteSet(stored')
  <1> DEFINE f == [x \in stored |->
                     [x EXCEPT !.anomalous = @ \/ x.row \in request[q].range]]
  <1>1. stored' = {f[x] : x \in stored}
    BY DEF Reflag, Reflagged
  <1>2. f = [x \in stored |-> f[x]]
    OBVIOUS
  <1> HIDE DEF f
  <1> QED BY <1>1, <1>2, ImageFinite

LEMMA RequestsKeep ==
  ASSUME Inv, NEW q \in Requests, Arrive(q) \/ Serve(q) \/ AbortRequest(q)
  PROVE  Inv'
  BY StageUploadKeeps, BeginConfirmKeeps, CreateMarkerKeeps,
     AcceptUploadKeeps, ConfirmMappingKeeps, StartProcessingKeeps,
     DispatchKeeps, DropFileKeeps, ReflagKeeps, AbortRequestKeeps
  DEF Arrive, Serve

LEMMA WorkersKeep ==
  ASSUME Inv, IsFiniteSet(stored), NEW w \in Workers,
         \/ Work(w) \/ TaskFails(w) \/ LoseWorker(w) \/ KillTask(w)
         \/ MarkRaises(w)
         \/ \E u \in Uploads : Take(w, u)
  PROVE  Inv'
  BY TakeKeeps, ReadAccountKeeps, SaveAccountKeeps, ReadsKeep,
     WriteRowsKeeps, StatusKeeps, EndsKeep
  DEF Work

LEMMA NextKeeps ==
  ASSUME Inv, IsFiniteSet(stored), [Next]_vars
  PROVE  Inv' /\ IsFiniteSet(stored)'
  <1>1. CASE UNCHANGED vars
    BY <1>1 DEF vars, Inv, TypeOK, FilesOK, Known, Doing
  <1>2. CASE Next
    <2>1. Inv'
      BY <1>2, RequestsKeep, WorkersKeep, DeleteKeeps DEF Next, Reliable, Faults
    <2>2. IsFiniteSet(stored')
      <3>1. ASSUME NEW q \in Requests, Reflag(q) PROVE IsFiniteSet(stored')
        BY <3>1, ReflagFinite
      <3>2. ASSUME NEW w \in Workers, WriteRows(w) PROVE IsFiniteSet(stored')
        BY <3>2, WriteRowsKeeps
      <3>3. CASE DeleteAllMerchantData
        BY <3>3, FS_EmptySet DEF DeleteAllMerchantData
      <3>4. CASE UNCHANGED stored
        BY <3>4
      <3> QED BY <1>2, <3>1, <3>2, <3>3, <3>4, OtherStoredKeeps DEF Next
    <2> QED BY <2>1, <2>2
  <1> QED BY <1>1, <1>2

LEMMA SpecInv == Spec => [](Inv /\ IsFiniteSet(stored))
  <1>1. Init => Inv /\ IsFiniteSet(stored)
    BY Initially, FS_EmptySet DEF Init
  <1>2. (Inv /\ IsFiniteSet(stored)) /\ [Next]_vars
           => (Inv /\ IsFiniteSet(stored))'
    BY NextKeeps
  <1> QED BY <1>1, <1>2, PTL DEF Spec

\* Every reachable state is well typed.  In particular a task that widens an
\* account's statement period always has rows to widen it by, and a message
\* is only taken while the broker holds it.
THEOREM TypeCorrect == Spec => []TypeOK
  <1>1. Inv => TypeOK
    BY DEF Inv
  <1> QED BY <1>1, SpecInv, PTL

-----------------------------------------------------------------------------
(* No order is stored twice *)

LEMMA ReflaggedOnce ==
  ASSUME NoDoubleCount, NEW q \in Requests, Reflag(q)
  PROVE  NoDoubleCount'
  <1> DEFINE f(x) == [x EXCEPT !.anomalous = @ \/ x.row \in request[q].range]
  <1>1. stored' = {f(x) : x \in stored}
    BY DEF Reflag, Reflagged
  <1>2. \A x \in stored : f(x).row = x.row
    OBVIOUS
  <1> HIDE DEF f
  <1>3. SUFFICES ASSUME NEW x \in stored, NEW y \in stored,
                        f(x).row = f(y).row
                 PROVE  f(x) = f(y)
    BY <1>1 DEF NoDoubleCount
  <1>4. x = y
    BY <1>2, <1>3 DEF NoDoubleCount
  <1> QED BY <1>4

LEMMA OrdersAddedOnce ==
  ASSUME Vertical = "ecommerce", NoDoubleCount, NEW w \in Workers, WriteRows(w)
  PROVE  NoDoubleCount'
  <1>1. stored' = stored \/ stored' = stored \cup Added(w)
    BY DEF WriteRows, Added
  <1> DEFINE new == Insertable(content[worker[w].up] \ worker[w].known)
             Row(d) == [account |-> worker[w].account, row |-> d,
                        copy |-> Cardinality({x \in stored : x.row = d}),
                        anomalous |-> d \in worker[w].ranges]
  <1>5. \A d \in new : d \notin RowsOf(stored)
    BY DEF Insertable
  <1>6. Added(w) = {Row(d) : d \in new} /\ \A d \in new : Row(d).row = d
    BY DEF Added
  <1> HIDE DEF new, Row
  <1>2. \A x \in Added(w) : x.row \notin RowsOf(stored)
    BY <1>5, <1>6
  <1>3. \A x, y \in Added(w) : x.row = y.row => x = y
    BY <1>6
  <1>4. \A x \in stored : x.row \in RowsOf(stored)
    BY DEF RowsOf
  <1> QED BY <1>1, <1>2, <1>3, <1>4 DEF NoDoubleCount

\* However many workers ingest overlapping files at once, however often their
\* messages are redelivered and whatever is deleted meanwhile, the orders
\* table holds an order once.
THEOREM OrdersStoredOnce ==
  ASSUME Vertical = "ecommerce"
  PROVE  Spec => []NoDoubleCount
  <1>1. Init => NoDoubleCount
    BY DEF Init, NoDoubleCount
  <1>2. NoDoubleCount /\ [Next]_vars => NoDoubleCount'
    <2> SUFFICES ASSUME NoDoubleCount, [Next]_vars PROVE NoDoubleCount'
      OBVIOUS
    <2>1. ASSUME NEW q \in Requests, Reflag(q) PROVE NoDoubleCount'
      BY <2>1, ReflaggedOnce
    <2>2. ASSUME NEW w \in Workers, WriteRows(w) PROVE NoDoubleCount'
      BY <2>2, OrdersAddedOnce
    <2>3. CASE DeleteAllMerchantData
      BY <2>3 DEF DeleteAllMerchantData, NoDoubleCount
    <2>4. CASE UNCHANGED stored
      BY <2>4 DEF NoDoubleCount
    <2> QED BY <2>1, <2>2, <2>3, <2>4, OtherStoredKeeps DEF vars, Next
  <1> QED BY <1>1, <1>2, PTL DEF Spec

-----------------------------------------------------------------------------
(* A ready upload is stored *)

\* What a task read was stored, and what it reports is.
StoredOK(w) ==
    /\ Doing(w, "write") => worker[w].known \subseteq RowsOf(stored)
    /\ Doing(w, "report") => content[worker[w].up] \subseteq RowsOf(stored)

ReadyInv ==
    /\ Inv
    /\ IsFiniteSet(stored)
    /\ ReadyIsStored
    /\ \A w \in Workers : StoredOK(w)

\* Without a deletion rows stay, and so do staged contents.
LEMMA KeptGrows ==
  ASSUME Inv, Reliable \/ Faults
  PROVE  /\ RowsOf(stored) \subseteq RowsOf(stored')
         /\ \A u \in Uploads : Known(u) => content'[u] = content[u]
  <1>1. RowsOf(stored) \subseteq RowsOf(stored')
    <2>1. ASSUME NEW q \in Requests, Reflag(q)
          PROVE  RowsOf(stored) \subseteq RowsOf(stored')
      <3> DEFINE f(x) == [x EXCEPT !.anomalous = @ \/ x.row \in request[q].range]
      <3>1. stored' = {f(x) : x \in stored}
        BY <2>1 DEF Reflag, Reflagged
      <3>2. \A x \in stored : f(x).row = x.row
        OBVIOUS
      <3> HIDE DEF f
      <3> QED BY <3>1, <3>2 DEF RowsOf
    <2>2. ASSUME NEW w \in Workers, WriteRows(w)
          PROVE  RowsOf(stored) \subseteq RowsOf(stored')
      <3>1. stored \subseteq stored'
        BY <2>2 DEF WriteRows
      <3> QED BY <3>1 DEF RowsOf
    <2>3. CASE UNCHANGED stored
      BY <2>3
    <2> QED BY <2>1, <2>2, <2>3, OtherStoredKeeps
  <1>2. ASSUME NEW u \in Uploads, Known(u)
        PROVE  content'[u] = content[u]
    <2>1. ASSUME NEW q \in Requests, Arrive(q)
          PROVE  content'[u] = content[u]
      BY <1>2, <2>1 DEF Arrive, StageUpload, BeginConfirm, CreateMarker,
                        Known, Inv, TypeOK
    <2>2. ASSUME NEW q \in Requests, Serve(q) PROVE UNCHANGED content
      BY <2>2 DEF Serve, AcceptUpload, ConfirmMapping, StartProcessing,
                  Dispatch, DropFile, Reflag
    <2>3. ASSUME NEW w \in Workers,
                 \/ Work(w) \/ TaskFails(w) \/ LoseWorker(w)
                 \/ \E v \in Uploads : Take(w, v)
          PROVE  UNCHANGED content
      BY <2>3 DEF Work, ReadAccount, SaveAccount, ReadMarkers, ReadKnown,
                  WriteRows, Report, MarkFailed, CleanUp, Ack, TaskFails,
                  LoseWorker, Take
    <2>4. CASE Faults
      BY <2>4 DEF Faults, AbortRequest, KillTask, MarkRaises
    <2> QED BY <2>1, <2>2, <2>3, <2>4 DEF Reliable
  <1> QED BY <1>1, <1>2

\* Only a task that has written its rows reports ready.
LEMMA ReadyComes ==
  ASSUME Inv, Reliable \/ Faults, NEW u \in Uploads,
         upload'[u] = "ready", upload[u] # "ready"
  PROVE  \E w \in Workers : Doing(w, "report") /\ worker[w].up = u
  <1>1. ASSUME NEW q \in Requests, Arrive(q) \/ Serve(q)
        PROVE  FALSE
    BY <1>1 DEF Arrive, Serve, StageUpload, BeginConfirm, CreateMarker,
                AcceptUpload, ConfirmMapping, StartProcessing, Dispatch,
                DropFile, Reflag, tables, Inv, TypeOK
  <1>2. ASSUME NEW w \in Workers,
               \/ Work(w) \/ TaskFails(w) \/ LoseWorker(w)
               \/ \E v \in Uploads : Take(w, v)
        PROVE  Doing(w, "report") /\ worker[w].up = u
    <2>1. CASE Report(w)
      BY <2>1 DEF Report, Inv, TypeOK
    <2>2. CASE MarkFailed(w)
      BY <2>2 DEF MarkFailed, Inv, TypeOK
    <2>3. CASE UNCHANGED upload
      BY <2>3
    <2> QED BY <1>2, <2>1, <2>2, <2>3
        DEF Work, ReadAccount, SaveAccount, ReadMarkers, ReadKnown, WriteRows,
            CleanUp, Ack, TaskFails, LoseWorker, Take, tables
  <1>3. CASE Faults
    BY <1>3 DEF Faults, AbortRequest, KillTask, MarkRaises, tables
  <1> QED BY <1>1, <1>2, <1>3 DEF Reliable

\* What one step of a task leaves true of it.
LEMMA WorkerMoves ==
  ASSUME Inv, IsFiniteSet(stored), Reliable \/ Faults,
         NEW w \in Workers, StoredOK(w)
  PROVE  StoredOK(w)'
  <1>1. /\ RowsOf(stored) \subseteq RowsOf(stored)'
        /\ \A u \in Uploads : Known(u) => content'[u] = content[u]
    BY KeptGrows DEF RowsOf
  <1>2. CASE UNCHANGED worker[w]
    <2>1. ~Doing(w, "idle") => content'[worker[w].up] = content[worker[w].up]
      BY <1>1 DEF Inv, FilesOK, Known
    <2> QED BY <1>1, <1>2, <2>1 DEF StoredOK, Doing
  <1>3. CASE worker'[w].pc \notin {"write", "report"}
    BY <1>3 DEF StoredOK, Doing
  <1>4. CASE ReadKnown(w)
    <2>1. worker'[w].pc = "write" /\ worker'[w].known = Existing(w)
      BY <1>4 DEF ReadKnown, Inv, TypeOK, Task
    <2>2. Existing(w) \subseteq RowsOf(stored)
      BY DEF Existing, RowsOf
    <2> QED BY <1>1, <2>1, <2>2 DEF StoredOK, Doing
  <1>5. CASE WriteRows(w) /\ worker'[w].pc = "report"
    <2> DEFINE t == worker[w]
               pending == content[t.up] \ t.known
               Row(d) == [account |-> t.account, row |-> d,
                          copy |-> Cardinality({x \in stored : x.row = d}),
                          anomalous |-> d \in t.ranges]
    <2>1. Doing(w, "write") /\ t.known \subseteq RowsOf(stored)
      BY <1>5 DEF WriteRows, StoredOK
    <2>2. Known(t.up) /\ worker'[w].up = t.up
      BY <1>5, <2>1, ThenKeeps DEF WriteRows, Then, Doing, Inv, TypeOK, FilesOK, Task
    <2>3. stored' = stored \cup {Row(d) : d \in Insertable(pending)}
      BY <1>5 DEF WriteRows, Then, Inv, TypeOK, Task
    <2>4. \A d \in Insertable(pending) : Row(d).row = d
      OBVIOUS
    <2> HIDE DEF Row
    <2>5. Insertable(pending) \subseteq RowsOf(stored)'
      BY <2>3, <2>4 DEF RowsOf
    <2>6. pending \subseteq Insertable(pending) \cup RowsOf(stored)
      BY DEF Insertable
    <2>7. content[t.up] \subseteq RowsOf(stored)'
      BY <1>1, <2>1, <2>5, <2>6
    <2>8. content'[t.up] = content[t.up]
      BY <1>1, <2>2 DEF Known
    <2> QED BY <1>5, <2>2, <2>7, <2>8 DEF StoredOK, Doing
  <1>6. ASSUME NEW q \in Requests, Arrive(q) \/ Serve(q) \/ AbortRequest(q)
        PROVE  UNCHANGED worker
    BY <1>6 DEF Arrive, Serve, StageUpload, BeginConfirm, CreateMarker,
                AcceptUpload, ConfirmMapping, StartProcessing, Dispatch,
                DropFile, Reflag, AbortRequest
  <1>7. ASSUME NEW o \in Workers,
               \/ Work(o) \/ TaskFails(o) \/ LoseWorker(o) \/ KillTask(o)
               \/ MarkRaises(o)
               \/ \E v \in Uploads : Take(o, v)
        PROVE  \/ UNCHANGED worker[w]
               \/ worker'[w].pc \notin {"write", "report"}
               \/ ReadKnown(w)
               \/ WriteRows(w) /\ worker'[w].pc = "report"
    <2>1. CASE o # w
      BY <1>7, <2>1
      DEF Work, ReadAccount, SaveAccount, ReadMarkers, ReadKnown, WriteRows,
          Report, MarkFailed, CleanUp, Ack, TaskFails, LoseWorker, KillTask,
          MarkRaises, Take, Then, Inv, TypeOK
    <2>2. CASE o = w
      <3>1. worker[w] \in Task /\ worker \in [Workers -> Task]
        BY DEF Inv, TypeOK
      <3>2. \A pc : Then(w, pc) => worker'[w].pc = pc
        BY <3>1 DEF Then, Task
      <3>3. CASE ReadKnown(w) \/ WriteRows(w)
        BY <3>3, <3>2 DEF WriteRows
      <3>4. CASE ReadAccount(w) \/ SaveAccount(w) \/ ReadMarkers(w)
        <4>1. CASE ReadAccount(w)
          <5>1. ASSUME NEW a,
                       worker' = [worker EXCEPT ![w].pc = "save_account",
                                                ![w].account = a,
                                                ![w].period = accounts[a]]
                PROVE  worker'[w].pc = "save_account"
            BY <3>1, <5>1 DEF Task
          <5> QED BY <3>2, <4>1, <5>1 DEF ReadAccount
        <4>2. CASE SaveAccount(w)
          BY <3>1, <3>2, <4>2 DEF SaveAccount, Task
        <4>3. CASE ReadMarkers(w)
          BY <3>1, <4>3 DEF ReadMarkers, Task
        <4> QED BY <3>4, <4>1, <4>2, <4>3
      <3>5. CASE \/ Report(w) \/ MarkFailed(w) \/ MarkRaises(w) \/ CleanUp(w)
                 \/ TaskFails(w)
        BY <3>5, <3>2 DEF Report, MarkFailed, MarkRaises, CleanUp, TaskFails
      <3>6. CASE Ack(w) \/ LoseWorker(w) \/ KillTask(w)
        BY <3>1, <3>6 DEF Ack, LoseWorker, KillTask, NoTask
      <3>7. ASSUME NEW v \in Uploads, Take(w, v)
            PROVE  worker'[w].pc \notin {"write", "report"}
        BY <3>1, <3>7 DEF Take, TakeMissing, NoTask
      <3> QED BY <1>7, <2>2, <3>3, <3>4, <3>5, <3>6, <3>7 DEF Work
    <2> QED BY <2>1, <2>2
  <1> QED BY <1>2, <1>3, <1>4, <1>5, <1>6, <1>7 DEF Reliable, Faults

\* Unless the merchant's data is deleted, an upload shown as ready has every
\* row of its file in the table, whatever tasks collide, fail or are lost.
THEOREM ReadyUploadsAreStored == KeptSpec => []ReadyIsStored
  <1>1. Init => ReadyInv
    BY Initially, FS_EmptySet
    DEF Init, ReadyInv, ReadyIsStored, StoredOK, Doing, NoTask
  <1>2. ReadyInv /\ [Reliable \/ Faults]_vars => ReadyInv'
    <2> SUFFICES ASSUME ReadyInv, [Reliable \/ Faults]_vars PROVE ReadyInv'
      OBVIOUS
    <2>1. CASE UNCHANGED vars
      <3>1. UNCHANGED <<ReadyIsStored, \A w \in Workers : StoredOK(w)>>
        BY <2>1 DEF vars, ReadyIsStored, StoredOK, Doing, RowsOf
      <3> QED BY <2>1, <3>1, NextKeeps DEF ReadyInv
    <2>2. CASE Reliable \/ Faults
      <3>1. Inv' /\ IsFiniteSet(stored)'
        BY <2>2, NextKeeps DEF ReadyInv, Next
      <3>2. \A w \in Workers : StoredOK(w)'
        BY <2>2, WorkerMoves DEF ReadyInv
      <3>3. ASSUME NEW u \in Uploads, upload'[u] = "ready"
            PROVE  content'[u] \subseteq RowsOf(stored')
        <4>1. content[u] \subseteq RowsOf(stored) /\ Known(u)
          <5>1. CASE upload[u] = "ready"
            BY <5>1 DEF ReadyInv, ReadyIsStored, Inv, FilesOK
          <5>2. CASE upload[u] # "ready"
            <6>1. PICK w \in Workers : Doing(w, "report") /\ worker[w].up = u
              BY <2>2, <3>3, <5>2, ReadyComes DEF ReadyInv
            <6> QED BY <6>1 DEF ReadyInv, StoredOK, Inv, FilesOK, Doing
          <5> QED BY <5>1, <5>2
        <4> QED BY <2>2, <4>1, KeptGrows DEF ReadyInv
      <3> QED BY <3>1, <3>2, <3>3 DEF ReadyInv, ReadyIsStored, RowsOf
    <2> QED BY <2>1, <2>2
  <1>3. ReadyInv => ReadyIsStored
    BY DEF ReadyInv
  <1> QED BY <1>1, <1>2, <1>3, PTL DEF KeptSpec

-----------------------------------------------------------------------------
(* Tasks that run one at a time                                            *)

Covers(period, rows) ==
    \A r \in rows : period.start <= r /\ r <= period.end

\* Every stored row is of the one account there is.
RowsOwned == \A x \in stored :
    x.account \in Accounts /\ accounts[x.account] # Null

OneRow == \A a, b \in Accounts :
    accounts[a] # Null /\ accounts[b] # Null => a = b

\* What the task has read is what is stored: the account, unless it was
\* deleted since, and then the rows.
SoleOK(w) ==
    LET t == worker[w]
    IN  /\ Doing(w, "account") => t.account = Null
        /\ Doing(w, "save_account") /\ t.account = Null =>
              \A a \in Accounts : accounts[a] = Null
        /\ Doing(w, "save_account") /\ t.account # Null =>
              t.period # Null /\ accounts[t.account] \in {Null, t.period}
        /\ t.pc \in {"markers", "known", "write"} =>
              /\ t.account \in Accounts
              /\ accounts[t.account] # Null =>
                    Covers(accounts[t.account], content[t.up])
        /\ Doing(w, "write") /\ accounts[t.account] # Null =>
              RowsOf(stored) \subseteq t.known

SoleInv ==
    /\ RowsOwned /\ OneRow /\ NoDoubleCount /\ PeriodCoversRows
    /\ \A w \in Workers : SoleOK(w)

LEMMA WidenedCovers ==
  ASSUME NEW period \in Period, NEW rows \in Files
  PROVE  /\ Widened(period, rows).start <= period.start
         /\ period.end <= Widened(period, rows).end
  <1> DEFINE A == rows \cup {period.start}
             B == rows \cup {period.end}
  <1>1. period.start \in Rows /\ period.end \in Rows /\ period # Null
    BY IngestionAssumption DEF Period
  <1>2. A \in Files /\ B \in Files
    BY <1>1 DEF Files
  <1>3. Widened(period, rows) = [start |-> Min(A), end |-> Max(B)]
    BY <1>1 DEF Widened
  <1> HIDE DEF A, B
  <1>4. /\ \A r \in A : Min(A) <= r
        /\ \A r \in B : r <= Max(B)
    BY <1>2, FirstAndLast
  <1> QED BY <1>3, <1>4 DEF A, B

\* A step of task w
Steps(w) ==
    \/ Work(w) \/ TaskFails(w) \/ LoseWorker(w) \/ KillTask(w) \/ MarkRaises(w)
    \/ \E u \in Uploads : Take(w, u)

\* A step of a task is that of the only task.
LEMMA OthersRest ==
  ASSUME Inv, OneTask, OneTask', NEW w \in Workers, Steps(w)
  PROVE  \A o \in Workers \ {w} : worker'[o] = worker[o] /\ Doing(o, "idle")'
  <1>1. \A o \in Workers \ {w} : worker'[o] = worker[o]
    BY DEF Steps, Work, ReadAccount, SaveAccount, ReadMarkers, ReadKnown,
           WriteRows, Report, MarkFailed, CleanUp, Ack, TaskFails, LoseWorker,
           KillTask, MarkRaises, Take, Then, Inv, TypeOK
  <1>2. CASE ~Doing(w, "idle")
    BY <1>1, <1>2 DEF OneTask, Doing
  <1>3. CASE Doing(w, "idle")
    <2>1. PICK u \in Uploads : Take(w, u)
      BY <1>3 DEF Steps, Work, ReadAccount, SaveAccount, ReadMarkers,
             ReadKnown, WriteRows, Report, MarkFailed, CleanUp, Ack, TaskFails,
             LoseWorker, KillTask, MarkRaises, Doing
    <2>2. worker'[w].pc # "idle"
      BY <2>1 DEF Take, TakeMissing, NoTask, Inv, TypeOK
    <2> QED BY <1>1, <2>2 DEF OneTask, Doing
  <1> QED BY <1>1, <1>2, <1>3

\* An idle worker, and one past its writing, has nothing to get wrong.
LEMMA SoleElsewhere ==
  ASSUME NEW w \in Workers,
         worker'[w].pc \notin {"account", "save_account", "markers", "known",
                               "write"}
  PROVE  SoleOK(w)'
  BY DEF SoleOK, Doing

\* Steps that change neither accounts nor rows nor tasks.
LEMMA SoleStill ==
  ASSUME Inv, SoleInv, UNCHANGED <<accounts, stored, worker>>,
         \A u \in Uploads : Known(u) => content'[u] = content[u]
  PROVE  SoleInv'
  <1>1. UNCHANGED <<RowsOwned, OneRow, NoDoubleCount, PeriodCoversRows>>
    BY DEF RowsOwned, OneRow, NoDoubleCount, PeriodCoversRows
  <1>2. ASSUME NEW w \in Workers PROVE SoleOK(w)'
    <2>1. CASE Doing(w, "idle")
      BY <2>1 DEF SoleOK, Doing
    <2>2. CASE ~Doing(w, "idle")
      <3>1. content'[worker[w].up] = content[worker[w].up]
        BY <2>2 DEF Inv, FilesOK, Known
      <3> QED BY <3>1 DEF SoleInv, SoleOK, Doing, RowsOf
    <2> QED BY <2>1, <2>2
  <1> QED BY <1>1, <1>2 DEF SoleInv

LEMMA SoleReflag ==
  ASSUME Inv, SoleInv, NEW q \in Requests, Reflag(q)
  PROVE  SoleInv'
  <1> DEFINE f(x) == [x EXCEPT !.anomalous = @ \/ x.row \in request[q].range]
  <1>1. stored' = {f(x) : x \in stored}
    BY DEF Reflag, Reflagged
  <1>2. \A x \in stored : f(x).row = x.row /\ f(x).account = x.account
    BY DEF Inv, TypeOK, StoredRow
  <1>3. UNCHANGED <<accounts, worker, content>>
    BY DEF Reflag
  <1>4. NoDoubleCount'
    BY ReflaggedOnce DEF SoleInv
  <1> HIDE DEF f
  <1>5. RowsOf(stored') = RowsOf(stored)
    BY <1>1, <1>2 DEF RowsOf
  <1>6. RowsOwned' /\ PeriodCoversRows' /\ OneRow'
    BY <1>1, <1>2, <1>3 DEF SoleInv, RowsOwned, PeriodCoversRows, OneRow
  <1>7. \A w \in Workers : SoleOK(w)'
    BY <1>3, <1>5 DEF SoleInv, SoleOK, Doing, RowsOf
  <1> QED BY <1>4, <1>6, <1>7 DEF SoleInv

LEMMA SoleDelete ==
  ASSUME Inv, SoleInv, DeleteAllMerchantData
  PROVE  SoleInv'
  <1>1. /\ \A a \in Accounts : accounts'[a] = Null
        /\ stored' = {} /\ UNCHANGED worker
    BY DEF DeleteAllMerchantData
  <1>2. RowsOwned' /\ OneRow' /\ NoDoubleCount' /\ PeriodCoversRows'
    BY <1>1 DEF RowsOwned, OneRow, NoDoubleCount, PeriodCoversRows
  <1>3. ASSUME NEW w \in Workers PROVE SoleOK(w)'
    <2>1. worker[w].account \in Accounts \cup {Null}
      BY DEF Inv, TypeOK, Task
    <2> QED BY <1>1, <2>1 DEF SoleInv, SoleOK, Doing
  <1> QED BY <1>2, <1>3 DEF SoleInv

\* One step of a task, once it is shown for the tables and that task.
LEMMA SoleStep ==
  ASSUME Inv, SoleInv, OneTask, OneTask', NEW w \in Workers, Steps(w),
         RowsOwned', OneRow', NoDoubleCount', PeriodCoversRows', SoleOK(w)'
  PROVE  SoleInv'
  <1>1. ASSUME NEW o \in Workers PROVE SoleOK(o)'
    <2>1. CASE o = w
      BY <2>1
    <2>2. CASE o # w
      <3>1. worker'[o].pc = "idle"
        BY <2>2, OthersRest DEF Doing
      <3> QED BY <3>1, SoleElsewhere
    <2> QED BY <2>1, <2>2
  <1> QED BY <1>1 DEF SoleInv

LEMMA SoleTables ==
  ASSUME SoleInv, UNCHANGED <<accounts, stored>>
  PROVE  RowsOwned' /\ OneRow' /\ NoDoubleCount' /\ PeriodCoversRows'
  BY DEF SoleInv, RowsOwned, OneRow, NoDoubleCount, PeriodCoversRows

\* What the task finds of the account is all there is.
LEMMA SoleReadAccount ==
  ASSUME Inv, SoleInv, NEW w \in Workers, ReadAccount(w)
  PROVE  SoleOK(w)' /\ UNCHANGED <<accounts, stored>>
  <1>1. UNCHANGED <<accounts, stored>>
    BY DEF ReadAccount, tables
  <1>2. worker[w] \in Task /\ worker \in [Workers -> Task]
    BY DEF Inv, TypeOK
  <1>3. worker[w].account = Null
    BY DEF ReadAccount, SoleInv, SoleOK
  <1>4. CASE FoundAccounts(w) = {} /\ Then(w, "save_account")
    <2>1. worker'[w].pc = "save_account" /\ worker'[w].account = Null
      BY <1>2, <1>3, <1>4 DEF Then, Task
    <2>2. \A a \in Accounts : accounts[a] = Null
      BY <1>4 DEF FoundAccounts
    <2> QED BY <1>1, <2>1, <2>2 DEF SoleOK, Doing
  <1>5. ASSUME NEW a \in FoundAccounts(w),
               worker' = [worker EXCEPT ![w].pc = "save_account",
                                        ![w].account = a,
                                        ![w].period = accounts[a]]
        PROVE  SoleOK(w)'
    <2>1. a \in Accounts /\ accounts[a] # Null /\ a # Null
      BY IngestionAssumption DEF FoundAccounts
    <2>2. /\ worker'[w].pc = "save_account" /\ worker'[w].account = a
          /\ worker'[w].period = accounts[a]
      BY <1>2, <1>5 DEF Task
    <2> QED BY <1>1, <2>1, <2>2 DEF SoleOK, Doing
  <1>6. CASE Then(w, "failing")
    <2>1. worker'[w].pc = "failing"
      BY <1>2, <1>6 DEF Then, Task
    <2> QED BY <1>1, <2>1 DEF SoleOK, Doing
  <1> QED BY <1>1, <1>4, <1>5, <1>6 DEF ReadAccount

\* The rows the task finds are all rows: there is no other account.
LEMMA SoleReads ==
  ASSUME Inv, SoleInv, NEW w \in Workers, ReadMarkers(w) \/ ReadKnown(w)
  PROVE  SoleOK(w)' /\ UNCHANGED <<accounts, stored>>
  <1>1. UNCHANGED <<accounts, stored, content>>
    BY DEF ReadMarkers, ReadKnown, tables
  <1>2. worker[w] \in Task /\ worker \in [Workers -> Task]
    BY DEF Inv, TypeOK
  <1>3. /\ worker[w].account \in Accounts
        /\ accounts[worker[w].account] # Null =>
              Covers(accounts[worker[w].account], content[worker[w].up])
    BY DEF ReadMarkers, ReadKnown, SoleInv, SoleOK, Doing
  <1>4. worker'[w].up = worker[w].up /\ worker'[w].account = worker[w].account
    BY <1>2 DEF ReadMarkers, ReadKnown, Task
  <1>5. CASE ReadMarkers(w)
    <2>1. worker'[w].pc = "known"
      BY <1>2, <1>5 DEF ReadMarkers, Task
    <2> QED BY <1>1, <1>3, <1>4, <2>1 DEF SoleOK, Doing, Covers
  <1>6. CASE ReadKnown(w)
    <2>1. worker'[w].pc = "write" /\ worker'[w].known = Existing(w)
      BY <1>2, <1>6 DEF ReadKnown, Task
    <2>2. accounts[worker[w].account] # Null => RowsOf(stored) \subseteq Existing(w)
      BY <1>3 DEF SoleInv, RowsOwned, OneRow, Existing, RowsOf
    <2>3. RowsOf(stored') = RowsOf(stored)
      BY <1>1
    <2> QED BY <1>1, <1>3, <1>4, <2>1, <2>2, <2>3 DEF SoleOK, Doing, Covers, RowsOf
  <1> QED BY <1>1, <1>5, <1>6

LEMMA SoleEnds ==
  ASSUME Vertical = "bank", Inv, NEW w \in Workers,
         \/ Report(w) \/ MarkFailed(w) \/ MarkRaises(w) \/ CleanUp(w)
         \/ TaskFails(w) \/ Ack(w) \/ LoseWorker(w) \/ KillTask(w)
         \/ \E u \in Uploads : Take(w, u)
  PROVE  SoleOK(w)' /\ UNCHANGED <<accounts, stored>>
  <1>1. UNCHANGED <<accounts, stored>>
    BY DEF Report, MarkFailed, MarkRaises, CleanUp, TaskFails, Ack, LoseWorker,
           KillTask, Take, tables
  <1>2. worker[w] \in Task /\ worker \in [Workers -> Task]
    BY DEF Inv, TypeOK
  <1>3. \A pc : Then(w, pc) => worker'[w].pc = pc
    BY <1>2 DEF Then, Task
  <1>4. CASE Report(w) \/ MarkFailed(w) \/ MarkRaises(w) \/ CleanUp(w) \/ TaskFails(w)
    <2>1. worker'[w].pc \in {"clean_up", "ack", "failing"}
      BY <1>3, <1>4 DEF Report, MarkFailed, MarkRaises, CleanUp, TaskFails
    <2> QED BY <1>1, <2>1 DEF SoleOK, Doing
  <1>5. CASE Ack(w) \/ LoseWorker(w) \/ KillTask(w)
    <2>1. worker'[w].pc = "idle"
      BY <1>2, <1>5 DEF Ack, LoseWorker, KillTask, NoTask
    <2> QED BY <1>1, <2>1 DEF SoleOK, Doing
  <1>6. ASSUME NEW u \in Uploads, Take(w, u) PROVE SoleOK(w)'
    <2>1. worker'[w].pc \in {"account", "failing"} /\ worker'[w].account = Null
      BY <1>2, <1>6 DEF Take, TakeMissing, NoTask
    <2> QED BY <2>1 DEF SoleOK, Doing
  <1> QED BY <1>1, <1>4, <1>5, <1>6

\* A new account covers the rows to come, and a wider period also those that
\* are there.
LEMMA SoleSaveAccount ==
  ASSUME Inv, SoleInv, NEW w \in Workers, SaveAccount(w)
  PROVE  /\ SoleOK(w)'
         /\ RowsOwned' /\ OneRow' /\ NoDoubleCount' /\ PeriodCoversRows'
  <1> DEFINE t == worker[w]
             want == Widened(t.period, content[t.up])
  <1>1. UNCHANGED <<stored, content>>
    BY DEF SaveAccount
  <1>2. t \in Task /\ Known(t.up) /\ worker \in [Workers -> Task]
    BY DEF Inv, TypeOK, FilesOK, SaveAccount, Doing
  <1>3. content[t.up] \in Files /\ t.period \in Period \cup {Null}
    BY <1>2 DEF Inv, TypeOK, Known, Task
  <1>4. want \in Period /\ Covers(want, content[t.up])
    BY <1>3, WidenedIsPeriod DEF Covers
  <1>5. want # Null /\ accounts \in [Accounts -> Period \cup {Null}]
    BY <1>4, IngestionAssumption DEF Period, Inv, TypeOK
  <1>6. NoDoubleCount'
    BY <1>1 DEF SoleInv, NoDoubleCount
  <1>7. t.period # Null => want.start <= t.period.start /\ t.period.end <= want.end
    BY <1>3, WidenedCovers
  <1>8. \A x \in stored : x.row \in Rows
    BY DEF Inv, TypeOK, StoredRow
  <1> HIDE DEF want
  <1>9. ASSUME NEW a \in Accounts, t.account = Null,
               accounts' = [accounts EXCEPT ![a] = want],
               worker' = [worker EXCEPT ![w].pc = "markers", ![w].account = a]
        PROVE  SoleOK(w)' /\ RowsOwned' /\ OneRow' /\ PeriodCoversRows'
    <2>1. \A b \in Accounts : accounts[b] = Null
      BY <1>9 DEF SaveAccount, SoleInv, SoleOK
    <2>2. stored' = {}
      BY <1>1, <2>1 DEF SoleInv, RowsOwned
    <2>3. RowsOwned' /\ PeriodCoversRows'
      BY <2>2 DEF RowsOwned, PeriodCoversRows
    <2>4. OneRow'
      BY <1>5, <1>9, <2>1 DEF OneRow
    <2>5. /\ worker'[w].pc = "markers" /\ worker'[w].account = a
          /\ worker'[w].up = t.up
      BY <1>2, <1>9 DEF Task
    <2>6. accounts'[a] = want
      BY <1>5, <1>9
    <2> QED BY <1>1, <1>4, <2>3, <2>4, <2>5, <2>6 DEF SoleOK, Doing
  <1>10. ASSUME t.account # Null, accounts[t.account] # Null,
                accounts' = [accounts EXCEPT
                   ![t.account].start =
                      IF want.start = t.period.start THEN @ ELSE want.start,
                   ![t.account].end =
                      IF want.end = t.period.end THEN @ ELSE want.end],
                Then(w, "markers")
         PROVE  SoleOK(w)' /\ RowsOwned' /\ OneRow' /\ PeriodCoversRows'
    <2> DEFINE a == t.account
    <2>1. a \in Accounts /\ accounts[a] = t.period /\ t.period \in Period
      BY <1>2, <1>3, <1>10 DEF SaveAccount, SoleInv, SoleOK, Task
    <2>2. accounts'[a] = want
      <3>1. accounts'[a].start = want.start /\ accounts'[a].end = want.end
        BY <1>4, <1>5, <1>10, <2>1 DEF Period
      <3>2. accounts'[a] \in Period
        BY <1>4, <1>5, <1>10, <2>1 DEF Period
      <3> QED BY <1>4, <3>1, <3>2 DEF Period
    <2>3. \A b \in Accounts \ {a} : accounts'[b] = accounts[b] /\ accounts[b] = Null
      BY <1>5, <1>10, <2>1 DEF SoleInv, OneRow
    <2> HIDE DEF a
    <2>4. RowsOwned' /\ OneRow'
      BY <1>1, <1>5, <2>1, <2>2, <2>3 DEF SoleInv, RowsOwned, OneRow
    <2>5. PeriodCoversRows'
      <3> SUFFICES ASSUME NEW x \in stored
                   PROVE  accounts'[x.account].start <= x.row
                          /\ x.row <= accounts'[x.account].end
        BY <1>1 DEF PeriodCoversRows
      <3>1. x.account = a
        BY <2>1, <2>3, <1>5 DEF SoleInv, RowsOwned
      <3>2. x.account # Null /\ accounts[a] # Null
        BY <3>1, <1>10 DEF a
      <3>3. accounts[a].start <= x.row /\ x.row <= accounts[a].end
        BY <3>1, <3>2 DEF SoleInv, PeriodCoversRows
      <3>4. want.start <= accounts[a].start /\ accounts[a].end <= want.end
        BY <1>7, <2>1, <3>2
      <3>5. /\ x.row \in Int /\ want.start \in Int /\ want.end \in Int
            /\ accounts[a].start \in Int /\ accounts[a].end \in Int
        BY <1>4, <1>8, <2>1 DEF Period, Rows
      <3> QED BY <2>2, <3>1, <3>3, <3>4, <3>5
    <2>6. /\ worker'[w].pc = "markers" /\ worker'[w].account = a
          /\ worker'[w].up = t.up
      BY <1>2, <1>10 DEF Then, Task, a
    <2> QED BY <1>1, <1>4, <2>1, <2>2, <2>4, <2>5, <2>6 DEF SoleOK, Doing
  <1>11. ASSUME Then(w, "failing"), UNCHANGED accounts
         PROVE  SoleOK(w)' /\ RowsOwned' /\ OneRow' /\ PeriodCoversRows'
    <2>1. worker'[w].pc = "failing"
      BY <1>2, <1>11 DEF Then, Task
    <2>2. SoleOK(w)'
      BY <2>1 DEF SoleOK, Doing
    <2> QED BY <1>1, <1>11, <2>2, SoleTables
  <1> QED BY <1>6, <1>9, <1>10, <1>11 DEF SaveAccount, want

\* The rows that are written are new, and the account covers them.
LEMMA SoleWriteRows ==
  ASSUME Vertical = "bank", Inv, SoleInv, NEW w \in Workers, WriteRows(w)
  PROVE  /\ SoleOK(w)'
         /\ RowsOwned' /\ OneRow' /\ NoDoubleCount' /\ PeriodCoversRows'
  <1> DEFINE t == worker[w]
             pending == content[t.up] \ t.known
             Row(d) == [account |-> t.account, row |-> d,
                        copy |-> Cardinality({x \in stored : x.row = d}),
                        anomalous |-> d \in t.ranges]
  <1>1. UNCHANGED <<accounts, content>>
    BY DEF WriteRows
  <1>2. t \in Task /\ worker \in [Workers -> Task]
    BY DEF Inv, TypeOK
  <1>3. SoleOK(w)'
    <2>1. worker'[w].pc \in {"failing", "report"}
      BY <1>2 DEF WriteRows, Then, Task
    <2> QED BY <2>1 DEF SoleOK, Doing
  <1>4. CASE UNCHANGED stored
    BY <1>1, <1>3, <1>4, SoleTables
  <1>5. CASE ~UNCHANGED stored
    <2>1. stored' = stored \cup {Row(d) : d \in pending}
      BY <1>5 DEF WriteRows, Insertable
    <2>2. pending # {}
      <3>1. SUFFICES ASSUME pending = {} PROVE FALSE
        OBVIOUS
      <3> HIDE DEF pending, Row
      <3> QED BY <1>5, <2>1, <3>1
    <2>3. t.account \in Accounts /\ accounts[t.account] # Null
      <3>1. t.account \in Accounts /\ t.account # Null
        BY IngestionAssumption DEF SoleInv, SoleOK, WriteRows, Doing
      <3> QED BY <1>5, <2>2, <3>1 DEF WriteRows
    <2>4. /\ RowsOf(stored) \subseteq t.known
          /\ Covers(accounts[t.account], content[t.up])
      BY <2>3 DEF WriteRows, SoleInv, SoleOK, Doing
    <2>5. \A d \in pending : /\ Row(d).row = d /\ Row(d).account = t.account
                             /\ d \in content[t.up] /\ d \notin RowsOf(stored)
      BY <2>4
    <2>6. \A x \in stored : x.row \in RowsOf(stored)
      BY DEF RowsOf
    <2> HIDE DEF pending, Row
    <2>7. NoDoubleCount'
      BY <2>1, <2>5, <2>6 DEF SoleInv, NoDoubleCount
    <2>8. RowsOwned' /\ OneRow'
      BY <1>1, <2>1, <2>3, <2>5 DEF SoleInv, RowsOwned, OneRow
    <2>9. PeriodCoversRows'
      BY <1>1, <2>1, <2>4, <2>5 DEF SoleInv, PeriodCoversRows, Covers
    <2> QED BY <1>3, <2>7, <2>8, <2>9
  <1> QED BY <1>4, <1>5

LEMMA SoleTasks ==
  ASSUME Vertical = "bank", Inv, SoleInv, OneTask, OneTask',
         NEW w \in Workers, Steps(w)
  PROVE  SoleInv'
  <1>1. CASE SaveAccount(w)
    BY <1>1, SoleSaveAccount, SoleStep
  <1>2. CASE WriteRows(w)
    BY <1>2, SoleWriteRows, SoleStep
  <1>3. CASE ~SaveAccount(w) /\ ~WriteRows(w)
    <2>1. SoleOK(w)' /\ UNCHANGED <<accounts, stored>>
      BY <1>3, SoleReadAccount, SoleReads, SoleEnds DEF Steps, Work
    <2> QED BY <2>1, SoleTables, SoleStep
  <1> QED BY <1>1, <1>2, <1>3

LEMMA SoleRequests ==
  ASSUME Inv, SoleInv, NEW q \in Requests, Arrive(q) \/ Serve(q) \/ AbortRequest(q)
  PROVE  SoleInv'
  <1>1. CASE Reflag(q)
    BY <1>1, SoleReflag
  <1>2. CASE ~Reflag(q)
    <2>1. UNCHANGED <<accounts, stored, worker>>
      BY <1>2 DEF Arrive, Serve, StageUpload, BeginConfirm, CreateMarker,
                  AcceptUpload, ConfirmMapping, StartProcessing, Dispatch,
                  DropFile, AbortRequest, tables
    <2>2. \A u \in Uploads : Known(u) => content'[u] = content[u]
      BY KeptGrows DEF Reliable, Faults
    <2> QED BY <2>1, <2>2, SoleStill
  <1> QED BY <1>1, <1>2

LEMMA SoleNext ==
  ASSUME Vertical = "bank", Inv, SoleInv, OneTask, OneTask', [Next]_vars
  PROVE  SoleInv'
  <1>1. CASE UNCHANGED vars
    BY <1>1, SoleStill DEF vars
  <1>2. CASE Next
    <2>1. ASSUME NEW w \in Workers, Steps(w) PROVE SoleInv'
      BY <2>1, SoleTasks
    <2>2. ASSUME NEW q \in Requests, Arrive(q) \/ Serve(q) \/ AbortRequest(q)
          PROVE  SoleInv'
      BY <2>2, SoleRequests
    <2> QED BY <1>2, <2>1, <2>2, SoleDelete DEF Next, Reliable, Faults, Steps
  <1> QED BY <1>1, <1>2

LEMMA SoleGivesOne == SoleInv => OneAccount
  <1> SUFFICES ASSUME SoleInv PROVE OneAccount
    OBVIOUS
  <1> DEFINE S == {a \in Accounts : accounts[a] # Null}
  <1>1. \A a, b \in S : a = b
    BY DEF SoleInv, OneRow
  <1>2. Cardinality(S) <= 1
    <2>1. CASE S = {}
      BY <2>1, FS_EmptySet
    <2>2. CASE S # {}
      <3>1. PICK a \in S : TRUE
        BY <2>2
      <3>2. S = {a}
        BY <1>1, <3>1
      <3>3. Cardinality({a}) = 1
        BY FS_Singleton
      <3> QED BY <3>2, <3>3
    <2> QED BY <2>1, <2>2
  <1> QED BY <1>2 DEF OneAccount

\* As long as tasks run one at a time, what a task has read of the account and
\* of its rows is what is stored when it writes, unless the merchant's data
\* has been deleted since.
LEMMA SoleHolds ==
  ASSUME Vertical = "bank"
  PROVE  Spec /\ []OneTask => []SoleInv
  <1>1. Init => SoleInv
    BY DEF Init, SoleInv, RowsOwned, OneRow, NoDoubleCount, PeriodCoversRows,
           SoleOK, Doing, NoTask
  <1>2. Inv /\ SoleInv /\ OneTask /\ OneTask' /\ [Next]_vars => SoleInv'
    BY SoleNext
  <1> QED BY <1>1, <1>2, SpecInv, PTL DEF Spec

\* As long as tasks run one at a time, no bank transaction is stored twice:
\* overlapping statements, redelivered messages, failures in the middle of a
\* task and deletions add no row a second time (bank_ingestion.py:369-374).
THEOREM TransactionsStoredOnce ==
  ASSUME Vertical = "bank"
  PROVE  Spec /\ []OneTask => []NoDoubleCount
  <1>1. SoleInv => NoDoubleCount
    BY DEF SoleInv
  <1> QED BY <1>1, SoleHolds, PTL

\* As long as tasks run one at a time, an account number has one row, and its
\* statement period spans every transaction stored for it
\* (bank_ingestion.py:477-494).
THEOREM AccountsSound ==
  ASSUME Vertical = "bank"
  PROVE  Spec /\ []OneTask => [](OneAccount /\ PeriodCoversRows)
  <1>1. SoleInv => OneAccount /\ PeriodCoversRows
    BY SoleGivesOne DEF SoleInv
  <1> QED BY <1>1, SoleHolds, PTL

-----------------------------------------------------------------------------
(* The runs TLC makes are behaviours of Ingestion, each in one setting.    *)

LEMMA RunsAreBehaviours == MCSpec => Spec
  <1>1. MCInit => Init
    BY DEF MCInit
  <1>2. [MCNext]_mcVars => [Next]_vars
    BY DEF MCNext, mcVars, Next
  <1> QED BY <1>1, <1>2, PTL DEF MCSpec, Spec

LEMMA IdleIsApart == MCInit => OneTask /\ MarkersApart
  <1> SUFFICES ASSUME MCInit PROVE OneTask /\ MarkersApart
    OBVIOUS
  <1>1. \A w \in Workers : worker[w].pc = "idle"
    BY DEF MCInit, Init, NoTask
  <1>2. OneTask
    BY <1>1 DEF OneTask, Doing
  <1>3. MarkersApart
    BY <1>1 DEF MarkersApart, Doing
  <1> QED BY <1>2, <1>3

MCInv == setting \in {"one task", "markers", "fair"}

LEMMA RunsOfOneTask == MCSpec => []OneTask \/ [](setting = "fair")
  <1>1. MCInit => OneTask
    BY IdleIsApart
  <1>2. setting = "fair" /\ [MCNext]_mcVars => (setting = "fair")'
    BY DEF MCNext, mcVars
  <1>3. ~(setting = "fair") /\ OneTask /\ MCInv /\ [MCNext]_mcVars
           => (~(setting = "fair") /\ OneTask /\ MCInv)'
    BY DEF MCNext, InSetting, mcVars, vars, OneTask, Doing, MCInv
  <1>4. MCInit => MCInv
    BY DEF MCInit, MCInv
  <1> QED BY <1>1, <1>2, <1>3, <1>4, PTL DEF MCSpec

\* The same, in the runs TLC makes with any bounds.
THEOREM StoredOnceInRuns ==
  ASSUME Vertical = "bank"
  PROVE  MCSpec => []StoredOnceByOne
  <1>1. NoDoubleCount => StoredOnceByOne
    BY DEF StoredOnceByOne
  <1>2. setting = "fair" => StoredOnceByOne
    BY DEF StoredOnceByOne
  <1> QED BY <1>1, <1>2, RunsAreBehaviours, RunsOfOneTask,
             TransactionsStoredOnce, PTL

\* The same of the accounts.
THEOREM AccountsSoundInRuns ==
  ASSUME Vertical = "bank"
  PROVE  MCSpec => []AccountsSoundByOne
  <1>1. OneAccount /\ PeriodCoversRows => AccountsSoundByOne
    BY DEF AccountsSoundByOne, OneAccountByOne, PeriodCoversRowsByOne
  <1>2. setting = "fair" => AccountsSoundByOne
    BY DEF AccountsSoundByOne, OneAccountByOne, PeriodCoversRowsByOne
  <1> QED BY <1>1, <1>2, RunsAreBehaviours, RunsOfOneTask, AccountsSound, PTL

-----------------------------------------------------------------------------
(* Markers are applied *)

\* Rows a marker covers are flagged or about to be, and a task that writes
\* knows every marker.
FlagsOK ==
    /\ \A x \in stored : x.row \in marked /\ ~x.anomalous =>
          \E q \in Requests : At(q, "reflag") /\ x.row \in request[q].range
    /\ \A w \in Workers :
          Doing(w, "known") \/ Doing(w, "write") =>
             marked \subseteq worker[w].ranges

LEMMA CreateMarkerFlags ==
  ASSUME Inv, FlagsOK, MarkersApart', NEW q \in Requests, NEW range \in Markers,
         CreateMarker(q, range)
  PROVE  FlagsOK'
  <1>1. /\ request'[q].pc = "reflag" /\ request'[q].range = range
        /\ \A o \in Requests \ {q} : request'[o] = request[o]
    BY DEF CreateMarker, Inv, TypeOK
  <1>2. UNCHANGED <<stored, worker>> /\ marked' = marked \cup range
    BY DEF CreateMarker
  <1>3. request[q].pc = "idle"
    BY DEF CreateMarker, At
  <1>4. \A w \in Workers : worker'[w].pc \notin {"known", "write"}
    BY <1>1 DEF MarkersApart, Doing, At
  <1>5. ASSUME NEW x \in stored, x.row \in marked', ~x.anomalous
        PROVE  \E o \in Requests : /\ request'[o].pc = "reflag"
                                   /\ x.row \in request'[o].range
    <2>1. CASE x.row \in range
      BY <1>1, <2>1
    <2>2. CASE x.row \in marked
      <3>1. PICK o \in Requests : At(o, "reflag") /\ x.row \in request[o].range
        BY <1>5, <2>2 DEF FlagsOK
      <3> QED BY <1>1, <1>3, <3>1 DEF At
    <2> QED BY <1>2, <1>5, <2>1, <2>2
  <1> QED BY <1>2, <1>4, <1>5 DEF FlagsOK, Doing, At

LEMMA ReflagFlags ==
  ASSUME Inv, FlagsOK, NEW q \in Requests, Reflag(q)
  PROVE  FlagsOK'
  <1> DEFINE f(x) == [x EXCEPT !.anomalous = @ \/ x.row \in request[q].range]
  <1>1. stored' = {f(x) : x \in stored} /\ UNCHANGED <<worker, marked>>
    BY DEF Reflag, Reflagged
  <1>2. \A o \in Requests \ {q} : request'[o] = request[o]
    BY DEF Reflag, Reply, Inv, TypeOK
  <1>3. ASSUME NEW x \in stored, f(x).row \in marked, ~f(x).anomalous
        PROVE  \E o \in Requests : /\ request'[o].pc = "reflag"
                                   /\ f(x).row \in request'[o].range
    <2>1. x \in StoredRow
      BY DEF Inv, TypeOK
    <2>2. /\ f(x).row = x.row
          /\ f(x).anomalous <=> (x.anomalous \/ x.row \in request[q].range)
      BY <2>1 DEF StoredRow
    <2> HIDE DEF f
    <2>3. PICK o \in Requests : At(o, "reflag") /\ x.row \in request[o].range
      BY <1>3, <2>2 DEF FlagsOK
    <2>4. o # q
      BY <1>3, <2>2, <2>3
    <2> QED BY <1>2, <2>2, <2>3, <2>4 DEF At
  <1> HIDE DEF f
  <1>4. \A w \in Workers : Doing(w, "known")' \/ Doing(w, "write")' =>
            marked' \subseteq worker'[w].ranges
    BY <1>1 DEF FlagsOK, Doing
  <1>5. \A y \in stored' : y.row \in marked' /\ ~y.anomalous =>
            \E o \in Requests : request'[o].pc = "reflag"
                                /\ y.row \in request'[o].range
    BY <1>1, <1>3
  <1> QED BY <1>4, <1>5 DEF FlagsOK, At, Doing

LEMMA OtherRequestFlags ==
  ASSUME Inv, FlagsOK, NEW q \in Requests,
         \/ \E u \in Uploads, rows \in Files : StageUpload(q, u, rows)
         \/ \E u \in Uploads : BeginConfirm(q, u)
         \/ AcceptUpload(q) \/ ConfirmMapping(q) \/ StartProcessing(q)
         \/ Dispatch(q) \/ DropFile(q)
  PROVE  FlagsOK'
  <1>1. UNCHANGED <<stored, marked, worker>>
    BY DEF StageUpload, BeginConfirm, AcceptUpload, ConfirmMapping,
           StartProcessing, Dispatch, DropFile, tables
  <1>2. request[q].pc # "reflag"
    BY DEF StageUpload, BeginConfirm, AcceptUpload, ConfirmMapping,
           StartProcessing, Dispatch, DropFile, At
  <1>3. \A o \in Requests \ {q} : request'[o] = request[o]
    BY DEF StageUpload, BeginConfirm, AcceptUpload, ConfirmMapping,
           StartProcessing, Dispatch, DropFile, GoTo, Reply, Inv, TypeOK
  <1>4. ASSUME NEW x \in stored, x.row \in marked, ~x.anomalous
        PROVE  \E o \in Requests : /\ request'[o].pc = "reflag"
                                   /\ x.row \in request'[o].range
    <2>1. PICK o \in Requests : At(o, "reflag") /\ x.row \in request[o].range
      BY <1>4 DEF FlagsOK
    <2> QED BY <1>2, <1>3, <2>1 DEF At
  <1> QED BY <1>1, <1>4 DEF FlagsOK, Doing, At

\* Where a step takes the ranges a task knows.
LEMMA RangesMove ==
  ASSUME Inv, NEW w \in Workers, Steps(w)
  PROVE  /\ \A o \in Workers \ {w} : worker'[o] = worker[o]
         /\ \/ worker'[w].pc \notin {"known", "write"}
            \/ worker'[w].ranges = marked
            \/ Doing(w, "known") /\ worker'[w].ranges = worker[w].ranges
  <1>1. worker[w] \in Task /\ worker \in [Workers -> Task]
    BY DEF Inv, TypeOK
  <1>2. \A pc : Then(w, pc) =>
            worker'[w].pc = pc /\ \A o \in Workers \ {w} : worker'[o] = worker[o]
    BY <1>1 DEF Then, Task
  <1>3. CASE ReadMarkers(w) \/ ReadKnown(w)
    BY <1>1, <1>3 DEF ReadMarkers, ReadKnown, Task
  <1>4. CASE ReadAccount(w)
    <2>1. ASSUME NEW a,
                 worker' = [worker EXCEPT ![w].pc = "save_account",
                                          ![w].account = a,
                                          ![w].period = accounts[a]]
          PROVE  /\ worker'[w].pc = "save_account"
                 /\ \A o \in Workers \ {w} : worker'[o] = worker[o]
      BY <1>1, <2>1 DEF Task
    <2>2. \/ \E pc \in {"save_account", "failing"} : Then(w, pc)
          \/ \E a \in FoundAccounts(w) :
                worker' = [worker EXCEPT ![w].pc = "save_account",
                                         ![w].account = a,
                                         ![w].period = accounts[a]]
      BY <1>4 DEF ReadAccount
    <2>3. worker'[w].pc \in {"save_account", "failing"}
          /\ \A o \in Workers \ {w} : worker'[o] = worker[o]
      BY <1>2, <2>1, <2>2
    <2> QED BY <2>3
  <1>5. CASE SaveAccount(w)
    <2>1. ASSUME NEW a,
                 worker' = [worker EXCEPT ![w].pc = "markers", ![w].account = a]
          PROVE  /\ worker'[w].pc = "markers"
                 /\ \A o \in Workers \ {w} : worker'[o] = worker[o]
      BY <1>1, <2>1 DEF Task
    <2> QED BY <1>2, <1>5, <2>1 DEF SaveAccount
  <1>6. CASE \/ WriteRows(w) \/ Report(w) \/ MarkFailed(w) \/ MarkRaises(w)
             \/ CleanUp(w) \/ TaskFails(w)
    <2>1. \E pc \in {"report", "failing", "clean_up", "ack"} : Then(w, pc)
      BY <1>6 DEF WriteRows, Report, MarkFailed, MarkRaises, CleanUp, TaskFails
    <2> QED BY <1>2, <2>1
  <1>7. CASE Ack(w) \/ LoseWorker(w) \/ KillTask(w)
    BY <1>1, <1>7 DEF Ack, LoseWorker, KillTask, NoTask
  <1>8. ASSUME NEW u \in Uploads, Take(w, u)
        PROVE  /\ worker'[w].pc \notin {"known", "write"}
               /\ \A o \in Workers \ {w} : worker'[o] = worker[o]
    BY <1>1, <1>8 DEF Take, TakeMissing, NoTask
  <1> QED BY <1>3, <1>4, <1>5, <1>6, <1>7, <1>8 DEF Steps, Work

LEMMA WorkerFlags ==
  ASSUME Inv, FlagsOK, NEW w \in Workers, Steps(w)
  PROVE  FlagsOK'
  <1>1. UNCHANGED <<request, marked>>
    BY DEF Steps, Work, ReadAccount, SaveAccount, ReadMarkers, ReadKnown,
           WriteRows, Report, MarkFailed, CleanUp, Ack, TaskFails, LoseWorker,
           KillTask, MarkRaises, Take, tables
  <1>2. \A o \in Workers : Doing(o, "known")' \/ Doing(o, "write")' =>
            marked \subseteq worker'[o].ranges
    <2> TAKE o \in Workers
    <2>1. CASE o = w
      BY <2>1, RangesMove DEF FlagsOK, Doing
    <2>2. CASE o # w
      BY <2>2, RangesMove DEF FlagsOK, Doing
    <2> QED BY <2>1, <2>2
  <1>3. \A x \in stored' : x.row \in marked /\ ~x.anomalous =>
            \E q \in Requests : At(q, "reflag") /\ x.row \in request[q].range
    <2>1. CASE WriteRows(w)
      <3>1. marked \subseteq worker[w].ranges
        BY <2>1 DEF WriteRows, FlagsOK
      <3>2. stored' = stored \/ stored' = stored \cup Added(w)
        BY <2>1 DEF WriteRows, Added
      <3>3. \A x \in Added(w) : x.row \in worker[w].ranges => x.anomalous
        <4> DEFINE ranges == worker[w].ranges
                   new == Insertable(content[worker[w].up] \ worker[w].known)
                   Row(r) == [account |-> worker[w].account, row |-> r,
                              copy |-> Cardinality({x \in stored : x.row = r}),
                              anomalous |-> r \in ranges]
        <4>1. Added(w) = {Row(r) : r \in new}
          BY DEF Added
        <4>2. \A r : Row(r).row = r
          OBVIOUS
        <4>3. \A r : Row(r).anomalous = (r \in ranges)
          OBVIOUS
        <4> HIDE DEF new, Row, ranges
        <4>4. ASSUME NEW x \in Added(w), x.row \in ranges PROVE x.anomalous
          <5>1. PICK r \in new : x = Row(r)
            BY <4>1
          <5>2. r \in ranges
            BY <4>2, <4>4, <5>1
          <5>3. x.anomalous = TRUE
            BY <4>3, <5>1, <5>2
          <5> QED BY <5>3
        <4> QED BY <4>4 DEF ranges
      <3>4. \A x \in Added(w) : x.row \in marked => x.anomalous
        BY <3>1, <3>3
      <3>5. SUFFICES ASSUME NEW x \in stored', x.row \in marked, ~x.anomalous
                     PROVE  \E q \in Requests :
                               At(q, "reflag") /\ x.row \in request[q].range
        OBVIOUS
      <3>6. x \in stored
        BY <3>2, <3>4, <3>5
      <3> QED BY <3>5, <3>6 DEF FlagsOK
    <2>2. CASE ~WriteRows(w)
      <3>1. UNCHANGED stored
        BY <2>2 DEF Steps, Work, ReadAccount, SaveAccount, ReadMarkers,
               ReadKnown, Report, MarkFailed, CleanUp, Ack, TaskFails,
               LoseWorker, KillTask, MarkRaises, Take, tables
      <3> QED BY <3>1 DEF FlagsOK
    <2> QED BY <2>1, <2>2
  <1> QED BY <1>1, <1>2, <1>3 DEF FlagsOK, Doing, At

LEMMA FlagsNext ==
  ASSUME Inv, FlagsOK, MarkersApart', [Reliable]_vars
  PROVE  FlagsOK'
  <1>1. CASE UNCHANGED vars
    BY <1>1 DEF vars, FlagsOK, Doing, At
  <1>2. CASE Reliable
    <2>1. ASSUME NEW w \in Workers, Steps(w) PROVE FlagsOK'
      BY <2>1, WorkerFlags
    <2>2. ASSUME NEW q \in Requests, Arrive(q) \/ Serve(q) PROVE FlagsOK'
      BY <2>2, CreateMarkerFlags, ReflagFlags, OtherRequestFlags
      DEF Arrive, Serve
    <2> QED BY <1>2, <2>1, <2>2 DEF Reliable, Steps
  <1> QED BY <1>1, <1>2

LEMMA ReliableIsSpec == ReliableSpec => Spec
  <1>1. [Reliable]_vars => [Next]_vars
    BY DEF Next
  <1> QED BY <1>1, PTL DEF ReliableSpec, Spec

\* As long as no marker is created between a task's reading the markers and
\* its writing the rows, and the API does not die between a marker's commit
\* and its re-flagging, nothing a marker covers stays unflagged, however
\* uploads, markers and redeliveries follow each other
\* (contextual_markers.py:106-111, bank_ingestion.py:368, :424).
THEOREM MarkersAreApplied == ReliableSpec /\ []MarkersApart => []MarkersApplied
  <1>1. Init => FlagsOK
    BY DEF Init, FlagsOK, Doing, NoTask
  <1>2. Inv /\ FlagsOK /\ MarkersApart' /\ [Reliable]_vars => FlagsOK'
    BY FlagsNext
  <1>3. FlagsOK => MarkersApplied
    BY DEF FlagsOK, MarkersApplied, Quiet, At
  <1> QED BY <1>1, <1>2, <1>3, ReliableIsSpec, SpecInv, PTL DEF ReliableSpec

-----------------------------------------------------------------------------
(* Staged files are tracked                                                *)

Tracked(u) ==
    \/ upload[u] = "needs_mapping"
    \/ queue[u] > 0
    \/ \E w \in Workers : worker[w].up = u
    \/ \E q \in Requests : request[q].up = u

\* Who has no file to its name leaves none behind; the rest has one, or is
\* done with it.
TrackedOK ==
    /\ StagedIsTracked
    /\ \A w \in Workers :
          /\ Doing(w, "idle") => worker[w].up = Null
          /\ Doing(w, "ack") => worker[w].up \notin staged
    /\ \A q \in Requests :
          /\ request[q].pc \in {"idle", "reflag"} => request[q].up = Null
          /\ request[q].pc \in {"confirm", "process"} =>
                upload[request[q].up] # "none"

\* A step of a request that leaves its file to someone, or drops it.
LEMMA TrackedRequest ==
  ASSUME Inv, TrackedOK, NEW q \in Requests, UNCHANGED worker,
         NEW v, v = request[q].up,
         \A o \in Requests \ {q} : request'[o] = request[o],
         \A u \in Uploads : upload[u] # "none" => upload'[u] # "none",
         \A u \in Uploads : u # request[q].up =>
            upload'[u] = upload[u] /\ queue'[u] = queue[u],
         \A u \in Uploads : u \in staged' =>
            u \in staged \/ (~Known(u) /\ u = request'[q].up),
         staged' \subseteq Uploads,
         v \notin staged' \/ Tracked(v)',
         request'[q].pc \in {"idle", "reflag"} => request'[q].up = Null,
         request'[q].pc \in {"confirm", "process"} =>
            upload'[request'[q].up] # "none"
  PROVE  TrackedOK'
  <1>1. ASSUME NEW u \in staged' PROVE Tracked(u)'
    <2>1. CASE u = v
      BY <1>1, <2>1
    <2>2. CASE u # request[q].up /\ u \in staged
      <3>1. Tracked(u)
        BY <2>2 DEF TrackedOK, StagedIsTracked, Tracked
      <3>2. upload'[u] = upload[u] /\ queue'[u] = queue[u]
        BY <1>1, <2>2
      <3>3. ASSUME NEW o \in Requests, request[o].up = u
            PROVE  request'[o].up = u
        BY <2>2, <3>3
      <3> QED BY <3>1, <3>2, <3>3 DEF Tracked
    <2>3. CASE u = request'[q].up
      BY <2>3 DEF Tracked
    <2> QED BY <1>1, <2>1, <2>2, <2>3
  <1>2. StagedIsTracked'
    BY <1>1 DEF StagedIsTracked, Tracked
  <1>3. ASSUME NEW w \in Workers
        PROVE  /\ Doing(w, "idle")' => worker'[w].up = Null
               /\ Doing(w, "ack")' => worker'[w].up \notin staged'
    <2>1. Doing(w, "idle")' => worker'[w].up = Null
      BY DEF TrackedOK, Doing
    <2>2. Doing(w, "ack")' => worker'[w].up \notin staged'
      BY DEF TrackedOK, Doing, Inv, FilesOK, Known
    <2> QED BY <2>1, <2>2
  <1>4. ASSUME NEW o \in Requests
        PROVE  /\ request'[o].pc \in {"idle", "reflag"} => request'[o].up = Null
               /\ request'[o].pc \in {"confirm", "process"} =>
                     upload'[request'[o].up] # "none"
    <2>1. CASE o = q
      BY <2>1
    <2>2. CASE o # q
      <3>1. request'[o] = request[o]
        BY <2>2
      <3>2. request[o].pc \in {"confirm", "process"} => request[o].up \in Uploads
        BY DEF Inv, FilesOK, Known
      <3> QED BY <3>1, <3>2 DEF TrackedOK
    <2> QED BY <2>1, <2>2
  <1> QED BY <1>2, <1>3, <1>4 DEF TrackedOK

\* A request begins: it had no file to its name.
LEMMA TrackedArrive ==
  ASSUME Inv, TrackedOK, NEW q \in Requests, Arrive(q)
  PROVE  TrackedOK'
  <1>1. request[q].up = Null
    BY DEF TrackedOK, Arrive, StageUpload, BeginConfirm, CreateMarker, At
  <1>2. /\ UNCHANGED <<worker, upload, queue>>
        /\ \A o \in Requests \ {q} : request'[o] = request[o]
    BY DEF Arrive, StageUpload, BeginConfirm, CreateMarker, tables, Inv, TypeOK
  <1>3. staged' \subseteq Uploads
    BY RequestsKeep DEF Inv, TypeOK
  <1>4. Null \notin Uploads
    BY IngestionAssumption
  <1>5. ASSUME NEW u \in Uploads, NEW rows \in Files, StageUpload(q, u, rows)
        PROVE  TrackedOK'
    <2>1. request'[q].up = u /\ request'[q].pc = "accept"
      BY <1>5 DEF StageUpload, Inv, TypeOK
    <2>2. staged' = staged \cup {u} /\ ~Known(u)
      BY <1>5 DEF StageUpload, Known
    <2> QED BY <1>1, <1>2, <1>3, <1>4, <2>1, <2>2, TrackedRequest
  <1>6. ASSUME NEW u \in Uploads, BeginConfirm(q, u) PROVE TrackedOK'
    <2>1. /\ request'[q].up = u /\ request'[q].pc = "confirm"
          /\ upload[u] # "none" /\ UNCHANGED staged
      BY <1>6 DEF BeginConfirm, Inv, TypeOK
    <2> QED BY <1>1, <1>2, <1>3, <1>4, <2>1, TrackedRequest
  <1>7. ASSUME NEW range \in Markers, CreateMarker(q, range) PROVE TrackedOK'
    <2>1. request'[q].up = Null /\ request'[q].pc = "reflag" /\ UNCHANGED staged
      BY <1>7 DEF CreateMarker, Inv, TypeOK
    <2> QED BY <1>1, <1>2, <1>3, <1>4, <2>1, TrackedRequest
  <1> QED BY <1>5, <1>6, <1>7 DEF Arrive

\* A request goes on with its file, hands it on, drops it, or finds it gone.
LEMMA TrackedServe ==
  ASSUME Inv, TrackedOK, NEW q \in Requests, Serve(q)
  PROVE  TrackedOK'
  <1>0. PICK u : u = request[q].up
    OBVIOUS
  <1>1. /\ UNCHANGED worker
        /\ \A o \in Requests \ {q} : request'[o] = request[o]
        /\ staged' \subseteq staged /\ staged \subseteq Uploads
    BY DEF Serve, AcceptUpload, ConfirmMapping, StartProcessing, Dispatch,
           DropFile, Reflag, Reply, GoTo, tables, Inv, TypeOK
  <1>2. \A v \in Uploads : v # u => upload'[v] = upload[v] /\ queue'[v] = queue[v]
    BY <1>0 DEF Serve, AcceptUpload, ConfirmMapping, StartProcessing, Dispatch,
           DropFile, Reflag, tables, Inv, TypeOK
  <1>3. \A v \in Uploads : upload[v] # "none" => upload'[v] # "none"
    BY DEF Serve, AcceptUpload, ConfirmMapping, StartProcessing, Dispatch,
           DropFile, Reflag, tables, Inv, TypeOK
  <1>4. Reply(q) => request'[q].pc = "idle" /\ request'[q].up = Null
    BY DEF Reply, NoRequest, Inv, TypeOK
  <1>5. \A pc : GoTo(q, pc) => request'[q].pc = pc /\ request'[q].up = u
    BY <1>0 DEF GoTo, Inv, TypeOK, Request
  <1>6. CASE \E pc \in {"dispatch", "drop"} : GoTo(q, pc)
    <2>1. Tracked(u)' /\ request'[q].pc \in {"dispatch", "drop"}
      BY <1>0, <1>5, <1>6 DEF Tracked
    <2> QED BY <1>0, <1>1, <1>2, <1>3, <2>1, TrackedRequest
  <1>7. CASE ConfirmMapping(q) /\ GoTo(q, "process")
    <2>1. Tracked(u)' /\ request'[q].pc = "process" /\ request'[q].up = u
      BY <1>0, <1>5, <1>7 DEF Tracked
    <2>2. upload'[u] # "none"
      BY <1>0, <1>7 DEF ConfirmMapping, At, TrackedOK
    <2> QED BY <1>0, <1>1, <1>2, <1>3, <2>1, <2>2, TrackedRequest
  <1>8. CASE Reply(q)
    <2>1. u \notin staged' \/ Tracked(u)'
      <3>1. CASE AcceptUpload(q)
        <4>1. u \in Uploads
          BY <1>0, <3>1 DEF Inv, FilesOK, Known, AcceptUpload, At
        <4>2. CASE upload' = [upload EXCEPT ![u] = "processing"] /\ GoTo(q, "dispatch")
          BY <1>0, <1>5, <4>2 DEF Tracked
        <4>3. CASE upload' = [upload EXCEPT ![u] = "needs_mapping"]
          BY <4>1, <4>3 DEF Inv, TypeOK, Tracked
        <4>4. CASE staged' = staged \ {u}
          BY <4>4
        <4> QED BY <1>0, <3>1, <4>2, <4>3, <4>4 DEF AcceptUpload
      <3>2. CASE ConfirmMapping(q)
        BY <1>0, <3>2, <1>5, <1>8, <1>1 DEF ConfirmMapping, Tracked
      <3>3. CASE StartProcessing(q)
        <4>1. upload[u] # "none"
          BY <1>0, <3>3 DEF StartProcessing, At, TrackedOK
        <4>2. GoTo(q, "dispatch")
          BY <1>0, <3>3, <4>1 DEF StartProcessing
        <4> QED BY <1>0, <1>5, <4>2 DEF Tracked
      <3>4. CASE Dispatch(q)
        <4>1. u \in Uploads
          BY <1>0, <3>4 DEF Inv, FilesOK, Known, Dispatch, At
        <4>2. CASE queue' = [queue EXCEPT ![u] = @ + 1]
          BY <4>1, <4>2 DEF Inv, TypeOK, Tracked
        <4>3. CASE GoTo(q, "drop")
          BY <1>0, <1>5, <4>3 DEF Tracked
        <4> QED BY <1>0, <3>4, <4>2, <4>3 DEF Dispatch
      <3>5. CASE DropFile(q)
        BY <1>0, <3>5 DEF DropFile
      <3>6. CASE Reflag(q)
        <4>1. u = Null /\ Null \notin Uploads
          BY <1>0, <3>6, IngestionAssumption DEF Reflag, At, TrackedOK
        <4> QED BY <1>1, <4>1
      <3> QED BY <3>1, <3>2, <3>3, <3>4, <3>5, <3>6 DEF Serve
    <2> QED BY <1>0, <1>1, <1>2, <1>3, <1>4, <1>8, <2>1, TrackedRequest
  <1> QED BY <1>6, <1>7, <1>8 DEF Serve, AcceptUpload, ConfirmMapping,
          StartProcessing, Dispatch, DropFile, Reflag

\* A step of a task that keeps its file tracked, or is done with it.
LEMMA TrackedWorker ==
  ASSUME Inv, TrackedOK, NEW w \in Workers, UNCHANGED request,
         \A o \in Workers \ {w} : worker'[o] = worker[o],
         \A u \in Uploads : upload[u] # "none" => upload'[u] # "none",
         \A u \in Uploads : u # worker[w].up =>
            upload'[u] = upload[u] /\ (queue[u] > 0 => queue'[u] > 0 \/ u = worker'[w].up),
         staged' \subseteq staged,
         worker'[w].up = worker[w].up \/ worker[w].up \notin staged'
            \/ queue'[worker[w].up] > 0,
         Doing(w, "idle")' => worker'[w].up = Null,
         Doing(w, "ack")' => worker'[w].up \notin staged'
  PROVE  TrackedOK'
  <1>1. ASSUME NEW u \in staged' PROVE Tracked(u)'
    <2>1. CASE u = worker[w].up
      BY <1>1, <2>1 DEF Tracked
    <2>2. CASE u # worker[w].up
      <3>1. Tracked(u) /\ u \in Uploads
        BY <1>1 DEF TrackedOK, StagedIsTracked, Tracked, Inv, TypeOK
      <3>2. /\ upload'[u] = upload[u]
            /\ queue[u] > 0 => queue'[u] > 0 \/ u = worker'[w].up
        BY <2>2, <3>1
      <3>3. ASSUME NEW o \in Workers, worker[o].up = u
            PROVE  worker'[o].up = u
        BY <2>2, <3>3
      <3> QED BY <3>1, <3>2, <3>3 DEF Tracked
    <2> QED BY <2>1, <2>2
  <1>2. StagedIsTracked'
    BY <1>1 DEF StagedIsTracked, Tracked
  <1>3. ASSUME NEW o \in Workers
        PROVE  /\ Doing(o, "idle")' => worker'[o].up = Null
               /\ Doing(o, "ack")' => worker'[o].up \notin staged'
    <2>1. CASE o = w
      BY <2>1 DEF Doing
    <2>2. CASE o # w
      <3>1. worker'[o] = worker[o]
        BY <2>2
      <3> QED BY <3>1 DEF TrackedOK, Doing
    <2> QED BY <2>1, <2>2
  <1>4. ASSUME NEW q \in Requests
        PROVE  /\ request'[q].pc \in {"idle", "reflag"} => request'[q].up = Null
               /\ request'[q].pc \in {"confirm", "process"} =>
                     upload'[request'[q].up] # "none"
    <2>1. request[q].pc \in {"confirm", "process"} => request[q].up \in Uploads
      BY DEF Inv, FilesOK, Known
    <2> QED BY <2>1 DEF TrackedOK
  <1> QED BY <1>2, <1>3, <1>4 DEF TrackedOK

\* The steps of ReliableSpec that a task takes.
LEMMA TrackedTasks ==
  ASSUME Inv, TrackedOK, NEW w \in Workers,
         \/ Work(w) \/ TaskFails(w) \/ LoseWorker(w)
         \/ \E u \in Uploads : Take(w, u)
  PROVE  TrackedOK'
  <1> DEFINE v == worker[w].up
  <1>1. worker[w] \in Task /\ worker \in [Workers -> Task]
    BY DEF Inv, TypeOK
  <1>2. /\ UNCHANGED request
        /\ \A o \in Workers \ {w} : worker'[o] = worker[o]
    <2>1. Steps(w)
      BY DEF Steps
    <2>2. \A o \in Workers \ {w} : worker'[o] = worker[o]
      BY <2>1, RangesMove
    <2> QED BY <2>2 DEF Work, ReadAccount, SaveAccount, ReadMarkers, ReadKnown,
           WriteRows, Report, MarkFailed, CleanUp, Ack, TaskFails, LoseWorker,
           Take, tables
  <1>3. \A pc : Then(w, pc) => worker'[w].pc = pc /\ worker'[w].up = v
    BY <1>1 DEF Then, Task
  <1>4. CASE \/ ReadAccount(w) \/ SaveAccount(w) \/ ReadMarkers(w)
             \/ ReadKnown(w) \/ WriteRows(w) \/ TaskFails(w)
    <2>1. UNCHANGED <<upload, queue, staged>>
      BY <1>4 DEF ReadAccount, SaveAccount, ReadMarkers, ReadKnown, WriteRows,
             TaskFails, tables
    <2>2. worker'[w].up = v /\ worker'[w].pc \notin {"idle", "ack"}
      <3>1. CASE \E pc \in {"save_account", "markers", "failing", "report"} : Then(w, pc)
        BY <1>3, <3>1
      <3>2. ASSUME NEW a, worker' = [worker EXCEPT ![w].pc = "save_account",
                                                   ![w].account = a,
                                                   ![w].period = accounts[a]]
            PROVE  worker'[w].up = v /\ worker'[w].pc = "save_account"
        BY <1>1, <3>2 DEF Task
      <3>3. ASSUME NEW a,
                   worker' = [worker EXCEPT ![w].pc = "markers", ![w].account = a]
            PROVE  worker'[w].up = v /\ worker'[w].pc = "markers"
        BY <1>1, <3>3 DEF Task
      <3>4. CASE ReadAccount(w)
        <4>1. \/ \E pc \in {"save_account", "failing"} : Then(w, pc)
              \/ \E a \in FoundAccounts(w) :
                    worker' = [worker EXCEPT ![w].pc = "save_account",
                                             ![w].account = a,
                                             ![w].period = accounts[a]]
          BY <3>4 DEF ReadAccount
        <4> QED BY <3>1, <3>2, <4>1
      <3>5. CASE SaveAccount(w)
        <4>1. \/ \E pc \in {"markers", "failing"} : Then(w, pc)
              \/ \E a \in Accounts :
                    worker' = [worker EXCEPT ![w].pc = "markers", ![w].account = a]
          BY <3>5 DEF SaveAccount
        <4> QED BY <3>1, <3>3, <4>1
      <3>6. CASE ReadMarkers(w) \/ ReadKnown(w)
        BY <1>1, <3>6 DEF ReadMarkers, ReadKnown, Task
      <3>7. CASE WriteRows(w) \/ TaskFails(w)
        BY <3>1, <3>7 DEF WriteRows, TaskFails
      <3> QED BY <1>4, <3>4, <3>5, <3>6, <3>7
    <2> QED BY <1>2, <2>1, <2>2, TrackedWorker DEF Doing
  <1>5. CASE Report(w) \/ MarkFailed(w)
    <2>1. UNCHANGED <<queue, staged>>
      BY <1>5 DEF Report, MarkFailed
    <2>2. worker'[w].up = v /\ worker'[w].pc = "clean_up"
      BY <1>3, <1>5 DEF Report, MarkFailed
    <2>3. /\ \A u \in Uploads : u # v => upload'[u] = upload[u]
          /\ \A u \in Uploads : upload[u] # "none" => upload'[u] # "none"
      BY <1>5 DEF Report, MarkFailed, Inv, TypeOK
    <2> QED BY <1>2, <2>1, <2>2, <2>3, TrackedWorker DEF Doing
  <1>6. CASE CleanUp(w)
    <2>1. UNCHANGED <<upload, queue>> /\ staged' = staged \ {v}
      BY <1>6 DEF CleanUp, Remaining, tables
    <2>2. worker'[w].up = v /\ worker'[w].pc = "ack"
      BY <1>3, <1>6 DEF CleanUp
    <2> QED BY <1>2, <2>1, <2>2, TrackedWorker DEF Doing
  <1>7. CASE Ack(w)
    <2>1. UNCHANGED <<upload, queue, staged>> /\ v \notin staged
      BY <1>7 DEF Ack, tables, TrackedOK
    <2>2. worker'[w].up = Null /\ worker'[w].pc = "idle"
      BY <1>1, <1>7 DEF Ack, NoTask
    <2> QED BY <1>2, <2>1, <2>2, TrackedWorker DEF Doing
  <1>8. CASE LoseWorker(w)
    <2>1. UNCHANGED <<upload, staged>> /\ queue' = [queue EXCEPT ![v] = @ + 1]
      BY <1>8 DEF LoseWorker, tables
    <2>2. v \in Uploads
      BY <1>8 DEF LoseWorker, Inv, FilesOK, Known
    <2>3. queue'[v] > 0 /\ \A u \in Uploads : u # v => queue'[u] = queue[u]
      BY <2>1, <2>2 DEF Inv, TypeOK
    <2>4. worker'[w].up = Null /\ worker'[w].pc = "idle"
      BY <1>1, <1>8 DEF LoseWorker, NoTask
    <2> QED BY <1>2, <2>1, <2>3, <2>4, TrackedWorker DEF Doing
  <1>9. ASSUME NEW u \in Uploads, Take(w, u) PROVE TrackedOK'
    <2>1. UNCHANGED <<upload, staged>> /\ queue' = [queue EXCEPT ![u] = @ - 1]
      BY <1>9 DEF Take, tables
    <2>2. /\ worker'[w].up = u
          /\ worker'[w].pc \in {"account", "markers", "failing"}
      BY <1>1, <1>9 DEF Take, TakeMissing, NoTask
    <2>3. \A o \in Uploads : o # u => queue'[o] = queue[o]
      BY <2>1 DEF Inv, TypeOK
    <2>4. v = Null /\ v \notin staged
      BY <1>9, IngestionAssumption DEF Take, TrackedOK, Inv, TypeOK
    <2> QED BY <1>2, <2>1, <2>2, <2>3, <2>4, TrackedWorker DEF Doing
  <1> QED BY <1>4, <1>5, <1>6, <1>7, <1>8, <1>9 DEF Work

LEMMA TrackedNext ==
  ASSUME Inv, TrackedOK, [Reliable]_vars
  PROVE  TrackedOK'
  <1>1. CASE UNCHANGED vars
    BY <1>1 DEF vars, TrackedOK, StagedIsTracked, Doing
  <1>2. CASE Reliable
    BY <1>2, TrackedArrive, TrackedServe, TrackedTasks DEF Reliable
  <1> QED BY <1>1, <1>2

\* While the API stays up and nobody deletes the merchant's data, a staged
\* file is always someone's to read and delete, whatever tasks fail and
\* workers are lost (upload_staging.py:84-88).
THEOREM StagedFilesAreTracked == ReliableSpec => []StagedIsTracked
  <1>1. Init => TrackedOK
    BY DEF Init, TrackedOK, StagedIsTracked, Doing, NoTask, NoRequest
  <1>2. Inv /\ TrackedOK /\ [Reliable]_vars => TrackedOK'
    BY TrackedNext
  <1>3. TrackedOK => StagedIsTracked
    BY DEF TrackedOK
  <1> QED BY <1>1, <1>2, <1>3, ReliableIsSpec, SpecInv, PTL DEF ReliableSpec

-----------------------------------------------------------------------------
(* The same two, in the runs TLC makes with any bounds.                    *)

LEMMA RunsOfReliable == MCSpec => ReliableSpec \/ [](setting = "one task")
  <1>1. MCInit => Init
    BY DEF MCInit
  <1>2. setting = "one task" /\ [MCNext]_mcVars => (setting = "one task")'
    BY DEF MCNext, mcVars
  <1>3. ~(setting = "one task") /\ [MCNext]_mcVars
           => ~(setting = "one task")' /\ [Reliable]_vars
    BY DEF MCNext, mcVars
  <1> QED BY <1>1, <1>2, <1>3, PTL DEF MCSpec, ReliableSpec

LEMMA RunsOfMarkers ==
    MCSpec => (ReliableSpec /\ []MarkersApart) \/ []~(setting = "markers")
  <1>1. MCInit => Init /\ MarkersApart
    BY IdleIsApart DEF MCInit
  <1>2. ~(setting = "markers") /\ [MCNext]_mcVars => ~(setting = "markers")'
    BY DEF MCNext, mcVars
  <1>3. setting = "markers" /\ MarkersApart /\ [MCNext]_mcVars
           => (setting = "markers" /\ MarkersApart)' /\ [Reliable]_vars
    BY DEF MCNext, InSetting, mcVars, vars, MarkersApart, Doing, At
  <1> QED BY <1>1, <1>2, <1>3, PTL DEF MCSpec, ReliableSpec

\* Nothing a marker covers stays unflagged.
THEOREM MarkersAppliedInRuns == MCSpec => []MarkersAppliedApart
  <1>1. MarkersApplied => MarkersAppliedApart
    BY DEF MarkersAppliedApart
  <1>2. ~(setting = "markers") => MarkersAppliedApart
    BY DEF MarkersAppliedApart
  <1> QED BY <1>1, <1>2, RunsOfMarkers, MarkersAreApplied, PTL

\* A staged file is someone's to read and delete.
THEOREM StagedInRuns == MCSpec => []StagedIsTrackedWhileUp
  <1>1. StagedIsTracked => StagedIsTrackedWhileUp
    BY DEF StagedIsTrackedWhileUp
  <1>2. setting = "one task" => StagedIsTrackedWhileUp
    BY DEF StagedIsTrackedWhileUp
  <1> QED BY <1>1, <1>2, RunsOfReliable, StagedFilesAreTracked, PTL
=============================================================================
