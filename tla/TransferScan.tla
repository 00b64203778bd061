---------------------------- MODULE TransferScan ----------------------------
(***************************************************************************)
(* Transfers between a business's own accounts:                            *)
(* app/services/bank_account_integrity.py (detect_own_account_transfers)   *)
(* and the cached scan of app/routes/bank.py.                              *)
(*                                                                         *)
(* Every bank analysis of a business first makes sure that debits in one   *)
(* of its accounts and equal credits in another are flagged, so that a     *)
(* transfer counts neither as outflow nor as inflow.  Each API process     *)
(* remembers how many transactions the business had at its last scan and   *)
(* skips the scan while the count is the same.  The requests interleave    *)
(* with each other and with the tasks that ingest statements.              *)
(*                                                                         *)
(* One business; a row is a transaction.                                   *)
(***************************************************************************)
EXTENDS Transfers, Integers, FiniteSets

CONSTANTS Rows,
          Accounts,
          AccountOf,    \* the account of each row
          Compatible,   \* <<debit, credit>>: amounts and dates that agree
          Processes,    \* API processes, each with a cache of its own
          Requests,     \* requests in flight at once
          Unseen

VARIABLES
    rows,       \* bank_transactions
    flagged,    \* those with is_own_account_transfer
    accounts,
    gone,       \* ids of what was deleted: not used again
    cache,      \* _transfer_scan_cache of each process, Unseen without entry
    request     \* the requests in flight

scanVars == <<rows, flagged, accounts, gone, cache, request>>

ASSUME TransferAssumption ==
    /\ IsFiniteSet(Rows) /\ IsFiniteSet(Accounts)
    /\ AccountOf \in [Rows -> Accounts]
    /\ Compatible \subseteq Rows \X Rows
    /\ \A p \in Compatible : AccountOf[p[1]] # AccountOf[p[2]]
    /\ \A p, q \in Compatible : p[1] # q[2]
    /\ Unseen \notin Nat

\* A request: its process, the rows its COUNT saw, the accounts it read and
\* the pairs it found.
ScanRequest == [pc : {"idle", "counted", "read", "commit", "store", "load"},
            process : Processes \cup {Unseen}, counted : SUBSET Rows,
            accounts : SUBSET Accounts, pairs : SUBSET (Rows \X Rows)]

NoRequest == [pc |-> "idle", process |-> Unseen, counted |-> {},
              accounts |-> {}, pairs |-> {}]

ScanTypeOK ==
    /\ rows \subseteq Rows
    /\ flagged \subseteq rows
    /\ accounts \subseteq Accounts
    /\ gone \subseteq Rows \cup Accounts
    /\ cache \in [Processes -> Nat \cup {Unseen}]
    /\ request \in [Requests -> ScanRequest]

ScanInit ==
    /\ rows = {} /\ flagged = {} /\ accounts = {} /\ gone = {}
    /\ cache = [p \in Processes |-> Unseen]
    /\ request = [s \in Requests |-> NoRequest]

At(s, pc) == request[s].pc = pc

-----------------------------------------------------------------------------
(* A request *)

\* The COUNT query.
Count(s, p) ==
    /\ At(s, "idle")
    /\ request' = [request EXCEPT ![s] =
          [NoRequest EXCEPT !.pc = "counted", !.process = p,
                            !.counted = rows]]
    /\ UNCHANGED <<rows, flagged, accounts, gone, cache>>

\* Is the count that of the last scan of this process?
BugCached(s) == cache[request[s].process] # Unseen  \* a bug: any scan will do
Cached(s) == cache[request[s].process] = Cardinality(request[s].counted)

Hit(s) ==
    /\ At(s, "counted") /\ Cached(s)
    /\ request' = [request EXCEPT ![s].pc = "load"]
    /\ UNCHANGED <<rows, flagged, accounts, gone, cache>>

\* The accounts; one alone cannot have transfers.
Miss(s) ==
    /\ At(s, "counted") /\ ~Cached(s)
    /\ request' = [request EXCEPT
          ![s].pc = IF Cardinality(accounts) < 2 THEN "store" ELSE "read",
          ![s].accounts = accounts]
    /\ UNCHANGED <<rows, flagged, accounts, gone, cache>>

\* The rows of those accounts, and what the loops find among them.
ReadRows(s) ==
    LET unflagged == {r \in rows \ flagged : AccountOf[r] \in request[s].accounts}
    IN  /\ At(s, "read")
        /\ \E pairs \in Scans(Compatible, unflagged) :
              request' = [request EXCEPT ![s].pc = "commit",
                                         ![s].pairs = pairs]
        /\ UNCHANGED <<rows, flagged, accounts, gone, cache>>

\* The rows the UPDATEs flag
BugMarked(pairs) == {p[1] : p \in pairs}   \* a bug: the debits only
Marked(pairs) == Ends(pairs)

\* An UPDATE of a row that is gone raises, and nothing is flagged.
BugAlive(s) == TRUE                \* a bug: rows are not required to exist
Alive(s) == Marked(request[s].pairs) \subseteq rows

CommitFlags(s) ==
    /\ At(s, "commit") /\ Alive(s)
    /\ flagged' = flagged \cup Marked(request[s].pairs)
    /\ request' = [request EXCEPT ![s].pc = "store"]
    /\ UNCHANGED <<rows, accounts, gone, cache>>

\* The process remembers the count from before the scan.
BugScanned(s) == rows              \* a bug: the rows are counted again
Scanned(s) == request[s].counted

Store(s) ==
    /\ At(s, "store")
    /\ cache' = [cache EXCEPT ![request[s].process] = Cardinality(Scanned(s))]
    /\ request' = [request EXCEPT ![s].pc = "load"]
    /\ UNCHANGED <<rows, flagged, accounts, gone>>

\* The analysis, or an exception, or a client that went away.
Leave(s) ==
    /\ ~At(s, "idle")
    /\ request' = [request EXCEPT ![s] = NoRequest]
    /\ UNCHANGED <<rows, flagged, accounts, gone, cache>>

-----------------------------------------------------------------------------
(* Everything else *)

\* A process restarts with an empty cache.
Restart(p) ==
    /\ cache' = [cache EXCEPT ![p] = Unseen]
    /\ request' = [s \in Requests |-> IF request[s].process = p THEN NoRequest
                                      ELSE request[s]]
    /\ UNCHANGED <<rows, flagged, accounts, gone>>

\* An ingestion task commits the account of a statement, then its rows.
OpenAccount(a) ==
    /\ a \notin accounts \cup gone
    /\ accounts' = accounts \cup {a}
    /\ UNCHANGED <<rows, flagged, gone, cache, request>>

Ingest(R) ==
    /\ R # {} /\ R \cap (rows \cup gone) = {}
    /\ \A r, q \in R : AccountOf[r] = AccountOf[q]
    /\ \A r \in R : AccountOf[r] \in accounts
    /\ rows' = rows \cup R
    /\ UNCHANGED <<flagged, accounts, gone, cache, request>>

\* delete_all_merchant_data
DeleteAll ==
    /\ rows' = {} /\ flagged' = {} /\ accounts' = {}
    /\ gone' = gone \cup rows \cup accounts
    /\ UNCHANGED <<cache, request>>

Serve(s) ==
    \/ \E p \in Processes : Count(s, p)
    \/ Hit(s) \/ Miss(s) \/ ReadRows(s) \/ CommitFlags(s) \/ Store(s) \/ Leave(s)

Keep ==
    \/ \E s \in Requests : Serve(s)
    \/ \E p \in Processes : Restart(p)
    \/ \E a \in Accounts : OpenAccount(a)
    \/ \E R \in SUBSET Rows : Ingest(R)

ScanNext == Keep \/ DeleteAll

ScanSpec == ScanInit /\ [][ScanNext]_scanVars

-----------------------------------------------------------------------------
(* Properties *)

\* No transfer among the rows R is left unflagged.
NoTransferIn(R) ==
    \A p \in Within(Compatible, R) : p[1] \in flagged \/ p[2] \in flagged

\* A row is flagged only as one end of a transfer whose other end is flagged
\* too: a scan that fails half way, whose rows are deleted under it, or that
\* runs with another does not take an inflow out of the totals without an
\* outflow (bank_account_integrity.py:134).
FlaggedHasPartner ==
    \A r \in flagged : \E q \in flagged : <<r, q>> \in Compatible
                                          \/ <<q, r>> \in Compatible

\* While nobody has deleted data, a process skips the scan only if the
\* transfers among that many rows are flagged: "never a missed scan",
\* although the count is taken before the scan, rows arrive in between and
\* every process has its own cache (routes/bank.py:201).
CacheIsScanned ==
    gone = {} => \A p \in Processes :
                     cache[p] = Cardinality(rows) => NoTransferIn(rows)

\* While nobody has deleted data, a request that goes on to its analysis
\* finds every transfer among the rows it counted flagged, whether it or
\* another request scanned them (routes/bank.py:238).
AnalysedIsScanned ==
    gone = {} => \A s \in Requests :
                     At(s, "load") => NoTransferIn(request[s].counted)
=============================================================================
