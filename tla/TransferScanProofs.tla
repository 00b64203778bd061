------------------------- MODULE TransferScanProofs -------------------------
(***************************************************************************)
(* Proofs about TransferScan, for any rows, accounts, processes and        *)
(* concurrent requests:                                                    *)
(*                                                                         *)
(*   ScanTypeCorrect   every reachable state is well typed                 *)
(*   PartnersFlagged   a flagged row has a flagged partner, although       *)
(*                     scans race with each other and with deletion        *)
(*   NoMissedScan      while nothing is deleted, the cache skips a scan    *)
(*   AnalysesScanned   only if there is nothing to find                    *)
(*                                                                         *)
(* and about Pairing, at the end: LoopsCorrect.                            *)
(*                                                                         *)
(* The cache holds only a number.  It is enough because, while rows are    *)
(* only added, the sets of rows that counts have seen are nested: two of   *)
(* the same size are the same set.                                         *)
(***************************************************************************)
EXTENDS TransferScan, Pairing, FiniteSetTheorems, TLAPS

\* The pairs of a request agree; NoRequest has none.
PairsOK == \A s \in Requests : request[s].pairs \subseteq Compatible

ScanInv == ScanTypeOK /\ PairsOK /\ FlaggedHasPartner

LEMMA InitOK == ScanInit => ScanInv
  BY DEF ScanInit, ScanInv, ScanTypeOK, PairsOK, FlaggedHasPartner, NoRequest, ScanRequest

\* A step that touches only one request.
LEMMA RequestIsOK ==
  ASSUME ScanInv, NEW s \in Requests, NEW c \in ScanRequest,
         c.pairs \subseteq Compatible,
         request' = [request EXCEPT ![s] = c]
  PROVE  PairsOK' /\ request' \in [Requests -> ScanRequest]
  <1>1. request \in [Requests -> ScanRequest]
    BY DEF ScanInv, ScanTypeOK
  <1> QED BY <1>1 DEF ScanInv, PairsOK

LEMMA NoRequestOK == NoRequest \in ScanRequest /\ NoRequest.pairs \subseteq Compatible
  BY DEF NoRequest, ScanRequest

LEMMA MarkedIsPaired ==
  ASSUME NEW found \in SUBSET Compatible
  PROVE  \A r \in Ends(found) : \E q \in Ends(found) :
            <<r, q>> \in Compatible \/ <<q, r>> \in Compatible
  <1> SUFFICES ASSUME NEW p \in found
        PROVE  <<p[1], p[2]>> \in Compatible /\ {p[1], p[2]} \subseteq Ends(found)
    BY DEF Ends
  <1>1. p \in Rows \X Rows
    BY TransferAssumption
  <1> QED BY <1>1 DEF Ends

\* Every step of a request, and what it becomes.
LEMMA CountIs ==
  ASSUME ScanInv, NEW s \in Requests, NEW p \in Processes, Count(s, p)
  PROVE  \E c \in ScanRequest :
            /\ request' = [request EXCEPT ![s] = c]
            /\ c.pc = "counted" /\ c.counted = rows /\ c.process = p
            /\ c.pairs = {}
  <1> DEFINE a == [NoRequest EXCEPT !.pc = "counted", !.process = p]
             c == [a EXCEPT !.counted = rows]
  <1>1. a \in ScanRequest /\ a.pc = "counted" /\ a.process = p /\ a.pairs = {}
    BY DEF NoRequest, ScanRequest
  <1>2. request' = [request EXCEPT ![s] = c]
    BY DEF Count
  <1> HIDE DEF a
  <1>3. /\ c \in ScanRequest /\ c.pc = "counted" /\ c.counted = rows
        /\ c.process = p /\ c.pairs = {}
    BY <1>1 DEF ScanRequest, ScanInv, ScanTypeOK
  <1> QED BY <1>2, <1>3

LEMMA HitIs ==
  ASSUME ScanInv, NEW s \in Requests, Hit(s)
  PROVE  \E c \in ScanRequest :
            /\ request' = [request EXCEPT ![s] = c]
            /\ c.pc = "load" /\ c.counted = request[s].counted
            /\ c.pairs = request[s].pairs /\ c.process = request[s].process
  <1> DEFINE b == request[s]
             c == [b EXCEPT !.pc = "load"]
  <1>1. b \in ScanRequest
    BY DEF ScanInv, ScanTypeOK
  <1>2. request' = [request EXCEPT ![s] = c]
    BY DEF Hit
  <1>3. /\ c \in ScanRequest /\ c.pc = "load" /\ c.counted = b.counted
        /\ c.pairs = b.pairs /\ c.process = b.process
    <2> HIDE DEF b
    <2> QED BY <1>1 DEF ScanRequest
  <1> QED BY <1>2, <1>3

LEMMA MissIs ==
  ASSUME ScanInv, NEW s \in Requests, Miss(s)
  PROVE  \E c \in ScanRequest :
            /\ request' = [request EXCEPT ![s] = c]
            /\ c.pc = IF Cardinality(accounts) < 2 THEN "store" ELSE "read"
            /\ c.accounts = accounts
            /\ c.counted = request[s].counted /\ c.pairs = request[s].pairs
            /\ c.process = request[s].process
  <1> DEFINE b == request[s]
             pc == IF Cardinality(accounts) < 2 THEN "store" ELSE "read"
             a == [b EXCEPT !.pc = pc]
             c == [a EXCEPT !.accounts = accounts]
  <1>1. b \in ScanRequest /\ accounts \in SUBSET Accounts
    BY DEF ScanInv, ScanTypeOK
  <1>2. request' = [request EXCEPT ![s] = c]
    BY DEF Miss
  <1>3. pc \in {"store", "read"}
    OBVIOUS
  <1>4. /\ a \in ScanRequest /\ a.pc = pc /\ a.counted = b.counted
        /\ a.pairs = b.pairs /\ a.process = b.process
    <2> HIDE DEF b, pc
    <2> QED BY <1>1, <1>3 DEF ScanRequest
  <1>5. /\ c \in ScanRequest /\ c.pc = pc /\ c.counted = b.counted
        /\ c.pairs = b.pairs /\ c.accounts = accounts
        /\ c.process = b.process
    <2> HIDE DEF a, b, pc
    <2> QED BY <1>1, <1>4 DEF ScanRequest
  <1> QED BY <1>2, <1>5

LEMMA ReadRowsIs ==
  ASSUME ScanInv, NEW s \in Requests, ReadRows(s)
  PROVE  \E c \in ScanRequest :
            /\ request' = [request EXCEPT ![s] = c]
            /\ c.pc = "commit" /\ c.counted = request[s].counted
            /\ c.pairs \in Scans(Compatible, {r \in rows \ flagged :
                              AccountOf[r] \in request[s].accounts})
            /\ c.pairs \subseteq Compatible /\ c.process = request[s].process
  <1> DEFINE b == request[s]
             R == {r \in rows \ flagged : AccountOf[r] \in b.accounts}
  <1>1. PICK found \in Scans(Compatible, R) :
           request' = [request EXCEPT ![s].pc = "commit", ![s].pairs = found]
    BY DEF ReadRows
  <1> DEFINE c == [b EXCEPT !.pc = "commit", !.pairs = found]
  <1>2. found \subseteq Compatible /\ found \subseteq Rows \X Rows
    BY TransferAssumption DEF Scans, Within
  <1>3. b \in ScanRequest
    BY DEF ScanInv, ScanTypeOK
  <1>4. request' = [request EXCEPT ![s] = c]
    BY <1>1
  <1>5. /\ c \in ScanRequest /\ c.pc = "commit" /\ c.counted = b.counted
        /\ c.pairs = found /\ c.process = b.process
    <2> HIDE DEF b
    <2> QED BY <1>2, <1>3 DEF ScanRequest
  <1> QED BY <1>1, <1>2, <1>4, <1>5

LEMMA CommitIs ==
  ASSUME ScanInv, NEW s \in Requests, CommitFlags(s)
  PROVE  \E c \in ScanRequest :
            /\ request' = [request EXCEPT ![s] = c]
            /\ c.pc = "store" /\ c.counted = request[s].counted
            /\ c.pairs = request[s].pairs /\ c.process = request[s].process
  <1> DEFINE b == request[s]
             c == [b EXCEPT !.pc = "store"]
  <1>1. b \in ScanRequest
    BY DEF ScanInv, ScanTypeOK
  <1>2. request' = [request EXCEPT ![s] = c]
    BY DEF CommitFlags
  <1>3. /\ c \in ScanRequest /\ c.pc = "store" /\ c.counted = b.counted
        /\ c.pairs = b.pairs /\ c.process = b.process
    <2> HIDE DEF b
    <2> QED BY <1>1 DEF ScanRequest
  <1> QED BY <1>2, <1>3

LEMMA StoreIs ==
  ASSUME ScanInv, NEW s \in Requests, Store(s)
  PROVE  \E c \in ScanRequest :
            /\ request' = [request EXCEPT ![s] = c]
            /\ c.pc = "load" /\ c.counted = request[s].counted
            /\ c.pairs = request[s].pairs /\ c.process = request[s].process
  <1> DEFINE b == request[s]
             c == [b EXCEPT !.pc = "load"]
  <1>1. b \in ScanRequest
    BY DEF ScanInv, ScanTypeOK
  <1>2. request' = [request EXCEPT ![s] = c]
    BY DEF Store
  <1>3. /\ c \in ScanRequest /\ c.pc = "load" /\ c.counted = b.counted
        /\ c.pairs = b.pairs /\ c.process = b.process
    <2> HIDE DEF b
    <2> QED BY <1>1 DEF ScanRequest
  <1> QED BY <1>2, <1>3

-----------------------------------------------------------------------------

LEMMA ServeOK ==
  ASSUME ScanInv, NEW s \in Requests, Serve(s)
  PROVE  ScanInv'
  <1>1. request[s].pairs \subseteq Compatible
    BY DEF ScanInv, PairsOK
  <1>2. PairsOK' /\ request' \in [Requests -> ScanRequest]
    <2>1. ASSUME NEW p \in Processes, Count(s, p)
          PROVE  PairsOK' /\ request' \in [Requests -> ScanRequest]
      BY <2>1, CountIs, RequestIsOK
    <2>2. ASSUME Hit(s)
          PROVE  PairsOK' /\ request' \in [Requests -> ScanRequest]
      BY <1>1, <2>2, HitIs, RequestIsOK
    <2>4. ASSUME Miss(s)
          PROVE  PairsOK' /\ request' \in [Requests -> ScanRequest]
      BY <1>1, <2>4, MissIs, RequestIsOK
    <2>5. ASSUME ReadRows(s)
          PROVE  PairsOK' /\ request' \in [Requests -> ScanRequest]
      BY <1>1, <2>5, ReadRowsIs, RequestIsOK
    <2>6. ASSUME CommitFlags(s)
          PROVE  PairsOK' /\ request' \in [Requests -> ScanRequest]
      BY <1>1, <2>6, CommitIs, RequestIsOK
    <2>7. ASSUME Store(s)
          PROVE  PairsOK' /\ request' \in [Requests -> ScanRequest]
      BY <1>1, <2>7, StoreIs, RequestIsOK
    <2>3. ASSUME Leave(s)
          PROVE  PairsOK' /\ request' \in [Requests -> ScanRequest]
      BY <2>3, NoRequestOK, RequestIsOK DEF Leave
    <2> QED BY <2>1, <2>2, <2>3, <2>4, <2>5, <2>6, <2>7 DEF Serve
  <1>3. CASE CommitFlags(s)
    <2>1. flagged' = flagged \cup Ends(request[s].pairs) /\ flagged' \subseteq rows'
      BY <1>3 DEF CommitFlags, Alive, Marked, ScanInv, ScanTypeOK
    <2>2. UNCHANGED <<rows, accounts, gone, cache>>
      BY <1>3 DEF CommitFlags
    <2>3. ScanTypeOK'
      BY <1>2, <2>1, <2>2 DEF ScanInv, ScanTypeOK
    <2>4. \A r \in Ends(request[s].pairs) : \E q \in Ends(request[s].pairs) :
             <<r, q>> \in Compatible \/ <<q, r>> \in Compatible
      BY <1>1, MarkedIsPaired
    <2>5. FlaggedHasPartner'
      BY <2>1, <2>4 DEF ScanInv, FlaggedHasPartner
    <2> QED BY <1>2, <2>3, <2>5 DEF ScanInv
  <1>4. CASE Store(s)
    <2>1. Cardinality(Scanned(s)) \in Nat
      <3>1. Scanned(s) \subseteq Rows
        BY DEF Scanned, ScanInv, ScanTypeOK, ScanRequest
      <3> QED BY <3>1, TransferAssumption, FS_Subset, FS_CardinalityType
    <2>2. cache' \in [Processes -> Nat \cup {Unseen}]
      BY <1>4, <2>1 DEF Store, ScanInv, ScanTypeOK
    <2> QED BY <1>2, <1>4, <2>2 DEF Store, ScanInv, ScanTypeOK, FlaggedHasPartner
  <1>5. CASE UNCHANGED <<rows, flagged, accounts, gone, cache>>
    BY <1>2, <1>5 DEF ScanInv, ScanTypeOK, FlaggedHasPartner
  <1> QED BY <1>3, <1>4, <1>5
       DEF Serve, Count, Hit, Miss, ReadRows, Leave

LEMMA RestartOK ==
  ASSUME ScanInv, NEW p \in Processes, Restart(p)
  PROVE  ScanInv'
  <1>1. request' \in [Requests -> ScanRequest] /\ PairsOK'
    BY NoRequestOK DEF Restart, ScanInv, ScanTypeOK, PairsOK
  <1>2. cache' \in [Processes -> Nat \cup {Unseen}]
    BY DEF Restart, ScanInv, ScanTypeOK
  <1> QED BY <1>1, <1>2 DEF Restart, ScanInv, ScanTypeOK, FlaggedHasPartner

LEMMA KeepOK ==
  ASSUME ScanInv, Keep
  PROVE  ScanInv'
  <1>1. ASSUME NEW a \in Accounts, OpenAccount(a) PROVE ScanInv'
    BY <1>1 DEF OpenAccount, ScanInv, ScanTypeOK, PairsOK, FlaggedHasPartner
  <1>2. ASSUME NEW R \in SUBSET Rows, Ingest(R) PROVE ScanInv'
    BY <1>2 DEF Ingest, ScanInv, ScanTypeOK, PairsOK, FlaggedHasPartner
  <1> QED BY <1>1, <1>2, ServeOK, RestartOK DEF Keep

LEMMA NextOK ==
  ASSUME ScanInv, ScanNext
  PROVE  ScanInv'
  <1>1. CASE DeleteAll
    BY <1>1 DEF DeleteAll, ScanInv, ScanTypeOK, PairsOK, FlaggedHasPartner
  <1> QED BY <1>1, KeepOK DEF ScanNext

LEMMA InvHolds == ScanSpec => []ScanInv
  <1>1. ScanInv /\ [ScanNext]_scanVars => ScanInv'
    <2>1. ASSUME ScanInv, UNCHANGED scanVars PROVE ScanInv'
      BY <2>1 DEF ScanInv, ScanTypeOK, PairsOK, FlaggedHasPartner, scanVars
    <2> QED BY <2>1, NextOK
  <1> QED BY InitOK, <1>1, PTL DEF ScanSpec

\* Every reachable state is well typed; in particular only rows that exist
\* are flagged, whatever is deleted under a scan.
THEOREM ScanTypeCorrect == ScanSpec => []ScanTypeOK
  <1>1. ScanInv => ScanTypeOK
    BY DEF ScanInv
  <1> QED BY <1>1, InvHolds, PTL

\* A flagged row is one end of a transfer whose other end is flagged too
\* (bank_account_integrity.py:134), however scans and deletion interleave.
THEOREM PartnersFlagged == ScanSpec => []FlaggedHasPartner
  <1>1. ScanInv => FlaggedHasPartner
    BY DEF ScanInv
  <1> QED BY <1>1, InvHolds, PTL

-----------------------------------------------------------------------------
(* While nobody deletes data *)

\* Rows have accounts, and counts saw rows that still exist.
RowsOK ==
    /\ \A r \in rows : AccountOf[r] \in accounts
    /\ \A s \in Requests : request[s].counted \subseteq rows

\* The counts of any two requests are nested.
Nested == \A s, o \in Requests :
    \/ request[s].counted \subseteq request[o].counted
    \/ request[o].counted \subseteq request[s].counted

\* What a scan has established about the rows its request counted.
ScanOK(s) ==
    LET c == request[s]
    IN  /\ c.pc # "idle" => c.process \in Processes
        /\ c.pc = "read" => \A r \in c.counted : AccountOf[r] \in c.accounts
        /\ c.pc = "commit" => \A p \in Within(Compatible, c.counted) :
              \/ p[1] \in flagged \cup Ends(c.pairs)
              \/ p[2] \in flagged \cup Ends(c.pairs)
        /\ c.pc \in {"store", "load"} => NoTransferIn(c.counted)

\* R is what some scan counted: nothing is left in it, and it is nested
\* with what the requests in flight counted.
Settled(R) ==
    /\ NoTransferIn(R)
    /\ \A s \in Requests : \/ R \subseteq request[s].counted
                          \/ request[s].counted \subseteq R

CacheOK == \A p \in Processes : cache[p] # Unseen =>
              \E R \in SUBSET rows : Cardinality(R) = cache[p] /\ Settled(R)

KeptInv == ScanInv /\ RowsOK /\ Nested /\ (\A s \in Requests : ScanOK(s)) /\ CacheOK

\* Two nested sets of rows of the same size are the same.
LEMMA SameSize ==
  ASSUME NEW R \in SUBSET Rows, NEW T \in SUBSET Rows,
         R \subseteq T \/ T \subseteq R, Cardinality(R) = Cardinality(T)
  PROVE  R = T
  <1>1. IsFiniteSet(R) /\ IsFiniteSet(T)
    BY TransferAssumption, FS_Subset
  <1> QED BY <1>1, FS_Subset

\* Flags are never taken back and rows only added.
LEMMA NoTransferStays ==
  ASSUME flagged \subseteq flagged', NEW R, NoTransferIn(R)
  PROVE  NoTransferIn(R)'
  BY DEF NoTransferIn

\* A step of one request that neither counts nor flags: the caches and the
\* other requests are as good as they were.
LEMMA ScanStepOK ==
  ASSUME KeptInv, NEW s \in Requests, NEW c \in ScanRequest,
         request' = [request EXCEPT ![s] = c],
         c.counted = request[s].counted,
         flagged \subseteq flagged', UNCHANGED <<rows, accounts, cache>>, ScanInv',
         request'[s] = c => ScanOK(s)'
  PROVE  KeptInv'
  <1>1. request \in [Requests -> ScanRequest]
    BY DEF KeptInv, ScanInv, ScanTypeOK
  <1>2. request'[s] = c /\ \A o \in Requests : o # s => request'[o] = request[o]
    BY <1>1
  <1>3. \A o \in Requests : request'[o].counted = request[o].counted
    BY <1>2
  <1>4. RowsOK' /\ Nested'
    BY <1>3 DEF KeptInv, RowsOK, Nested
  <1>5. ASSUME NEW o \in Requests PROVE ScanOK(o)'
    <2>1. CASE o = s
      BY <1>2, <2>1
    <2>2. CASE o # s
      <3>1. request'[o] = request[o] /\ ScanOK(o)
        BY <1>2, <2>2 DEF KeptInv
      <3> QED BY <3>1, NoTransferStays DEF ScanOK
    <2> QED BY <2>1, <2>2
  <1>6. CacheOK'
    <2> SUFFICES ASSUME NEW p \in Processes, cache'[p] # Unseen
          PROVE  \E R \in SUBSET rows' : Cardinality(R) = cache'[p] /\ Settled(R)'
      BY DEF CacheOK
    <2>1. PICK R \in SUBSET rows : Cardinality(R) = cache[p] /\ Settled(R)
      BY DEF KeptInv, CacheOK
    <2>2. Settled(R)'
      BY <1>3, <2>1, NoTransferStays DEF Settled
    <2> QED BY <2>1, <2>2
  <1> QED BY <1>4, <1>5, <1>6 DEF KeptInv

\* A COUNT sees every row, so all that was counted before.
LEMMA CountKept ==
  ASSUME KeptInv, NEW s \in Requests, NEW p \in Processes, Count(s, p)
  PROVE  KeptInv'
  <1>1. PICK c \in ScanRequest : /\ request' = [request EXCEPT ![s] = c]
                             /\ c.pc = "counted" /\ c.counted = rows
                             /\ c.process = p
    BY CountIs DEF KeptInv
  <1>2. request \in [Requests -> ScanRequest] /\ rows \subseteq Rows
    BY DEF KeptInv, ScanInv, ScanTypeOK
  <1>3. request'[s] = c /\ \A o \in Requests : o # s => request'[o] = request[o]
    BY <1>1, <1>2
  <1>4. UNCHANGED <<rows, flagged, accounts, gone, cache>>
    BY DEF Count
  <1>5. ScanInv'
    BY ServeOK DEF KeptInv, Serve
  <1>6. RowsOK'
    BY <1>1, <1>3, <1>4 DEF KeptInv, RowsOK
  <1>7. Nested'
    BY <1>1, <1>3, <1>4 DEF KeptInv, RowsOK, Nested
  <1>8. ASSUME NEW o \in Requests PROVE ScanOK(o)'
    BY <1>1, <1>3, <1>4 DEF KeptInv, ScanOK, NoTransferIn
  <1>9. CacheOK'
    <2> SUFFICES ASSUME NEW q \in Processes, cache'[q] # Unseen
          PROVE  \E R \in SUBSET rows' : Cardinality(R) = cache'[q] /\ Settled(R)'
      BY DEF CacheOK
    <2>1. PICK R \in SUBSET rows : Cardinality(R) = cache[q] /\ Settled(R)
      BY <1>4 DEF KeptInv, CacheOK
    <2>2. Settled(R)'
      BY <1>1, <1>3, <1>4, <2>1 DEF Settled, NoTransferIn
    <2> QED BY <1>4, <2>1, <2>2
  <1> QED BY <1>5, <1>6, <1>7, <1>8, <1>9 DEF KeptInv

\* A cache hit: what the last scan counted is what this request counted.
LEMMA HitKept ==
  ASSUME KeptInv, NEW s \in Requests, Hit(s)
  PROVE  KeptInv'
  <1> DEFINE b == request[s]
  <1>1. PICK c \in ScanRequest : /\ request' = [request EXCEPT ![s] = c]
                             /\ c.pc = "load" /\ c.counted = b.counted
                             /\ c.process = b.process
    BY HitIs DEF KeptInv
  <1>2. b.counted \subseteq Rows /\ b.process \in Processes
    BY DEF Hit, At, KeptInv, ScanInv, ScanTypeOK, ScanOK, ScanRequest
  <1>3. cache[b.process] = Cardinality(b.counted) /\ cache[b.process] # Unseen
    <2>1. Cardinality(b.counted) \in Nat
      BY <1>2, TransferAssumption, FS_Subset, FS_CardinalityType
    <2> QED BY <2>1, TransferAssumption DEF Hit, Cached
  <1>4. PICK R \in SUBSET rows :
           Cardinality(R) = Cardinality(b.counted) /\ Settled(R)
    BY <1>2, <1>3 DEF KeptInv, CacheOK
  <1>5. R = b.counted
    BY <1>2, <1>4, SameSize DEF Settled, KeptInv, ScanInv, ScanTypeOK
  <1>6. UNCHANGED <<rows, flagged, accounts, gone, cache>>
    BY DEF Hit
  <1>7. NoTransferIn(c.counted)'
    BY <1>1, <1>4, <1>5, <1>6 DEF Settled, NoTransferIn
  <1>8. request'[s] = c => ScanOK(s)'
    BY <1>1, <1>2, <1>7 DEF ScanOK
  <1>9. ScanInv'
    BY ServeOK DEF KeptInv, Serve
  <1> QED BY <1>1, <1>6, <1>8, <1>9, ScanStepOK

\* One account has no transfers.
LEMMA OneAccount ==
  ASSUME KeptInv, Cardinality(accounts) < 2
  PROVE  NoTransferIn(rows)
  <1> SUFFICES ASSUME NEW p \in Within(Compatible, rows) PROVE FALSE
    BY DEF NoTransferIn
  <1> DEFINE x == AccountOf[p[1]]
             y == AccountOf[p[2]]
  <1>1. x # y /\ x \in accounts /\ y \in accounts
    BY TransferAssumption DEF Within, KeptInv, RowsOK
  <1> HIDE DEF x, y
  <1>2. IsFiniteSet(accounts)
    BY TransferAssumption, FS_Subset DEF KeptInv, ScanInv, ScanTypeOK
  <1>3. Cardinality({x} \cup {y}) = 2 /\ {x} \cup {y} \subseteq accounts
    <2>1. IsFiniteSet({x}) /\ Cardinality({x}) = 1
      BY FS_Singleton
    <2>2. Cardinality({x} \cup {y}) = 2
      BY SMTT(20), <1>1, <2>1, FS_AddElement
    <2> QED BY <1>1, <2>2
  <1>4. 2 <= Cardinality(accounts)
    BY <1>2, <1>3, FS_Subset
  <1>5. Cardinality(accounts) \in Nat
    BY <1>2, FS_CardinalityType
  <1> QED BY <1>4, <1>5

LEMMA MissKept ==
  ASSUME KeptInv, NEW s \in Requests, Miss(s)
  PROVE  KeptInv'
  <1> DEFINE b == request[s]
  <1>1. PICK c \in ScanRequest :
           /\ request' = [request EXCEPT ![s] = c]
           /\ c.pc = IF Cardinality(accounts) < 2 THEN "store" ELSE "read"
           /\ c.accounts = accounts /\ c.counted = b.counted
           /\ c.process = b.process
    BY MissIs DEF KeptInv
  <1>2. b.counted \subseteq rows /\ b.process \in Processes
    BY DEF Miss, At, KeptInv, RowsOK, ScanOK
  <1>3. UNCHANGED <<rows, flagged, accounts, gone, cache>>
    BY DEF Miss
  <1>4. \A r \in b.counted : AccountOf[r] \in accounts
    BY <1>2 DEF KeptInv, RowsOK
  <1>5. Cardinality(accounts) < 2 => NoTransferIn(c.counted)'
    BY <1>1, <1>2, <1>3, OneAccount DEF NoTransferIn, Within
  <1>6. request'[s] = c => ScanOK(s)'
    <2>1. CASE Cardinality(accounts) < 2
      BY <1>1, <1>2, <1>5, <2>1 DEF ScanOK
    <2>2. CASE ~(Cardinality(accounts) < 2)
      BY <1>1, <1>2, <1>4, <2>2 DEF ScanOK
    <2> QED BY <2>1, <2>2
  <1>7. ScanInv'
    BY ServeOK DEF KeptInv, Serve
  <1> QED BY <1>1, <1>3, <1>6, <1>7, ScanStepOK

\* The rows counted are among the rows read, and every transfer among those
\* has a flagged end or a paired one.
LEMMA ReadRowsKept ==
  ASSUME KeptInv, NEW s \in Requests, ReadRows(s)
  PROVE  KeptInv'
  <1> DEFINE b == request[s]
             R == {r \in rows \ flagged : AccountOf[r] \in b.accounts}
  <1>1. PICK c \in ScanRequest : /\ request' = [request EXCEPT ![s] = c]
                             /\ c.pc = "commit" /\ c.counted = b.counted
                             /\ c.pairs \in Scans(Compatible, R)
                             /\ c.process = b.process
    BY ReadRowsIs DEF KeptInv
  <1>2. /\ b.counted \subseteq rows /\ b.process \in Processes
        /\ \A r \in b.counted : AccountOf[r] \in b.accounts
    BY DEF ReadRows, At, KeptInv, RowsOK, ScanOK
  <1>3. UNCHANGED <<rows, flagged, accounts, gone, cache>>
    BY DEF ReadRows
  <1>4. ASSUME NEW p \in Within(Compatible, b.counted),
               p[1] \notin flagged, p[2] \notin flagged
        PROVE  p[1] \in Ends(c.pairs) \/ p[2] \in Ends(c.pairs)
    <2>1. p \in Within(Compatible, R)
      BY <1>2, <1>4 DEF Within
    <2> QED BY <1>1, <2>1 DEF Scans
  <1>5. request'[s] = c => ScanOK(s)'
    BY <1>1, <1>2, <1>3, <1>4 DEF ScanOK
  <1>6. ScanInv'
    BY ServeOK DEF KeptInv, Serve
  <1> QED BY <1>1, <1>3, <1>5, <1>6, ScanStepOK

LEMMA CommitKept ==
  ASSUME KeptInv, NEW s \in Requests, CommitFlags(s)
  PROVE  KeptInv'
  <1> DEFINE b == request[s]
  <1>1. PICK c \in ScanRequest : /\ request' = [request EXCEPT ![s] = c]
                             /\ c.pc = "store" /\ c.counted = b.counted
                             /\ c.process = b.process
    BY CommitIs DEF KeptInv
  <1>2. /\ UNCHANGED <<rows, accounts, cache>>
        /\ flagged' = flagged \cup Ends(b.pairs)
    BY DEF CommitFlags, Marked
  <1>3. /\ b.process \in Processes
        /\ \A p \in Within(Compatible, b.counted) :
              \/ p[1] \in flagged \cup Ends(b.pairs)
              \/ p[2] \in flagged \cup Ends(b.pairs)
    BY DEF CommitFlags, At, KeptInv, ScanOK
  <1>4. NoTransferIn(c.counted)'
    BY <1>1, <1>2, <1>3 DEF NoTransferIn
  <1>5. request'[s] = c => ScanOK(s)'
    BY <1>1, <1>3, <1>4 DEF ScanOK
  <1>6. ScanInv'
    BY ServeOK DEF KeptInv, Serve
  <1> QED BY <1>1, <1>2, <1>5, <1>6, ScanStepOK

LEMMA StoreKept ==
  ASSUME KeptInv, NEW s \in Requests, Store(s)
  PROVE  KeptInv'
  <1> DEFINE b == request[s]
             P == b.process
  <1>1. PICK c \in ScanRequest : /\ request' = [request EXCEPT ![s] = c]
                             /\ c.pc = "load" /\ c.counted = b.counted
                             /\ c.process = b.process
    BY StoreIs DEF KeptInv
  <1>2. request \in [Requests -> ScanRequest] /\ cache \in [Processes -> Nat \cup {Unseen}]
    BY DEF KeptInv, ScanInv, ScanTypeOK
  <1>3. request'[s] = c /\ \A o \in Requests : o # s => request'[o] = request[o]
    BY <1>1, <1>2
  <1>4. \A o \in Requests : request'[o].counted = request[o].counted
    BY <1>1, <1>3
  <1>5. UNCHANGED <<rows, flagged, accounts, gone>>
    BY DEF Store
  <1>6. cache' = [cache EXCEPT ![P] = Cardinality(b.counted)]
    BY DEF Store, Scanned
  <1>7. P \in Processes /\ NoTransferIn(b.counted) /\ b.counted \subseteq rows
    BY DEF Store, At, KeptInv, ScanOK, RowsOK
  <1>8. ScanInv'
    BY ServeOK DEF KeptInv, Serve
  <1>9. RowsOK' /\ Nested'
    BY <1>4, <1>5 DEF KeptInv, RowsOK, Nested
  <1>10. ASSUME NEW o \in Requests PROVE ScanOK(o)'
    <2>1. CASE o = s
      BY <1>1, <1>3, <1>5, <1>7, <2>1 DEF ScanOK, NoTransferIn
    <2>2. CASE o # s
      BY <1>3, <1>5, <2>2 DEF KeptInv, ScanOK, NoTransferIn
    <2> QED BY <2>1, <2>2
  <1>11. Settled(b.counted)
    BY <1>7 DEF Settled, KeptInv, Nested
  <1>12. CacheOK'
    <2> SUFFICES ASSUME NEW q \in Processes, cache'[q] # Unseen
          PROVE  \E R \in SUBSET rows' : Cardinality(R) = cache'[q] /\ Settled(R)'
      BY DEF CacheOK
    <2>1. \A R : Settled(R) => Settled(R)'
      BY <1>4, <1>5 DEF Settled, NoTransferIn
    <2>2. CASE q = P
      BY <1>2, <1>5, <1>6, <1>7, <1>11, <2>1, <2>2
    <2>3. CASE q # P
      <3>1. cache'[q] = cache[q]
        BY <1>2, <1>6, <2>3
      <3>2. PICK R \in SUBSET rows : Cardinality(R) = cache[q] /\ Settled(R)
        BY <3>1 DEF KeptInv, CacheOK
      <3> QED BY <1>5, <2>1, <3>1, <3>2
    <2> QED BY <2>2, <2>3
  <1> QED BY <1>8, <1>9, <1>10, <1>12 DEF KeptInv

LEMMA LeaveKept ==
  ASSUME KeptInv, NEW s \in Requests, Leave(s)
  PROVE  KeptInv'
  <1>1. request \in [Requests -> ScanRequest]
    BY DEF KeptInv, ScanInv, ScanTypeOK
  <1>2. /\ request'[s] = NoRequest
        /\ \A o \in Requests : o # s => request'[o] = request[o]
    BY <1>1 DEF Leave
  <1>3. NoRequest.counted = {} /\ NoRequest.pc = "idle"
    BY DEF NoRequest
  <1>4. UNCHANGED <<rows, flagged, accounts, gone, cache>>
    BY DEF Leave
  <1>5. \A o \in Requests : request'[o].counted \in {request[o].counted, {}}
    BY <1>2, <1>3
  <1>6. RowsOK' /\ Nested'
    BY <1>4, <1>5 DEF KeptInv, RowsOK, Nested
  <1>7. \A o \in Requests : ScanOK(o)'
    BY <1>2, <1>3, <1>4 DEF KeptInv, ScanOK, NoTransferIn
  <1>8. CacheOK'
    BY <1>4, <1>5 DEF KeptInv, CacheOK, Settled, NoTransferIn
  <1>9. ScanInv'
    BY ServeOK DEF KeptInv, Serve
  <1> QED BY <1>6, <1>7, <1>8, <1>9 DEF KeptInv

LEMMA RestartKept ==
  ASSUME KeptInv, NEW p \in Processes, Restart(p)
  PROVE  KeptInv'
  <1>1. \A o \in Requests : \/ request'[o] = request[o]
                          \/ request'[o] = NoRequest
    BY DEF Restart
  <1>2. NoRequest.counted = {} /\ NoRequest.pc = "idle"
    BY DEF NoRequest
  <1>3. UNCHANGED <<rows, flagged, accounts, gone>>
    BY DEF Restart
  <1>4. \A o \in Requests : request'[o].counted \in {request[o].counted, {}}
    BY <1>1, <1>2
  <1>5. RowsOK' /\ Nested'
    BY <1>3, <1>4 DEF KeptInv, RowsOK, Nested
  <1>6. \A o \in Requests : ScanOK(o)'
    BY <1>1, <1>2, <1>3 DEF KeptInv, ScanOK, NoTransferIn
  <1>7. \A q \in Processes : cache'[q] # Unseen => cache'[q] = cache[q]
    BY DEF Restart, KeptInv, ScanInv, ScanTypeOK
  <1>8. CacheOK'
    <2> SUFFICES ASSUME NEW q \in Processes, cache'[q] # Unseen
          PROVE  \E R \in SUBSET rows' : Cardinality(R) = cache'[q] /\ Settled(R)'
      BY DEF CacheOK
    <2>1. PICK R \in SUBSET rows : Cardinality(R) = cache[q] /\ Settled(R)
      BY <1>7 DEF KeptInv, CacheOK
    <2>2. Settled(R)'
      BY <1>3, <1>4, <2>1 DEF Settled, NoTransferIn
    <2> QED BY <1>3, <1>7, <2>1, <2>2
  <1>9. ScanInv'
    BY RestartOK DEF KeptInv
  <1> QED BY <1>5, <1>6, <1>8, <1>9 DEF KeptInv

\* More rows or accounts take nothing from what was established.
LEMMA GrowKept ==
  ASSUME KeptInv, ScanInv', rows \subseteq rows', accounts \subseteq accounts',
         \A r \in rows' : AccountOf[r] \in accounts',
         UNCHANGED <<flagged, cache, request>>
  PROVE  KeptInv'
  <1>1. RowsOK' /\ Nested'
    BY DEF KeptInv, RowsOK, Nested
  <1>2. \A o \in Requests : ScanOK(o)'
    BY DEF KeptInv, ScanOK, NoTransferIn
  <1>3. CacheOK'
    BY DEF KeptInv, CacheOK, Settled, NoTransferIn
  <1> QED BY <1>1, <1>2, <1>3 DEF KeptInv

LEMMA KeepKept ==
  ASSUME KeptInv, Keep
  PROVE  KeptInv'
  <1>1. ASSUME NEW s \in Requests, Serve(s) PROVE KeptInv'
    BY <1>1, CountKept, HitKept, MissKept, ReadRowsKept, CommitKept,
       StoreKept, LeaveKept DEF Serve
  <1>2. ScanInv'
    BY KeepOK DEF KeptInv
  <1>3. ASSUME NEW a \in Accounts, OpenAccount(a) PROVE KeptInv'
    BY <1>2, <1>3, GrowKept DEF OpenAccount, KeptInv, RowsOK
  <1>4. ASSUME NEW R \in SUBSET Rows, Ingest(R) PROVE KeptInv'
    BY <1>2, <1>4, GrowKept DEF Ingest, KeptInv, RowsOK
  <1> QED BY <1>1, <1>3, <1>4, RestartKept DEF Keep

LEMMA KeptInitOK == ScanInit => KeptInv
  <1> SUFFICES ASSUME ScanInit PROVE KeptInv
    OBVIOUS
  <1>1. NoRequest.counted = {} /\ NoRequest.pc = "idle"
    BY DEF NoRequest
  <1>2. \A s \in Requests : request[s] = NoRequest
    BY DEF ScanInit
  <1>3. RowsOK /\ Nested
    BY <1>1, <1>2 DEF ScanInit, RowsOK, Nested
  <1>4. \A s \in Requests : ScanOK(s)
    BY <1>1, <1>2 DEF ScanOK
  <1>5. CacheOK
    BY DEF ScanInit, CacheOK
  <1> QED BY <1>3, <1>4, <1>5, InitOK DEF KeptInv

\* The invariant while nothing has been deleted yet.
SoFar == ScanInv /\ (gone = {} => KeptInv)

\* A deletion that deletes nothing leaves everything as it was.
LEMMA NothingDeleted ==
  ASSUME ScanInv, DeleteAll, gone' = {}
  PROVE  UNCHANGED scanVars
  <1>1. gone = {} /\ rows = {} /\ accounts = {}
    BY DEF DeleteAll
  <1>2. flagged = {}
    BY <1>1 DEF ScanInv, ScanTypeOK
  <1> QED BY <1>1, <1>2 DEF DeleteAll, scanVars

LEMMA KeepDeletesNothing == Keep => gone' = gone
  BY DEF Keep, Serve, Count, Hit, Miss, ReadRows, CommitFlags, Store, Leave, Restart,
         OpenAccount, Ingest

LEMMA SoFarHolds == ScanSpec => []SoFar
  <1>1. ScanInit => SoFar
    BY KeptInitOK, InitOK DEF SoFar
  <1>2. SoFar /\ [ScanNext]_scanVars => SoFar'
    <2> SUFFICES ASSUME SoFar, [ScanNext]_scanVars PROVE SoFar'
      OBVIOUS
    <2>1. ASSUME UNCHANGED scanVars PROVE ScanInv' /\ (KeptInv => KeptInv')
      <3>1. ScanInv'
        BY <2>1 DEF SoFar, ScanInv, ScanTypeOK, PairsOK, FlaggedHasPartner, scanVars
      <3> QED BY <2>1, <3>1, GrowKept DEF KeptInv, RowsOK, scanVars
    <2>2. CASE UNCHANGED scanVars
      BY <2>1, <2>2 DEF SoFar, scanVars
    <2>3. CASE Keep
      BY <2>3, KeepOK, KeepKept, KeepDeletesNothing DEF SoFar
    <2>4. CASE DeleteAll
      <3>1. ScanInv'
        BY <2>4, NextOK DEF SoFar, ScanNext
      <3>2. CASE gone' = {}
        BY <2>1, <2>4, <3>1, <3>2, NothingDeleted DEF SoFar, scanVars
      <3> QED BY <3>1, <3>2 DEF SoFar
    <2> QED BY <2>2, <2>3, <2>4 DEF ScanNext
  <1> QED BY <1>1, <1>2, PTL DEF ScanSpec

LEMMA CacheSettled == SoFar => CacheIsScanned
  <1> SUFFICES ASSUME KeptInv, NEW p \in Processes,
                      cache[p] = Cardinality(rows)
        PROVE  NoTransferIn(rows)
    BY DEF CacheIsScanned, SoFar
  <1>1. rows \subseteq Rows
    BY DEF KeptInv, ScanInv, ScanTypeOK
  <1>2. cache[p] # Unseen
    <2>1. Cardinality(rows) \in Nat
      BY <1>1, TransferAssumption, FS_Subset, FS_CardinalityType
    <2> QED BY <2>1, TransferAssumption
  <1>3. PICK R \in SUBSET rows : Cardinality(R) = Cardinality(rows) /\ Settled(R)
    BY <1>2 DEF KeptInv, CacheOK
  <1>4. R = rows
    BY <1>1, <1>3, SameSize
  <1> QED BY <1>3, <1>4 DEF Settled

\* While nobody has deleted data, a process that skips the scan misses nothing
\* (routes/bank.py:201).
THEOREM NoMissedScan == ScanSpec => []CacheIsScanned
  BY SoFarHolds, CacheSettled, PTL

\* While nobody has deleted data, an analysis finds every transfer among the
\* rows its request counted flagged (routes/bank.py:238).
THEOREM AnalysesScanned == ScanSpec => []AnalysedIsScanned
  <1>1. SoFar => AnalysedIsScanned
    BY DEF SoFar, KeptInv, ScanOK, AnalysedIsScanned, NoTransferIn, Within, At
  <1> QED BY <1>1, SoFarHolds, PTL
-----------------------------------------------------------------------------
(***************************************************************************)
(* The loops of Pairing find a result of Scans, for any number of debits   *)
(* and credits, any order of them and any relation between them.  The      *)
(* invariant is about the debits already visited: each is paired, or       *)
(* every credit that agrees with it is.                                    *)
(***************************************************************************)

Turns == Cardinality(Debits)
Offers == Cardinality(Credits)

InputOK ==
    /\ compatible \subseteq Debits \X Credits
    /\ debits \in Orders(Debits)
    /\ credits \in Orders(Credits)
    /\ next \in Nat \ {0}

\* Pairs are of visited debits, and one to one.
LoopPairsOK ==
    /\ pairs \subseteq compatible
    /\ OneToOne(pairs)
    /\ \A p \in pairs : \E i \in 1 .. Turns : i < next /\ debits[i] = p[1]

\* A visited debit is paired, or whatever agrees with it is.
VisitedOK ==
    \A i \in 1 .. Turns : i < next =>
        \/ \E p \in pairs : p[1] = debits[i]
        \/ \A c \in Credits : <<debits[i], c>> \in compatible =>
               \E p \in pairs : p[2] = c

LoopsInv == InputOK /\ LoopPairsOK /\ VisitedOK

LEMMA ListSizes == Turns \in Nat /\ Offers \in Nat
  BY PairingAssumption, FS_CardinalityType DEF Turns, Offers

LEMMA Listed ==
  ASSUME InputOK
  PROVE  /\ \A i \in 1 .. Turns : debits[i] \in Debits
         /\ \A i, j \in 1 .. Turns : debits[i] = debits[j] => i = j
         /\ \A d \in Debits : \E i \in 1 .. Turns : debits[i] = d
         /\ \A j \in 1 .. Offers : credits[j] \in Credits
         /\ \A c \in Credits : \E j \in 1 .. Offers : credits[j] = c
  <1>1. /\ debits \in [1 .. Turns -> Debits]
        /\ \A x \in Debits : \E i \in 1 .. Turns : \A j \in 1 .. Turns :
              debits[j] = x <=> j = i
    BY DEF InputOK, Orders, Turns
  <1>2. /\ credits \in [1 .. Offers -> Credits]
        /\ \A x \in Credits : \E i \in 1 .. Offers : \A j \in 1 .. Offers :
              credits[j] = x <=> j = i
    BY DEF InputOK, Orders, Offers
  <1>3. \A i \in 1 .. Turns : debits[i] \in Debits
    BY <1>1
  <1>4. ASSUME NEW i \in 1 .. Turns, NEW j \in 1 .. Turns, debits[i] = debits[j]
        PROVE  i = j
    <2>1. PICK k \in 1 .. Turns : \A l \in 1 .. Turns : debits[l] = debits[i] <=> l = k
      BY <1>1, <1>3
    <2> QED BY <1>4, <2>1
  <1>5. \A d \in Debits : \E i \in 1 .. Turns : debits[i] = d
    BY <1>1
  <1>6. /\ \A j \in 1 .. Offers : credits[j] \in Credits
        /\ \A c \in Credits : \E j \in 1 .. Offers : credits[j] = c
    BY <1>2
  <1> QED BY <1>3, <1>4, <1>5, <1>6

LEMMA LoopsInitOK == PairingInit => LoopsInv
  BY DEF PairingInit, LoopsInv, InputOK, LoopPairsOK, VisitedOK, OneToOne

LEMMA TurnOK ==
  ASSUME LoopsInv, Turn
  PROVE  LoopsInv'
  <1> DEFINE d == debits[next]
  <1>1. next \in 1 .. Turns /\ next' = next + 1 /\ InputOK'
    BY ListSizes DEF Turn, LoopsInv, InputOK, Turns
  <1>2. UNCHANGED <<compatible, debits, credits>>
    BY DEF Turn
  <1>3. InputOK /\ LoopPairsOK /\ VisitedOK
    BY DEF LoopsInv
  <1>4. d \in Debits
    BY <1>1, <1>3, Listed
  <1>5. ASSUME NEW j \in 1 .. Offers, Fits(d, j), pairs' = pairs \cup {<<d, credits[j]>>}
        PROVE  LoopsInv'
    <2> DEFINE q == <<d, credits[j]>>
    <2>1. q \in compatible /\ \A p \in pairs : p[2] # q[2]
      BY <1>5 DEF Fits
    <2>2. \A p \in pairs : p[1] # q[1]
      <3> SUFFICES ASSUME NEW p \in pairs, p[1] = d PROVE FALSE
        OBVIOUS
      <3>1. PICK i \in 1 .. Turns : i < next /\ debits[i] = p[1]
        BY <1>3 DEF LoopPairsOK
      <3> QED BY <1>1, <1>3, <3>1, Listed
    <2>3. OneToOne(pairs')
      BY <1>3, <1>5, <2>1, <2>2 DEF LoopPairsOK, OneToOne
    <2>4. \A p \in pairs' : \E i \in 1 .. Turns : i < next' /\ debits[i] = p[1]
      BY <1>1, <1>3, <1>5 DEF LoopPairsOK
    <2>5. LoopPairsOK'
      BY <1>2, <1>3, <1>5, <2>1, <2>3, <2>4 DEF LoopPairsOK, Turns
    <2>6. VisitedOK'
      <3> SUFFICES ASSUME NEW i \in 1 .. Turns, i < next'
            PROVE  \/ \E p \in pairs' : p[1] = debits[i]
                   \/ \A c \in Credits : <<debits[i], c>> \in compatible =>
                          \E p \in pairs' : p[2] = c
        BY <1>2 DEF VisitedOK, Turns
      <3>1. CASE i = next
        <4>1. q \in pairs' /\ q[1] = debits[i]
          BY <1>5, <3>1
        <4> QED BY <4>1
      <3>2. CASE i < next
        BY <1>3, <1>5, <3>2 DEF VisitedOK
      <3> QED BY <1>1, <3>1, <3>2
    <2> QED BY <1>1, <2>5, <2>6 DEF LoopsInv
  <1>6. ASSUME \A j \in 1 .. Offers : ~Fits(d, j), UNCHANGED pairs
        PROVE  LoopsInv'
    <2>1. LoopPairsOK'
      BY <1>1, <1>2, <1>3, <1>6 DEF LoopPairsOK, Turns
    <2>2. ASSUME NEW c \in Credits, <<d, c>> \in compatible
          PROVE  \E p \in pairs : p[2] = c
      <3>1. PICK j \in 1 .. Offers : credits[j] = c
        BY <1>3, Listed
      <3> QED BY <1>6, <2>2, <3>1 DEF Fits
    <2>3. VisitedOK'
      <3> SUFFICES ASSUME NEW i \in 1 .. Turns, i < next'
            PROVE  \/ \E p \in pairs : p[1] = debits[i]
                   \/ \A c \in Credits : <<debits[i], c>> \in compatible =>
                          \E p \in pairs : p[2] = c
        BY <1>2, <1>6 DEF VisitedOK, Turns
      <3>1. CASE i = next
        BY <2>2, <3>1
      <3>2. CASE i < next
        BY <1>3, <3>2 DEF VisitedOK
      <3> QED BY <1>1, <3>1, <3>2
    <2> QED BY <1>1, <2>1, <2>3 DEF LoopsInv
  <1> QED BY <1>5, <1>6 DEF Turn, Offers

LEMMA LoopsInvIsEnough == LoopsInv => LoopsFindScan
  <1> SUFFICES ASSUME LoopsInv, next > Turns
        PROVE  pairs \in Scans(compatible, Debits \cup Credits)
    BY DEF LoopsFindScan, Turns
  <1> DEFINE W == Within(compatible, Debits \cup Credits)
  <1>1. pairs \subseteq W /\ OneToOne(pairs)
    BY DEF LoopsInv, InputOK, LoopPairsOK, Within
  <1>2. ASSUME NEW p \in W
        PROVE  p[1] \in Ends(pairs) \/ p[2] \in Ends(pairs)
    <2>1. p \in compatible /\ p[1] \in Debits /\ p[2] \in Credits
          /\ p = <<p[1], p[2]>>
      BY DEF Within, LoopsInv, InputOK
    <2>2. PICK i \in 1 .. Turns : debits[i] = p[1]
      BY <2>1, Listed DEF LoopsInv
    <2>3. i < next
      BY ListSizes DEF LoopsInv, InputOK
    <2>4. \/ \E q \in pairs : q[1] = p[1]
          \/ \E q \in pairs : q[2] = p[2]
      BY <2>1, <2>2, <2>3 DEF LoopsInv, VisitedOK
    <2> QED BY <2>4 DEF Ends
  <1> QED BY <1>1, <1>2 DEF Scans

\* However many debits and credits there are and in whatever order they
\* come, the loops pair no row twice and leave no transfer unpaired.
THEOREM LoopsCorrect == PairingSpec => []LoopsFindScan
  <1>1. LoopsInv /\ [Turn]_pairingVars => LoopsInv'
    <2>1. ASSUME LoopsInv, UNCHANGED pairingVars PROVE LoopsInv'
      BY <2>1 DEF LoopsInv, InputOK, LoopPairsOK, VisitedOK, pairingVars
    <2> QED BY <2>1, TurnOK
  <1> QED BY LoopsInitOK, <1>1, LoopsInvIsEnough, PTL DEF PairingSpec
=============================================================================
