--------------------------- MODULE MCIngestionBank ---------------------------
(***************************************************************************)
(* Bank statements in three settings: everything that may happen while     *)
(* tasks run one at a time, with one request; contextual markers that are  *)
(* created apart from a task's writing, with one statement; and one        *)
(* statement with two requests and two workers that run on.                *)
(***************************************************************************)
EXTENDS Ingestion

CONSTANTS f1, f2, a1, a2, w1, w2, q1, q2

VARIABLE setting

mcVars == <<vars, setting>>

\* Ids are given in one order, unless a task remembers the account of before
\* a deletion.
OrderedIds ==
    /\ content'[f2] # Null => content'[f1] # Null
    /\ accounts[a2] = Null /\ accounts'[a2] # Null =>
          accounts[a1] # Null \/ \E w \in Workers : worker[w].account = a1

\* The contents a file may have: one row on either side of another file's, or
\* one on both.
InSetting ==
    /\ \A u \in Uploads : content[u] \in {Null, {1}, {2}, {1, 3}}
    /\ setting = "one task" =>
          OneTask /\ marked = {} /\ request[q2] = NoRequest
    /\ setting = "markers" =>
          OneTask /\ MarkersApart /\ content[f2] = Null
    /\ setting = "fair" =>
          content[f2] = Null /\ content[f1] \in {Null, {1}} /\ marked = {}

MCNext ==
    /\ UNCHANGED setting
    /\ \/ setting = "one task" /\ Next
       \/ setting # "one task" /\ Reliable
    /\ OrderedIds /\ InSetting'

\* Fairness of Ingestion, where it is asked for
MCFairness ==
    /\ \A q \in Requests : WF_vars(setting = "fair" /\ Serve(q))
    /\ \A w \in Workers : WF_vars(setting = "fair" /\ Work(w))
    /\ \A u \in Uploads : WF_vars(setting = "fair" /\ \E w \in Workers : Take(w, u))

MCInit == Init /\ setting \in {"one task", "markers", "fair"}

MCSpec == MCInit /\ [][MCNext]_mcVars /\ MCFairness

-----------------------------------------------------------------------------
(* The properties of Ingestion, in the settings that keep them *)

\* While tasks run one at a time, no transaction is stored twice, an account
\* number has one account and its period spans its rows (NoDoubleCount,
\* OneAccount and PeriodCoversRows of Ingestion; bank_ingestion.py:369-374,
\* 477-494).
StoredOnceByOne == setting # "fair" => NoDoubleCount
OneAccountByOne == setting # "fair" => OneAccount
PeriodCoversRowsByOne == setting # "fair" => PeriodCoversRows

\* The accounts are then sound: one for each number, over all its rows.
AccountsSoundByOne == OneAccountByOne /\ PeriodCoversRowsByOne

\* The markers are applied where none is created while a task writes
\* (MarkersApplied of Ingestion; contextual_markers.py:108).
MarkersAppliedApart == setting = "markers" => MarkersApplied

\* A staged file is tracked while the API stays up (StagedIsTracked of
\* Ingestion; upload_staging.py:84-88).
StagedIsTrackedWhileUp == setting # "one task" => StagedIsTracked

\* An upload settles where requests and workers run on (UploadSettles of
\* Ingestion; upload_staging.py:99-102).
FairUploadSettles ==
    \A u \in Uploads :
        setting = "fair" /\ upload[u] = "processing" ~> upload[u] # "processing"
=============================================================================
