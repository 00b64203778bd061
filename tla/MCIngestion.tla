---------------------------- MODULE MCIngestion ----------------------------
(***************************************************************************)
(* Ingestion for the orders of a merchant who creates no contextual marker *)
(* and whose data nobody deletes: no request re-flags rows and no task     *)
(* looks up an account.                                                    *)
(***************************************************************************)
EXTENDS Ingestion, TLC

Symmetry == Permutations(Uploads) \cup Permutations(Accounts)
              \cup Permutations(Workers) \cup Permutations(Requests)

OrdersRequest(q) ==
    \/ \E u \in Uploads : BeginConfirm(q, u) \/ \E rows \in Files : StageUpload(q, u, rows)
    \/ AcceptUpload(q) \/ ConfirmMapping(q) \/ StartProcessing(q)
    \/ Dispatch(q) \/ DropFile(q) \/ AbortRequest(q)

OrdersTask(w) ==
    \/ \E u \in Uploads : Take(w, u)
    \/ ReadMarkers(w) \/ ReadKnown(w) \/ WriteRows(w) \/ Report(w)
    \/ MarkFailed(w) \/ CleanUp(w) \/ Ack(w)
    \/ TaskFails(w) \/ MarkRaises(w) \/ LoseWorker(w) \/ KillTask(w)

OrdersSpec ==
    /\ Init
    /\ [][\/ \E q \in Requests : OrdersRequest(q)
          \/ \E w \in Workers : OrdersTask(w)]_vars
=============================================================================
